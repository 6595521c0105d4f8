------------------------------ MODULE Collector -----------------------------
(***************************************************************************)
(* A collection cycle of src/src/heap.rs: Heap::force_collect and collect  *)
(* called by an application thread, the loop of background_gc_thread, and  *)
(* the StartStopJoinHandle that starts and stops the latter.               *)
(*                                                                         *)
(* A collector is any thread that has won the phase from Idle; which       *)
(* thread that is shows only in how it leaves the mark loop.               *)
(***************************************************************************)
EXTENDS HeapState

(***************************************************************************)
(* Where a collector goes when its cycle is over, or was not to be had.    *)
(***************************************************************************)
CollectorHome(p) == IF p \in Background THEN "bg_enter" ELSE "ready"

(***************************************************************************)
(* A thread enters Heap::force_collect; collect does so only when due.     *)
(***************************************************************************)
ForceCollect(t) ==
  /\ \/ "force_collect" \in Calls[t]
     \/ /\ "collect" \in Calls[t]
        /\ should_collect(bytes_allocated, current_threshold)
  /\ Goto(t, "ready", "try_mark")
  /\ UNCHANGED <<phase, listVars, objectVars, gray_queue, n_busy_marking,
                 counterVars, bg_thread, handles, local>>

TryStartMarking(p) ==
  /\ \/ /\ phase = "Idle"
        /\ phase' = "Marking"
        /\ Goto(p, "try_mark", "roots_head")
        /\ SetLocal(p, [local[p] EXCEPT !.op = "collect"])
     \/ /\ phase # "Idle"
        /\ Goto(p, "try_mark", CollectorHome(p))
        /\ UNCHANGED <<phase, local>>
  /\ UNCHANGED <<listVars, objectVars, gray_queue, n_busy_marking, counterVars,
                 bg_thread, handles>>

-----------------------------------------------------------------------------

(***************************************************************************)
(* do_mark_roots.  The mutators run on while it walks the list.            *)
(***************************************************************************)
RootsLoadHead(p) ==
  /\ Goto(p, "roots_head", "roots")
  /\ SetLocal(p, [local[p] EXCEPT !.current = head])
  /\ UNCHANGED <<phase, listVars, objectVars, gray_queue, n_busy_marking,
                 counterVars, bg_thread, handles>>

\* Variant for a mutation test: every node is taken for a root.
RootsVisitAll(p) ==
  LET o == local[p].current
  IN  /\ pc[p] = "roots"
      /\ o # Null
      /\ color' = mark_white_to_gray(o)
      /\ SetLocal(p, [local[p] EXCEPT !.tracer = PushIfWhite(@, o),
                                      !.current = next[o]])
      /\ UNCHANGED <<phase, listVars, root_count, ref, mem, gray_queue,
                     n_busy_marking, counterVars, bg_thread, handles, pc>>

RootsVisit(p) ==
  LET o == local[p].current
  IN  /\ pc[p] = "roots"
      /\ o # Null
      /\ \/ /\ is_root(o)
            /\ color' = mark_white_to_gray(o)
            /\ SetLocal(p, [local[p] EXCEPT !.tracer = PushIfWhite(@, o),
                                            !.current = next[o]])
         \/ /\ ~ is_root(o)
            /\ SetLocal(p, [local[p] EXCEPT !.current = next[o]])
            /\ UNCHANGED color
      /\ UNCHANGED <<phase, listVars, root_count, ref, mem, gray_queue,
                     n_busy_marking, counterVars, bg_thread, handles, pc>>

\* Variant for a mutation test: the roots found are not merged.
RootsMergeLost(p) ==
  /\ Goto(p, "roots", IF p \in Background THEN "bg_check" ELSE "mark")
  /\ local[p].current = Null
  /\ SetLocal(p, [local[p] EXCEPT !.tracer = <<>>])
  /\ UNCHANGED <<phase, listVars, objectVars, gray_queue, n_busy_marking,
                 counterVars, bg_thread, handles>>

RootsMerge(p) ==
  /\ Goto(p, "roots", IF p \in Background THEN "bg_check" ELSE "mark")
  /\ local[p].current = Null
  /\ gray_queue' = gray_queue \o local[p].tracer
  /\ SetLocal(p, [local[p] EXCEPT !.tracer = <<>>])
  /\ UNCHANGED <<phase, listVars, objectVars, n_busy_marking, counterVars,
                 bg_thread, handles>>

-----------------------------------------------------------------------------

(***************************************************************************)
(* do_mark_with_tracer, run by collectors and by assisting allocations.    *)
(* Its tracer is empty when it is called and when it returns.              *)
(***************************************************************************)
WorkBudget(p) == IF local[p].op = "allocate" THEN AssistWorkBudget
                                              ELSE IncrementalWorkBudget

HasBudget(p) == local[p].work_done < WorkBudget(p)

\* Variant for a mutation test: one round of marking is taken for all of it.
AfterMarkingOneRound(p) ==
  IF local[p].op = "allocate" THEN "busy_dec" ELSE "busy_test"

(***************************************************************************)
(* do_mark_work_full marks until a round does no work, the background      *)
(* thread looks at its stop condition between rounds, and an assisting     *)
(* allocation marks for one round.                                         *)
(***************************************************************************)
AfterMarking(p) ==
  CASE local[p].op = "allocate"     -> "busy_dec"
    [] local[p].op # "allocate" /\ local[p].work_done = 0 -> "busy_test"
    [] OTHER -> IF p \in Background THEN "bg_check" ELSE "mark"

MarkPop(p) ==
  LET tracer == local[p].tracer
      o      == tracer[Len(tracer)]
  IN  /\ Goto(p, "mark", "trace")
      /\ tracer # <<>>
      /\ HasBudget(p)
      /\ SetLocal(p, [local[p] EXCEPT
                        !.tracer = SubSeq(tracer, 1, Len(tracer) - 1),
                        !.tracing = o,
                        !.pending = IF o \in NoTrace THEN {} ELSE Fields])
      /\ UNCHANGED <<phase, listVars, objectVars, gray_queue, n_busy_marking,
                     counterVars, bg_thread, handles>>

(***************************************************************************)
(* steal_work pops up to BatchSize items off the end of the shared queue   *)
(* and pushes each on the local one.                                       *)
(***************************************************************************)
LastItems(n) == [i \in 1..n |-> gray_queue[Len(gray_queue) + 1 - i]]

MarkSteal(p) ==
  LET n == IF Len(gray_queue) < BatchSize THEN Len(gray_queue) ELSE BatchSize
  IN  /\ pc[p] = "mark"
      /\ local[p].tracer = <<>>
      /\ HasBudget(p)
      /\ gray_queue # <<>>
      /\ SetLocal(p, [local[p] EXCEPT !.tracer = LastItems(n)])
      /\ gray_queue' = SubSeq(gray_queue, 1, Len(gray_queue) - n)
      /\ UNCHANGED <<phase, listVars, objectVars, n_busy_marking, counterVars,
                     bg_thread, handles, pc>>

(***************************************************************************)
(* vtable.trace: each field is read and the object it names is marked.     *)
(***************************************************************************)
TraceField(p) ==
  /\ pc[p] = "trace"
  /\ \E f \in local[p].pending :
       LET v == ref[local[p].tracing][f]
       IN  /\ color' = MarkColor(v)
           /\ SetLocal(p, [local[p] EXCEPT !.tracer = MarkTracer(@, v),
                                           !.pending = @ \ {f}])
  /\ UNCHANGED <<phase, listVars, root_count, ref, mem, gray_queue,
                 n_busy_marking, counterVars, bg_thread, handles, pc>>

\* Variant for a mutation test: the object is black before it is scanned.
MarkBlackEarly(p) ==
  /\ Goto(p, "trace", "mark")
  /\ color' = [color EXCEPT ![local[p].tracing] = "Black"]
  /\ SetLocal(p, [local[p] EXCEPT !.tracing = Null, !.work_done = @ + 1])
  /\ UNCHANGED <<phase, listVars, root_count, ref, mem, gray_queue,
                 n_busy_marking, counterVars, bg_thread, handles>>

MarkBlack(p) ==
  /\ local[p].pending = {}
  /\ Goto(p, "trace", "mark")
  /\ color' = [color EXCEPT ![local[p].tracing] = "Black"]
  /\ SetLocal(p, [local[p] EXCEPT !.tracing = Null, !.work_done = @ + 1])
  /\ UNCHANGED <<phase, listVars, root_count, ref, mem, gray_queue,
                 n_busy_marking, counterVars, bg_thread, handles>>

(***************************************************************************)
(* The round ends because both queues are empty, or because the budget is  *)
(* spent, and then what is left goes back to the shared queue.             *)
(***************************************************************************)
MarkNoWork(p) ==
  /\ local[p].tracer = <<>>
  /\ gray_queue = <<>>
  /\ HasBudget(p)
  /\ Goto(p, "mark", AfterMarking(p))
  /\ SetLocal(p, [local[p] EXCEPT !.work_done = 0])
  /\ UNCHANGED <<phase, listVars, objectVars, gray_queue, n_busy_marking,
                 counterVars, bg_thread, handles>>

\* Variant for a mutation test: what is left goes with the tracer.
MarkBudgetSpentLost(p) ==
  /\ ~ HasBudget(p)
  /\ Goto(p, "mark", AfterMarking(p))
  /\ SetLocal(p, [local[p] EXCEPT !.tracer = <<>>, !.work_done = 0])
  /\ UNCHANGED <<phase, listVars, objectVars, gray_queue, n_busy_marking,
                 counterVars, bg_thread, handles>>

MarkBudgetSpent(p) ==
  /\ ~ HasBudget(p)
  /\ Goto(p, "mark", AfterMarking(p))
  /\ gray_queue' = gray_queue \o local[p].tracer
  /\ SetLocal(p, [local[p] EXCEPT !.tracer = <<>>, !.work_done = 0])
  /\ UNCHANGED <<phase, listVars, objectVars, n_busy_marking, counterVars,
                 bg_thread, handles>>

\* Variant for a mutation test: nobody waits for busy mutators.
BusyTestSkipped(p) ==
  /\ Goto(p, "busy_test", "sweep_start")
  /\ UNCHANGED <<phase, listVars, objectVars, gray_queue, n_busy_marking,
                 counterVars, bg_thread, handles, local>>

(***************************************************************************)
(* yield_once_if_marking_busy, after a round that found no work.           *)
(***************************************************************************)
BusyTest(p) ==
  /\ Goto(p, "busy_test",
          CASE n_busy_marking <= 0 -> "sweep_start"
            [] OTHER -> IF p \in Background THEN "bg_check" ELSE "mark")
  /\ UNCHANGED <<phase, listVars, objectVars, gray_queue, n_busy_marking,
                 counterVars, bg_thread, handles, local>>

-----------------------------------------------------------------------------

(***************************************************************************)
(* do_sweep.                                                               *)
(***************************************************************************)
StartSweeping(p) ==
  /\ Goto(p, "sweep_start", "sweep_head")
  /\ phase' = "Sweeping"
  /\ UNCHANGED <<listVars, objectVars, gray_queue, n_busy_marking, counterVars,
                 bg_thread, handles, local>>

SweepLoadHead(p) ==
  /\ Goto(p, "sweep_head", "sweep")
  /\ SetLocal(p, [local[p] EXCEPT !.current = head])
  /\ UNCHANGED <<phase, listVars, objectVars, gray_queue, n_busy_marking,
                 counterVars, bg_thread, handles>>

\* Variant for a mutation test: the color is not looked at.
SweepColorBlind(p) ==
  /\ local[p].current # Null
  /\ Goto(p, "sweep", "sweep_root")
  /\ SetLocal(p, [local[p] EXCEPT !.following = next[local[p].current]])
  /\ UNCHANGED <<phase, listVars, objectVars, gray_queue, n_busy_marking,
                 counterVars, bg_thread, handles>>

(***************************************************************************)
(* GcHeader::is_white loads the color first and the root count second.     *)
(***************************************************************************)
SweepColor(p) ==
  LET o == local[p].current
  IN  /\ pc[p] = "sweep"
      /\ o # Null
      /\ Goto(p, "sweep", IF color[o] = "White" THEN "sweep_root"
                                                ELSE "sweep_keep")
      /\ SetLocal(p, [local[p] EXCEPT !.following = next[o]])
      /\ UNCHANGED <<phase, listVars, objectVars, gray_queue, n_busy_marking,
                     counterVars, bg_thread, handles>>

\* Variant for a mutation test: the root count is not looked at.
SweepRootBlind(p) ==
  /\ Goto(p, "sweep_root", "sweep_free")
  /\ UNCHANGED <<phase, listVars, objectVars, gray_queue, n_busy_marking,
                 counterVars, bg_thread, handles, local>>

SweepRoot(p) ==
  /\ Goto(p, "sweep_root", IF is_root(local[p].current) THEN "sweep_keep"
                                                        ELSE "sweep_free")
  /\ UNCHANGED <<phase, listVars, objectVars, gray_queue, n_busy_marking,
                 counterVars, bg_thread, handles, local>>

\* Variant for a mutation test: prev_next stays behind.
SweepKeepStalePrev(p) ==
  /\ Goto(p, "sweep_keep", "sweep")
  /\ color' = [color EXCEPT ![local[p].current] = "White"]
  /\ SetLocal(p, [local[p] EXCEPT !.current = local[p].following])
  /\ UNCHANGED <<phase, listVars, root_count, ref, mem, gray_queue,
                 n_busy_marking, counterVars, bg_thread, handles>>

\* Variant for a mutation test: survivors keep their color.
SweepKeepColored(p) ==
  /\ Goto(p, "sweep_keep", "sweep")
  /\ SetLocal(p, [local[p] EXCEPT !.prev = local[p].current,
                                  !.current = local[p].following])
  /\ UNCHANGED <<phase, listVars, objectVars, gray_queue, n_busy_marking,
                 counterVars, bg_thread, handles>>

SweepKeep(p) ==
  LET o == local[p].current
  IN  /\ Goto(p, "sweep_keep", "sweep")
      /\ color' = [color EXCEPT ![o] = "White"]
      /\ SetLocal(p, [local[p] EXCEPT !.prev = o,
                                      !.current = local[p].following])
      /\ UNCHANGED <<phase, listVars, root_count, ref, mem, gray_queue,
                     n_busy_marking, counterVars, bg_thread, handles>>

(***************************************************************************)
(* The node is unlinked by a plain store to head or to the predecessor's   *)
(* next, and its box is dropped.                                           *)
(***************************************************************************)
Unlink(prev, following) ==
  \/ /\ prev = Null
     /\ head' = following
     /\ UNCHANGED next
  \/ /\ prev # Null
     /\ next' = [next EXCEPT ![prev] = following]
     /\ UNCHANGED head

\* Variant for a mutation test: prev_next moves on to the dropped node.
SweepFreeStalePrev(p) ==
  /\ Goto(p, "sweep_free", "sweep")
  /\ Unlink(local[p].prev, local[p].following)
  /\ mem' = [mem EXCEPT ![local[p].current] = "freed"]
  /\ SetLocal(p, [local[p] EXCEPT !.freed = @ + 1,
                                  !.prev = local[p].current,
                                  !.current = local[p].following])
  /\ UNCHANGED <<phase, color, root_count, ref, gray_queue, n_busy_marking,
                 counterVars, bg_thread, handles>>

SweepFree(p) ==
  /\ Goto(p, "sweep_free", "sweep")
  /\ Unlink(local[p].prev, local[p].following)
  /\ mem' = [mem EXCEPT ![local[p].current] = "freed"]
  /\ SetLocal(p, [local[p] EXCEPT !.freed = @ + 1,
                                  !.current = local[p].following])
  /\ UNCHANGED <<phase, color, root_count, ref, gray_queue, n_busy_marking,
                 counterVars, bg_thread, handles>>

\* Variant for a mutation test: the boxes in the list are counted anew.
SweepSubtractRecount(p) ==
  /\ local[p].current = Null
  /\ Goto(p, "sweep", "finish_sweep")
  /\ bytes_allocated' = Cardinality(InList)
  /\ SetLocal(p, [local[p] EXCEPT !.live = Cardinality(InList)])
  /\ UNCHANGED <<phase, listVars, objectVars, gray_queue, n_busy_marking,
                 current_threshold, bg_thread, handles>>

SweepSubtract(p) ==
  /\ local[p].current = Null
  /\ Goto(p, "sweep", "finish_sweep")
  /\ bytes_allocated' = bytes_allocated - local[p].freed
  /\ SetLocal(p, [local[p] EXCEPT !.live = bytes_allocated - local[p].freed])
  /\ UNCHANGED <<phase, listVars, objectVars, gray_queue, n_busy_marking,
                 current_threshold, bg_thread, handles>>

(***************************************************************************)
(* do_sweep ends with finish_gc; sweep_and_finish then updates the         *)
(* threshold and calls finish_gc a second time.                            *)
(***************************************************************************)
FinishSweep(p) ==
  /\ Goto(p, "finish_sweep", "threshold")
  /\ phase' = "Idle"
  /\ UNCHANGED <<listVars, objectVars, gray_queue, n_busy_marking, counterVars,
                 bg_thread, handles, local>>

UpdateThreshold(p) ==
  /\ Goto(p, "threshold", "finish")
  /\ current_threshold' = calculate_threshold(current_threshold, local[p].live)
  /\ UNCHANGED <<phase, listVars, objectVars, gray_queue, n_busy_marking,
                 bytes_allocated, bg_thread, handles, local>>

FinishGc(p) ==
  /\ Goto(p, "finish", CollectorHome(p))
  /\ phase' = "Idle"
  /\ SetLocal(p, NoLocals)
  /\ UNCHANGED <<listVars, objectVars, gray_queue, n_busy_marking, counterVars,
                 bg_thread, handles>>

-----------------------------------------------------------------------------

(***************************************************************************)
(* StartStopJoinHandle.  Each of its critical sections is one step.        *)
(***************************************************************************)
is_stopped(c) == bg_thread.handle = 0 \/ bg_thread.counter # c

StartBackgroundCollection(t) ==
  LET counter == bg_thread.counter + 1
  IN  /\ pc[t] = "ready"
      /\ "start" \in Calls[t]
      /\ bg_thread.handle = 0
      /\ counter \in Background
      /\ bg_thread' = [counter |-> counter, handle |-> counter]
      /\ pc' = [pc EXCEPT ![counter] = "bg_enter"]
      /\ UNCHANGED <<phase, listVars, objectVars, gray_queue, n_busy_marking,
                     counterVars, handles, local>>

(***************************************************************************)
(* stop takes the handle and notifies under the lock, and joins after it.  *)
(***************************************************************************)
StopBackgroundCollection(t) ==
  /\ "stop" \in Calls[t]
  /\ bg_thread.handle # 0
  /\ Goto(t, "ready", "join")
  /\ bg_thread' = [bg_thread EXCEPT !.handle = 0]
  /\ SetLocal(t, [local[t] EXCEPT !.joining = bg_thread.handle])
  /\ UNCHANGED <<phase, listVars, objectVars, gray_queue, n_busy_marking,
                 counterVars, handles>>

JoinBackgroundThread(t) ==
  /\ Goto(t, "join", "ready")
  /\ pc[local[t].joining] = "bg_done"
  /\ SetLocal(t, NoLocals)
  /\ UNCHANGED <<phase, listVars, objectVars, gray_queue, n_busy_marking,
                 counterVars, bg_thread, handles>>

\* Variant for a mutation test: a stop before the sleep is missed.
BackgroundWaitUnchecked(b) ==
  /\ Goto(b, "bg_enter", "bg_sleep")
  /\ UNCHANGED <<phase, listVars, objectVars, gray_queue, n_busy_marking,
                 counterVars, bg_thread, handles, local>>

(***************************************************************************)
(* wait_stopped: the thread sees it is stopped, or sleeps on the condition *)
(* variable until stop notifies it or the interval is over.  A stop that   *)
(* comes too late to be the reason of the wake-up is seen next time.       *)
(***************************************************************************)
BackgroundWait(b) ==
  /\ Goto(b, "bg_enter", IF is_stopped(b) THEN "bg_done" ELSE "bg_sleep")
  /\ UNCHANGED <<phase, listVars, objectVars, gray_queue, n_busy_marking,
                 counterVars, bg_thread, handles, local>>

BackgroundNotified(b) ==
  /\ is_stopped(b)
  /\ Goto(b, "bg_sleep", "bg_done")
  /\ UNCHANGED <<phase, listVars, objectVars, gray_queue, n_busy_marking,
                 counterVars, bg_thread, handles, local>>

BackgroundTimeout(b) ==
  /\ Goto(b, "bg_sleep",
          IF should_collect(bytes_allocated, current_threshold)
          THEN "try_mark" ELSE "bg_enter")
  /\ UNCHANGED <<phase, listVars, objectVars, gray_queue, n_busy_marking,
                 counterVars, bg_thread, handles, local>>

(***************************************************************************)
(* The background thread looks for a stop before every round of marking    *)
(* and, when it finds one, gives the cycle up where it stands.             *)
(***************************************************************************)
BackgroundCheck(b) ==
  /\ Goto(b, "bg_check", IF is_stopped(b) THEN "bg_abort" ELSE "mark")
  /\ UNCHANGED <<phase, listVars, objectVars, gray_queue, n_busy_marking,
                 counterVars, bg_thread, handles, local>>

\* Variant for a mutation test: the phase is not given back.
BackgroundAbortMarking(b) ==
  /\ Goto(b, "bg_abort", "bg_done")
  /\ SetLocal(b, NoLocals)
  /\ UNCHANGED <<phase, listVars, objectVars, gray_queue, n_busy_marking,
                 counterVars, bg_thread, handles>>

BackgroundAbort(b) ==
  /\ Goto(b, "bg_abort", "bg_done")
  /\ phase' = "Idle"
  /\ SetLocal(b, NoLocals)
  /\ UNCHANGED <<listVars, objectVars, gray_queue, n_busy_marking, counterVars,
                 bg_thread, handles>>

-----------------------------------------------------------------------------

CollectorCall(t) == \/ ForceCollect(t) \/ StartBackgroundCollection(t)
                    \/ StopBackgroundCollection(t)

(***************************************************************************)
(* Steps of do_mark_with_tracer, shared with assisting allocations.        *)
(***************************************************************************)
MarkStep(p) == \/ MarkPop(p) \/ MarkSteal(p) \/ TraceField(p) \/ MarkBlack(p)
               \/ MarkNoWork(p) \/ MarkBudgetSpent(p)

SweepStep(p) == \/ StartSweeping(p) \/ SweepLoadHead(p) \/ SweepColor(p)
                \/ SweepRoot(p) \/ SweepKeep(p) \/ SweepFree(p)
                \/ SweepSubtract(p) \/ FinishSweep(p) \/ UpdateThreshold(p)
                \/ FinishGc(p)

CycleStep(p) == \/ TryStartMarking(p) \/ RootsLoadHead(p) \/ RootsVisit(p)
                \/ RootsMerge(p) \/ MarkStep(p) \/ BusyTest(p) \/ SweepStep(p)

BackgroundStep(b) == \/ BackgroundWait(b) \/ BackgroundNotified(b)
                     \/ BackgroundTimeout(b) \/ BackgroundCheck(b)
                     \/ BackgroundAbort(b)

=============================================================================
