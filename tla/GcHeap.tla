------------------------------- MODULE GcHeap -------------------------------
(***************************************************************************)
(* One abfall heap shared by application threads and background threads,   *)
(* and the properties that make it a garbage collector.                    *)
(***************************************************************************)
EXTENDS Mutator, Collector

ThreadStep(t) == MutatorStep(t) \/ CycleStep(t) \/ JoinBackgroundThread(t)

BackgroundThread(b) == BackgroundStep(b) \/ CycleStep(b)

Next ==
  \/ \E t \in Threads : MutatorCall(t) \/ CollectorCall(t) \/ ThreadStep(t)
  \/ \E b \in Background : BackgroundThread(b)

Spec == Init /\ [][Next]_vars

(***************************************************************************)
(* The operating system runs every thread that can run, so a call that has *)
(* begun goes on; no thread has to begin another call.                     *)
(***************************************************************************)
Fairness == /\ \A t \in Threads : WF_vars(ThreadStep(t))
            /\ \A b \in Background : WF_vars(BackgroundThread(b))

FairSpec == Spec /\ Fairness

-----------------------------------------------------------------------------

(***************************************************************************)
(* Vocabulary of the properties.                                           *)
(***************************************************************************)
MarkLabel == {"mark", "trace", "busy_test", "bg_check", "sweep_start"}

SweepLabel == {"sweep_head", "sweep", "sweep_root", "sweep_keep", "sweep_free"}

CollectorLabel ==
  {"roots_head", "roots", "bg_abort"} \cup MarkLabel \cup SweepLabel

Collecting(p) == local[p].op = "collect" /\ pc[p] \in CollectorLabel

InBusySection(p) ==
  \/ pc[p] \in {"busy_check", "busy_dec", "shade", "shade_merge"}
  \/ local[p].op = "allocate" /\ pc[p] \in {"mark", "trace"}

(***************************************************************************)
(* The objects whose headers a thread is going to access: the nodes a walk *)
(* of the allocation list stands at, and the gray objects it has in hand.  *)
(***************************************************************************)
InHand(p) == SeqRange(local[p].tracer) \cup {local[p].tracing}

WalkedTo(p) ==
  CASE pc[p] \in {"roots", "count"} -> {local[p].current}
    [] pc[p] \in SweepLabel -> {local[p].current, local[p].prev}
    [] OTHER -> {}

InTracer == UNION {InHand(p) : p \in Procs}

-----------------------------------------------------------------------------

(***************************************************************************)
(* No dangling pointer: what the program can reach through GcRoots and     *)
(* cells has not been dropped by do_sweep.  IMPLEMENTATION.md, Safety      *)
(* Invariant 4.                                                            *)
(***************************************************************************)
NoDangling == \A o \in Reachable : mem[o] # "freed"

(***************************************************************************)
(* The intrusive list allocate pushes to and do_sweep unlinks from leads   *)
(* to live boxes only.  IMPLEMENTATION.md, Safety Invariant 1.             *)
(***************************************************************************)
AllocationListSound == InList \subseteq Live

(***************************************************************************)
(* Every live box is in that list, where do_sweep and Heap::drop look for  *)
(* it: no push is lost to a concurrent unlink.                             *)
(***************************************************************************)
NoLostAllocation == Live \subseteq InList

(***************************************************************************)
(* n_busy_marking is the number of assists and write barriers in progress, *)
(* on every path through check_is_marking_and_increment_busy; the marker   *)
(* ends marking on this number.                                            *)
(***************************************************************************)
BusyExact == n_busy_marking = Cardinality({p \in Procs : InBusySection(p)})

(***************************************************************************)
(* The allocations under way that have published their box and not yet     *)
(* added it, and what collectors have dropped and not yet subtracted: the  *)
(* first, the second, ... box of each.                                     *)
(***************************************************************************)
Unadded == {t \in Threads : pc[t] = "alloc_add"}

Unsubtracted ==
  UNION {{p} \X (1..local[p].freed) : p \in {q \in Procs : pc[q] \in SweepLabel}}

(***************************************************************************)
(* bytes_allocated is what live boxes take, but for the ones allocate has  *)
(* yet to add and the ones do_sweep has yet to subtract, so the fetch_sub  *)
(* of do_sweep cannot underflow.                                           *)
(***************************************************************************)
BytesExact ==
  bytes_allocated + Cardinality(Unadded)
    = Cardinality(Live) + Cardinality(Unsubtracted)

(***************************************************************************)
(* The GcRoots of o there are: the first, the second, ... of each thread.  *)
(***************************************************************************)
GcRoots(o) ==
  {r \in Threads \X (1..MaxHandles) : r[2] <= handles[r[1]][o]}

(***************************************************************************)
(* root_count is the number of GcRoots there are, counting the one an      *)
(* allocate in progress is going to return.                                *)
(***************************************************************************)
RootCountExact ==
  \A o \in {x \in Objects : mem[x] \in {"boxed", "live"}} :
    root_count[o] = Cardinality(GcRoots(o)) + (IF InAllocate(o) THEN 1 ELSE 0)

(***************************************************************************)
(* A gray object is in the shared queue or in some tracer: one that is in  *)
(* neither would never be scanned, and its referents would be swept.       *)
(***************************************************************************)
GrayIsQueued ==
  \A o \in Live : color[o] = "Gray" => o \in SeqRange(gray_queue) \cup InTracer

(***************************************************************************)
(* Neither the shared queue, nor a tracer, nor a walk of the list by the   *)
(* root scan, the sweep or allocation_count holds a pointer to a dropped   *)
(* box.                                                                    *)
(***************************************************************************)
NoStaleTraversal ==
  \A o \in SeqRange(gray_queue) \cup InTracer
             \cup UNION {WalkedTo(p) : p \in Procs} :
    o # Null => mem[o] = "live"

(***************************************************************************)
(* The phase admits one collection at a time.  IMPLEMENTATION.md:          *)
(* "Prevents concurrent collections".                                      *)
(***************************************************************************)
OneCollector == \A p, q \in Procs : Collecting(p) /\ Collecting(q) => p = q

(***************************************************************************)
(* When the root scan of a cycle begins, the last cycle has left nothing   *)
(* behind: every live object is white and the gray queue is empty.         *)
(* IMPLEMENTATION.md, Mark Phase: "Initialize: All objects are white".     *)
(***************************************************************************)
CycleStartsWhite ==
  \A p \in Procs : pc[p] = "roots_head" =>
    gray_queue = <<>> /\ \A o \in Live : color[o] = "White"

(***************************************************************************)
(* From the end of the root scan to the start of the sweep, no scanned     *)
(* object refers to a white one.  IMPLEMENTATION.md, Invariants.           *)
(***************************************************************************)
TriColor ==
  (\E p \in Procs : Collecting(p) /\ pc[p] \in MarkLabel) =>
    \A o \in Live : color[o] = "Black" =>
      \A v \in Successors(o) : color[v] # "White"

(***************************************************************************)
(* A collector that goes on to sweep leaves no object gray, in the queue   *)
(* or in a tracer: do_mark_work_full processes "until all work is          *)
(* complete".                                                              *)
(***************************************************************************)
MarkingComplete ==
  \A p \in Procs : pc[p] = "sweep_start" =>
    /\ gray_queue = <<>>
    /\ \A o \in Live : color[o] # "Gray"

(***************************************************************************)
(* A collection no mutator interferes with is exact: what is left is what  *)
(* the program can reach.                                                  *)
(***************************************************************************)
ExactCollection ==
  \A p \in Procs : pc[p] = "finish_sweep" => Live = Reachable

(***************************************************************************)
(* Every call on the heap returns: the push that retries, the marker that  *)
(* waits for busy mutators, and stop_background_collection, whose thread   *)
(* sees the stop in its sleep, at its next wait or between two rounds of   *)
(* marking.                                                                *)
(***************************************************************************)
CallsReturn == \A t \in Threads : pc[t] # "ready" ~> pc[t] = "ready"

(***************************************************************************)
(* No thread is between the start of a cycle and the second finish_gc that *)
(* ends it.                                                                *)
(***************************************************************************)
BetweenCycles ==
  \A p \in Procs :
    ~ Collecting(p) /\ pc[p] \notin {"finish_sweep", "threshold", "finish"}

(***************************************************************************)
(* A running background thread drops garbage without a call to collect: a  *)
(* listed object that is unreachable and white between two cycles, in a    *)
(* heap that has reached its threshold, is dropped, unless the thread is   *)
(* stopped.  Garbage an aborted cycle has left gray outlives the next      *)
(* cycle, which may raise the threshold so that no other comes.            *)
(***************************************************************************)
BackgroundCollects ==
  \A o \in Objects :
    (/\ o \in InList \ Reachable
     /\ color[o] = "White"
     /\ BetweenCycles
     /\ should_collect(bytes_allocated, current_threshold)
     /\ bg_thread.handle # 0)
      ~> mem[o] = "freed" \/ bg_thread.handle = 0

=============================================================================
