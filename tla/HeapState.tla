----------------------------- MODULE HeapState ------------------------------
(***************************************************************************)
(* The state of one abfall heap and of the threads that use it.            *)
(*                                                                         *)
(* Shared state is what the fields of Heap and GcHeader hold.  A thread is *)
(* a program counter, pc, and a record of the local variables of the call  *)
(* it is executing, local.  One step of a thread is at most one access to  *)
(* shared memory that another thread can observe: an atomic operation, one *)
(* critical section of the gray-queue mutex, or one read of a cell.        *)
(*                                                                         *)
(* An object is named by its allocation, so an address is never reused and *)
(* a use after free is an access to an object whose mem is "freed".        *)
(***************************************************************************)
EXTENDS Integers, Sequences, FiniteSets, Pacing

CONSTANTS
  Objects,                \* every allocation the program can make (a bound)
  NoTrace,                \* those whose type has NO_TRACE = true
  Fields,                 \* the GcCell fields of the other objects
  Null,                   \* the null pointer, and None in a cell
  Threads,                \* application threads, each with a GcContext
  Calls,                  \* the API calls each application thread makes
  MaxHandles,             \* bound on the GcRoots a thread owns per object
  MaxStarts,              \* bound on the background threads ever started
  IncrementalWorkBudget,  \* incremental_work_budget
  AssistWorkBudget,       \* assist_work_budget
  BatchSize,              \* BATCH_SIZE of do_mark_with_tracer (8 in the code)
  Built,                  \* objects allocated before the run, newest first
  Owned                   \* the GcRoots each thread owns when the run starts

ApiCalls == {"allocate", "link", "clone", "drop", "set", "set_leaf", "move",
             "clear", "root", "force_collect", "collect", "allocation_count",
             "start", "stop"}

(***************************************************************************)
(* The background threads, numbered by the StopCondition they are given.   *)
(***************************************************************************)
Background == IF is_background_collection_off THEN {} ELSE 1..MaxStarts

Procs == Threads \cup Background

BuiltObjects == {Built[i] : i \in 1..Len(Built)}

ASSUME HeapAssumption ==
  /\ NoTrace \subseteq Objects
  /\ IsFiniteSet(Objects) /\ IsFiniteSet(Threads)
  /\ Null \notin Objects \cup Fields
  /\ Threads \cap Background = {}
  /\ Calls \in [Threads -> SUBSET ApiCalls]
  /\ MaxHandles \in Nat \ {0}
  /\ MaxStarts \in Nat \ {0}
  /\ IncrementalWorkBudget \in Nat
  /\ AssistWorkBudget \in Nat
  /\ BatchSize \in Nat \ {0}
  /\ Built \in Seq(Objects)
  /\ \A i, j \in 1..Len(Built) : Built[i] = Built[j] => i = j
  /\ Owned \in [Threads -> SUBSET BuiltObjects]
  /\ Len(Built) <= UsizeMax

VARIABLES
  phase,              \* Heap.phase
  head,               \* Heap.head
  next,               \* GcHeader.next of every object
  color,              \* GcHeader.color
  root_count,         \* GcHeader.root_count
  ref,                \* GcBox.data: the pointer in each field
  mem,                \* what has become of the allocation
  gray_queue,         \* Heap.gray_queue, the end of the Vec last
  n_busy_marking,     \* Heap.n_busy_marking
  bytes_allocated,    \* Heap.bytes_allocated, in objects
  current_threshold,  \* Heap.current_threshold
  bg_thread,          \* StartStopJoinHandle: counter, and handle (0 is None)
  handles,            \* the GcRoots each application thread owns
  pc,
  local

vars == <<phase, head, next, color, root_count, ref, mem, gray_queue,
          n_busy_marking, bytes_allocated, current_threshold, bg_thread,
          handles, pc, local>>

(***************************************************************************)
(* What a step that only concerns the list, the objects, or the counters   *)
(* leaves alone.                                                           *)
(***************************************************************************)
listVars    == <<head, next>>
objectVars  == <<color, root_count, ref, mem>>
counterVars == <<bytes_allocated, current_threshold>>

Pointer == Objects \cup {Null}

Phase == {"Idle", "Marking", "Sweeping"}

Color == {"White", "Gray", "Black"}

(***************************************************************************)
(* The life of an allocation: not requested yet, requested by an allocate  *)
(* that is still assisting, boxed but private to the allocating thread,    *)
(* published, and dropped.                                                 *)
(***************************************************************************)
Mem == {"unborn", "reserved", "boxed", "live", "freed"}

Label == {"ready", "busy_check", "busy_dec",
          "alloc_box", "alloc_load", "alloc_cas", "alloc_add",
          "shade", "shade_merge", "store", "rooting", "count", "join",
          "try_mark", "roots_head", "roots",
          "mark", "trace", "busy_test",
          "sweep_start", "sweep_head", "sweep", "sweep_root", "sweep_keep",
          "sweep_free", "finish_sweep", "threshold", "finish",
          "unborn", "bg_enter", "bg_sleep", "bg_check", "bg_abort", "bg_done"}

Operation == {"none", "allocate", "set", "collect"}

Locals == [op        : Operation,
           tracer    : Seq(Objects),          \* the Vec of the Tracer in use
           tracing   : Pointer,               \* ptr of do_mark_with_tracer
           pending   : SUBSET Fields,         \* fields trace has yet to visit
           work_done : Nat,
           current   : Pointer,
           prev      : Pointer,               \* prev_next; Null is &self.head
           following : Pointer,               \* next of do_sweep
           freed     : Nat,
           live      : Int,                   \* what do_sweep returns
           field     : Fields \cup {Null},
           value     : Pointer,
           joining   : Nat]                   \* the thread stop waits for

NoLocals == [op |-> "none", tracer |-> <<>>, tracing |-> Null, pending |-> {},
             work_done |-> 0, current |-> Null, prev |-> Null,
             following |-> Null, freed |-> 0, live |-> 0, field |-> Null,
             value |-> Null, joining |-> 0]

TypeOK ==
  /\ phase \in Phase
  /\ head \in Pointer
  /\ next \in [Objects -> Pointer]
  /\ color \in [Objects -> Color]
  /\ root_count \in [Objects -> Int]
  /\ ref \in [Objects -> [Fields -> Pointer]]
  /\ mem \in [Objects -> Mem]
  /\ gray_queue \in Seq(Objects)
  /\ n_busy_marking \in Int
  /\ bytes_allocated \in Int
  /\ current_threshold \in Usize
  /\ bg_thread \in [counter : Nat, handle : {0} \cup Background]
  /\ handles \in [Threads -> [Objects -> 0..MaxHandles]]
  /\ pc \in [Procs -> Label]
  /\ local \in [Procs -> Locals]

-----------------------------------------------------------------------------

(***************************************************************************)
(* Heap::with_options, and the allocations of Built the program has made   *)
(* since: any graph over them can be built with the API while no thread    *)
(* but one uses the heap, and no collection has run yet.                   *)
(***************************************************************************)
Init ==
  /\ phase = "Idle"
  /\ head = IF Built = <<>> THEN Null ELSE Built[1]
  /\ next = [o \in Objects |->
               IF \E i \in 1..(Len(Built) - 1) : Built[i] = o
               THEN LET i == CHOOSE i \in 1..(Len(Built) - 1) : Built[i] = o
                    IN  Built[i + 1]
               ELSE Null]
  /\ color = [o \in Objects |-> "White"]
  /\ root_count = [o \in Objects |->
                     Cardinality({t \in Threads : o \in Owned[t]})]
  /\ ref \in [Objects -> [Fields -> BuiltObjects \cup {Null}]]
  /\ \A o \in NoTrace \cup (Objects \ BuiltObjects) :
       ref[o] = [f \in Fields |-> Null]
  /\ mem = [o \in Objects |-> IF o \in BuiltObjects THEN "live" ELSE "unborn"]
  /\ gray_queue = <<>>
  /\ n_busy_marking = 0
  /\ bytes_allocated = Len(Built)
  /\ current_threshold = MinThresholdBytes
  /\ bg_thread = IF is_background_collection_off
                 THEN [counter |-> 0, handle |-> 0]
                 ELSE [counter |-> 1, handle |-> 1]
  /\ handles = [t \in Threads |->
                  [o \in Objects |-> IF o \in Owned[t] THEN 1 ELSE 0]]
  /\ pc = [p \in Procs |-> IF p \in Threads THEN "ready"
                           ELSE IF p = 1 THEN "bg_enter" ELSE "unborn"]
  /\ local = [p \in Procs |-> NoLocals]

-----------------------------------------------------------------------------

Goto(p, from, to) == pc[p] = from /\ pc' = [pc EXCEPT ![p] = to]

SetLocal(p, l) == local' = [local EXCEPT ![p] = l]

is_marking == phase = "Marking"

is_root(o) == root_count[o] > 0

(***************************************************************************)
(* Tracer::mark_header: the compare-and-swap White to Gray, and the object *)
(* enqueued in the tracer when it succeeds.                                *)
(***************************************************************************)
mark_white_to_gray(o) ==
  IF color[o] = "White" THEN [color EXCEPT ![o] = "Gray"] ELSE color

PushIfWhite(tracer, o) ==
  IF color[o] = "White" THEN Append(tracer, o) ELSE tracer

(***************************************************************************)
(* Tracer::mark of the pointer v: an object whose type is NO_TRACE becomes *)
(* black at once and is not enqueued.  None has nothing to mark.           *)
(***************************************************************************)
MarkColor(v) ==
  CASE v = Null    -> color
    [] v \in NoTrace -> [color EXCEPT ![v] = "Black"]
    [] OTHER       -> mark_white_to_gray(v)

\* Variant for a mutation test: the object is shaded and not enqueued.
MarkTracerForgets(tracer, v) == tracer

\* Variant for a mutation test: what is not white, or None, is enqueued.
MarkTracerUnchecked(tracer, v) ==
  IF v \in NoTrace THEN tracer ELSE Append(tracer, v)

MarkTracer(tracer, v) ==
  IF v \in Objects \ NoTrace THEN PushIfWhite(tracer, v) ELSE tracer

-----------------------------------------------------------------------------

(***************************************************************************)
(* What the program can still reach.  Owning threads are read off the      *)
(* GcRoots the threads own, not off root_count: an object is held by a     *)
(* GcRoot, or by the allocate call that is about to return its GcRoot.     *)
(***************************************************************************)
InAllocate(o) == \E t \in Threads :
  local[t].current = o /\ pc[t] \in {"alloc_load", "alloc_cas", "alloc_add"}

Held == {o \in Objects : InAllocate(o) \/ \E t \in Threads : handles[t][o] > 0}

HeldBy(t) == {o \in Objects : handles[t][o] > 0}

Successors(o) == {ref[o][f] : f \in Fields} \ {Null}

ClosedUnderRefs(S) == \A o \in S : Successors(o) \subseteq S

(***************************************************************************)
(* The least set that holds the roots and is closed under references.      *)
(***************************************************************************)
Reachable ==
  {o \in Objects : \A S \in SUBSET Objects :
                     Held \subseteq S /\ ClosedUnderRefs(S) => o \in S}

(***************************************************************************)
(* The nodes a walk of the allocation list from head meets.                *)
(***************************************************************************)
InList ==
  {o \in Objects : \A S \in SUBSET Objects :
                     /\ head \in S \cup {Null}
                     /\ \A n \in S : next[n] \in S \cup {Null}
                     => o \in S}

Live == {o \in Objects : mem[o] = "live"}

SeqRange(s) == {s[i] : i \in 1..Len(s)}

=============================================================================
