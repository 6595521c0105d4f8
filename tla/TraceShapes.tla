----------------------------- MODULE TraceShapes ----------------------------
(***************************************************************************)
(* The Trace impls of src/src/trace.rs over the types a program can build  *)
(* from them, and the vtable that picks trace_impl or trace_noop by        *)
(* NO_TRACE.  One object of any such type, holding any value of it, is     *)
(* traced to the end, or the value is shaded by the barrier of             *)
(* GcCell::set, together with the objects it leads to.                     *)
(*                                                                         *)
(* A type is a record: the impl that covers it, the types it is applied    *)
(* to, and the constant NO_TRACE.  What the types and values are is        *)
(* recursive, so it comes in as constants of which only the equation of    *)
(* each impl is assumed; MCTraceShapes defines them.                       *)
(***************************************************************************)
EXTENDS Naturals, Sequences

CONSTANTS
  Objects,
  box,             \* the object that is traced, or whose new value is shaded
  Types,           \* the types of the data of objects, and of its parts
  CopyTypes,       \* those that are Copy, which GcCell<T> asks for
  Values(_),       \* the values of a type
  Pointees(_, _),  \* every object a value of a type refers to
  Nesting(_),      \* how deep a type is nested
  HeapsWith(_, _)  \* the heaps whose box has this type and value: a type and
                   \* data for each object

VARIABLES
  type,         \* the type of the data of each object
  data,         \* GcBox.data
  barrier,      \* the value is shaded by GcCell::set, not scanned as a root
  color,        \* GcHeader.color
  queue,        \* the gray objects of the Tracer
  tracing,      \* ptr of do_mark_with_tracer, or none
  calls         \* the calls of trace that have not returned, the last first

vars == <<type, data, barrier, color, queue, tracing, calls>>

-----------------------------------------------------------------------------

impl_no_trace == [impl |-> "no_trace", args |-> <<>>, NO_TRACE |-> TRUE]

GcPtrTo(leaf) == [impl |-> IF leaf THEN "ptr_no_trace" ELSE "ptr",
                  args |-> <<>>, NO_TRACE |-> FALSE]

\* Variant for a mutation test: what is behind a Box, Rc or Arc is skipped.
DerefSkipped(T) == [impl |-> "deref", args |-> <<T>>, NO_TRACE |-> TRUE]

impl_trace_deref(T) ==
  [impl |-> "deref", args |-> <<T>>, NO_TRACE |-> T.NO_TRACE]

impl_trace_iterable(T) ==
  [impl |-> "iterable", args |-> <<T>>, NO_TRACE |-> T.NO_TRACE]

impl_trace_map(K, V) ==
  [impl |-> "map", args |-> <<K, V>>, NO_TRACE |-> K.NO_TRACE /\ V.NO_TRACE]

ResultOf(T, E) ==
  [impl |-> "result", args |-> <<T, E>>, NO_TRACE |-> T.NO_TRACE /\ E.NO_TRACE]

OptionOf(T) == [impl |-> "option", args |-> <<T>>, NO_TRACE |-> T.NO_TRACE]

(***************************************************************************)
(* GcCell and the structs of a program take NO_TRACE from the trait.       *)
(***************************************************************************)
Traced(T) == [impl |-> "traced", args |-> <<T>>, NO_TRACE |-> FALSE]

(***************************************************************************)
(* What a value of a type is: anything for data without pointers, an       *)
(* object for a pointer, the value itself behind a Box or in a cell, and   *)
(* sequences of items otherwise.                                           *)
(***************************************************************************)
IsShape(T) ==
  \/ T = impl_no_trace
  \/ T \in {GcPtrTo(TRUE), GcPtrTo(FALSE)} /\ Values(T) \subseteq Objects
  \/ LET A == T.args[1]
     IN  \/ /\ T \in {impl_trace_deref(A), Traced(A)}
            /\ Values(T) \subseteq Values(A)
         \/ /\ T \in {impl_trace_iterable(A), OptionOf(A)}
            /\ Values(T) \subseteq Seq(Values(A))
         \/ /\ T = impl_trace_map(A, T.args[2])
            /\ Values(T) \subseteq Seq(Values(A) \X Values(T.args[2]))
         \/ /\ T = ResultOf(A, T.args[2])
            /\ Values(T) \subseteq ({"Ok"} \X Values(A))
                                    \cup ({"Err"} \X Values(T.args[2]))

(***************************************************************************)
(* The objects a value refers to, read off its layout and by what its      *)
(* parts refer to.                                                         *)
(***************************************************************************)
LayoutPointees(T, v) ==
  CASE T.impl = "no_trace" -> {}
    [] T.impl \in {"ptr", "ptr_no_trace"} -> {v}
    [] T.impl \in {"deref", "traced"} -> Pointees(T.args[1], v)
    [] T.impl \in {"option", "iterable"} ->
         UNION {Pointees(T.args[1], v[i]) : i \in DOMAIN v}
    [] T.impl = "map" -> UNION {Pointees(T.args[1], v[i][1])
                                  \cup Pointees(T.args[2], v[i][2]) :
                                  i \in DOMAIN v}
    [] T.impl = "result" ->
         Pointees(T.args[IF v[1] = "Ok" THEN 1 ELSE 2], v[2])

(***************************************************************************)
(* A heap gives every object data of its type, and a GcPtr<T> refers to an *)
(* object whose data is a T: NO_TRACE of T is NO_TRACE of that object.     *)
(***************************************************************************)
WellTyped(h, types) ==
  /\ h.type \in [Objects -> types]
  /\ DOMAIN h.data = Objects
  /\ \A o \in Objects : h.data[o] \in Values(h.type[o])
  /\ \A leaf \in BOOLEAN : GcPtrTo(leaf) \in types =>
       \A v \in Values(GcPtrTo(leaf)) : h.type[v].NO_TRACE = leaf

(***************************************************************************)
(* Types are finite trees of impls, and values and heaps follow them.      *)
(***************************************************************************)
AreTypes(types) ==
  \A T \in types :
    /\ Nesting(T) \in Nat
    /\ \A i \in DOMAIN T.args : /\ T.args[i] \in types
                                /\ Nesting(T.args[i]) < Nesting(T)
    /\ IsShape(T)
    /\ \A v \in Values(T) :
         /\ Pointees(T, v) = LayoutPointees(T, v)
         /\ \A h \in HeapsWith(T, v) : WellTyped(h, types)

ASSUME TypesAssumption == AreTypes(Types)

ASSUME ObjectsAssumption == box \in Objects /\ "none" \notin Objects

-----------------------------------------------------------------------------

\* Variant for a mutation test: Err is taken to hold no pointer.
CalledByOnlyOk(T, v) ==
  CASE T.impl \in {"deref", "traced"} -> << <<T.args[1], v>> >>
    [] T.impl \in {"option", "iterable"} ->
         [i \in DOMAIN v |-> <<T.args[1], v[i]>>]
    [] T.impl = "map" ->
         [i \in 1..(2 * Len(v)) |-> LET e == v[(i + 1) \div 2]
                                        j == 2 - (i % 2)
                                    IN  <<T.args[j], e[j]>>]
    [] T.impl = "result" /\ v[1] = "Ok" -> << <<T.args[1], v[2]>> >>
    [] OTHER -> <<>>

(***************************************************************************)
(* The calls of trace that the trace of a value makes, in order.           *)
(***************************************************************************)
CalledBy(T, v) ==
  CASE T.impl \in {"deref", "traced"} -> << <<T.args[1], v>> >>
    [] T.impl \in {"option", "iterable"} ->
         [i \in DOMAIN v |-> <<T.args[1], v[i]>>]
    [] T.impl = "map" ->
         [i \in 1..(2 * Len(v)) |-> LET e == v[(i + 1) \div 2]
                                        j == 2 - (i % 2)
                                    IN  <<T.args[j], e[j]>>]
    [] T.impl = "result" ->
         << <<T.args[IF v[1] = "Ok" THEN 1 ELSE 2], v[2]>> >>
    [] OTHER -> <<>>

(***************************************************************************)
(* GcVTable::new: what scanning an object calls.                           *)
(***************************************************************************)
VtableTrace(o) ==
  IF type[o].NO_TRACE THEN <<>> ELSE << <<type[o], data[o]>> >>

Init ==
  /\ \E T \in Types : \E v \in Values(T) : \E h \in HeapsWith(T, v) :
       type = h.type /\ data = h.data
  /\ barrier \in {b \in BOOLEAN : b => type[box] \in CopyTypes}
  /\ color = [o \in Objects |->
                IF o = box /\ ~ barrier THEN "Gray" ELSE "White"]
  /\ queue = IF barrier THEN <<>> ELSE <<box>>
  /\ tracing = "none"
  /\ calls = IF barrier THEN << <<type[box], data[box]>> >> ELSE <<>>

\* Variant for a mutation test: a pointer is enqueued whatever its color.
TraceEnqueuesAlways ==
  /\ calls # <<>>
  /\ LET T == calls[1][1]
         v == calls[1][2]
     IN  /\ calls' = CalledBy(T, v) \o Tail(calls)
         /\ \/ /\ T.impl = "ptr"
               /\ color' = [color EXCEPT ![v] = "Gray"]
               /\ queue' = Append(queue, v)
            \/ /\ T.impl # "ptr"
               /\ color' = IF T.impl = "ptr_no_trace"
                           THEN [color EXCEPT ![v] = "Black"] ELSE color
               /\ UNCHANGED queue
  /\ UNCHANGED <<type, data, barrier, tracing>>

(***************************************************************************)
(* One call of trace: a pointer is marked, by the NO_TRACE of its target;  *)
(* anything else calls the trace of its parts.                             *)
(***************************************************************************)
Trace ==
  /\ calls # <<>>
  /\ LET T == calls[1][1]
         v == calls[1][2]
     IN  /\ calls' = CalledBy(T, v) \o Tail(calls)
         /\ \/ /\ T.impl = "ptr" /\ color[v] = "White"
               /\ color' = [color EXCEPT ![v] = "Gray"]
               /\ queue' = Append(queue, v)
            \/ /\ T.impl = "ptr" => color[v] # "White"
               /\ color' = IF T.impl = "ptr_no_trace"
                           THEN [color EXCEPT ![v] = "Black"] ELSE color
               /\ UNCHANGED queue
  /\ UNCHANGED <<type, data, barrier, tracing>>

(***************************************************************************)
(* do_mark_with_tracer: take an object, run its vtable's trace, and turn   *)
(* it black when that has returned.                                        *)
(***************************************************************************)
PopWork ==
  /\ calls = <<>> /\ tracing = "none" /\ queue # <<>>
  /\ tracing' = queue[Len(queue)]
  /\ queue' = SubSeq(queue, 1, Len(queue) - 1)
  /\ calls' = VtableTrace(tracing')
  /\ UNCHANGED <<type, data, barrier, color>>

MarkBlack ==
  /\ calls = <<>> /\ tracing # "none"
  /\ color' = [color EXCEPT ![tracing] = "Black"]
  /\ tracing' = "none"
  /\ UNCHANGED <<type, data, barrier, queue, calls>>

Done == calls = <<>> /\ tracing = "none" /\ queue = <<>>

Next == Trace \/ PopWork \/ MarkBlack \/ (Done /\ UNCHANGED vars)

Spec == Init /\ [][Next]_vars /\ WF_vars(Trace \/ PopWork \/ MarkBlack)

-----------------------------------------------------------------------------

Holds(o) == Pointees(type[o], data[o])

(***************************************************************************)
(* A black object has been scanned in full, whatever its type: everything  *)
(* its data refers to is marked, so an NO_TRACE that is true of a type     *)
(* with a pointer somewhere inside, or an impl that skips a part, shows.   *)
(***************************************************************************)
BlackIsScanned ==
  \A o \in Objects : color[o] = "Black" =>
    \A x \in Holds(o) : color[x] # "White"

(***************************************************************************)
(* What the trace is to reach: the least set with the box, or with what    *)
(* the value the barrier shades refers to, that everything its objects     *)
(* refer to is in.                                                         *)
(***************************************************************************)
Roots == IF barrier THEN Holds(box) ELSE {box}

IsClosed(S) == \A o \in S : Holds(o) \subseteq S

Reached ==
  {o \in Objects :
     \A S \in SUBSET Objects : Roots \subseteq S /\ IsClosed(S) => o \in S}

(***************************************************************************)
(* When the queue has run dry, black are the objects the value leads to,   *)
(* and the box itself if it was scanned, and no other: GcCell::set shades  *)
(* through the same impls without the vtable.                              *)
(***************************************************************************)
MarksExactly == Done => {o \in Objects : color[o] = "Black"} = Reached

(***************************************************************************)
(* Tracing a value of any type comes to an end with nothing gray, though   *)
(* nodes refer to each other: only the step from white to gray enqueues.   *)
(***************************************************************************)
TraceEnds == <>(Done /\ \A o \in Objects : color[o] # "Gray")

=============================================================================
