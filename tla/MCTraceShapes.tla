---------------------------- MODULE MCTraceShapes ---------------------------
(***************************************************************************)
(* The types, values and heaps TLC traces: a box of any type up to Depth,  *)
(* holding any value of it, nodes of the linked list of the Trace example, *)
(* two of them in a cycle, and a number.                                   *)
(***************************************************************************)
EXTENDS TraceShapes

CONSTANTS
  Depth,        \* how deep types are nested (a bound)
  MaxItems      \* how many items a collection holds (a bound)

ShapeObjects == {"box", "number", "a", "b", "c"}

TypesTo[n \in 0..Depth] ==
  IF n = 0 THEN {impl_no_trace, GcPtrTo(TRUE), GcPtrTo(FALSE)}
  ELSE LET S == TypesTo[n - 1]
       IN  UNION {S,
                  {impl_trace_deref(T) : T \in S},
                  {impl_trace_iterable(T) : T \in S},
                  {OptionOf(T) : T \in S},
                  {Traced(T) : T \in S},
                  {impl_trace_map(K, V) : K, V \in S},
                  {ResultOf(T, E) : T, E \in S}}

ShapeTypes == TypesTo[Depth]

RECURSIVE ShapeNesting(_)
ShapeNesting(T) ==
  IF T.args = <<>> THEN 0
  ELSE 1 + LET S == {ShapeNesting(T.args[i]) : i \in DOMAIN T.args}
           IN  CHOOSE n \in S : \A m \in S : m <= n

RECURSIVE ShapeValues(_)
ShapeValues(T) ==
  CASE T.impl = "no_trace"     -> {"plain"}
    [] T.impl = "ptr"          -> {"a", "b", "c"}
    [] T.impl = "ptr_no_trace" -> {"number"}
    [] T.impl \in {"deref", "traced"} -> ShapeValues(T.args[1])
    [] T.impl = "option" -> {<<>>} \cup {<<v>> : v \in ShapeValues(T.args[1])}
    [] T.impl = "iterable" ->
         UNION {[1..n -> ShapeValues(T.args[1])] : n \in 0..MaxItems}
    [] T.impl = "map" ->
         {<<>>} \cup {<< <<k, v>> >> : k \in ShapeValues(T.args[1]),
                                       v \in ShapeValues(T.args[2])}
    [] T.impl = "result" ->
         {<<"Ok", v>> : v \in ShapeValues(T.args[1])}
           \cup {<<"Err", e>> : e \in ShapeValues(T.args[2])}

RECURSIVE ShapePointees(_, _)
ShapePointees(T, v) ==
  CASE T.impl = "no_trace" -> {}
    [] T.impl \in {"ptr", "ptr_no_trace"} -> {v}
    [] T.impl \in {"deref", "traced"} -> ShapePointees(T.args[1], v)
    [] T.impl \in {"option", "iterable"} ->
         UNION {ShapePointees(T.args[1], v[i]) : i \in DOMAIN v}
    [] T.impl = "map" -> UNION {ShapePointees(T.args[j], v[i][j]) :
                                  i \in DOMAIN v, j \in 1..2}
    [] T.impl = "result" ->
         ShapePointees(T.args[IF v[1] = "Ok" THEN 1 ELSE 2], v[2])

(***************************************************************************)
(* Box, Rc, Arc and the collections are not Copy; of the iterable types    *)
(* the array is.                                                           *)
(***************************************************************************)
RECURSIVE IsCopy(_)
IsCopy(T) == /\ T.impl \notin {"deref", "map"}
             /\ \A i \in DOMAIN T.args : IsCopy(T.args[i])

ShapeCopyTypes == {T \in ShapeTypes : IsCopy(T)}

NextNode == [a |-> <<"b">>, b |-> <<"a">>, c |-> <<>>]

ShapeHeapsWith(T, v) ==
  {[type |-> [o \in ShapeObjects |->
                CASE o = "box"    -> T
                  [] o = "number" -> impl_no_trace
                  [] OTHER        -> Traced(OptionOf(GcPtrTo(FALSE)))],
    data |-> [o \in ShapeObjects |-> CASE o = "box"    -> v
                                       [] o = "number" -> "plain"
                                       [] OTHER        -> NextNode[o]]]}

=============================================================================
