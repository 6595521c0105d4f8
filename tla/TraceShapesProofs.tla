-------------------------- MODULE TraceShapesProofs -------------------------
(***************************************************************************)
(* Whatever types a program builds from the Trace impls, however deep, and *)
(* whatever its heap looks like: tracing marks exactly what it should.     *)
(***************************************************************************)
EXTENDS TraceShapes, TLAPS, WellFoundedInduction

IsPointer(T) == T.impl \in {"ptr", "ptr_no_trace"}

Call == UNION {{T} \X Values(T) : T \in Types}

HeldBy(s) == UNION {Pointees(s[i][1], s[i][2]) : i \in DOMAIN s}

-----------------------------------------------------------------------------

(***************************************************************************)
(* Natural numbers are well ordered: induction by a least counterexample.  *)
(***************************************************************************)
LEMMA LeastNumber ==
  ASSUME NEW T, T \subseteq Nat, T # {}
  PROVE  \E n \in T : \A m \in T : n <= m
<1> DEFINE R == OpToRel(<, Nat)
<1>1. IsWellFoundedOn(R, Nat)
  BY NatLessThanWellFounded
<1>2. \A m, n \in Nat : m < n => <<m, n>> \in R
  BY DEF OpToRel
<1> HIDE DEF R
<1>3. PICK n \in T : \A m \in T : ~ (<<m, n>> \in R)
  BY <1>1, WFMin
<1>4. \A m \in T : m \in Nat /\ n \in Nat /\ ~ (m < n)
  BY <1>2, <1>3
<1> QED
  BY <1>4

(***************************************************************************)
(* A call is a type with one of its values.                                *)
(***************************************************************************)
LEMMA CallIs ==
  /\ \A T \in Types : \A v \in Values(T) : <<T, v>> \in Call
  /\ \A c \in Call : /\ c[1] \in Types
                     /\ c[2] \in Values(c[1])
                     /\ c = <<c[1], c[2]>>
BY DEF Call

(***************************************************************************)
(* What is known of the argument types of an impl.                         *)
(***************************************************************************)
LEMMA ArgsAreTypes ==
  ASSUME NEW T \in Types, NEW i \in DOMAIN T.args
  PROVE  /\ T.args[i] \in Types
         /\ Nesting(T.args[i]) < Nesting(T)
BY TypesAssumption DEF AreTypes

(***************************************************************************)
(* The impls a type can come from.                                         *)
(***************************************************************************)
LEMMA ImplOf ==
  ASSUME NEW T \in Types
  PROVE  \/ /\ T.impl = "no_trace" /\ T.args = <<>>
         \/ /\ IsPointer(T) /\ T.args = <<>>
            /\ Values(T) \subseteq Objects
            /\ T.NO_TRACE = FALSE
         \/ /\ T.impl \in {"deref", "traced"} /\ T.args = <<T.args[1]>>
            /\ Values(T) \subseteq Values(T.args[1])
            /\ T.NO_TRACE => T.args[1].NO_TRACE
         \/ /\ T.impl \in {"option", "iterable"} /\ T.args = <<T.args[1]>>
            /\ Values(T) \subseteq Seq(Values(T.args[1]))
            /\ T.NO_TRACE => T.args[1].NO_TRACE
         \/ /\ T.impl = "map" /\ T.args = <<T.args[1], T.args[2]>>
            /\ Values(T) \subseteq Seq(Values(T.args[1]) \X Values(T.args[2]))
            /\ T.NO_TRACE => T.args[1].NO_TRACE /\ T.args[2].NO_TRACE
         \/ /\ T.impl = "result" /\ T.args = <<T.args[1], T.args[2]>>
            /\ Values(T) \subseteq ({"Ok"} \X Values(T.args[1]))
                                     \cup ({"Err"} \X Values(T.args[2]))
            /\ T.NO_TRACE => T.args[1].NO_TRACE /\ T.args[2].NO_TRACE
<1> DEFINE A == T.args[1]
           B == T.args[2]
<1>1. IsShape(T)
  BY TypesAssumption DEF AreTypes
<1>2. CASE T = impl_no_trace
  BY <1>2 DEF impl_no_trace
<1>3. CASE /\ T \in {GcPtrTo(TRUE), GcPtrTo(FALSE)}
           /\ Values(T) \subseteq Objects
  BY <1>3 DEF GcPtrTo, IsPointer
<1>4. CASE /\ T \in {impl_trace_deref(A), Traced(A)}
           /\ Values(T) \subseteq Values(A)
  BY <1>4 DEF impl_trace_deref, Traced
<1>5. CASE /\ T \in {impl_trace_iterable(A), OptionOf(A)}
           /\ Values(T) \subseteq Seq(Values(A))
  BY <1>5 DEF impl_trace_iterable, OptionOf
<1>6. CASE /\ T = impl_trace_map(A, B)
           /\ Values(T) \subseteq Seq(Values(A) \X Values(B))
  <2>1. T.impl = "map" /\ T.args = <<A, B>>
    BY <1>6 DEF impl_trace_map
  <2>2. impl_trace_map(A, B).NO_TRACE => A.NO_TRACE /\ B.NO_TRACE
    BY Zenon DEF impl_trace_map
  <2>3. T.NO_TRACE => A.NO_TRACE /\ B.NO_TRACE
    BY <1>6, <2>2, Zenon
  <2> QED
    BY <1>6, <2>1, <2>3
<1>7. CASE /\ T = ResultOf(A, B)
           /\ Values(T) \subseteq ({"Ok"} \X Values(A))
                                    \cup ({"Err"} \X Values(B))
  <2>1. T.impl = "result" /\ T.args = <<A, B>>
    BY <1>7 DEF ResultOf
  <2>2. ResultOf(A, B).NO_TRACE => A.NO_TRACE /\ B.NO_TRACE
    BY Zenon DEF ResultOf
  <2>3. T.NO_TRACE => A.NO_TRACE /\ B.NO_TRACE
    BY <1>7, <2>2, Zenon
  <2> QED
    BY <1>7, <2>1, <2>3
<1> QED
  BY <1>1, <1>2, <1>3, <1>4, <1>5, <1>6, <1>7 DEF IsShape

(***************************************************************************)
(* The entries of a map are visited in turn, key before value.             *)
(***************************************************************************)
LEMMA KeysAndValues ==
  ASSUME NEW n \in Nat
  PROVE  /\ \A i \in 1..(2 * n) : /\ (i + 1) \div 2 \in 1..n
                                  /\ 2 - (i % 2) \in {1, 2}
         /\ \A k \in 1..n : /\ 2 * k \in 1..(2 * n)
                            /\ (2 * k + 1) \div 2 = k
                            /\ 2 - ((2 * k) % 2) = 2
                            /\ 2 * k - 1 \in 1..(2 * n)
                            /\ (2 * k - 1 + 1) \div 2 = k
                            /\ 2 - ((2 * k - 1) % 2) = 1
OBVIOUS

(***************************************************************************)
(* What the assumption on types says of what a value refers to.            *)
(***************************************************************************)
LEMMA PointeesByLayout ==
  ASSUME NEW T \in Types, NEW v \in Values(T)
  PROVE  Pointees(T, v) = LayoutPointees(T, v)
BY TypesAssumption DEF AreTypes

(***************************************************************************)
(* The trace of a value calls the trace of each of its parts: with values  *)
(* of their types, less deeply nested, NO_TRACE if the whole is, and       *)
(* together with every pointer the value holds.                            *)
(***************************************************************************)
CallsCover(T, v) ==
  /\ CalledBy(T, v) \in Seq(Call)
  /\ \A i \in DOMAIN CalledBy(T, v) :
       /\ Nesting(CalledBy(T, v)[i][1]) < Nesting(T)
       /\ T.NO_TRACE => CalledBy(T, v)[i][1].NO_TRACE
  /\ Pointees(T, v) = HeldBy(CalledBy(T, v))

(***************************************************************************)
(* impl_trace_deref, and what a GcCell or a struct holds.                  *)
(***************************************************************************)
LEMMA DerefCovers ==
  ASSUME NEW T \in Types, NEW v \in Values(T),
         T.impl \in {"deref", "traced"}
  PROVE  CallsCover(T, v)
<1> DEFINE A == T.args[1]
<1>1. /\ T.args = <<A>>
      /\ v \in Values(A)
      /\ T.NO_TRACE => A.NO_TRACE
  BY ImplOf DEF IsPointer
<1>2. A \in Types /\ Nesting(A) < Nesting(T)
  BY <1>1, ArgsAreTypes
<1>3. CalledBy(T, v) = << <<A, v>> >>
  BY DEF CalledBy
<1>4. <<A, v>> \in Call
  BY <1>1, <1>2, CallIs
<1>5. Pointees(T, v) = Pointees(A, v)
  BY PointeesByLayout DEF LayoutPointees
<1>6. HeldBy(CalledBy(T, v)) = Pointees(A, v)
  BY <1>3 DEF HeldBy
<1> QED
  BY <1>1, <1>2, <1>3, <1>4, <1>5, <1>6 DEF CallsCover

(***************************************************************************)
(* impl_trace_iterable, the array and Option: every item is traced.        *)
(***************************************************************************)
LEMMA ItemsCover ==
  ASSUME NEW T \in Types, NEW v \in Values(T),
         T.impl \in {"option", "iterable"}
  PROVE  CallsCover(T, v)
<1> DEFINE A == T.args[1]
<1>1. /\ T.args = <<A>>
      /\ v \in Seq(Values(A))
      /\ T.NO_TRACE => A.NO_TRACE
  BY ImplOf DEF IsPointer
<1>2. A \in Types /\ Nesting(A) < Nesting(T)
  BY <1>1, ArgsAreTypes
<1>3. CalledBy(T, v) = [i \in DOMAIN v |-> <<A, v[i]>>]
  BY DEF CalledBy
<1>4. \A i \in DOMAIN v : <<A, v[i]>> \in Call
  BY <1>1, <1>2, CallIs
<1>5. DOMAIN v = 1..Len(v) /\ Len(v) \in Nat
  BY <1>1
<1>6. CalledBy(T, v) \in Seq(Call)
  BY <1>3, <1>4, <1>5
<1>7. Pointees(T, v) = UNION {Pointees(A, v[i]) : i \in DOMAIN v}
  BY PointeesByLayout DEF LayoutPointees
<1>8. /\ DOMAIN CalledBy(T, v) = DOMAIN v
      /\ \A i \in DOMAIN v : CalledBy(T, v)[i] = <<A, v[i]>>
  BY <1>3
<1>9. HeldBy(CalledBy(T, v)) = UNION {Pointees(A, v[i]) : i \in DOMAIN v}
  BY <1>8 DEF HeldBy
<1> QED
  BY <1>1, <1>2, <1>6, <1>7, <1>8, <1>9 DEF CallsCover

(***************************************************************************)
(* Result: the one of the two that is there is traced.                     *)
(***************************************************************************)
LEMMA ResultCovers ==
  ASSUME NEW T \in Types, NEW v \in Values(T), T.impl = "result"
  PROVE  CallsCover(T, v)
<1> DEFINE A == T.args[IF v[1] = "Ok" THEN 1 ELSE 2]
<1>1. /\ T.args = <<T.args[1], T.args[2]>>
      /\ v \in ({"Ok"} \X Values(T.args[1]))
                 \cup ({"Err"} \X Values(T.args[2]))
      /\ T.NO_TRACE => T.args[1].NO_TRACE /\ T.args[2].NO_TRACE
  BY ImplOf DEF IsPointer
<1>2. /\ v[2] \in Values(A)
      /\ T.NO_TRACE => A.NO_TRACE
  BY <1>1
<1>3. /\ T.args[1] \in Types /\ Nesting(T.args[1]) < Nesting(T)
      /\ T.args[2] \in Types /\ Nesting(T.args[2]) < Nesting(T)
  BY <1>1, ArgsAreTypes
<1>4. A \in Types /\ Nesting(A) < Nesting(T)
  BY <1>3
<1>5. CalledBy(T, v) = << <<A, v[2]>> >>
  BY DEF CalledBy
<1>6. Pointees(T, v) = Pointees(A, v[2])
  BY PointeesByLayout DEF LayoutPointees
<1> HIDE DEF A
<1>7. <<A, v[2]>> \in Call
  BY <1>2, <1>4, CallIs
<1>8. HeldBy(CalledBy(T, v)) = Pointees(A, v[2])
  BY <1>5 DEF HeldBy
<1> QED
  BY <1>2, <1>4, <1>5, <1>6, <1>7, <1>8 DEF CallsCover

(***************************************************************************)
(* impl_trace_map: the key and the value of every entry are traced.        *)
(***************************************************************************)
LEMMA EntriesCover ==
  ASSUME NEW T \in Types, NEW v \in Values(T), T.impl = "map"
  PROVE  CallsCover(T, v)
<1> DEFINE A == T.args[1]
           B == T.args[2]
           n == Len(v)
           e(i) == v[(i + 1) \div 2]
           j(i) == 2 - (i % 2)
           s == CalledBy(T, v)
<1>1. /\ T.args = <<A, B>>
      /\ v \in Seq(Values(A) \X Values(B))
      /\ T.NO_TRACE => A.NO_TRACE /\ B.NO_TRACE
  BY ImplOf DEF IsPointer
<1>2. /\ A \in Types /\ Nesting(A) < Nesting(T)
      /\ B \in Types /\ Nesting(B) < Nesting(T)
  BY <1>1, ArgsAreTypes
<1>3. s = [i \in 1..(2 * n) |-> <<T.args[j(i)], e(i)[j(i)]>>]
  BY DEF CalledBy
<1>4. n \in Nat /\ DOMAIN v = 1..n
  BY <1>1
<1>5. \A k \in 1..n : v[k][1] \in Values(A) /\ v[k][2] \in Values(B)
  BY <1>1, <1>4
<1>6. \A i \in 1..(2 * n) : (i + 1) \div 2 \in 1..n /\ j(i) \in {1, 2}
  BY <1>4, KeysAndValues
<1> HIDE DEF s, n
<1>7. DOMAIN s = 1..(2 * n)
  BY <1>3
<1>8. \A i \in 1..(2 * n) :
        \/ j(i) = 1 /\ s[i] = <<A, e(i)[1]>>
        \/ j(i) = 2 /\ s[i] = <<B, e(i)[2]>>
  BY <1>3, <1>6
<1> HIDE DEF j
<1>9. \A i \in 1..(2 * n) : e(i)[1] \in Values(A) /\ e(i)[2] \in Values(B)
  BY <1>5, <1>6
<1> HIDE DEF e
<1>10. \A i \in 1..(2 * n) : s[i] \in Call
  BY <1>2, <1>8, <1>9, CallIs
<1>11. s \in Seq(Call)
  <2>1. s = [i \in 1..(2 * n) |-> s[i]]
    BY <1>3, <1>7
  <2>2. 2 * n \in Nat
    BY <1>4
  <2> QED
    BY <1>10, <2>1, <2>2
<1>12. \A i \in DOMAIN s : /\ Nesting(s[i][1]) < Nesting(T)
                           /\ T.NO_TRACE => s[i][1].NO_TRACE
  BY <1>1, <1>2, <1>7, <1>8
<1>13. Pointees(T, v) = UNION {Pointees(A, v[k][1]) \cup Pointees(B, v[k][2]) :
                                 k \in 1..n}
  BY <1>4, PointeesByLayout DEF LayoutPointees
<1>14. ASSUME NEW x \in HeldBy(s)
       PROVE  x \in Pointees(T, v)
  <2>1. PICK i \in 1..(2 * n) : x \in Pointees(s[i][1], s[i][2])
    BY <1>7 DEF HeldBy
  <2>2. PICK k \in 1..n : e(i) = v[k]
    BY <1>6 DEF e
  <2>3. x \in Pointees(A, v[k][1]) \cup Pointees(B, v[k][2])
    BY <1>8, <2>1, <2>2
  <2> QED
    BY <1>13, <2>3
<1>15. ASSUME NEW x \in Pointees(T, v)
       PROVE  x \in HeldBy(s)
  <2>1. PICK k \in 1..n : x \in Pointees(A, v[k][1]) \cup Pointees(B, v[k][2])
    BY <1>13
  <2>2. /\ 2 * k - 1 \in 1..(2 * n) /\ e(2 * k - 1) = v[k] /\ j(2 * k - 1) = 1
        /\ 2 * k \in 1..(2 * n) /\ e(2 * k) = v[k] /\ j(2 * k) = 2
    BY <1>4, KeysAndValues DEF e, j
  <2>3. s[2 * k - 1] = <<A, v[k][1]>> /\ s[2 * k] = <<B, v[k][2]>>
    BY <1>8, <2>2
  <2> QED
    BY <1>7, <2>1, <2>2, <2>3 DEF HeldBy
<1>16. Pointees(T, v) = HeldBy(s)
  BY <1>14, <1>15
<1> QED
  BY <1>11, <1>12, <1>16 DEF CallsCover, s

(***************************************************************************)
(* Every impl that is not a pointer traces all of its value.               *)
(***************************************************************************)
LEMMA TraceCovers ==
  ASSUME NEW T \in Types, NEW v \in Values(T), ~ IsPointer(T)
  PROVE  CallsCover(T, v)
<1>1. CASE T.impl = "no_trace"
  <2>1. CalledBy(T, v) = <<>>
    BY <1>1 DEF CalledBy
  <2>2. Pointees(T, v) = {}
    BY <1>1, PointeesByLayout DEF LayoutPointees
  <2>3. HeldBy(<<>>) = {}
    BY DEF HeldBy
  <2> QED
    BY <2>1, <2>2, <2>3 DEF CallsCover
<1> QED
  BY <1>1, ImplOf, DerefCovers, ItemsCover, ResultCovers, EntriesCover

(***************************************************************************)
(* A pointer is the one object it refers to.                               *)
(***************************************************************************)
LEMMA PointerHolds ==
  ASSUME NEW T \in Types, NEW v \in Values(T), IsPointer(T)
  PROVE  /\ v \in Objects
         /\ ~ T.NO_TRACE
         /\ Pointees(T, v) = {v}
         /\ CalledBy(T, v) = <<>>
<1>1. v \in Objects /\ T.NO_TRACE = FALSE
  BY ImplOf DEF IsPointer
<1>2. Pointees(T, v) = {v}
  BY PointeesByLayout DEF LayoutPointees, IsPointer
<1>3. CalledBy(T, v) = <<>>
  BY DEF CalledBy, IsPointer
<1> QED
  BY <1>1, <1>2, <1>3

(***************************************************************************)
(* Values refer to objects, and those of a type that is NO_TRACE refer to  *)
(* none, however deep the type is nested: by the least nesting of a type   *)
(* with a value of which that would be wrong.                              *)
(***************************************************************************)
LEMMA NoTraceHoldsNothing ==
  ASSUME NEW T \in Types, NEW v \in Values(T)
  PROVE  /\ Pointees(T, v) \subseteq Objects
         /\ T.NO_TRACE => Pointees(T, v) = {}
<1> DEFINE Good(c) == /\ Pointees(c[1], c[2]) \subseteq Objects
                      /\ c[1].NO_TRACE => Pointees(c[1], c[2]) = {}
           Bad == {c \in Call : ~ Good(c)}
           N == {Nesting(c[1]) : c \in Bad}
<1>1. SUFFICES ASSUME Bad # {} PROVE FALSE
  <2>1. <<T, v>> \in Call
    BY CallIs
  <2>2. Good(<<T, v>>)
    BY <1>1, <2>1
  <2> QED
    BY <2>2
<1>2. N \subseteq Nat /\ N # {}
  BY <1>1, CallIs, TypesAssumption DEF AreTypes
<1> HIDE DEF N
<1>3. PICK n \in N : \A m \in N : n <= m
  BY <1>2, LeastNumber
<1>4. PICK c \in Bad : n = Nesting(c[1])
  BY <1>3 DEF N
<1> DEFINE U == c[1]
           w == c[2]
           s == CalledBy(U, w)
<1>5. U \in Types /\ w \in Values(U) /\ Nesting(U) \in Nat
  BY <1>4, CallIs, TypesAssumption DEF AreTypes
<1>6. ~ Good(c)
  BY <1>4
<1>7. CASE IsPointer(U)
  BY <1>5, <1>6, <1>7, PointerHolds
<1>8. CASE ~ IsPointer(U)
  <2>1. CallsCover(U, w)
    BY <1>5, <1>8, TraceCovers
  <2>2. \A i \in DOMAIN s : s[i] \in Call
    BY <2>1 DEF CallsCover
  <2>3. ASSUME NEW i \in DOMAIN s PROVE Good(s[i])
    <3>1. Nesting(s[i][1]) < Nesting(U)
      BY <2>1 DEF CallsCover
    <3>2. Nesting(s[i][1]) \in Nat
      BY <2>2, CallIs, TypesAssumption DEF AreTypes
    <3>3. Nesting(s[i][1]) \notin N
      BY <1>3, <1>4, <1>5, <3>1, <3>2
    <3> QED
      BY <2>2, <3>3 DEF N
  <2>4. Pointees(U, w) = UNION {Pointees(s[i][1], s[i][2]) : i \in DOMAIN s}
    BY <2>1 DEF CallsCover, HeldBy
  <2>5. Pointees(U, w) \subseteq Objects
    BY <2>3, <2>4
  <2>6. U.NO_TRACE => Pointees(U, w) = {}
    <3>1. ASSUME U.NO_TRACE, NEW i \in DOMAIN s
          PROVE  Pointees(s[i][1], s[i][2]) = {}
      <4>1. s[i][1].NO_TRACE
        BY <2>1, <3>1 DEF CallsCover
      <4> QED
        BY <2>3, <4>1
    <3> HIDE DEF s
    <3> QED
      BY <2>4, <3>1
  <2> QED
    BY <1>6, <2>5, <2>6
<1> QED
  BY <1>7, <1>8

-----------------------------------------------------------------------------

(***************************************************************************)
(* The inductive invariant.  The types of the variables: the heap follows  *)
(* its types, and the calls are of trace with values of their types.       *)
(***************************************************************************)
TypeInv ==
  /\ WellTyped([type |-> type, data |-> data], Types)
  /\ barrier \in BOOLEAN
  /\ color \in [Objects -> {"White", "Gray", "Black"}]
  /\ queue \in Seq(Objects)
  /\ tracing \in Objects \cup {"none"}
  /\ calls \in Seq(Call)

(***************************************************************************)
(* Nothing is marked, queued or about to be marked that is not reached.    *)
(***************************************************************************)
OnlyReached ==
  /\ \A o \in Objects : color[o] # "White" => o \in Reached
  /\ \A i \in DOMAIN queue : queue[i] \in Reached
  /\ tracing # "none" => tracing \in Reached
  /\ HeldBy(calls) \subseteq Reached

(***************************************************************************)
(* What is gray waits in the queue or is being scanned.                    *)
(***************************************************************************)
GrayIsPending ==
  \A o \in Objects : color[o] = "Gray" =>
    o = tracing \/ \E i \in DOMAIN queue : queue[i] = o

(***************************************************************************)
(* What the roots and the object under scan refer to is marked, or the     *)
(* calls that have not returned will mark it.                              *)
(***************************************************************************)
InHand(S) == \A x \in S : color[x] # "White" \/ x \in HeldBy(calls)

ScanInHand ==
  /\ InHand(Roots)
  /\ tracing # "none" => InHand(Holds(tracing))

ShapeInv ==
  TypeInv /\ OnlyReached /\ GrayIsPending /\ ScanInHand /\ BlackIsScanned

(***************************************************************************)
(* The data of an object refers to objects, and to none if the object's    *)
(* type is NO_TRACE.                                                       *)
(***************************************************************************)
LEMMA HoldsObjects ==
  ASSUME TypeInv, NEW o \in Objects
  PROVE  /\ type[o] \in Types /\ data[o] \in Values(type[o])
         /\ Holds(o) \subseteq Objects
         /\ type[o].NO_TRACE => Holds(o) = {}
<1>1. type[o] \in Types /\ data[o] \in Values(type[o])
  BY DEF TypeInv, WellTyped
<1> QED
  BY <1>1, NoTraceHoldsNothing DEF Holds

(***************************************************************************)
(* The reached objects have the roots and are closed, and so are the least *)
(* such set.                                                               *)
(***************************************************************************)
LEMMA ReachedIsClosed ==
  ASSUME TypeInv
  PROVE  /\ Reached \subseteq Objects
         /\ Roots \subseteq Reached
         /\ \A o \in Reached : Holds(o) \subseteq Reached
<1>1. Reached \subseteq Objects
  BY DEF Reached
<1>2. Roots \subseteq Objects
  BY HoldsObjects, ObjectsAssumption DEF Roots
<1>3. Roots \subseteq Reached
  BY <1>2 DEF Reached
<1>4. ASSUME NEW o \in Reached, NEW x \in Holds(o)
      PROVE  x \in Reached
  <2>1. x \in Objects
    BY <1>1, <1>4, HoldsObjects
  <2>2. ASSUME NEW S \in SUBSET Objects, Roots \subseteq S, IsClosed(S)
        PROVE  x \in S
    BY <1>4, <2>2 DEF Reached, IsClosed
  <2> QED
    BY <2>1, <2>2 DEF Reached
<1> QED
  BY <1>1, <1>3, <1>4

(***************************************************************************)
(* What is reached depends on the heap alone, which no step changes.       *)
(***************************************************************************)
LEMMA HeapIsKept ==
  ASSUME UNCHANGED <<type, data, barrier>>
  PROVE  /\ Reached' = Reached
         /\ Roots' = Roots
         /\ \A o : Holds(o)' = Holds(o)
         /\ WellTyped([type |-> type, data |-> data], Types)'
              <=> WellTyped([type |-> type, data |-> data], Types)
<1>1. \A o : Holds(o)' = Holds(o)
  BY DEF Holds
<1>2. Roots' = Roots
  BY DEF Roots, Holds
<1>3. Reached' = Reached
  BY DEF Reached, IsClosed, Roots, Holds
<1>4. WellTyped([type |-> type, data |-> data], Types)'
        <=> WellTyped([type |-> type, data |-> data], Types)
  BY DEF WellTyped
<1> QED
  BY <1>1, <1>2, <1>3, <1>4

(***************************************************************************)
(* What the calls of two sequences hold, and what the first call holds.    *)
(***************************************************************************)
LEMMA HeldByCalls ==
  ASSUME NEW s \in Seq(Call), NEW t \in Seq(Call)
  PROVE  /\ HeldBy(s \o t) = HeldBy(s) \cup HeldBy(t)
         /\ s # <<>> => /\ s[1] \in Call /\ Tail(s) \in Seq(Call)
                        /\ HeldBy(s) = Pointees(s[1][1], s[1][2])
                                          \cup HeldBy(Tail(s))
<1>1. HeldBy(s \o t) = HeldBy(s) \cup HeldBy(t)
  <2>1. ASSUME NEW x \in HeldBy(s \o t)
        PROVE  x \in HeldBy(s) \cup HeldBy(t)
    <3>1. PICK i \in DOMAIN (s \o t) :
                 x \in Pointees((s \o t)[i][1], (s \o t)[i][2])
      BY <2>1 DEF HeldBy
    <3>2. \/ i \in DOMAIN s /\ (s \o t)[i] = s[i]
          \/ i - Len(s) \in DOMAIN t /\ (s \o t)[i] = t[i - Len(s)]
      OBVIOUS
    <3> QED
      BY <3>1, <3>2 DEF HeldBy
  <2>2. ASSUME NEW x \in HeldBy(s)
        PROVE  x \in HeldBy(s \o t)
    <3>1. PICK i \in DOMAIN s : x \in Pointees(s[i][1], s[i][2])
      BY <2>2 DEF HeldBy
    <3>2. i \in DOMAIN (s \o t) /\ (s \o t)[i] = s[i]
      OBVIOUS
    <3> QED
      BY <3>1, <3>2 DEF HeldBy
  <2>3. ASSUME NEW x \in HeldBy(t)
        PROVE  x \in HeldBy(s \o t)
    <3>1. PICK i \in DOMAIN t : x \in Pointees(t[i][1], t[i][2])
      BY <2>3 DEF HeldBy
    <3>2. /\ i + Len(s) \in DOMAIN (s \o t)
          /\ (s \o t)[i + Len(s)] = t[i]
      OBVIOUS
    <3> QED
      BY <3>1, <3>2 DEF HeldBy
  <2> QED
    BY <2>1, <2>2, <2>3
<1>2. ASSUME s # <<>>
      PROVE  /\ s[1] \in Call /\ Tail(s) \in Seq(Call)
             /\ HeldBy(s) = Pointees(s[1][1], s[1][2]) \cup HeldBy(Tail(s))
  <2>1. s[1] \in Call /\ Tail(s) \in Seq(Call) /\ 1 \in DOMAIN s
    BY <1>2
  <2>2. ASSUME NEW x \in HeldBy(s)
        PROVE  x \in Pointees(s[1][1], s[1][2]) \cup HeldBy(Tail(s))
    <3>1. PICK i \in DOMAIN s : x \in Pointees(s[i][1], s[i][2])
      BY <2>2 DEF HeldBy
    <3>2. i = 1 \/ (i - 1 \in DOMAIN Tail(s) /\ Tail(s)[i - 1] = s[i])
      BY <1>2
    <3> QED
      BY <3>1, <3>2 DEF HeldBy
  <2>3. ASSUME NEW x \in HeldBy(Tail(s))
        PROVE  x \in HeldBy(s)
    <3>1. PICK i \in DOMAIN Tail(s) :
                 x \in Pointees(Tail(s)[i][1], Tail(s)[i][2])
      BY <2>3 DEF HeldBy
    <3>2. i + 1 \in DOMAIN s /\ Tail(s)[i] = s[i + 1]
      BY <1>2
    <3> QED
      BY <3>1, <3>2 DEF HeldBy
  <2>4. Pointees(s[1][1], s[1][2]) \subseteq HeldBy(s)
    BY <2>1 DEF HeldBy
  <2> QED
    BY <2>1, <2>2, <2>3, <2>4
<1> QED
  BY <1>1, <1>2

(***************************************************************************)
(* The trace starts with the box in the queue, or with the barrier's call  *)
(* for the value.                                                          *)
(***************************************************************************)
LEMMA InitShapeInv ==
  ASSUME Init
  PROVE  ShapeInv
<1>1. TypeInv
  <2>1. \E T \in Types : \E v \in Values(T) : \E h \in HeapsWith(T, v) :
          type = h.type /\ data = h.data
    BY DEF Init
  <2>2. PICK h : WellTyped(h, Types) /\ type = h.type /\ data = h.data
    BY <2>1, TypesAssumption DEF AreTypes
  <2>3. WellTyped([type |-> type, data |-> data], Types)
    BY <2>2 DEF WellTyped
  <2>4. <<type[box], data[box]>> \in Call
    BY <2>3, CallIs, ObjectsAssumption DEF WellTyped
  <2>5. barrier \in BOOLEAN
    BY DEF Init
  <2>6. calls \in Seq(Call)
    BY <2>4, <2>5 DEF Init
  <2>7. queue \in Seq(Objects)
    BY <2>5, ObjectsAssumption DEF Init
  <2>8. color \in [Objects -> {"White", "Gray", "Black"}]
    BY DEF Init
  <2> QED
    BY <2>3, <2>5, <2>6, <2>7, <2>8 DEF TypeInv, Init
<1>2. barrier => HeldBy(calls) = Holds(box)
  BY DEF Init, HeldBy, Holds
<1>3. ~ barrier => HeldBy(calls) = {}
  BY DEF Init, HeldBy
<1>4. /\ \A o \in Objects : color[o] # "White" => ~ barrier /\ o = box
      /\ \A o \in Objects : color[o] # "Black"
      /\ ~ barrier => queue = <<box>> /\ color[box] = "Gray"
      /\ barrier => queue = <<>>
      /\ tracing = "none"
  BY ObjectsAssumption DEF Init
<1>5. OnlyReached
  <2>1. Roots \subseteq Reached
    BY <1>1, ReachedIsClosed
  <2>2. CASE barrier
    BY <1>2, <1>4, <2>1, <2>2 DEF OnlyReached, Roots
  <2>3. CASE ~ barrier
    BY <1>3, <1>4, <2>1, <2>3 DEF OnlyReached, Roots
  <2> QED
    BY <2>2, <2>3
<1>6. GrayIsPending
  BY <1>4 DEF GrayIsPending
<1>7. ScanInHand
  BY <1>2, <1>4 DEF ScanInHand, InHand, Roots
<1>8. BlackIsScanned
  BY <1>4 DEF BlackIsScanned
<1> QED
  BY <1>1, <1>5, <1>6, <1>7, <1>8 DEF ShapeInv

(***************************************************************************)
(* Objects are only ever marked: what is in hand stays in hand if what     *)
(* leaves the calls is marked.                                             *)
(***************************************************************************)
LEMMA InHandIsKept ==
  ASSUME NEW S, S \subseteq Objects, InHand(S),
         \A x \in Objects : color[x] # "White" => color'[x] # "White",
         \A x \in HeldBy(calls) : x \in HeldBy(calls') \/ color'[x] # "White"
  PROVE  \A x \in S : color'[x] # "White" \/ x \in HeldBy(calls')
BY DEF InHand

(***************************************************************************)
(* A call of trace marks its pointer, or hands on to the calls for all     *)
(* parts of its value, and marks nothing else.                             *)
(***************************************************************************)
LEMMA TraceStep ==
  ASSUME TypeInv, Trace
  PROVE  /\ TypeInv'
         /\ \A x \in HeldBy(calls) : x \in HeldBy(calls') \/ color'[x] # "White"
         /\ HeldBy(calls') \subseteq HeldBy(calls)
         /\ \/ UNCHANGED <<color, queue>>
            \/ \E v \in HeldBy(calls) \cap Objects :
                 /\ color[v] = "White"
                 /\ color' = [color EXCEPT ![v] = "Gray"]
                 /\ queue' = Append(queue, v)
            \/ \E v \in HeldBy(calls) \cap Objects :
                 /\ type[v].NO_TRACE
                 /\ color' = [color EXCEPT ![v] = "Black"]
                 /\ queue' = queue
<1> DEFINE T == calls[1][1]
           v == calls[1][2]
<1>1. /\ calls # <<>> /\ calls \in Seq(Call)
      /\ calls' = CalledBy(T, v) \o Tail(calls)
      /\ UNCHANGED <<type, data, barrier, tracing>>
  BY DEF Trace, TypeInv
<1>2. /\ calls[1] \in Call /\ Tail(calls) \in Seq(Call)
      /\ HeldBy(calls) = Pointees(T, v) \cup HeldBy(Tail(calls))
  BY <1>1, HeldByCalls
<1>3. T \in Types /\ v \in Values(T)
  BY <1>2, CallIs
<1>4. \/ /\ T.impl = "ptr" /\ color[v] = "White"
         /\ color' = [color EXCEPT ![v] = "Gray"]
         /\ queue' = Append(queue, v)
      \/ /\ T.impl = "ptr" => color[v] # "White"
         /\ color' = IF T.impl = "ptr_no_trace"
                     THEN [color EXCEPT ![v] = "Black"] ELSE color
         /\ queue' = queue
  BY DEF Trace
<1>5. /\ color \in [Objects -> {"White", "Gray", "Black"}]
      /\ queue \in Seq(Objects)
  BY DEF TypeInv
<1> HIDE DEF T, v
<1>6. CASE ~ IsPointer(T)
  <2>1. CallsCover(T, v)
    BY <1>3, <1>6, TraceCovers
  <2>2. calls' \in Seq(Call)
    BY <1>1, <1>2, <2>1 DEF CallsCover
  <2>3. HeldBy(calls') = HeldBy(calls)
    BY <1>1, <1>2, <2>1, HeldByCalls DEF CallsCover
  <2>4. UNCHANGED <<color, queue>>
    BY <1>4, <1>6 DEF IsPointer
  <2>5. TypeInv'
    BY <1>1, <2>2, <2>4, HeapIsKept DEF TypeInv
  <2> QED
    BY <2>3, <2>4, <2>5
<1>7. CASE IsPointer(T)
  <2>1. /\ v \in Objects
        /\ Pointees(T, v) = {v}
        /\ CalledBy(T, v) = <<>>
    BY <1>3, <1>7, PointerHolds
  <2>2. calls' = Tail(calls)
    BY <1>1, <1>2, <2>1
  <2>3. T.impl = "ptr_no_trace" => type[v].NO_TRACE
    <3>1. SUFFICES ASSUME T.impl = "ptr_no_trace" PROVE type[v].NO_TRACE
      OBVIOUS
    <3>2. T = GcPtrTo(TRUE)
      <4>1. IsShape(T)
        BY <1>3, TypesAssumption DEF AreTypes
      <4> QED
        BY <3>1, <4>1 DEF IsShape, impl_no_trace, GcPtrTo, impl_trace_deref,
          Traced, impl_trace_iterable, OptionOf, impl_trace_map, ResultOf
    <3>3. \A w \in Values(GcPtrTo(TRUE)) : type[w].NO_TRACE = TRUE
      BY <1>3, <3>2 DEF TypeInv, WellTyped
    <3> QED
      BY <1>3, <3>2, <3>3
  <2>4. color'[v] # "White"
    BY <1>4, <1>5, <1>7, <2>1 DEF IsPointer
  <2>5. \/ UNCHANGED <<color, queue>>
        \/ /\ color[v] = "White"
           /\ color' = [color EXCEPT ![v] = "Gray"]
           /\ queue' = Append(queue, v)
        \/ /\ type[v].NO_TRACE
           /\ color' = [color EXCEPT ![v] = "Black"]
           /\ queue' = queue
    BY <1>4, <1>7, <2>3 DEF IsPointer
  <2>6. TypeInv'
    <3>1. color' \in [Objects -> {"White", "Gray", "Black"}]
      BY <1>5, <2>1, <2>5
    <3>2. queue' \in Seq(Objects)
      BY <1>5, <2>1, <2>5
    <3> QED
      BY <1>1, <1>2, <2>2, <3>1, <3>2, HeapIsKept DEF TypeInv
  <2>7. \A x \in HeldBy(calls) : x \in HeldBy(calls') \/ color'[x] # "White"
    BY <1>2, <2>1, <2>2, <2>4
  <2>8. HeldBy(calls') \subseteq HeldBy(calls) /\ v \in HeldBy(calls) \cap Objects
    BY <1>2, <2>1, <2>2
  <2> QED
    BY <2>5, <2>6, <2>7, <2>8
<1> QED
  BY <1>6, <1>7

(***************************************************************************)
(* A call of trace keeps the invariant.                                    *)
(***************************************************************************)
LEMMA TraceKeepsShapeInv ==
  ASSUME ShapeInv, Trace
  PROVE  ShapeInv'
<1>1. TypeInv
  BY DEF ShapeInv
<1>2. UNCHANGED <<type, data, barrier, tracing>>
  BY DEF Trace
<1>3. /\ TypeInv'
      /\ \A x \in HeldBy(calls) : x \in HeldBy(calls') \/ color'[x] # "White"
      /\ HeldBy(calls') \subseteq HeldBy(calls)
  BY <1>1, TraceStep
<1>4. \/ UNCHANGED <<color, queue>>
      \/ \E v \in HeldBy(calls) \cap Objects :
           /\ color[v] = "White"
           /\ color' = [color EXCEPT ![v] = "Gray"]
           /\ queue' = Append(queue, v)
      \/ \E v \in HeldBy(calls) \cap Objects :
           /\ type[v].NO_TRACE
           /\ color' = [color EXCEPT ![v] = "Black"]
           /\ queue' = queue
  BY <1>1, TraceStep
<1>5. /\ color \in [Objects -> {"White", "Gray", "Black"}]
      /\ queue \in Seq(Objects)
  BY <1>1 DEF TypeInv
<1>6. /\ Reached' = Reached /\ Roots' = Roots
      /\ \A o : Holds(o)' = Holds(o)
  BY <1>2, HeapIsKept
<1>7. /\ \A x \in Objects : color[x] # "White" => color'[x] # "White"
      /\ \A x \in Objects : color'[x] # "White" =>
            color[x] # "White" \/ x \in HeldBy(calls)
      /\ \A x \in Objects : color'[x] = "Black" =>
            color[x] = "Black" \/ Holds(x) = {}
  BY <1>1, <1>4, <1>5, HoldsObjects
<1>8. OnlyReached'
  <2>1. /\ \A o \in Objects : color[o] # "White" => o \in Reached
        /\ \A i \in DOMAIN queue : queue[i] \in Reached
        /\ tracing # "none" => tracing \in Reached
        /\ HeldBy(calls) \subseteq Reached
    BY DEF ShapeInv, OnlyReached
  <2>2. \A o \in Objects : color'[o] # "White" => o \in Reached
    BY <1>7, <2>1
  <2>3. \A i \in DOMAIN queue' : queue'[i] \in Reached
    BY <1>4, <1>5, <2>1
  <2> QED
    BY <1>2, <1>3, <1>6, <2>1, <2>2, <2>3 DEF OnlyReached
<1>9. GrayIsPending'
  <2>1. ASSUME NEW o \in Objects, color'[o] = "Gray"
        PROVE  o = tracing' \/ \E i \in DOMAIN queue' : queue'[i] = o
    <3>1. CASE UNCHANGED <<color, queue>>
      BY <1>2, <2>1, <3>1 DEF ShapeInv, GrayIsPending
    <3>2. ASSUME NEW v \in Objects,
                 color' = [color EXCEPT ![v] = "Gray"],
                 queue' = Append(queue, v)
          PROVE  o = tracing' \/ \E i \in DOMAIN queue' : queue'[i] = o
      <4>1. /\ DOMAIN queue \subseteq DOMAIN queue'
            /\ \A i \in DOMAIN queue : queue'[i] = queue[i]
            /\ Len(queue') \in DOMAIN queue' /\ queue'[Len(queue')] = v
        BY <1>5, <3>2
      <4>2. o = v \/ color[o] = "Gray"
        BY <1>5, <2>1, <3>2
      <4> QED
        BY <1>2, <4>1, <4>2 DEF ShapeInv, GrayIsPending
    <3>3. ASSUME NEW v \in Objects,
                 color' = [color EXCEPT ![v] = "Black"],
                 queue' = queue
          PROVE  o = tracing' \/ \E i \in DOMAIN queue' : queue'[i] = o
      <4>1. color[o] = "Gray"
        BY <1>5, <2>1, <3>3
      <4> QED
        BY <1>2, <3>3, <4>1 DEF ShapeInv, GrayIsPending
    <3> QED
      BY <1>4, <3>1, <3>2, <3>3
  <2> QED
    BY <2>1 DEF GrayIsPending
<1>10. ScanInHand'
  <2>1. InHand(Roots) /\ Roots \subseteq Objects
    BY <1>1, ReachedIsClosed DEF ShapeInv, ScanInHand
  <2>2. \A x \in Roots : color'[x] # "White" \/ x \in HeldBy(calls')
    BY <1>3, <1>7, <2>1, InHandIsKept
  <2>3. ASSUME tracing # "none"
        PROVE  \A x \in Holds(tracing) :
                 color'[x] # "White" \/ x \in HeldBy(calls')
    <3>1. InHand(Holds(tracing)) /\ Holds(tracing) \subseteq Objects
      BY <1>1, <2>3, HoldsObjects DEF ShapeInv, ScanInHand, TypeInv
    <3> QED
      BY <1>3, <1>7, <3>1, InHandIsKept
  <2>4. Holds(tracing)' = Holds(tracing)
    BY <1>2 DEF Holds
  <2> QED
    BY <1>2, <1>6, <2>2, <2>3, <2>4 DEF ScanInHand, InHand
<1>11. BlackIsScanned'
  <2>1. ASSUME NEW o \in Objects, color'[o] = "Black", NEW x \in Holds(o)
        PROVE  color'[x] # "White"
    <3>1. color[o] = "Black"
      BY <1>7, <2>1
    <3>2. color[x] # "White" /\ x \in Objects
      BY <1>1, <2>1, <3>1, HoldsObjects DEF ShapeInv, BlackIsScanned
    <3> QED
      BY <1>7, <3>2
  <2> QED
    BY <1>6, <2>1 DEF BlackIsScanned
<1> QED
  BY <1>3, <1>8, <1>9, <1>10, <1>11 DEF ShapeInv

(***************************************************************************)
(* Taking an object out of the queue starts its scan.                      *)
(***************************************************************************)
LEMMA PopWorkKeepsShapeInv ==
  ASSUME ShapeInv, PopWork
  PROVE  ShapeInv'
<1> DEFINE o == queue[Len(queue)]
<1>1. /\ TypeInv
      /\ calls = <<>> /\ tracing = "none" /\ queue # <<>>
      /\ UNCHANGED <<type, data, barrier, color>>
  BY DEF ShapeInv, PopWork
<1>2. /\ queue \in Seq(Objects)
      /\ queue' = SubSeq(queue, 1, Len(queue) - 1)
  BY <1>1 DEF PopWork, TypeInv
<1>3. /\ Len(queue) \in DOMAIN queue
      /\ o \in Objects
      /\ queue' \in Seq(Objects)
      /\ DOMAIN queue' = 1..(Len(queue) - 1)
      /\ \A i \in DOMAIN queue' : queue'[i] = queue[i]
      /\ DOMAIN queue = DOMAIN queue' \cup {Len(queue)}
  <2>1. Len(queue) \in Nat /\ Len(queue) >= 1 /\ DOMAIN queue = 1..Len(queue)
    BY <1>1, <1>2
  <2>2. /\ queue' \in Seq(Objects) /\ Len(queue') = Len(queue) - 1
        /\ \A i \in 1..(Len(queue) - 1) : queue'[i] = queue[i]
    BY <1>2, <2>1
  <2>3. DOMAIN queue' = 1..(Len(queue) - 1)
    BY <2>2
  <2>4. 1..Len(queue) = (1..(Len(queue) - 1)) \cup {Len(queue)}
    BY <2>1
  <2> QED
    BY <1>2, <2>1, <2>2, <2>3, <2>4
<1> HIDE DEF o
<1>4. tracing' = o /\ calls' = VtableTrace(o)
  BY DEF PopWork, o
<1>5. /\ Reached' = Reached /\ Roots' = Roots
      /\ \A x : Holds(x)' = Holds(x)
      /\ Holds(tracing)' = Holds(o)
  BY <1>1, <1>4, HeapIsKept DEF Holds
<1>6. /\ type[o] \in Types /\ data[o] \in Values(type[o])
      /\ type[o].NO_TRACE => Holds(o) = {}
  BY <1>1, <1>3, HoldsObjects
<1>7. calls' \in Seq(Call) /\ HeldBy(calls') = Holds(o)
  <2>1. CASE type[o].NO_TRACE
    BY <1>4, <1>6, <2>1 DEF VtableTrace, HeldBy
  <2>2. CASE ~ type[o].NO_TRACE
    <3>1. calls' = << <<type[o], data[o]>> >>
      BY <1>4, <2>2 DEF VtableTrace
    <3>2. <<type[o], data[o]>> \in Call
      BY <1>6, CallIs
    <3> QED
      BY <3>1, <3>2 DEF HeldBy, Holds
  <2> QED
    BY <2>1, <2>2
<1>8. HeldBy(calls) = {}
  BY <1>1 DEF HeldBy
<1>9. TypeInv'
  BY <1>1, <1>3, <1>4, <1>7, HeapIsKept DEF TypeInv
<1>10. OnlyReached'
  <2>1. /\ \A x \in Objects : color[x] # "White" => x \in Reached
        /\ \A i \in DOMAIN queue : queue[i] \in Reached
    BY DEF ShapeInv, OnlyReached
  <2>2. o \in Reached
    BY <1>3, <2>1 DEF o
  <2>3. Holds(o) \subseteq Reached
    BY <1>1, <2>2, ReachedIsClosed
  <2> QED
    BY <1>1, <1>3, <1>4, <1>5, <1>7, <2>1, <2>2, <2>3 DEF OnlyReached
<1>11. GrayIsPending'
  <2>1. ASSUME NEW x \in Objects, color[x] = "Gray"
        PROVE  x = o \/ \E i \in DOMAIN queue' : queue'[i] = x
    <3>1. x # tracing
      BY <1>1, ObjectsAssumption
    <3>2. PICK i \in DOMAIN queue : queue[i] = x
      BY <2>1, <3>1 DEF ShapeInv, GrayIsPending
    <3> QED
      BY <1>3, <3>2 DEF o
  <2> QED
    BY <1>1, <1>4, <2>1 DEF GrayIsPending
<1>12. ScanInHand'
  <2>1. \A x \in Roots : color[x] # "White"
    BY <1>8 DEF ShapeInv, ScanInHand, InHand
  <2> QED
    BY <1>1, <1>5, <1>7, <2>1 DEF ScanInHand, InHand
<1>13. BlackIsScanned'
  BY <1>1, <1>5 DEF ShapeInv, BlackIsScanned
<1> QED
  BY <1>9, <1>10, <1>11, <1>12, <1>13 DEF ShapeInv

(***************************************************************************)
(* An object turns black when its scan has returned.                       *)
(***************************************************************************)
LEMMA MarkBlackKeepsShapeInv ==
  ASSUME ShapeInv, MarkBlack
  PROVE  ShapeInv'
<1>1. /\ TypeInv
      /\ calls = <<>> /\ tracing # "none"
      /\ color' = [color EXCEPT ![tracing] = "Black"] /\ tracing' = "none"
      /\ UNCHANGED <<type, data, barrier, queue, calls>>
  BY DEF ShapeInv, MarkBlack
<1>2. /\ color \in [Objects -> {"White", "Gray", "Black"}]
      /\ tracing \in Objects
  BY <1>1 DEF TypeInv
<1>3. /\ Reached' = Reached /\ Roots' = Roots
      /\ \A x : Holds(x)' = Holds(x)
  BY <1>1, HeapIsKept
<1>4. HeldBy(calls) = {} /\ HeldBy(calls') = {}
  BY <1>1 DEF HeldBy
<1>5. TypeInv'
  BY <1>1, <1>2, HeapIsKept DEF TypeInv
<1>6. /\ \A x \in Objects : color[x] # "White" => color'[x] # "White"
      /\ \A x \in Objects : x # tracing => color'[x] = color[x]
  BY <1>1, <1>2
<1>7. OnlyReached'
  <2>1. \A x \in Objects : color'[x] # "White" => x \in Reached
    BY <1>1, <1>6 DEF ShapeInv, OnlyReached
  <2> QED
    BY <1>1, <1>3, <1>4, <2>1 DEF ShapeInv, OnlyReached
<1>8. GrayIsPending'
  BY <1>1, <1>2 DEF ShapeInv, GrayIsPending
<1>9. ScanInHand'
  <2>1. \A x \in Roots : color[x] # "White" /\ x \in Objects
    BY <1>1, <1>4, ReachedIsClosed DEF ShapeInv, ScanInHand, InHand
  <2> QED
    BY <1>1, <1>3, <1>6, <2>1 DEF ScanInHand, InHand
<1>10. BlackIsScanned'
  <2>1. ASSUME NEW o \in Objects, color'[o] = "Black", NEW x \in Holds(o)
        PROVE  color'[x] # "White"
    <3>1. x \in Objects
      BY <1>1, <2>1, HoldsObjects
    <3>2. CASE o = tracing
      BY <1>1, <1>4, <1>6, <2>1, <3>1, <3>2 DEF ShapeInv, ScanInHand, InHand
    <3>3. CASE o # tracing
      BY <1>6, <2>1, <3>1, <3>3 DEF ShapeInv, BlackIsScanned
    <3> QED
      BY <3>2, <3>3
  <2> QED
    BY <1>3, <2>1 DEF BlackIsScanned
<1> QED
  BY <1>5, <1>7, <1>8, <1>9, <1>10 DEF ShapeInv

(***************************************************************************)
(* Every step of a trace keeps the invariant.                              *)
(***************************************************************************)
LEMMA StepKeepsShapeInv ==
  ASSUME ShapeInv, [Next]_vars
  PROVE  ShapeInv'
<1>1. CASE UNCHANGED vars
  <2>1. /\ UNCHANGED <<type, data, barrier>>
        /\ UNCHANGED <<color, queue, tracing, calls>>
    BY <1>1 DEF vars
  <2>2. /\ Reached' = Reached /\ Roots' = Roots
        /\ \A x : Holds(x)' = Holds(x)
        /\ Holds(tracing)' = Holds(tracing)
    BY <2>1, HeapIsKept DEF Holds
  <2>3. TypeInv'
    BY <2>1, HeapIsKept DEF ShapeInv, TypeInv
  <2>4. OnlyReached' /\ GrayIsPending'
    BY <2>1, <2>2 DEF ShapeInv, OnlyReached, GrayIsPending
  <2>5. ScanInHand' /\ BlackIsScanned'
    BY <2>1, <2>2 DEF ShapeInv, ScanInHand, InHand, BlackIsScanned
  <2> QED
    BY <2>3, <2>4, <2>5 DEF ShapeInv
<1> QED
  BY <1>1, TraceKeepsShapeInv, PopWorkKeepsShapeInv, MarkBlackKeepsShapeInv
     DEF Next

(***************************************************************************)
(* The invariant holds throughout.                                         *)
(***************************************************************************)
LEMMA ShapeInvariant ==
  Spec => []ShapeInv
<1>1. Init => ShapeInv
  BY InitShapeInv
<1>2. ShapeInv /\ [Next]_vars => ShapeInv'
  BY StepKeepsShapeInv
<1> QED
  BY <1>1, <1>2, PTL DEF Spec

(***************************************************************************)
(* A black object has been scanned in full, for every type built from the  *)
(* impls of trace.rs, however deep, every value of it and every heap.      *)
(***************************************************************************)
THEOREM ScansAreComplete ==
  Spec => []BlackIsScanned
<1>1. ShapeInv => BlackIsScanned
  BY DEF ShapeInv
<1> QED
  BY <1>1, ShapeInvariant, PTL

(***************************************************************************)
(* When nothing is left to trace, black is exactly what the box, or the    *)
(* value the barrier shades, leads to.                                     *)
(***************************************************************************)
THEOREM TraceIsExact ==
  Spec => []MarksExactly
<1>1. ASSUME ShapeInv, Done
      PROVE  {o \in Objects : color[o] = "Black"} = Reached
  <2> DEFINE B == {o \in Objects : color[o] = "Black"}
  <2>1. TypeInv /\ calls = <<>> /\ tracing = "none" /\ queue = <<>>
    BY <1>1 DEF ShapeInv, Done
  <2>2. \A o \in Objects : color[o] # "Gray"
    <3>1. ~ \E i \in DOMAIN queue : TRUE
      BY <2>1
    <3>2. \A o \in Objects : o # tracing
      BY <2>1, ObjectsAssumption
    <3> QED
      BY <1>1, <3>1, <3>2 DEF ShapeInv, GrayIsPending
  <2>3. \A o \in Objects : color[o] # "White" => o \in B
    BY <2>1, <2>2 DEF TypeInv
  <2>4. B \subseteq Reached
    BY <1>1 DEF ShapeInv, OnlyReached
  <2>5. Roots \subseteq B
    <3>1. HeldBy(calls) = {}
      BY <2>1 DEF HeldBy
    <3>2. \A x \in Roots : x \in Objects /\ color[x] # "White"
      BY <1>1, <2>1, <3>1, ReachedIsClosed DEF ShapeInv, ScanInHand, InHand
    <3> QED
      BY <2>3, <3>2
  <2>6. IsClosed(B)
    <3>1. ASSUME NEW o \in B, NEW x \in Holds(o) PROVE x \in B
      <4>1. x \in Objects
        BY <2>1, HoldsObjects
      <4>2. color[x] # "White"
        BY <1>1 DEF ShapeInv, BlackIsScanned
      <4> QED
        BY <2>3, <4>1, <4>2
    <3> QED
      BY <3>1 DEF IsClosed
  <2>7. Reached \subseteq B
    <3>1. B \in SUBSET Objects
      OBVIOUS
    <3> HIDE DEF B
    <3> QED
      BY <2>5, <2>6, <3>1 DEF Reached
  <2> QED
    BY <2>4, <2>7
<1>2. ShapeInv => MarksExactly
  BY <1>1 DEF MarksExactly
<1> QED
  BY <1>2, ShapeInvariant, PTL

=============================================================================
