--------------------------- MODULE ProgramProofs ----------------------------
(***************************************************************************)
(* What holds of a program with any number of heaps and threads.           *)
(***************************************************************************)
EXTENDS Program, TLAPS

USE DEF heapVars, cycleVars, threadVars, Collectors

(***************************************************************************)
(* Whatever Arcs and background threads are left, Drop for Heap and the    *)
(* drop of the StartStopJoinHandle keep the types.                         *)
(***************************************************************************)
LEMMA OwnType ==
  ASSUME TypeOK,
         NEW as \in [Threads -> SUBSET Heaps],
         NEW cs \in [Threads -> SUBSET Heaps],
         NEW rs \in [Heaps -> SUBSET (1..MaxStarts)],
         Own(as, cs, rs)
  PROVE  /\ heap' \in [Heaps -> {"unborn", "alive", "dropped"}]
         /\ arcs' \in [Threads -> SUBSET Heaps]
         /\ contexts' \in [Threads -> SUBSET Heaps]
         /\ running' \in [Heaps -> SUBSET (1..MaxStarts)]
         /\ bg_thread' \in [Heaps -> [counter : 0..MaxStarts,
                                      handle  : 0..MaxStarts]]
<1> DEFINE gone == {h \in Heaps : /\ heap[h] = "alive" /\ rs[h] = {}
                                  /\ \A t \in Threads : h \notin as[t] \cup cs[t]}
<1>1. /\ arcs' = as /\ contexts' = cs /\ running' = rs
      /\ heap' = [h \in Heaps |-> IF h \in gone THEN "dropped" ELSE heap[h]]
      /\ bg_thread' = [h \in Heaps |->
                         IF h \in gone THEN [bg_thread[h] EXCEPT !.handle = 0]
                                       ELSE bg_thread[h]]
  BY DEF Own
<1>2. heap' \in [Heaps -> {"unborn", "alive", "dropped"}]
  BY <1>1 DEF TypeOK
<1>3. \A h \in Heaps : [bg_thread[h] EXCEPT !.handle = 0]
                         \in [counter : 0..MaxStarts, handle : 0..MaxStarts]
  <2> TAKE h \in Heaps
  <2>1. 0 \in 0..MaxStarts
    BY ProgramAssumption
  <2>2. bg_thread[h] \in [counter : 0..MaxStarts, handle : 0..MaxStarts]
    BY DEF TypeOK
  <2> QED
    BY <2>1, <2>2
<1>4. bg_thread' \in [Heaps -> [counter : 0..MaxStarts, handle : 0..MaxStarts]]
  BY <1>1, <1>3 DEF TypeOK
<1> QED
  BY <1>1, <1>2, <1>4

(***************************************************************************)
(* Contexts and Arcs.                                                      *)
(***************************************************************************)
LEMMA OwnerStepType ==
  ASSUME TypeOK, NEW t \in Threads, NEW h \in Heaps,
         \/ WithHeap(t, h) \/ NewHeap(t, h) \/ CloneArc(t, h)
         \/ DropArc(t, h)
  PROVE  TypeOK'
<1>2. CASE WithHeap(t, h)
  <2> DEFINE as == [arcs EXCEPT ![t] = @ \ {h}]
             cs == [contexts EXCEPT ![t] = @ \cup {h}]
  <2>1. as \in [Threads -> SUBSET Heaps] /\ cs \in [Threads -> SUBSET Heaps]
    BY DEF TypeOK
  <2>2. \/ Own(as, cs, running) /\ current_ctx' = [current_ctx EXCEPT ![t] = h]
        \/ Own(as, contexts, running) /\ UNCHANGED current_ctx
    BY <1>2 DEF WithHeap, Enter
  <2>3. current_ctx' \in [Threads -> Heaps \cup {Null}]
    BY <2>2 DEF TypeOK
  <2> QED
    BY <1>2, <2>1, <2>2, <2>3, OwnType DEF WithHeap, TypeOK
<1>3. CASE NewHeap(t, h)
  <2>1. 1 \in 0..MaxStarts /\ 1 \in 1..MaxStarts
    BY ProgramAssumption
  <2>2. [counter |-> 1, handle |-> 1]
          \in [counter : 0..MaxStarts, handle : 0..MaxStarts]
    BY <2>1
  <2>3. {1} \in SUBSET (1..MaxStarts)
    BY <2>1
  <2>4. bg_thread' \in [Heaps -> [counter : 0..MaxStarts, handle : 0..MaxStarts]]
    BY <1>3, <2>2 DEF NewHeap, TypeOK
  <2>5. running' \in [Heaps -> SUBSET (1..MaxStarts)]
    <3>1. running \in [Heaps -> SUBSET (1..MaxStarts)]
      BY DEF TypeOK
    <3>2. running' = [running EXCEPT ![h] = {1}] \/ running' = running
      BY <1>3 DEF NewHeap
    <3> QED
      BY <2>3, <3>1, <3>2
  <2> QED
    BY <1>3, <2>4, <2>5 DEF NewHeap, TypeOK
<1>4. CASE CloneArc(t, h)
  <2>1. arcs' \in [Threads -> SUBSET Heaps]
    BY <1>4 DEF CloneArc, TypeOK
  <2> QED
    BY <1>4, <2>1 DEF CloneArc, TypeOK
<1>5. CASE DropArc(t, h)
  <2>1. [arcs EXCEPT ![t] = @ \ {h}] \in [Threads -> SUBSET Heaps]
    BY DEF TypeOK
  <2> QED
    BY <1>5, <2>1, OwnType DEF DropArc, TypeOK
<1> QED
  BY <1>2, <1>3, <1>4, <1>5

(***************************************************************************)
(* A collector goes on to another stage of its cycle.                      *)
(***************************************************************************)
LEMMA AdvanceType ==
  ASSUME TypeOK, NEW h \in Heaps, NEW c \in Collectors,
         NEW from, NEW to \in Stage, NEW p \in {"Idle", "Marking", "Sweeping"},
         Advance(h, c, from, to, p)
  PROVE  /\ phase' \in [Heaps -> {"Idle", "Marking", "Sweeping"}]
         /\ stage' \in [Heaps -> [Collectors -> Stage]]
<1>1. [stage[h] EXCEPT ![c] = to] \in [Collectors -> Stage]
  BY DEF TypeOK
<1>2. stage' = [stage EXCEPT ![h] = [stage[h] EXCEPT ![c] = to]]
  BY DEF Advance, TypeOK
<1>3. stage' \in [Heaps -> [Collectors -> Stage]]
  <2> HIDE DEF Collectors
  <2> QED
    BY <1>1, <1>2 DEF TypeOK
<1> QED
  BY <1>3 DEF Advance, TypeOK

(***************************************************************************)
(* Background threads return.                                              *)
(***************************************************************************)
LEMMA BackgroundStepType ==
  ASSUME TypeOK, NEW h \in Heaps, NEW b \in running[h],
         BackgroundExit(h, b) \/ BackgroundAbort(h, b)
  PROVE  TypeOK'
<1>1. [running EXCEPT ![h] = @ \ {b}] \in [Heaps -> SUBSET (1..MaxStarts)]
  BY DEF TypeOK
<1>2. b \in Collectors /\ "none" \in Stage
  BY DEF TypeOK, Stage
<1>3. CASE BackgroundExit(h, b)
  BY <1>1, <1>3, OwnType DEF BackgroundExit, TypeOK
<1>4. CASE BackgroundAbort(h, b)
  <2>1. /\ phase' \in [Heaps -> {"Idle", "Marking", "Sweeping"}]
        /\ stage' \in [Heaps -> [Collectors -> Stage]]
    BY <1>2, <1>4, AdvanceType DEF BackgroundAbort
  <2> QED
    BY <1>1, <1>4, <2>1, OwnType DEF BackgroundAbort, TypeOK
<1> QED
  BY <1>3, <1>4

(***************************************************************************)
(* start and stop of the background thread.                                *)
(***************************************************************************)
LEMMA HandleStepType ==
  ASSUME TypeOK, NEW t \in Threads, NEW h \in Heaps,
         Start(t, h) \/ Stop(t, h)
  PROVE  TypeOK'
<1>1. CASE Start(t, h)
  <2> DEFINE c == bg_thread[h].counter + 1
  <2>1. c \in 1..MaxStarts /\ c \in 0..MaxStarts
    BY <1>1, ProgramAssumption DEF Start, TypeOK
  <2>2. bg_thread' \in [Heaps -> [counter : 0..MaxStarts, handle : 0..MaxStarts]]
    BY <1>1, <2>1 DEF Start, TypeOK
  <2>3. running' \in [Heaps -> SUBSET (1..MaxStarts)]
    BY <1>1, <2>1 DEF Start, TypeOK
  <2> QED
    BY <1>1, <2>2, <2>3 DEF Start, TypeOK
<1>2. CASE Stop(t, h)
  <2>1. bg_thread[h] \in [counter : 0..MaxStarts, handle : 0..MaxStarts]
    BY DEF TypeOK
  <2>2. [bg_thread[h] EXCEPT !.handle = 0]
          \in [counter : 0..MaxStarts, handle : 0..MaxStarts]
    BY <2>1, ProgramAssumption
  <2>3. bg_thread' \in [Heaps -> [counter : 0..MaxStarts, handle : 0..MaxStarts]]
    BY <1>2, <2>2 DEF Stop, TypeOK
  <2>4. <<h, bg_thread[h].handle>> \in Heaps \X (1..MaxStarts) \cup {<<>>}
    <3>1. bg_thread[h].handle \in 1..MaxStarts
      BY <1>2, <2>1, ProgramAssumption DEF Stop
    <3> QED
      BY <3>1
  <2>5. joining' \in [Threads -> Heaps \X (1..MaxStarts) \cup {<<>>}]
    BY <1>2, <2>4 DEF Stop, TypeOK
  <2> QED
    BY <1>2, <2>3, <2>5 DEF Stop, TypeOK
<1> QED
  BY <1>1, <1>2

(***************************************************************************)
(* A cycle, of a thread or of a background thread.                         *)
(***************************************************************************)
LEMMA CycleStepType ==
  ASSUME TypeOK, NEW h \in Heaps, NEW c \in Collectors,
         TryStartMarking(h, c) \/ Cycle(h, c)
  PROVE  TypeOK'
<1>1. Stage = {"none", "marking", "sweeping", "finishing"}
  BY DEF Stage
<1>2. /\ phase' \in [Heaps -> {"Idle", "Marking", "Sweeping"}]
      /\ stage' \in [Heaps -> [Collectors -> Stage]]
  BY <1>1, AdvanceType
  DEF Cycle, TryStartMarking, StartSweeping, FinishSweep, FinishGc
<1>3. UNCHANGED <<heapVars, threadVars>>
  BY DEF Cycle, TryStartMarking, StartSweeping, FinishSweep, FinishGc
<1> QED
  BY <1>2, <1>3 DEF TypeOK

(***************************************************************************)
(* What a thread does without naming a heap.                               *)
(***************************************************************************)
LEMMA ThreadStepType ==
  ASSUME TypeOK, NEW t \in Threads, DropContext(t) \/ Join(t)
  PROVE  TypeOK'
<1>1. CASE DropContext(t)
  <2>1. PICK g \in contexts[t] :
          /\ Own(arcs, [contexts EXCEPT ![t] = @ \ {g}], running)
          /\ current_ctx' = [current_ctx EXCEPT ![t] = IF @ = g THEN Null ELSE @]
    BY <1>1 DEF DropContext
  <2>2. [contexts EXCEPT ![t] = @ \ {g}] \in [Threads -> SUBSET Heaps]
    BY DEF TypeOK
  <2>3. current_ctx' \in [Threads -> Heaps \cup {Null}]
    BY <2>1 DEF TypeOK
  <2> QED
    BY <1>1, <2>1, <2>2, <2>3, OwnType DEF DropContext, TypeOK
<1>2. CASE Join(t)
  <2>1. joining' \in [Threads -> Heaps \X (1..MaxStarts) \cup {<<>>}]
    BY <1>2 DEF Join, TypeOK
  <2> QED
    BY <1>2, <2>1 DEF Join, TypeOK
<1> QED
  BY <1>1, <1>2

(***************************************************************************)
(* A program starts well-typed and stays so.                               *)
(***************************************************************************)
LEMMA TypeInductive ==
  /\ Init => TypeOK
  /\ TypeOK /\ [Next]_vars => TypeOK'
<1>1. Init => TypeOK
  BY ProgramAssumption DEF Init, TypeOK, Stage
<1>2. ASSUME TypeOK, NEW t \in Threads, ThreadStep(t)
      PROVE  TypeOK'
  <2>1. ASSUME NEW h \in Heaps, ForceCollect(t, h) \/ Cycle(h, t)
        PROVE  TypeOK'
    BY <1>2, <2>1, CycleStepType DEF ForceCollect
  <2> QED
    BY <1>2, <2>1, OwnerStepType, HandleStepType, ThreadStepType DEF ThreadStep
<1>3. ASSUME TypeOK, NEW h \in Heaps, NEW b \in running[h], BackgroundStep(h, b)
      PROVE  TypeOK'
  <2>1. b \in Collectors
    BY <1>3 DEF TypeOK
  <2> QED
    BY <1>3, <2>1, BackgroundStepType, CycleStepType DEF BackgroundStep
<1>4. TypeOK /\ UNCHANGED vars => TypeOK'
  BY DEF TypeOK, vars
<1> QED
  BY <1>1, <1>2, <1>3, <1>4 DEF Next

(***************************************************************************)
(* Every part of a program's state keeps its type: what a stop waits for   *)
(* is a background thread, never the handle of none.                       *)
(***************************************************************************)
THEOREM ProgramTypeCorrect == Spec => []TypeOK
BY TypeInductive, PTL DEF Spec

-----------------------------------------------------------------------------

(***************************************************************************)
(* Who keeps a heap.  The handle is that of the background thread started  *)
(* last, which runs; one that was told to stop runs on only while a thread *)
(* that uses the heap waits for it; and a heap is alive exactly as long as *)
(* somebody owns an Arc of it.                                             *)
(***************************************************************************)
HandleRuns ==
  \A h \in Heaps :
    /\ bg_thread[h].handle \in {0, bg_thread[h].counter}
    /\ heap[h] = "alive" /\ bg_thread[h].handle # 0
         => bg_thread[h].handle \in running[h]
    /\ heap[h] # "alive" => bg_thread[h].handle = 0

JoinersUse ==
  \A t \in Threads, h \in Heaps, b \in 0..MaxStarts :
    joining[t] = <<h, b>> => Uses(t, h)

StoppedIsJoined ==
  \A h \in Heaps : \A b \in running[h] :
    b = bg_thread[h].handle \/ \E t \in Threads : joining[t] = <<h, b>>

AliveIsOwned ==
  \A h \in Heaps :
    heap[h] = "alive" <=> running[h] # {} \/ \E t \in Threads : Uses(t, h)

CollectorsOwn ==
  \A h \in Heaps, c \in Collectors :
    stage[h][c] # "none" => (c \in Threads /\ Uses(c, h)) \/ c \in running[h]

OwnInv == /\ HandleRuns /\ JoinersUse /\ StoppedIsJoined
          /\ AliveIsOwned /\ CollectorsOwn

(***************************************************************************)
(* The drop of h is quiet, see DropIsQuiet.                                *)
(***************************************************************************)
QuietDrop(h) ==
  heap[h] = "alive" /\ heap'[h] = "dropped" =>
    /\ bg_thread[h].handle = 0 /\ running[h] = {}
    /\ \A c \in Collectors : stage[h][c] = "none"

(***************************************************************************)
(* A step that gives Arcs back keeps the invariant, and drops a heap only  *)
(* quietly, if threads in a call give none back and the background threads *)
(* that return have been told to.                                          *)
(***************************************************************************)
LEMMA OwnKeeps ==
  ASSUME TypeOK, OwnInv,
         NEW as \in [Threads -> SUBSET Heaps],
         NEW cs \in [Threads -> SUBSET Heaps],
         NEW rs \in [Heaps -> SUBSET (1..MaxStarts)],
         Own(as, cs, rs),
         UNCHANGED joining,
         \A t \in Threads : as[t] \cup cs[t] \subseteq arcs[t] \cup contexts[t],
         \A t \in Threads : joining[t] # <<>> \/ Collecting(t) =>
           arcs[t] \cup contexts[t] \subseteq as[t] \cup cs[t],
         \A h \in Heaps : rs[h] \subseteq running[h],
         \A h \in Heaps : \A b \in running[h] \ rs[h] :
           is_stopped(h, b) /\ stage'[h][b] = "none",
         \A h \in Heaps, c \in Collectors :
           stage'[h][c] \in {stage[h][c], "none"}
  PROVE  OwnInv' /\ \A h \in Heaps : QuietDrop(h)
<1> DEFINE gone == {h \in Heaps : /\ heap[h] = "alive" /\ rs[h] = {}
                                  /\ \A t \in Threads : h \notin as[t] \cup cs[t]}
<1>1. /\ arcs' = as /\ contexts' = cs /\ running' = rs
      /\ heap' = [h \in Heaps |-> IF h \in gone THEN "dropped" ELSE heap[h]]
      /\ bg_thread' = [h \in Heaps |->
                         IF h \in gone THEN [bg_thread[h] EXCEPT !.handle = 0]
                                       ELSE bg_thread[h]]
  BY DEF Own
<1>2. \A h \in Heaps : \A b \in running[h] \ rs[h] : b # bg_thread[h].handle
  <2> SUFFICES ASSUME NEW h \in Heaps, NEW b \in running[h] \ rs[h]
               PROVE  b # bg_thread[h].handle
    OBVIOUS
  <2>1. b \in 1..MaxStarts
    BY DEF TypeOK
  <2>2. bg_thread[h].handle = 0 \/ bg_thread[h].counter # b
    BY DEF is_stopped
  <2> QED
    BY <2>1, <2>2, ProgramAssumption DEF OwnInv, HandleRuns
<1>3. \A h \in Heaps \ gone : heap'[h] = heap[h] /\ bg_thread'[h] = bg_thread[h]
  BY <1>1
<1>4. \A h \in gone : heap'[h] = "dropped" /\ bg_thread'[h].handle = 0
  <2>1. \A h \in Heaps : bg_thread[h] \in [counter : 0..MaxStarts,
                                           handle  : 0..MaxStarts]
    BY DEF TypeOK
  <2>2. \A h \in Heaps : [bg_thread[h] EXCEPT !.handle = 0].handle = 0
    BY <2>1
  <2>3. \A h \in gone : bg_thread'[h] = [bg_thread[h] EXCEPT !.handle = 0]
    BY <1>1
  <2> QED
    BY <1>1, <2>2, <2>3
<1>5. HandleRuns'
  <2> SUFFICES ASSUME NEW h \in Heaps
               PROVE  /\ bg_thread'[h].handle \in {0, bg_thread'[h].counter}
                      /\ heap'[h] = "alive" /\ bg_thread'[h].handle # 0
                           => bg_thread'[h].handle \in running'[h]
                      /\ heap'[h] # "alive" => bg_thread'[h].handle = 0
    BY DEF HandleRuns
  <2>1. CASE h \in gone
    BY <1>4, <2>1
  <2>2. CASE h \notin gone
    BY <1>1, <1>2, <1>3, <2>2 DEF OwnInv, HandleRuns
  <2> QED
    BY <2>1, <2>2
<1>6. \A t \in Threads, h \in Heaps, b \in 0..MaxStarts :
        joining[t] = <<h, b>> => h \in as[t] \cup cs[t]
  <2> SUFFICES ASSUME NEW t \in Threads, NEW h \in Heaps,
                      NEW b \in 0..MaxStarts, joining[t] = <<h, b>>
               PROVE  h \in as[t] \cup cs[t]
    OBVIOUS
  <2>1. <<h, b>> # <<>>
    OBVIOUS
  <2>2. Uses(t, h)
    BY DEF OwnInv, JoinersUse
  <2> QED
    BY <2>1, <2>2 DEF Uses
<1>7. JoinersUse'
  BY <1>1, <1>6 DEF JoinersUse, Uses
<1>8. StoppedIsJoined'
  <2> SUFFICES ASSUME NEW h \in Heaps, NEW b \in rs[h]
               PROVE  \/ b = bg_thread'[h].handle
                      \/ \E t \in Threads : joining'[t] = <<h, b>>
    BY <1>1 DEF StoppedIsJoined
  <2>1. h \notin gone /\ b \in running[h]
    OBVIOUS
  <2> QED
    BY <1>3, <2>1 DEF OwnInv, StoppedIsJoined
<1>9. AliveIsOwned'
  <2> SUFFICES ASSUME NEW h \in Heaps
               PROVE  heap'[h] = "alive" <=>
                        rs[h] # {} \/ \E t \in Threads : h \in as[t] \cup cs[t]
    BY <1>1 DEF AliveIsOwned, Uses
  <2>1. heap[h] = "alive" <=>
          running[h] # {} \/ \E t \in Threads : h \in arcs[t] \cup contexts[t]
    BY DEF OwnInv, AliveIsOwned, Uses
  <2>2. CASE h \in gone
    BY <1>4, <2>2
  <2>3. CASE h \notin gone
    BY <1>3, <2>1, <2>3
  <2> QED
    BY <2>2, <2>3
<1>10. \A h \in Heaps, t \in Threads :
         stage[h][t] # "none" => h \in as[t] \cup cs[t]
  <2> SUFFICES ASSUME NEW h \in Heaps, NEW t \in Threads, stage[h][t] # "none"
               PROVE  h \in as[t] \cup cs[t]
    OBVIOUS
  <2>1. t \notin running[h]
    BY ProgramAssumption DEF TypeOK
  <2>2. Uses(t, h)
    BY <2>1 DEF OwnInv, CollectorsOwn
  <2>3. Collecting(t)
    BY DEF Collecting
  <2> QED
    BY <2>2, <2>3 DEF Uses
<1>11. CollectorsOwn'
  <2> SUFFICES ASSUME NEW h \in Heaps, NEW c \in Collectors,
                      stage'[h][c] # "none"
               PROVE  (c \in Threads /\ h \in as[c] \cup cs[c]) \/ c \in rs[h]
    BY <1>1 DEF CollectorsOwn, Uses
  <2>1. stage[h][c] # "none"
    OBVIOUS
  <2>2. CASE c \in Threads
    BY <1>10, <2>1, <2>2
  <2>3. CASE c \notin Threads
    BY <2>1, <2>3 DEF OwnInv, CollectorsOwn
  <2> QED
    BY <2>2, <2>3
<1>12. ASSUME NEW h \in gone
       PROVE  /\ bg_thread[h].handle = 0 /\ running[h] = {}
              /\ \A c \in Collectors : stage[h][c] = "none"
  <2>1. running[h] = {}
    <3> SUFFICES ASSUME NEW b \in running[h] PROVE FALSE
      OBVIOUS
    <3>1. b \in running[h] \ rs[h] /\ b \in 0..MaxStarts
      BY DEF TypeOK
    <3>2. PICK t \in Threads : joining[t] = <<h, b>>
      BY <1>2, <3>1 DEF OwnInv, StoppedIsJoined
    <3> QED
      BY <1>6, <3>1, <3>2
  <2>2. bg_thread[h].handle = 0
    BY <2>1 DEF OwnInv, HandleRuns
  <2>3. \A c \in Threads : stage[h][c] = "none"
    BY <1>10
  <2>4. \A c \in Collectors \ Threads : stage[h][c] = "none"
    BY <2>1 DEF OwnInv, CollectorsOwn
  <2> QED
    BY <2>1, <2>2, <2>3, <2>4
<1>13. \A h \in Heaps : QuietDrop(h)
  BY <1>3, <1>12 DEF QuietDrop
<1> HIDE DEF gone
<1> QED
  BY <1>5, <1>7, <1>8, <1>9, <1>11, <1>13 DEF OwnInv

(***************************************************************************)
(* The drop of a context or of an Arc, and with_heap.                      *)
(***************************************************************************)
LEMMA ReleaseKeeps ==
  ASSUME TypeOK, OwnInv, NEW t \in Threads,
         \/ DropContext(t)
         \/ \E h \in Heaps : WithHeap(t, h) \/ DropArc(t, h)
  PROVE  OwnInv' /\ \A h \in Heaps : QuietDrop(h)
<1>1. ASSUME NEW as \in [Threads -> SUBSET Heaps],
             NEW cs \in [Threads -> SUBSET Heaps],
             Own(as, cs, running),
             UNCHANGED <<joining, stage>>,
             joining[t] = <<>>, ~ Collecting(t),
             as[t] \cup cs[t] \subseteq arcs[t] \cup contexts[t],
             \A u \in Threads \ {t} : as[u] = arcs[u] /\ cs[u] = contexts[u]
      PROVE  OwnInv' /\ \A h \in Heaps : QuietDrop(h)
  <2>1. running \in [Heaps -> SUBSET (1..MaxStarts)]
    BY DEF TypeOK
  <2>2. \A u \in Threads : as[u] \cup cs[u] \subseteq arcs[u] \cup contexts[u]
    BY <1>1
  <2>3. \A u \in Threads : joining[u] # <<>> \/ Collecting(u) =>
          arcs[u] \cup contexts[u] \subseteq as[u] \cup cs[u]
    BY <1>1
  <2>4. \A h \in Heaps, c \in Collectors :
          stage'[h][c] \in {stage[h][c], "none"}
    BY <1>1
  <2>5. \A h \in Heaps : running[h] \subseteq running[h]
    OBVIOUS
  <2>6. \A h \in Heaps : \A b \in running[h] \ running[h] :
          is_stopped(h, b) /\ stage'[h][b] = "none"
    OBVIOUS
  <2>7. UNCHANGED joining
    BY <1>1
  <2> QED
    BY <1>1, <2>1, <2>2, <2>3, <2>4, <2>5, <2>6, <2>7, OwnKeeps
<1>2. CASE DropContext(t)
  <2>1. PICK h \in contexts[t] :
          Own(arcs, [contexts EXCEPT ![t] = @ \ {h}], running)
    BY <1>2 DEF DropContext
  <2> DEFINE cs == [contexts EXCEPT ![t] = @ \ {h}]
  <2>2. /\ arcs \in [Threads -> SUBSET Heaps] /\ cs \in [Threads -> SUBSET Heaps]
        /\ cs[t] \subseteq contexts[t]
        /\ \A u \in Threads \ {t} : cs[u] = contexts[u]
    BY DEF TypeOK
  <2>3. joining[t] = <<>> /\ ~ Collecting(t) /\ UNCHANGED <<joining, stage>>
    BY <1>2 DEF DropContext, Ready
  <2> QED
    BY <1>1, <2>1, <2>2, <2>3
<1>3. ASSUME NEW h \in Heaps, WithHeap(t, h)
      PROVE  OwnInv' /\ \A g \in Heaps : QuietDrop(g)
  <2> DEFINE as == [arcs EXCEPT ![t] = @ \ {h}]
             cs == [contexts EXCEPT ![t] = @ \cup {h}]
  <2>1. /\ as \in [Threads -> SUBSET Heaps] /\ cs \in [Threads -> SUBSET Heaps]
        /\ contexts \in [Threads -> SUBSET Heaps]
        /\ as[t] = arcs[t] \ {h} /\ cs[t] = contexts[t] \cup {h}
        /\ \A u \in Threads \ {t} : as[u] = arcs[u] /\ cs[u] = contexts[u]
    BY DEF TypeOK
  <2>2. as[t] \cup cs[t] \subseteq arcs[t] \cup contexts[t]
    BY <1>3, <2>1 DEF WithHeap
  <2>3. joining[t] = <<>> /\ ~ Collecting(t) /\ UNCHANGED <<joining, stage>>
    BY <1>3 DEF WithHeap, Ready
  <2>4. Own(as, cs, running) \/ Own(as, contexts, running)
    BY <1>3 DEF WithHeap, Enter
  <2> HIDE DEF as, cs
  <2>5. CASE Own(as, cs, running)
    BY <1>1, <2>1, <2>2, <2>3, <2>5
  <2>6. CASE Own(as, contexts, running)
    BY <1>1, <2>1, <2>3, <2>6
  <2> QED
    BY <2>4, <2>5, <2>6
<1>4. ASSUME NEW h \in Heaps, DropArc(t, h)
      PROVE  OwnInv' /\ \A g \in Heaps : QuietDrop(g)
  <2> DEFINE as == [arcs EXCEPT ![t] = @ \ {h}]
  <2>1. /\ as \in [Threads -> SUBSET Heaps]
        /\ contexts \in [Threads -> SUBSET Heaps]
        /\ as[t] \subseteq arcs[t]
        /\ \A u \in Threads \ {t} : as[u] = arcs[u]
    BY DEF TypeOK
  <2>2. joining[t] = <<>> /\ ~ Collecting(t) /\ UNCHANGED <<joining, stage>>
    BY <1>4 DEF DropArc, Ready
  <2> QED
    BY <1>1, <1>4, <2>1, <2>2 DEF DropArc
<1> QED
  BY <1>2, <1>3, <1>4

(***************************************************************************)
(* background_gc_thread returns, between two cycles or in the mark phase.  *)
(***************************************************************************)
LEMMA ExitKeeps ==
  ASSUME TypeOK, OwnInv, NEW h \in Heaps, NEW b \in running[h],
         BackgroundExit(h, b) \/ BackgroundAbort(h, b)
  PROVE  OwnInv' /\ \A g \in Heaps : QuietDrop(g)
<1> DEFINE rs == [running EXCEPT ![h] = @ \ {b}]
<1>1. /\ arcs \in [Threads -> SUBSET Heaps] /\ contexts \in [Threads -> SUBSET Heaps]
      /\ rs \in [Heaps -> SUBSET (1..MaxStarts)]
      /\ rs[h] = running[h] \ {b}
      /\ \A g \in Heaps \ {h} : rs[g] = running[g]
      /\ b \in Collectors
  BY DEF TypeOK
<1>2. Own(arcs, contexts, rs) /\ UNCHANGED joining /\ is_stopped(h, b)
  BY DEF BackgroundExit, BackgroundAbort
<1>3. \/ stage' = stage /\ stage[h][b] = "none"
      \/ stage' = [stage EXCEPT ![h] = [stage[h] EXCEPT ![b] = "none"]]
  BY DEF BackgroundExit, BackgroundAbort, Advance, TypeOK
<1>4. /\ \A g \in Heaps, c \in Collectors : stage'[g][c] \in {stage[g][c], "none"}
      /\ stage'[h][b] = "none"
  <2>1. stage \in [Heaps -> [Collectors -> Stage]] /\ b \in Collectors
    BY <1>1 DEF TypeOK
  <2> HIDE DEF Collectors
  <2> QED
    BY <1>3, <2>1
<1>5. \A g \in Heaps : rs[g] \subseteq running[g]
  BY <1>1
<1>6. \A g \in Heaps : \A c \in running[g] \ rs[g] :
        is_stopped(g, c) /\ stage'[g][c] = "none"
  BY <1>1, <1>2, <1>4
<1> HIDE DEF rs
<1> QED
  BY <1>1, <1>2, <1>4, <1>5, <1>6, OwnKeeps

(***************************************************************************)
(* Heap::with_options.                                                     *)
(***************************************************************************)
LEMMA NewHeapKeeps ==
  ASSUME TypeOK, OwnInv, NEW t \in Threads, NEW h \in Heaps, NewHeap(t, h)
  PROVE  OwnInv' /\ \A g \in Heaps : QuietDrop(g)
<1>1. heap[h] = "unborn" /\ running[h] = {} /\ bg_thread[h].handle = 0
      /\ \A u \in Threads : ~ Uses(u, h)
  BY DEF NewHeap, OwnInv, AliveIsOwned, HandleRuns
<1>2. /\ heap'[h] = "alive" /\ Uses(t, h)'
      /\ \A g \in Heaps \ {h} :
           /\ heap'[g] = heap[g] /\ running'[g] = running[g]
           /\ bg_thread'[g] = bg_thread[g]
           /\ \A u \in Threads : Uses(u, g)' <=> Uses(u, g)
      /\ \A u \in Threads, g \in Heaps : Uses(u, g) => Uses(u, g)'
      /\ UNCHANGED <<stage, joining>>
  BY DEF NewHeap, Uses, TypeOK
<1>3. \/ bg_thread'[h] = [counter |-> 1, handle |-> 1] /\ running'[h] = {1}
      \/ bg_thread'[h] = bg_thread[h] /\ running'[h] = running[h]
  BY DEF NewHeap, TypeOK
<1>4. HandleRuns'
  <2>1. /\ bg_thread'[h].handle \in {0, bg_thread'[h].counter}
        /\ bg_thread'[h].handle # 0 => bg_thread'[h].handle \in running'[h]
    BY <1>1, <1>3
  <2> QED
    BY <1>2, <2>1 DEF OwnInv, HandleRuns
<1>5. JoinersUse'
  BY <1>2 DEF OwnInv, JoinersUse
<1>6. StoppedIsJoined'
  <2>1. \A b \in running'[h] : b = bg_thread'[h].handle
    BY <1>1, <1>3
  <2> QED
    BY <1>2, <2>1 DEF OwnInv, StoppedIsJoined
<1>7. AliveIsOwned'
  BY <1>2 DEF OwnInv, AliveIsOwned
<1>8. CollectorsOwn'
  BY <1>1, <1>2 DEF OwnInv, CollectorsOwn
<1>9. \A g \in Heaps : QuietDrop(g)
  BY <1>2 DEF QuietDrop
<1> QED
  BY <1>4, <1>5, <1>6, <1>7, <1>8, <1>9 DEF OwnInv

(***************************************************************************)
(* Arc::clone, start, stop and join.                                       *)
(***************************************************************************)
LEMMA CloneKeeps ==
  ASSUME TypeOK, OwnInv, NEW t \in Threads, NEW h \in Heaps, CloneArc(t, h)
  PROVE  OwnInv' /\ \A g \in Heaps : QuietDrop(g)
<1>1. PICK u \in Threads : arcs' = [arcs EXCEPT ![u] = @ \cup {h}]
  BY DEF CloneArc
<1>2. /\ UNCHANGED <<heap, running, bg_thread, joining, stage>>
      /\ \A v \in Threads, g \in Heaps : Uses(v, g) => Uses(v, g)'
      /\ \A v \in Threads, g \in Heaps \ {h} : Uses(v, g)' => Uses(v, g)
      /\ Uses(t, h)
  BY <1>1 DEF CloneArc, Uses, TypeOK
<1>3. HandleRuns'
  BY <1>2 DEF OwnInv, HandleRuns
<1>4. JoinersUse'
  BY <1>2 DEF OwnInv, JoinersUse
<1>5. StoppedIsJoined'
  BY <1>2 DEF OwnInv, StoppedIsJoined
<1>6. AliveIsOwned'
  BY <1>2 DEF OwnInv, AliveIsOwned
<1>7. CollectorsOwn'
  BY <1>2 DEF OwnInv, CollectorsOwn
<1> QED
  BY <1>2, <1>3, <1>4, <1>5, <1>6, <1>7 DEF OwnInv, QuietDrop

(***************************************************************************)
(* start_background_collection.                                            *)
(***************************************************************************)
LEMMA StartKeeps ==
  ASSUME TypeOK, OwnInv, NEW t \in Threads, NEW h \in Heaps, Start(t, h)
  PROVE  OwnInv' /\ \A g \in Heaps : QuietDrop(g)
<1> DEFINE c == bg_thread[h].counter + 1
<1>1. /\ UNCHANGED <<heap, arcs, contexts, joining, stage>>
      /\ bg_thread[h].handle = 0 /\ Uses(t, h)
      /\ bg_thread'[h] = [counter |-> c, handle |-> c]
      /\ running'[h] = running[h] \cup {c}
      /\ \A g \in Heaps \ {h} : bg_thread'[g] = bg_thread[g] /\ running'[g] = running[g]
  BY DEF Start, TypeOK
<1>2. heap[h] = "alive"
  BY <1>1 DEF OwnInv, AliveIsOwned
<1>3. bg_thread'[h].handle = c /\ bg_thread'[h].counter = c
  BY <1>1
<1> HIDE DEF c
<1>4. HandleRuns'
  BY <1>1, <1>2, <1>3 DEF OwnInv, HandleRuns
<1>5. JoinersUse'
  BY <1>1 DEF OwnInv, JoinersUse, Uses
<1>6. StoppedIsJoined'
  <2>1. \A b \in running[h] : b # 0
    BY DEF TypeOK
  <2>2. \A b \in running[h] : \E u \in Threads : joining[u] = <<h, b>>
    BY <1>1, <2>1 DEF OwnInv, StoppedIsJoined
  <2> QED
    BY <1>1, <1>3, <2>2 DEF OwnInv, StoppedIsJoined
<1>7. AliveIsOwned'
  BY <1>1, <1>2 DEF OwnInv, AliveIsOwned, Uses
<1>8. CollectorsOwn'
  BY <1>1 DEF OwnInv, CollectorsOwn, Uses
<1> QED
  BY <1>1, <1>4, <1>5, <1>6, <1>7, <1>8 DEF OwnInv, QuietDrop

(***************************************************************************)
(* stop_background_collection, up to the join and after it.                *)
(***************************************************************************)
LEMMA StopKeeps ==
  ASSUME TypeOK, OwnInv, NEW t \in Threads,
         Join(t) \/ \E h \in Heaps : Stop(t, h)
  PROVE  OwnInv' /\ \A g \in Heaps : QuietDrop(g)
<1>1. CASE Join(t)
  <2>1. /\ UNCHANGED <<heap, arcs, contexts, running, bg_thread, stage>>
        /\ joining'[t] = <<>>
        /\ \A u \in Threads \ {t} : joining'[u] = joining[u]
        /\ joining[t][2] \notin running[joining[t][1]]
    BY <1>1 DEF Join, TypeOK
  <2>2. HandleRuns' /\ AliveIsOwned' /\ CollectorsOwn'
    BY <2>1 DEF OwnInv, HandleRuns, AliveIsOwned, CollectorsOwn, Uses
  <2>3. JoinersUse'
    <3>1. \A h \in Heaps, b \in 0..MaxStarts : <<h, b>> # <<>>
      OBVIOUS
    <3> QED
      BY <2>1, <3>1 DEF OwnInv, JoinersUse, Uses
  <2>4. StoppedIsJoined'
    <3>1. \A h \in Heaps : \A b \in running[h] : joining[t] # <<h, b>>
      BY <2>1
    <3> QED
      BY <2>1, <3>1 DEF OwnInv, StoppedIsJoined
  <2> QED
    BY <2>1, <2>2, <2>3, <2>4 DEF OwnInv, QuietDrop
<1>2. ASSUME NEW h \in Heaps, Stop(t, h)
      PROVE  OwnInv' /\ \A g \in Heaps : QuietDrop(g)
  <2> DEFINE c == bg_thread[h].handle
  <2>1. bg_thread[h] \in [counter : 0..MaxStarts, handle : 0..MaxStarts]
    BY DEF TypeOK
  <2>2. /\ bg_thread' = [bg_thread EXCEPT ![h] = [@ EXCEPT !.handle = 0]]
        /\ joining' = [joining EXCEPT ![t] = <<h, c>>]
    BY <1>2 DEF Stop
  <2>3. /\ UNCHANGED <<heap, arcs, contexts, running, stage>>
        /\ Uses(t, h) /\ joining[t] = <<>>
        /\ bg_thread'[h].handle = 0
        /\ \A g \in Heaps \ {h} : bg_thread'[g] = bg_thread[g]
    BY <1>2, <2>1, <2>2 DEF Stop, Ready, TypeOK
  <2>4. /\ joining'[t] = <<h, c>>
        /\ \A u \in Threads \ {t} : joining'[u] = joining[u]
    BY <2>2 DEF TypeOK
  <2>5. HandleRuns' /\ AliveIsOwned' /\ CollectorsOwn'
    BY <2>3 DEF OwnInv, HandleRuns, AliveIsOwned, CollectorsOwn, Uses
  <2>6. JoinersUse'
    BY <2>3, <2>4 DEF OwnInv, JoinersUse, Uses
  <2>7. StoppedIsJoined'
    <3>1. \A g \in Heaps, b \in 0..MaxStarts : joining[t] # <<g, b>>
      BY <2>3
    <3>2. \A g \in Heaps : running[g] \subseteq 0..MaxStarts
      BY DEF TypeOK
    <3>3. ASSUME NEW g \in Heaps, NEW b \in running[g]
          PROVE  \/ b = bg_thread'[g].handle
                 \/ \E u \in Threads : joining'[u] = <<g, b>>
      <4>1. CASE \E u \in Threads : joining[u] = <<g, b>>
        BY <2>4, <3>1, <3>2, <4>1
      <4>2. CASE b = bg_thread[g].handle
        BY <2>3, <2>4, <4>2
      <4> QED
        BY <4>1, <4>2 DEF OwnInv, StoppedIsJoined
    <3> QED
      BY <2>3, <3>3 DEF StoppedIsJoined
  <2> QED
    BY <2>3, <2>5, <2>6, <2>7 DEF OwnInv, QuietDrop
<1> QED
  BY <1>1, <1>2

(***************************************************************************)
(* A cycle of a collector that owns an Arc.                                *)
(***************************************************************************)
LEMMA CycleKeeps ==
  ASSUME TypeOK, OwnInv, NEW h \in Heaps, NEW c \in Collectors,
         TryStartMarking(h, c) \/ Cycle(h, c),
         stage[h][c] = "none" => (c \in Threads /\ Uses(c, h)) \/ c \in running[h]
  PROVE  OwnInv' /\ \A g \in Heaps : QuietDrop(g)
<1>1. UNCHANGED <<heapVars, threadVars>>
  BY DEF Cycle, TryStartMarking, StartSweeping, FinishSweep, FinishGc
<1>2. HandleRuns' /\ AliveIsOwned' /\ JoinersUse' /\ StoppedIsJoined'
  BY <1>1 DEF OwnInv, HandleRuns, AliveIsOwned, JoinersUse, StoppedIsJoined, Uses
<1>3. PICK to \in Stage : stage' = [stage EXCEPT ![h][c] = to]
  BY DEF Cycle, TryStartMarking, StartSweeping, FinishSweep, FinishGc, Advance,
         Stage
<1>4. \A g \in Heaps, d \in Collectors :
        stage'[g][d] = stage[g][d] \/ (g = h /\ d = c)
  BY <1>3 DEF TypeOK
<1>5. (c \in Threads /\ Uses(c, h)) \/ c \in running[h]
  BY DEF OwnInv, CollectorsOwn
<1>6. CollectorsOwn'
  BY <1>1, <1>4, <1>5 DEF OwnInv, CollectorsOwn, Uses
<1> QED
  BY <1>1, <1>2, <1>6 DEF OwnInv, QuietDrop

(***************************************************************************)
(* Every step keeps the invariant and drops heaps only quietly.            *)
(***************************************************************************)
LEMMA OwnInductive ==
  /\ Init => OwnInv
  /\ TypeOK /\ OwnInv /\ [Next]_vars => OwnInv' /\ \A h \in Heaps : QuietDrop(h)
<1>1. Init => OwnInv
  <2> SUFFICES ASSUME Init PROVE OwnInv
    OBVIOUS
  <2>1. HandleRuns /\ StoppedIsJoined /\ AliveIsOwned
    BY DEF Init, HandleRuns, StoppedIsJoined, AliveIsOwned, Uses
  <2>2. JoinersUse
    <3>1. \A h \in Heaps, b \in 0..MaxStarts : <<h, b>> # <<>>
      OBVIOUS
    <3> QED
      BY <3>1 DEF Init, JoinersUse
  <2>3. CollectorsOwn
    BY DEF Init, CollectorsOwn
  <2> QED
    BY <2>1, <2>2, <2>3 DEF OwnInv
<1>2. ASSUME TypeOK, OwnInv, UNCHANGED vars
      PROVE  OwnInv' /\ \A h \in Heaps : QuietDrop(h)
  BY <1>2 DEF OwnInv, HandleRuns, StoppedIsJoined, AliveIsOwned, JoinersUse,
              CollectorsOwn, Uses, QuietDrop, vars
<1>3. ASSUME TypeOK, OwnInv, NEW t \in Threads, ThreadStep(t)
      PROVE  OwnInv' /\ \A h \in Heaps : QuietDrop(h)
  <2>1. ASSUME NEW h \in Heaps, ForceCollect(t, h)
        PROVE  OwnInv' /\ \A g \in Heaps : QuietDrop(g)
    BY <1>3, <2>1, CycleKeeps DEF ForceCollect
  <2>2. ASSUME NEW h \in Heaps, Cycle(h, t)
        PROVE  OwnInv' /\ \A g \in Heaps : QuietDrop(g)
    <3>1. stage[h][t] # "none"
      BY <2>2 DEF Cycle, StartSweeping, FinishSweep, FinishGc, Advance
    <3> QED
      BY <1>3, <2>2, <3>1, CycleKeeps
  <2> QED
    BY <1>3, <2>1, <2>2, ReleaseKeeps, NewHeapKeeps, CloneKeeps, StartKeeps,
       StopKeeps DEF ThreadStep
<1>4. ASSUME TypeOK, OwnInv, NEW h \in Heaps, NEW b \in running[h],
             BackgroundStep(h, b)
      PROVE  OwnInv' /\ \A g \in Heaps : QuietDrop(g)
  <2>1. b \in Collectors
    BY <1>4 DEF TypeOK
  <2> QED
    BY <1>4, <2>1, CycleKeeps, ExitKeeps DEF BackgroundStep
<1> QED
  BY <1>1, <1>2, <1>3, <1>4 DEF Next

(***************************************************************************)
(* A heap is alive exactly while a thread owns an Arc or a context of it,  *)
(* or its background thread runs and was not told to stop: whoever stops   *)
(* that thread owns an Arc until it has returned.                          *)
(***************************************************************************)
THEOREM HeapsLiveWhileUsed == Spec => []AliveWhileUsed
<1>1. TypeOK /\ OwnInv => AliveWhileUsed
  <2> SUFFICES ASSUME TypeOK, OwnInv, NEW h \in Heaps
               PROVE  heap[h] = "alive" <=> \/ \E t \in Threads : Uses(t, h)
                                           \/ bg_thread[h].handle \in running[h]
    BY DEF AliveWhileUsed
  <2>1. ASSUME heap[h] = "alive", \A t \in Threads : ~ Uses(t, h)
        PROVE  bg_thread[h].handle \in running[h]
    <3>1. PICK b \in running[h] : TRUE
      BY <2>1 DEF OwnInv, AliveIsOwned
    <3>2. b \in 0..MaxStarts
      BY DEF TypeOK
    <3>3. \A t \in Threads : joining[t] # <<h, b>>
      BY <2>1, <3>2 DEF OwnInv, JoinersUse
    <3> QED
      BY <3>1, <3>3 DEF OwnInv, StoppedIsJoined
  <2>2. ASSUME \/ \E t \in Threads : Uses(t, h)
               \/ bg_thread[h].handle \in running[h]
        PROVE  heap[h] = "alive"
    BY <2>2 DEF OwnInv, AliveIsOwned
  <2> QED
    BY <2>1, <2>2
<1> QED
  BY <1>1, TypeInductive, OwnInductive, PTL DEF Spec

(***************************************************************************)
(* Drop for Heap never runs beside a background thread or a collection of  *)
(* that heap, and never on the background thread itself, where the drop of *)
(* the StartStopJoinHandle would join the thread that executes it.         *)
(***************************************************************************)
THEOREM DropsAreQuiet == Spec => DropIsQuiet
<1>1. TypeOK /\ OwnInv /\ [Next]_vars =>
        [\A h \in Heaps : heap[h] = "alive" /\ heap'[h] = "dropped" =>
           /\ bg_thread[h].handle = 0
           /\ running[h] = {}
           /\ \A c \in Collectors : stage[h][c] = "none"]_vars
  BY OwnInductive DEF QuietDrop
<1> QED
  BY <1>1, TypeInductive, OwnInductive, PTL DEF Spec, DropIsQuiet

(***************************************************************************)
(* The thread-local pointer names the one context of the thread, and is    *)
(* null without one, through every with_heap, refused or not, and drop.    *)
(***************************************************************************)
THEOREM ContextIsCurrent == Spec => []CurrentIsTheContext
<1>1. Init => CurrentIsTheContext
  BY DEF Init, CurrentIsTheContext
<1>2. ASSUME TypeOK, CurrentIsTheContext, UNCHANGED <<contexts, current_ctx>>
      PROVE  CurrentIsTheContext'
  BY <1>2 DEF CurrentIsTheContext
<1>3. ASSUME TypeOK, CurrentIsTheContext, NEW t \in Threads,
             \A u \in Threads \ {t} : /\ contexts'[u] = contexts[u]
                                     /\ current_ctx'[u] = current_ctx[u],
             contexts'[t] = {current_ctx'[t]} \ {Null}
      PROVE  CurrentIsTheContext'
  BY <1>3 DEF CurrentIsTheContext
<1>4. ASSUME TypeOK, CurrentIsTheContext, NEW t \in Threads, ThreadStep(t)
      PROVE  CurrentIsTheContext'
  <2>1. CASE DropContext(t)
    <3>1. PICK h \in contexts[t] :
            /\ contexts' = [contexts EXCEPT ![t] = @ \ {h}]
            /\ current_ctx' = [current_ctx EXCEPT ![t] = IF @ = h THEN Null ELSE @]
      BY <2>1 DEF DropContext, Own
    <3>2. current_ctx[t] = h /\ contexts[t] = {h}
      BY <1>4 DEF CurrentIsTheContext
    <3>3. contexts'[t] = {} /\ current_ctx'[t] = Null
      BY <1>4, <3>1, <3>2 DEF TypeOK
    <3>4. \A u \in Threads \ {t} : /\ contexts'[u] = contexts[u]
                                   /\ current_ctx'[u] = current_ctx[u]
      BY <1>4, <3>1 DEF TypeOK
    <3> QED
      BY <1>3, <1>4, <3>3, <3>4
  <2>2. ASSUME NEW h \in Heaps, WithHeap(t, h)
        PROVE  CurrentIsTheContext'
    <3>1. CASE current_ctx[t] = Null
      <4>1. /\ contexts' = [contexts EXCEPT ![t] = @ \cup {h}]
            /\ current_ctx' = [current_ctx EXCEPT ![t] = h]
        BY <2>2, <3>1 DEF WithHeap, Enter, Own
      <4>2. contexts[t] = {} /\ h # Null
        BY <1>4, <3>1, ProgramAssumption DEF CurrentIsTheContext
      <4>3. contexts'[t] = {h} /\ current_ctx'[t] = h
        BY <1>4, <4>1, <4>2 DEF TypeOK
      <4>4. \A u \in Threads \ {t} : /\ contexts'[u] = contexts[u]
                                     /\ current_ctx'[u] = current_ctx[u]
        BY <1>4, <4>1 DEF TypeOK
      <4> QED
        BY <1>3, <1>4, <4>2, <4>3, <4>4
    <3>2. CASE current_ctx[t] # Null
      BY <1>2, <1>4, <2>2, <3>2 DEF WithHeap, Enter, Own
    <3> QED
      BY <3>1, <3>2
  <2>3. CASE Join(t)
    BY <1>2, <1>4, <2>3 DEF Join
  <2>4. ASSUME NEW h \in Heaps,
               \/ NewHeap(t, h) \/ CloneArc(t, h) \/ DropArc(t, h)
               \/ Start(t, h) \/ Stop(t, h)
               \/ ForceCollect(t, h) \/ Cycle(h, t)
        PROVE  UNCHANGED <<contexts, current_ctx>>
    BY <2>4 DEF NewHeap, CloneArc, DropArc, Start, Stop, ForceCollect, Cycle,
                TryStartMarking, StartSweeping, FinishSweep, FinishGc, Own
  <2> QED
    BY <1>2, <1>4, <2>1, <2>2, <2>3, <2>4 DEF ThreadStep
<1>5. ASSUME TypeOK, CurrentIsTheContext, NEW h \in Heaps, NEW b \in running[h],
             BackgroundStep(h, b)
      PROVE  CurrentIsTheContext'
  BY <1>2, <1>5 DEF BackgroundStep, BackgroundExit, BackgroundAbort,
     TryStartMarking, Cycle, StartSweeping, FinishSweep, FinishGc, Own
<1>6. TypeOK /\ CurrentIsTheContext /\ [Next]_vars => CurrentIsTheContext'
  BY <1>2, <1>4, <1>5 DEF Next, vars
<1> QED
  BY <1>1, <1>6, TypeInductive, PTL DEF Spec

-----------------------------------------------------------------------------

(***************************************************************************)
(* A phase that is taken was taken by somebody who marks or sweeps.        *)
(***************************************************************************)
PhaseInv ==
  \A h \in Heaps : phase[h] # "Idle" =>
    \E c \in Collectors : stage[h][c] \in {"marking", "sweeping"}

(***************************************************************************)
(* A collector that stores Idle, or takes a phase for itself, keeps that.  *)
(***************************************************************************)
LEMMA AdvanceKeepsPhase ==
  ASSUME TypeOK, PhaseInv, NEW h \in Heaps, NEW c \in Collectors,
         NEW from, NEW to, NEW p, Advance(h, c, from, to, p),
         p = "Idle" \/ to \in {"marking", "sweeping"}
  PROVE  PhaseInv'
<1>1. /\ phase'[h] = p /\ stage'[h][c] = to
      /\ \A g \in Heaps \ {h} : phase'[g] = phase[g] /\ stage'[g] = stage[g]
  BY DEF Advance, TypeOK
<1> QED
  BY <1>1 DEF PhaseInv

(***************************************************************************)
(* Nobody leaves a heap with its phase taken: whether a cycle ended, was   *)
(* given up, or had its phase reset under it by another's second           *)
(* finish_gc, the next try_start_marking of an idle heap succeeds.         *)
(***************************************************************************)
THEOREM PhasesAreGivenBack == Spec => []PhaseIsGivenBack
<1>1. Init => PhaseInv
  BY DEF Init, PhaseInv
<1>2. ASSUME TypeOK, PhaseInv, UNCHANGED <<phase, stage>> PROVE PhaseInv'
  BY <1>2 DEF PhaseInv
<1>3. ASSUME TypeOK, PhaseInv, NEW h \in Heaps, NEW c \in Collectors,
             TryStartMarking(h, c) \/ Cycle(h, c) \/ BackgroundAbort(h, c)
      PROVE  PhaseInv'
  BY <1>3, AdvanceKeepsPhase DEF TryStartMarking, Cycle, StartSweeping,
     FinishSweep, FinishGc, BackgroundAbort
<1>4. ASSUME TypeOK, PhaseInv, NEW t \in Threads, ThreadStep(t)
      PROVE  PhaseInv'
  <2>1. ASSUME NEW h \in Heaps, ForceCollect(t, h) \/ Cycle(h, t)
        PROVE  PhaseInv'
    BY <1>3, <1>4, <2>1 DEF ForceCollect
  <2>2. CASE \/ DropContext(t) \/ Join(t)
             \/ \E h \in Heaps :
                  \/ NewHeap(t, h) \/ WithHeap(t, h) \/ CloneArc(t, h)
                  \/ DropArc(t, h) \/ Start(t, h) \/ Stop(t, h)
    BY <1>2, <1>4, <2>2 DEF DropContext, Join, NewHeap, WithHeap, CloneArc,
       DropArc, Start, Stop
  <2> QED
    BY <1>4, <2>1, <2>2 DEF ThreadStep
<1>5. ASSUME TypeOK, PhaseInv, NEW h \in Heaps, NEW b \in running[h],
             BackgroundStep(h, b)
      PROVE  PhaseInv'
  <2>1. b \in Collectors
    BY <1>5 DEF TypeOK
  <2>2. CASE BackgroundExit(h, b)
    BY <1>2, <1>5, <2>2 DEF BackgroundExit
  <2> QED
    BY <1>3, <1>5, <2>1, <2>2 DEF BackgroundStep
<1>6. TypeOK /\ PhaseInv /\ [Next]_vars => PhaseInv'
  BY <1>2, <1>4, <1>5 DEF Next, vars
<1>7. PhaseInv => PhaseIsGivenBack
  BY DEF PhaseInv, PhaseIsGivenBack
<1> QED
  BY <1>1, <1>6, <1>7, TypeInductive, PTL DEF Spec

=============================================================================
