------------------------- MODULE PluginSchedulerProofs -------------------------
(***************************************************************************)
(* What holds of PluginScheduler for every number of plugins, callers,     *)
(* workers and slots, and every value of its limits.                       *)
(***************************************************************************)
EXTENDS PluginScheduler, FiniteSetTheorems, TLAPS

\* The one-line tests and steps are always expanded.
USE DEF Unclaimed, QueueFull, Woken, PumpOrFinish

(***************************************************************************)
(* Types                                                                   *)
(***************************************************************************)
LEMMA SlotZero == 0 \in Slots
BY BoundsAssumption DEF Slots

LEMMA EmptySlotType == EmptySlot \in SlotType
BY BoundsAssumption DEF EmptySlot, SlotType, Results

LEMMA IdleTypes == IdleWorker \in WorkerType /\ IdleCaller \in CallerType
BY SlotZero DEF IdleWorker, IdleCaller, WorkerType, CallerType, WorkerPC,
                CallerPC, PumpPC, Results

LEMMA TypeInit == Init => TypeInv
BY EmptySlotType, IdleTypes DEF Init, TypeInv

\* A slot keeps its type when one field of it, or two, get a value of theirs.
LEMMA SlotFields ==
  ASSUME TypeInv, NEW s \in Slots
  PROVE  /\ slot[s].id \in Plugins \cup {NoPlugin}
         /\ slot[s].count \in 0..EventDepth
         /\ slot[s].ready \in Nat /\ slot[s].start_consumed \in Nat
         /\ slot[s].pending \in Nat /\ slot[s].stopped \in Nat
         /\ slot[s].stopping \in BOOLEAN
BY DEF TypeInv, SlotType

LEMMA SlotCounts ==
  ASSUME TypeInv, NEW s \in Slots, NEW n \in Nat
  PROVE  /\ [slot EXCEPT ![s].ready = n] \in [Slots -> SlotType]
         /\ [slot EXCEPT ![s].start_consumed = n] \in [Slots -> SlotType]
         /\ [slot EXCEPT ![s].pending = n] \in [Slots -> SlotType]
         /\ [slot EXCEPT ![s].stopped = n] \in [Slots -> SlotType]
         /\ n <= EventDepth =>
              [slot EXCEPT ![s].count = n] \in [Slots -> SlotType]
<1> slot[s] \in SlotType
  BY DEF TypeInv
<1> QED
  BY BoundsAssumption DEF TypeInv, SlotType

LEMMA WorkerMoves ==
  ASSUME TypeInv, NEW w \in Workers, NEW pc \in WorkerPC, NEW ret \in Results
  PROVE  /\ WGoto(w, pc) => worker' \in [Workers -> WorkerType]
         /\ WGotoWith(w, pc, ret) => worker' \in [Workers -> WorkerType]
         /\ EndCall(w, ret) => worker' \in [Workers -> WorkerType]
         /\ \A at \in PumpPC : PGoto(w, at) => worker' \in [Workers -> WorkerType]
         /\ Exit(w) => worker' \in [Workers -> WorkerType]
<1> worker[w] \in WorkerType
  BY DEF TypeInv
<1> QED
  BY IdleTypes DEF TypeInv, WGoto, WGotoWith, EndCall, PGoto, Exit, WorkerType,
                   WorkerPC, PumpPC

LEMMA CallerMoves ==
  ASSUME TypeInv, NEW c \in Callers, NEW pc \in CallerPC
  PROVE  /\ CGoto(c, pc) => caller' \in [Callers -> CallerType]
         /\ Return(c) => caller' \in [Callers -> CallerType]
<1> caller[c] \in CallerType
  BY DEF TypeInv
<1> QED
  BY IdleTypes DEF TypeInv, CGoto, Return, CallerType

LEMMA WorkerTypes ==
  ASSUME TypeInv, NEW w \in Workers, WorkerStep(w)
  PROVE  TypeInv'
<1> DEFINE s == worker[w].index
<1> USE DEF WorkerPC, PumpPC, Results
<1>0. /\ worker[w] \in WorkerType /\ s \in Slots /\ slot[s] \in SlotType
      /\ worker[w].ret \in Results
  BY DEF TypeInv, WorkerType
<1>1. CASE WorkerCallEnds(w) \/ WorkerAwaits(w) \/ WorkerTimesOut(w)
  BY <1>1, WorkerMoves DEF WorkerCallEnds, WorkerAwaits, WorkerTimesOut, TypeInv
<1>2. CASE WorkerPublish(w)
  <2>1. slot' \in [Slots -> SlotType]
    BY <1>0, <1>2 DEF WorkerPublish, TypeInv, SlotType
  <2> QED
    BY <1>2, <2>1, WorkerMoves DEF WorkerPublish, TypeInv
<1>3. CASE WorkerReady(w)
  <2>1. slot' = [slot EXCEPT ![s].ready = slot[s].ready + 1]
    BY <1>3 DEF WorkerReady
  <2>2. slot[s].ready + 1 \in Nat
    BY <1>0, SlotFields
  <2>3. slot' \in [Slots -> SlotType]
    BY <1>0, <2>1, <2>2, SlotCounts
  <2> QED
    BY <1>3, <2>3, WorkerMoves DEF WorkerReady, TypeInv
<1>4. CASE WorkerPump(w)
  BY <1>4, WorkerMoves DEF WorkerPump, TypeInv
<1>5. CASE WorkerCheck(w)
  <2>1. CASE ~slot[s].stopping /\ slot[s].count > 0
    <3>1. slot' = [slot EXCEPT ![s].count = slot[s].count - 1]
      BY <1>5, <2>1 DEF WorkerCheck
    <3>2. slot[s].count - 1 \in Nat /\ slot[s].count - 1 <= EventDepth
      BY <1>0, <2>1, SlotFields, BoundsAssumption
    <3>3. slot' \in [Slots -> SlotType]
      BY <1>0, <3>1, <3>2, SlotCounts
    <3> QED
      BY <1>5, <2>1, <3>3, WorkerMoves DEF WorkerCheck, TypeInv
  <2>2. CASE ~(~slot[s].stopping /\ slot[s].count > 0)
    BY <1>5, <2>2, WorkerMoves DEF WorkerCheck, TypeInv
  <2> QED
    BY <2>1, <2>2
<1>6. CASE WorkerWait(w)
  <2>1. slot' = [slot EXCEPT ![s].pending = slot[s].pending - 1]
    BY <1>6 DEF WorkerWait
  <2>2. slot[s].pending - 1 \in Nat
    BY <1>0, <1>6, SlotFields DEF WorkerWait
  <2>3. slot' \in [Slots -> SlotType]
    BY <1>0, <2>1, <2>2, SlotCounts
  <2> QED
    BY <1>6, <2>3, WorkerMoves DEF WorkerWait, TypeInv
<1>7. CASE WorkerAwaitPump(w)
  BY <1>7, WorkerMoves DEF WorkerAwaitPump, TypeInv
<1>8. CASE WorkerDispatched(w)
  <2>1. slot' \in [Slots -> SlotType]
    BY <1>0, <1>8 DEF WorkerDispatched, TypeInv, SlotType
  <2> QED
    BY <1>8, <2>1, WorkerMoves DEF WorkerDispatched, TypeInv
<1>9. CASE WorkerOnStop(w)
  BY <1>9, WorkerMoves DEF WorkerOnStop, TypeInv
<1>10. CASE WorkerFinish(w)
  <2>1. slot' \in [Slots -> SlotType]
    BY <1>0, <1>10 DEF WorkerFinish, TypeInv, SlotType
  <2> QED
    BY <1>0, <1>10, <2>1, WorkerMoves DEF WorkerFinish, TypeInv
<1>11. CASE WorkerHealth(w)
  <2>1. failures' \in [Plugins -> Nat]
    BY <1>11 DEF WorkerHealth, TypeInv
  <2> QED
    BY <1>11, <2>1, WorkerMoves DEF WorkerHealth, TypeInv
<1>12. CASE WorkerMark(w)
  <2>1. slot' \in [Slots -> SlotType]
    BY <1>0, <1>12 DEF WorkerMark, TypeInv, SlotType
  <2> QED
    BY <1>12, <2>1, WorkerMoves DEF WorkerMark, TypeInv
<1>13. CASE WorkerPost(w)
  <2>1. slot' = [slot EXCEPT ![s].stopped = slot[s].stopped + 1]
    BY <1>13 DEF WorkerPost
  <2>2. slot[s].stopped + 1 \in Nat
    BY <1>0, SlotFields
  <2>3. slot' \in [Slots -> SlotType]
    BY <1>0, <2>1, <2>2, SlotCounts
  <2>4. worker' \in [Workers -> WorkerType]
    BY <1>13, WorkerMoves DEF WorkerPost
  <2> QED
    BY <1>13, <2>3, <2>4 DEF WorkerPost, TypeInv
<1>14. CASE WorkerAwaitWoken(w)
  <2>1. CASE slot[s].pending > 0 /\ slot' = [slot EXCEPT ![s].pending = @ - 1]
    <3>1. slot[s].pending - 1 \in Nat
      BY <1>0, <2>1, SlotFields
    <3>2. slot' \in [Slots -> SlotType]
      BY <1>0, <2>1, <3>1, SlotCounts
    <3> QED
      BY <1>14, <3>2, WorkerMoves DEF WorkerAwaitWoken, TypeInv
  <2>2. CASE UNCHANGED slot
    BY <1>14, <2>2, WorkerMoves DEF WorkerAwaitWoken, TypeInv
  <2> QED
    BY <1>14, <2>1, <2>2 DEF WorkerAwaitWoken
<1> QED
  BY <1>1, <1>2, <1>3, <1>4, <1>5, <1>6, <1>7, <1>8, <1>9, <1>10, <1>11, <1>12,
     <1>13, <1>14 DEF WorkerStep

LEMMA CallerTypes ==
  ASSUME TypeInv, NEW c \in Callers, CallerStep(c)
  PROVE  TypeInv'
<1> DEFINE s == caller[c].index
<1>0. caller[c] \in CallerType /\ s \in Slots /\ slot[s] \in SlotType
  BY DEF TypeInv, CallerType
<1>1. CASE StartInsert(c)
  <2>1. PICK t \in Slots, w \in Workers :
          /\ slot' = [slot EXCEPT ![t] =
                        [EmptySlot EXCEPT !.id = caller[c].id, !.pid = w]]
          /\ worker' = [worker EXCEPT ![w] =
                          [IdleWorker EXCEPT !.pc = "load", !.index = t]]
          /\ caller' = [caller EXCEPT ![c].pc = "waitReady", ![c].index = t]
          /\ failures' = failures
    BY <1>1 DEF StartInsert
  <2>2. [EmptySlot EXCEPT !.id = caller[c].id, !.pid = w] \in SlotType
    BY <1>0, EmptySlotType DEF SlotType, CallerType, EmptySlot
  <2>3. [IdleWorker EXCEPT !.pc = "load", !.index = t] \in WorkerType
    BY DEF WorkerType, WorkerPC, PumpPC, IdleWorker, Results
  <2> QED
    BY <1>0, <2>1, <2>2, <2>3 DEF TypeInv, CallerType, CallerPC
<1>2. CASE StartRejected(c)
  BY <1>2, IdleTypes DEF StartRejected, Return, TypeInv
<1>3. CASE StartWaitReady(c)
  <2>1. slot' = [slot EXCEPT ![s].ready = slot[s].ready - 1]
    BY <1>3 DEF StartWaitReady
  <2>2. slot[s].ready - 1 \in Nat
    BY <1>0, <1>3, SlotFields DEF StartWaitReady
  <2>3. slot' \in [Slots -> SlotType]
    BY <1>0, <2>1, <2>2, SlotCounts
  <2> QED
    BY <1>3, <2>3, CallerMoves DEF StartWaitReady, TypeInv, CallerPC
<1>4. CASE StartConsume(c)
  <2> DEFINE n == slot[s].start_consumed + 1
             b == slot[s].stopping \/ (slot[s].start_result # "ok" /\ ~slot[s].stopping)
  <2>1. slot' = [slot EXCEPT ![s] = [slot[s] EXCEPT !.start_consumed = n,
                                                    !.stopping = b]]
    BY <1>0, <1>4 DEF StartConsume, TypeInv
  <2>2. n \in Nat /\ b \in BOOLEAN
    BY <1>0, SlotFields
  <2>3. [slot[s] EXCEPT !.start_consumed = n, !.stopping = b] \in SlotType
    <3> HIDE DEF n, b
    <3> QED
      BY <1>0, <2>2 DEF SlotType
  <2>4. slot' \in [Slots -> SlotType]
    BY <2>1, <2>3 DEF TypeInv
  <2> QED
    BY <1>4, <2>4, CallerMoves DEF StartConsume, TypeInv, CallerPC
<1>5. CASE ReapWaitStopped(c)
  <2>1. slot' = [slot EXCEPT ![s].stopped = slot[s].stopped - 1]
    BY <1>5 DEF ReapWaitStopped
  <2>2. slot[s].stopped - 1 \in Nat
    BY <1>0, <1>5, SlotFields DEF ReapWaitStopped
  <2>3. slot' \in [Slots -> SlotType]
    BY <1>0, <2>1, <2>2, SlotCounts
  <2> QED
    BY <1>5, <2>3, CallerMoves DEF ReapWaitStopped, TypeInv, CallerPC
<1>6. CASE ReapJoin(c)
  <2>1. worker' \in [Workers -> WorkerType]
    BY <1>6, IdleTypes DEF ReapJoin, Exit, TypeInv
  <2> QED
    BY <1>6, <2>1, CallerMoves DEF ReapJoin, TypeInv, CallerPC
<1>7. CASE StopWaitConsumed(c)
  <2>1. slot' = [slot EXCEPT ![s].start_consumed = slot[s].start_consumed - 1]
    BY <1>7 DEF StopWaitConsumed
  <2>2. slot[s].start_consumed - 1 \in Nat
    BY <1>0, <1>7, SlotFields DEF StopWaitConsumed
  <2>3. slot' \in [Slots -> SlotType]
    BY <1>0, <2>1, <2>2, SlotCounts
  <2> QED
    BY <1>7, <2>3, CallerMoves DEF StopWaitConsumed, TypeInv, CallerPC
<1>8. CASE ReapClear(c)
  BY <1>0, <1>8, EmptySlotType, IdleTypes DEF ReapClear, Return, TypeInv
<1> QED
  BY <1>1, <1>2, <1>3, <1>4, <1>5, <1>6, <1>7, <1>8 DEF CallerStep

LEMMA RequestTypes ==
  ASSUME TypeInv, Request
  PROVE  TypeInv'
<1>1. ASSUME NEW c \in Callers, NEW p \in Plugins, StartCheck(c, p)
      PROVE  TypeInv'
  <2>1. [caller[c] EXCEPT !.pc = "insert", !.op = "start", !.id = p] \in CallerType
    BY DEF TypeInv, CallerType, CallerPC
  <2>2. caller' = [caller EXCEPT ![c] =
                     [caller[c] EXCEPT !.pc = "insert", !.op = "start", !.id = p]]
    BY <1>1 DEF StartCheck, TypeInv
  <2> QED
    BY <1>1, <2>1, <2>2 DEF StartCheck, TypeInv
<1>2. ASSUME NEW c \in Callers, NEW p \in Plugins, StopClaim(c, p)
      PROVE  TypeInv'
  <2>1. PICK s \in Slots :
          /\ slot' = [slot EXCEPT ![s].stopping = TRUE, ![s].pending =
                        IF slot[s].task_stopped THEN @ ELSE @ + 1]
          /\ caller' = [caller EXCEPT ![c] =
               [pc |-> IF slot[s].task_stopped THEN "join" ELSE "waitStopped",
                op |-> "stop", id |-> p, index |-> s]]
    BY <1>2 DEF StopClaim
  <2>2. slot' \in [Slots -> SlotType]
    <3> DEFINE n == IF slot[s].task_stopped THEN slot[s].pending
                                            ELSE slot[s].pending + 1
    <3>1. slot[s] \in SlotType /\ n \in Nat
      BY SlotFields DEF TypeInv
    <3>2. slot' = [slot EXCEPT ![s] =
                    [slot[s] EXCEPT !.stopping = TRUE, !.pending = n]]
      BY <2>1 DEF TypeInv
    <3>3. [slot[s] EXCEPT !.stopping = TRUE, !.pending = n] \in SlotType
      <4> HIDE DEF n
      <4> QED
        BY <3>1 DEF SlotType
    <3> QED
      BY <3>2, <3>3 DEF TypeInv
  <2> QED
    BY <1>2, <2>1, <2>2 DEF StopClaim, TypeInv, CallerType, CallerPC
<1>3. ASSUME NEW p \in Plugins, Dispatch(p)
      PROVE  TypeInv'
  <2>1. PICK s \in Slots :
          /\ ~(slot[s].count >= EventDepth)
          /\ slot' = [slot EXCEPT ![s].count = @ + 1, ![s].pending = @ + 1]
    BY <1>3 DEF Dispatch
  <2> DEFINE n == slot[s].count + 1
             m == slot[s].pending + 1
  <2>2. slot[s] \in SlotType /\ n \in 0..EventDepth /\ m \in Nat
    BY <2>1, SlotFields, BoundsAssumption DEF TypeInv
  <2>3. slot' = [slot EXCEPT ![s] = [slot[s] EXCEPT !.count = n, !.pending = m]]
    BY <2>1 DEF TypeInv
  <2>4. [slot[s] EXCEPT !.count = n, !.pending = m] \in SlotType
    <3> HIDE DEF n, m
    <3> QED
      BY <2>2 DEF SlotType
  <2> QED
    BY <1>3, <2>3, <2>4 DEF Dispatch, TypeInv
<1>4. ASSUME NEW p \in Plugins, HealthReset(p)
      PROVE  TypeInv'
  BY <1>4 DEF HealthReset, TypeInv
<1>5. ASSUME NEW p \in Plugins, Notify(p)
      PROVE  TypeInv'
  <2>1. PICK s \in Slots : slot' = [slot EXCEPT ![s].pending = slot[s].pending + 1]
    BY <1>5 DEF Notify
  <2>2. slot[s].pending + 1 \in Nat
    BY SlotFields
  <2>3. slot' \in [Slots -> SlotType]
    BY <2>1, <2>2, SlotCounts
  <2> QED
    BY <1>5, <2>3 DEF Notify, TypeInv
<1> QED
  BY <1>1, <1>2, <1>3, <1>4, <1>5 DEF Request

LEMMA TypeNext == TypeInv /\ [Next]_vars => TypeInv'
<1> SUFFICES ASSUME TypeInv, [Next]_vars PROVE TypeInv'
  OBVIOUS
<1>1. CASE UNCHANGED vars
  BY <1>1 DEF vars, TypeInv
<1>2. CASE Next
  BY <1>2, WorkerTypes, CallerTypes, RequestTypes DEF Next
<1> QED
  BY <1>1, <1>2

\* Every variable keeps its type: in particular a slot never queues more than
\* EventDepth events, and a caller or a worker always points at a slot of the
\* table (the ring and the index arguments of ny_scheduler.c).
THEOREM TypeCorrect == Spec => []TypeInv
<1>1. Init => TypeInv
  BY TypeInit
<1>2. TypeInv /\ [Next]_vars => TypeInv'
  BY TypeNext
<1> QED
  BY <1>1, <1>2, PTL DEF Spec

(***************************************************************************)
(* The handover of a slot between starters and reapers                     *)
(***************************************************************************)
\* What a step of a worker, an event or a reset leaves alone.
SameOwners ==
  /\ caller' = caller
  /\ \A s \in Slots :
       /\ slot'[s].id = slot[s].id
       /\ slot'[s].pid = slot[s].pid
       /\ slot'[s].stopping = slot[s].stopping
       /\ slot'[s].start_consumed = slot[s].start_consumed

LEMMA WorkerSameOwners ==
  ASSUME TypeInv, NEW w \in Workers, WorkerStep(w)
  PROVE  SameOwners
<1>1. slot \in [Slots -> SlotType]
  BY DEF TypeInv
<1>2. CASE WorkerCallEnds(w) \/ WorkerAwaits(w) \/ WorkerAwaitPump(w)
           \/ WorkerTimesOut(w) \/ WorkerPump(w) \/ WorkerOnStop(w)
           \/ WorkerHealth(w)
  BY <1>2 DEF WorkerCallEnds, WorkerAwaits, WorkerAwaitPump, WorkerTimesOut,
              WorkerPump, WorkerOnStop, WorkerHealth, SameOwners
<1>3. CASE WorkerPublish(w) \/ WorkerReady(w) \/ WorkerDispatched(w)
  BY <1>1, <1>3 DEF WorkerPublish, WorkerReady, WorkerDispatched, SameOwners, SlotType
<1>4. CASE WorkerCheck(w) \/ WorkerWait(w) \/ WorkerAwaitWoken(w)
  BY <1>1, <1>4 DEF WorkerCheck, WorkerWait, WorkerAwaitWoken, SameOwners, SlotType
<1>5. CASE WorkerFinish(w) \/ WorkerMark(w) \/ WorkerPost(w)
  BY <1>1, <1>5 DEF WorkerFinish, WorkerMark, WorkerPost, SameOwners, SlotType
<1> QED
  BY <1>2, <1>3, <1>4, <1>5 DEF WorkerStep

LEMMA EventSameOwners ==
  ASSUME TypeInv, NEW p \in Plugins,
         Dispatch(p) \/ Notify(p) \/ HealthReset(p)
  PROVE  SameOwners
<1>1. slot \in [Slots -> SlotType]
  BY DEF TypeInv
<1>2. CASE Dispatch(p)
  BY <1>1, <1>2 DEF Dispatch, SameOwners, SlotType
<1>4. CASE Notify(p)
  BY <1>1, <1>4 DEF Notify, SameOwners, SlotType
<1>3. CASE HealthReset(p)
  BY <1>3 DEF HealthReset, SameOwners
<1> QED
  BY <1>2, <1>3, <1>4

LEMMA HandoverInit == Init => HandoverInv
BY DEF Init, IdleCaller, HandoverInv, Starting, Reaping

LEMMA HandoverSameOwners ==
  ASSUME TypeInv, HandoverInv, SameOwners
  PROVE  HandoverInv'
BY DEF TypeInv, CallerType, HandoverInv, SameOwners, Starting, Reaping

LEMMA HandoverCaller ==
  ASSUME TypeInv, HandoverInv, NEW c \in Callers, CallerStep(c)
  PROVE  HandoverInv'
<1> DEFINE s == caller[c].index
<1> USE DEF HandoverInv, Starting, Reaping
<1>0. /\ caller \in [Callers -> CallerType] /\ slot \in [Slots -> SlotType]
      /\ s \in Slots /\ \A d \in Callers : caller[d].index \in Slots
      /\ \A t \in Slots : slot[t].start_consumed \in Nat
  BY DEF TypeInv, CallerType, SlotType
<1>1. CASE StartInsert(c)
  <2>1. PICK t \in Slots, w \in Workers :
          /\ FirstEmpty(t)
          /\ slot' = [slot EXCEPT ![t] =
                        [EmptySlot EXCEPT !.id = caller[c].id, !.pid = w]]
          /\ caller' = [caller EXCEPT ![c].pc = "waitReady", ![c].index = t]
    BY <1>1 DEF StartInsert
  <2>2. slot[t].id = NoPlugin /\ NoPlugin \notin Plugins
    BY <2>1, NullAssumption DEF FirstEmpty, Occupied
  <2>3. caller'[c].pc = "waitReady" /\ caller'[c].index = t
        /\ caller'[c].id = caller[c].id /\ caller[c].id \in Plugins
    BY <1>0, <1>1, <2>1 DEF CallerType, StartInsert
  <2>4. \A d \in Callers \ {c} : caller'[d] = caller[d]
    BY <1>0, <2>1
  <2>5. slot'[t].id = caller[c].id /\ slot'[t].start_consumed = 0
    BY <1>0, <2>1 DEF EmptySlot
  <2>6. \A u \in Slots \ {t} : slot'[u] = slot[u]
    BY <1>0, <2>1
  <2>7. \A d \in Callers \ {c} : caller[d].index = t => ~Starting(d) /\ ~Reaping(d)
    BY <2>2
  <2> QED
    BY <1>0, <2>3, <2>4, <2>5, <2>6, <2>7
<1>2. CASE StartRejected(c)
  BY <1>0, <1>2 DEF StartRejected, Return, IdleCaller
<1>3. CASE StartWaitReady(c)
  <2>1. /\ caller[c].pc = "waitReady" /\ caller' = [caller EXCEPT ![c].pc = "consume"]
        /\ slot' = [slot EXCEPT ![s].ready = @ - 1]
    BY <1>3 DEF StartWaitReady, CGoto
  <2>2. \A u \in Slots : /\ slot'[u].id = slot[u].id
                         /\ slot'[u].stopping = slot[u].stopping
                         /\ slot'[u].start_consumed = slot[u].start_consumed
    BY <1>0, <2>1 DEF SlotType
  <2> QED
    BY <1>0, <2>1, <2>2 DEF CallerType
<1>4. CASE StartConsume(c)
  <2>1. \A u \in Slots : slot'[u].id = slot[u].id
    BY <1>0, <1>4 DEF StartConsume, SlotType
  <2>2. \A u \in Slots \ {s} : slot'[u] = slot[u]
    BY <1>0, <1>4 DEF StartConsume
  <2>3. slot[s].stopping => slot'[s].stopping
    BY <1>0, <1>4 DEF StartConsume, SlotType
  <2>4. \A d \in Callers \ {c} : caller'[d] = caller[d]
    BY <1>0, <1>4 DEF StartConsume, CGoto, Return
  <2>5. /\ caller[c].pc = "consume" /\ slot[s].id = caller[c].id
        /\ caller[c].id \in Plugins
        /\ \A d \in Callers \ {c} : caller[d].index = s => ~Starting(d)
    BY <1>4 DEF StartConsume
  <2>6. CASE slot[s].start_result # "ok" /\ ~slot[s].stopping
    <3>1. caller'[c] = [caller[c] EXCEPT !.pc = "waitStopped"]
      BY <1>0, <1>4, <2>6 DEF StartConsume, CGoto
    <3>2. slot'[s].stopping
      BY <1>0, <1>4, <2>6 DEF StartConsume, SlotType
    <3>3. \A d \in Callers \ {c} : caller[d].index = s => ~Reaping(d)
      BY <2>6
    <3>4. /\ caller'[c].pc = "waitStopped" /\ caller'[c].index = s
          /\ caller'[c].id = caller[c].id
      BY <1>0, <3>1 DEF CallerType
    <3> QED
      BY <1>0, <2>1, <2>2, <2>3, <2>4, <2>5, <3>2, <3>3, <3>4
  <2>7. CASE ~(slot[s].start_result # "ok" /\ ~slot[s].stopping)
    <3>1. caller'[c].pc = "idle"
      BY <1>0, <1>4, <2>7 DEF StartConsume, Return, IdleCaller
    <3> QED
      BY <1>0, <2>1, <2>2, <2>3, <2>4, <2>5, <3>1
  <2> QED
    BY <2>6, <2>7
<1>5. CASE ReapWaitStopped(c)
  <2>1. /\ caller[c].pc = "waitStopped" /\ caller' = [caller EXCEPT ![c].pc = "join"]
        /\ slot' = [slot EXCEPT ![s].stopped = @ - 1]
    BY <1>5 DEF ReapWaitStopped, CGoto
  <2>2. \A u \in Slots : /\ slot'[u].id = slot[u].id
                         /\ slot'[u].stopping = slot[u].stopping
                         /\ slot'[u].start_consumed = slot[u].start_consumed
    BY <1>0, <2>1 DEF SlotType
  <2> QED
    BY <1>0, <2>1, <2>2 DEF CallerType
<1>6. CASE ReapJoin(c)
  <2>1. /\ caller[c].pc = "join" /\ slot' = slot
        /\ caller' = [caller EXCEPT ![c].pc =
                        IF caller[c].op = "stop" THEN "waitConsumed" ELSE "clear"]
    BY <1>6 DEF ReapJoin, CGoto
  <2>2. caller[c].op = "stop" \/ caller[c].op = "start"
    BY <1>0 DEF CallerType
  <2> QED
    BY <1>0, <2>1, <2>2 DEF CallerType
<1>7. CASE StopWaitConsumed(c)
  <2>1. /\ caller[c].pc = "waitConsumed" /\ slot[s].start_consumed > 0
        /\ caller' = [caller EXCEPT ![c].pc = "clear"]
        /\ slot' = [slot EXCEPT ![s].start_consumed = @ - 1]
    BY <1>7 DEF StopWaitConsumed, CGoto
  <2>2. \A u \in Slots : /\ slot'[u].id = slot[u].id
                         /\ slot'[u].stopping = slot[u].stopping
    BY <1>0, <2>1 DEF SlotType
  <2>3. \A u \in Slots \ {s} : slot'[u] = slot[u]
    BY <1>0, <2>1
  <2>4. \A d \in Callers : caller[d].index = s => ~Starting(d)
    BY <1>0, <2>1
  <2> QED
    BY <1>0, <2>1, <2>2, <2>3, <2>4 DEF CallerType
<1>8. CASE ReapClear(c)
  <2>1. /\ caller[c].pc = "clear" /\ caller' = [caller EXCEPT ![c] = IdleCaller]
        /\ slot' = [slot EXCEPT ![s] = EmptySlot]
    BY <1>8 DEF ReapClear, Return
  <2>2. \A d \in Callers \ {c} : caller[d].index = s => ~Starting(d) /\ ~Reaping(d)
    BY <2>1
  <2> QED
    BY <1>0, <2>1, <2>2 DEF IdleCaller
<1> QED
  BY <1>1, <1>2, <1>3, <1>4, <1>5, <1>6, <1>7, <1>8 DEF CallerStep

LEMMA HandoverRequest ==
  ASSUME TypeInv, HandoverInv, Request
  PROVE  HandoverInv'
<1>0. caller \in [Callers -> CallerType] /\ slot \in [Slots -> SlotType]
  BY DEF TypeInv
<1>1. ASSUME NEW c \in Callers, NEW p \in Plugins, StartCheck(c, p)
      PROVE  HandoverInv'
  <2>1. slot' = slot /\ caller'[c].pc = "insert" /\ caller'[c].id = p
        /\ \A d \in Callers \ {c} : caller'[d] = caller[d]
    BY <1>0, <1>1 DEF StartCheck, CallerType
  <2> QED
    BY <1>0, <2>1 DEF HandoverInv, Starting, Reaping
<1>2. ASSUME NEW c \in Callers, NEW p \in Plugins, StopClaim(c, p)
      PROVE  HandoverInv'
  <2>1. PICK s \in Slots :
          /\ slot[s].id = p /\ ~slot[s].stopping
          /\ slot' = [slot EXCEPT ![s].stopping = TRUE, ![s].pending =
                        IF slot[s].task_stopped THEN @ ELSE @ + 1]
          /\ caller' = [caller EXCEPT ![c] =
               [pc |-> IF slot[s].task_stopped THEN "join" ELSE "waitStopped",
                op |-> "stop", id |-> p, index |-> s]]
    BY <1>2 DEF StopClaim
  <2>2. /\ slot'[s].stopping
        /\ \A u \in Slots : /\ slot'[u].id = slot[u].id
                            /\ slot'[u].start_consumed = slot[u].start_consumed
        /\ \A u \in Slots \ {s} : slot'[u] = slot[u]
    BY <1>0, <2>1 DEF SlotType
  <2>3. /\ caller'[c].pc \in {"join", "waitStopped"} /\ caller'[c].op = "stop"
        /\ caller'[c].id = p /\ caller'[c].index = s
        /\ \A d \in Callers \ {c} : caller'[d] = caller[d]
    BY <1>0, <2>1
  <2>4. \A d \in Callers \ {c} : caller[d].index = s => ~Reaping(d)
    BY <2>1 DEF HandoverInv
  <2>5. \A d \in Callers : caller[d].index \in Slots
    BY <1>0 DEF CallerType
  <2>6. \A d \in Callers : caller'[d].pc # "idle" => caller'[d].id \in Plugins
    BY <2>3 DEF HandoverInv
  <2>7. \A d \in Callers : Starting(d)' =>
          /\ slot'[caller'[d].index].id = caller'[d].id
          /\ slot'[caller'[d].index].start_consumed = 0
    BY <2>2, <2>3, <2>5 DEF HandoverInv, Starting
  <2>8. \A d \in Callers : Reaping(d)' =>
          /\ slot'[caller'[d].index].id \in Plugins
          /\ slot'[caller'[d].index].stopping
    <3> SUFFICES ASSUME NEW d \in Callers, Reaping(d)'
                 PROVE  /\ slot'[caller'[d].index].id \in Plugins
                        /\ slot'[caller'[d].index].stopping
      OBVIOUS
    <3>1. CASE d = c
      <4>1. caller'[d].index = s
        BY <2>3, <3>1
      <4>2. slot[s].id \in Plugins
        BY <2>1
      <4>3. slot'[s].id = slot[s].id /\ slot'[s].stopping
        BY <2>2
      <4> QED
        BY <4>1, <4>2, <4>3
    <3>2. CASE d # c
      <4>1. caller'[d] = caller[d] /\ Reaping(d) /\ caller[d].index \in Slots
        BY <2>3, <2>5, <3>2 DEF Reaping
      <4>2. slot[caller[d].index].id \in Plugins /\ slot[caller[d].index].stopping
        BY <4>1 DEF HandoverInv
      <4> QED
        BY <2>2, <4>1, <4>2
    <3> QED
      BY <3>1, <3>2
  <2>9. \A d, e \in Callers : d # e /\ caller'[d].index = caller'[e].index =>
          /\ ~(Starting(d)' /\ Starting(e)')
          /\ ~(Reaping(d)' /\ Reaping(e)')
          /\ Reaping(d)' /\ (caller'[d].op = "start" \/ caller'[d].pc = "clear")
               => ~Starting(e)'
    BY <2>3, <2>4 DEF HandoverInv, Starting, Reaping
  <2> QED
    BY <2>6, <2>7, <2>8, <2>9 DEF HandoverInv
<1>3. ASSUME NEW p \in Plugins, Dispatch(p) \/ Notify(p) \/ HealthReset(p)
      PROVE  HandoverInv'
  BY <1>3, EventSameOwners, HandoverSameOwners
<1> QED
  BY <1>1, <1>2, <1>3 DEF Request

LEMMA HandoverNext == TypeInv /\ HandoverInv /\ [Next]_vars => HandoverInv'
<1> SUFFICES ASSUME TypeInv, HandoverInv, [Next]_vars PROVE HandoverInv'
  OBVIOUS
<1>1. CASE UNCHANGED vars
  BY <1>1, HandoverSameOwners DEF vars, SameOwners
<1>2. CASE Next
  BY <1>2, WorkerSameOwners, HandoverSameOwners, HandoverCaller, HandoverRequest
     DEF Next
<1> QED
  BY <1>1, <1>2

\* The handover of slots between starters and reapers is an invariant of both
\* builds.
THEOREM HandoverCorrect == Spec => []HandoverInv
<1>1. Init => HandoverInv
  BY HandoverInit
<1>2. TypeInv /\ HandoverInv /\ [Next]_vars => HandoverInv'
  BY HandoverNext
<1> QED
  BY <1>1, <1>2, TypeCorrect, PTL DEF Spec

\* The wait/join/clear sequence of a slot never has two owners, whatever
\* starts, failing starts and stops race for it (ny_scheduler_start_config and
\* ny_scheduler_stop).
THEOREM OneReaperCorrect == Spec => []OneReaper
<1>1. HandoverInv => OneReaper
  BY DEF HandoverInv, OneReaper
<1> QED
  BY <1>1, HandoverCorrect, PTL

\* A slot is never destroyed or reused before the caller that started it has
\* read the result: what the semaphore start_consumed is for.
THEOREM SlotKeptForStarterCorrect == Spec => []SlotKeptForStarter
<1>1. HandoverInv => SlotKeptForStarter
  BY DEF HandoverInv, SlotKeptForStarter
<1> QED
  BY <1>1, HandoverCorrect, PTL

(***************************************************************************)
(* Workers and their slots, in the build that joins them                   *)
(***************************************************************************)
\* The steps of a call that may await.  They leave the worker in its call or
\* end it, and at most take a count of "pending"; one that goes to sleep has
\* found no stop.
CallStep(w) ==
  \/ WorkerCallEnds(w) \/ WorkerAwaits(w) \/ WorkerAwaitPump(w)
  \/ WorkerAwaitWoken(w) \/ WorkerTimesOut(w)

LEMMA CallSteps ==
  ASSUME TypeInv, NEW w \in Workers, CallStep(w)
  PROVE  /\ InCall(w)
         /\ worker'[w].index = worker[w].index
         /\ \/ worker'[w].pc = worker[w].pc
            \/ worker[w].pc = "load" /\ worker'[w].pc = "publish"
            \/ worker[w].pc = "dispatch" /\ worker'[w].pc = "dispatched"
         /\ \A v \in Workers \ {w} : worker'[v] = worker[v]
         /\ \A u \in Slots \ {worker[w].index} : slot'[u] = slot[u]
         /\ \A u \in Slots :
              /\ slot'[u].id = slot[u].id /\ slot'[u].pid = slot[u].pid
              /\ slot'[u].start_result = slot[u].start_result
              /\ slot'[u].task_stopped = slot[u].task_stopped
              /\ slot'[u].stopping = slot[u].stopping
         /\ worker'[w].pump = "out" \/ InCall(w)'
         /\ worker'[w].pump = "asleep" =>
              ~slot'[worker[w].index].stopping
         /\ caller' = caller /\ failures' = failures
<1>0. /\ slot \in [Slots -> SlotType] /\ worker \in [Workers -> WorkerType]
      /\ worker[w] \in WorkerType
  BY DEF TypeInv, WorkerType
<1>1. CASE WorkerCallEnds(w) \/ WorkerTimesOut(w)
  BY <1>0, <1>1 DEF WorkerCallEnds, WorkerTimesOut, InPump, InCall, EndCall,
     WorkerType
<1>2. CASE WorkerAwaits(w)
  BY <1>0, <1>2 DEF WorkerAwaits, InPump, InCall, PGoto, WorkerType
<1>3. CASE WorkerAwaitPump(w)
  BY <1>0, <1>3 DEF WorkerAwaitPump, InPump, InCall, EndCall, PGoto, WorkerType
<1>4. CASE WorkerAwaitWoken(w)
  BY <1>0, <1>4 DEF WorkerAwaitWoken, InPump, InCall, PGoto, WorkerType, SlotType
<1> QED
  BY <1>1, <1>2, <1>3, <1>4 DEF CallStep

\* A step of a worker moves that worker, and touches no slot but its own.
LEMMA WorkerOwnStep ==
  ASSUME TypeInv, NEW w \in Workers, WorkerStep(w)
  PROVE  /\ worker[w].pc # "idle"
         /\ worker'[w].pc # "idle" => worker'[w].index = worker[w].index
         /\ \A v \in Workers \ {w} : worker'[v] = worker[v]
         /\ \A u \in Slots \ {worker[w].index} : slot'[u] = slot[u]
<1>0. /\ worker \in [Workers -> WorkerType] /\ slot \in [Slots -> SlotType]
      /\ worker[w] \in WorkerType
  BY DEF TypeInv
<1>1. CASE WorkerPump(w) \/ WorkerOnStop(w) \/ WorkerHealth(w)
  BY <1>0, <1>1 DEF WorkerPump, WorkerOnStop, WorkerHealth, WGoto, WGotoWith,
     WorkerType
<1>6. CASE CallStep(w)
  BY <1>0, <1>6, CallSteps DEF InCall
<1>2. CASE WorkerPublish(w) \/ WorkerReady(w) \/ WorkerDispatched(w)
  BY <1>0, <1>2 DEF WorkerPublish, WorkerReady, WorkerDispatched, WGoto, WorkerType
<1>3. CASE WorkerCheck(w) \/ WorkerWait(w)
  BY <1>0, <1>3 DEF WorkerCheck, WorkerWait, WGoto, WorkerType
<1>4. CASE WorkerFinish(w) \/ WorkerMark(w)
  BY <1>0, <1>4 DEF WorkerFinish, WorkerMark, WGoto, WGotoWith, WorkerType
<1>5. CASE WorkerPost(w)
  BY <1>0, <1>5 DEF WorkerPost, WGoto, Exit, IdleWorker, WorkerType
<1> QED
  BY <1>1, <1>2, <1>3, <1>4, <1>5, <1>6 DEF WorkerStep, CallStep

\* The steps that neither fill nor clear a slot, nor join a worker.
SameJoins ==
  /\ \A s \in Slots : slot'[s].id = slot[s].id /\ slot'[s].pid = slot[s].pid
  /\ \A w \in Workers : worker'[w].pc # "idle" =>
       worker[w].pc # "idle" /\ worker'[w].index = worker[w].index
  /\ \A c \in Callers : caller'[c].pc \in {"waitConsumed", "clear"} =>
       /\ caller[c].pc \in {"waitConsumed", "clear"}
       /\ caller'[c].index = caller[c].index

LEMMA JoinSameJoins ==
  ASSUME TypeInv, JoinInv, SameJoins
  PROVE  JoinInv'
<1>1. \A w \in Workers : worker[w].index \in Slots
  BY DEF TypeInv, WorkerType
<1> QED
  BY <1>1 DEF JoinInv, SameJoins

LEMMA WorkerSameJoins ==
  ASSUME TypeInv, NEW w \in Workers, WorkerStep(w)
  PROVE  SameJoins
BY WorkerOwnStep, WorkerSameOwners DEF SameJoins, SameOwners

LEMMA JoinInit == Init => JoinInv
BY DEF Init, IdleWorker, IdleCaller, JoinInv

LEMMA JoinCaller ==
  ASSUME TypeInv, HandoverInv, JoinInv, BuildKernel = TRUE,
         NEW c \in Callers, CallerStep(c)
  PROVE  JoinInv'
<1> DEFINE s == caller[c].index
<1>0. /\ caller \in [Callers -> CallerType] /\ slot \in [Slots -> SlotType]
      /\ worker \in [Workers -> WorkerType] /\ s \in Slots
      /\ \A d \in Callers : caller[d].index \in Slots
      /\ \A w \in Workers : worker[w].index \in Slots
  BY DEF TypeInv, CallerType, WorkerType
<1>1. CASE StartInsert(c)
  <2>1. PICK t \in Slots, w \in Workers :
          /\ FirstEmpty(t) /\ worker[w].pc = "idle"
          /\ slot' = [slot EXCEPT ![t] =
                        [EmptySlot EXCEPT !.id = caller[c].id, !.pid = w]]
          /\ worker' = [worker EXCEPT ![w] =
                          [IdleWorker EXCEPT !.pc = "load", !.index = t]]
          /\ caller' = [caller EXCEPT ![c].pc = "waitReady", ![c].index = t]
    BY <1>1 DEF StartInsert
  <2>2. slot[t].id \notin Plugins
    BY <2>1, NullAssumption DEF FirstEmpty, Occupied
  <2>3. caller[c].id \in Plugins
    BY <1>1 DEF StartInsert, HandoverInv
  <2>4. /\ slot'[t].id = caller[c].id /\ slot'[t].pid = w
        /\ \A u \in Slots \ {t} : slot'[u] = slot[u]
    BY <1>0, <2>1 DEF EmptySlot
  <2>5. /\ worker'[w].index = t
        /\ \A v \in Workers \ {w} : worker'[v] = worker[v]
    BY <1>0, <2>1
  <2>6. /\ caller'[c].pc = "waitReady"
        /\ \A d \in Callers \ {c} : caller'[d] = caller[d]
    BY <1>0, <2>1 DEF CallerType
  <2>7. \A v \in Workers : worker[v].pc # "idle" => worker[v].index # t
    BY <2>2 DEF JoinInv
  <2>8. \A d \in Callers : caller[d].pc \in {"waitConsumed", "clear"} =>
                            caller[d].index # t
    BY <2>2 DEF HandoverInv, Reaping
  <2>9. \A v \in Workers : worker'[v].pc # "idle" =>
          slot'[worker'[v].index].pid = v /\ slot'[worker'[v].index].id \in Plugins
    BY <1>0, <2>3, <2>4, <2>5, <2>7 DEF JoinInv
  <2>10. \A d \in Callers, v \in Workers :
           caller'[d].pc \in {"waitConsumed", "clear"} /\ worker'[v].pc # "idle"
             => worker'[v].index # caller'[d].index
    BY <1>0, <2>5, <2>6, <2>8 DEF JoinInv
  <2> QED
    BY <2>9, <2>10 DEF JoinInv
<1>2. CASE StartRejected(c)
  BY <1>0, <1>2, JoinSameJoins DEF StartRejected, Return, IdleCaller, SameJoins
<1>3. CASE StartWaitReady(c)
  BY <1>0, <1>3, JoinSameJoins
     DEF StartWaitReady, CGoto, SameJoins, SlotType, CallerType
<1>4. CASE StartConsume(c)
  <2>1. \A u \in Slots : slot'[u].id = slot[u].id /\ slot'[u].pid = slot[u].pid
    BY <1>0, <1>4 DEF StartConsume, SlotType
  <2>2. \A d \in Callers : caller'[d].pc \in {"idle", "waitStopped"} \/
                            caller'[d] = caller[d]
    BY <1>0, <1>4 DEF StartConsume, CGoto, Return, IdleCaller, CallerType
  <2> QED
    BY <1>4, <2>1, <2>2, JoinSameJoins DEF StartConsume, SameJoins
<1>5. CASE ReapWaitStopped(c)
  BY <1>0, <1>5, JoinSameJoins
     DEF ReapWaitStopped, CGoto, SameJoins, SlotType, CallerType
<1>6. CASE ReapJoin(c)
  <2> DEFINE x == slot[s].pid
  <2>1. /\ x \in Workers /\ worker[x].pc = "exited" /\ slot' = slot
        /\ worker' = [worker EXCEPT ![x] = IdleWorker]
    BY <1>6 DEF ReapJoin, Exit
  <2>2. /\ caller'[c].index = s
        /\ \A d \in Callers \ {c} : caller'[d] = caller[d]
    BY <1>0, <1>6 DEF ReapJoin, CGoto, CallerType
  <2>3. /\ worker'[x].pc = "idle"
        /\ \A v \in Workers \ {x} : worker'[v] = worker[v]
    BY <1>0, <2>1 DEF IdleWorker
  <2>4. \A v \in Workers : worker'[v].pc # "idle" => worker'[v].index # s
    BY <2>3 DEF JoinInv
  <2>5. \A v \in Workers : worker'[v].pc # "idle" =>
          slot'[worker'[v].index].pid = v /\ slot'[worker'[v].index].id \in Plugins
    BY <2>1, <2>3 DEF JoinInv
  <2>6. \A d \in Callers, v \in Workers :
           caller'[d].pc \in {"waitConsumed", "clear"} /\ worker'[v].pc # "idle"
             => worker'[v].index # caller'[d].index
    BY <2>2, <2>3, <2>4 DEF JoinInv
  <2> QED
    BY <2>5, <2>6 DEF JoinInv
<1>7. CASE StopWaitConsumed(c)
  BY <1>0, <1>7, JoinSameJoins
     DEF StopWaitConsumed, CGoto, SameJoins, SlotType, CallerType
<1>8. CASE ReapClear(c)
  <2>1. /\ caller[c].pc = "clear" /\ worker' = worker /\ caller'[c].pc = "idle"
        /\ \A d \in Callers \ {c} : caller'[d] = caller[d]
        /\ \A u \in Slots \ {s} : slot'[u] = slot[u]
    BY <1>0, <1>8 DEF ReapClear, Return, IdleCaller
  <2>2. \A v \in Workers : worker[v].pc # "idle" => worker[v].index # s
    BY <2>1 DEF JoinInv
  <2> QED
    BY <1>0, <2>1, <2>2 DEF JoinInv
<1> QED
  BY <1>1, <1>2, <1>3, <1>4, <1>5, <1>6, <1>7, <1>8 DEF CallerStep

LEMMA RequestSameJoins ==
  ASSUME TypeInv, Request
  PROVE  SameJoins
<1>0. /\ caller \in [Callers -> CallerType] /\ slot \in [Slots -> SlotType]
      /\ worker \in [Workers -> WorkerType]
  BY DEF TypeInv
<1>1. ASSUME NEW c \in Callers, NEW p \in Plugins, StartCheck(c, p)
      PROVE  SameJoins
  BY <1>0, <1>1 DEF StartCheck, SameJoins, CallerType
<1>2. ASSUME NEW c \in Callers, NEW p \in Plugins, StopClaim(c, p)
      PROVE  SameJoins
  <2>1. \A u \in Slots : slot'[u].id = slot[u].id /\ slot'[u].pid = slot[u].pid
    BY <1>0, <1>2 DEF StopClaim, SlotType
  <2>2. \A d \in Callers : caller'[d].pc \in {"join", "waitStopped"} \/
                            caller'[d] = caller[d]
    BY <1>0, <1>2 DEF StopClaim
  <2> QED
    BY <1>2, <2>1, <2>2 DEF StopClaim, SameJoins
<1>3. ASSUME NEW p \in Plugins, Dispatch(p) \/ Notify(p) \/ HealthReset(p)
      PROVE  SameJoins
  <2>1. worker' = worker
    BY <1>3 DEF Dispatch, Notify, HealthReset
  <2> QED
    BY <1>3, <2>1, EventSameOwners DEF SameOwners, SameJoins
<1> QED
  BY <1>1, <1>2, <1>3 DEF Request

LEMMA JoinNext ==
  ASSUME BuildKernel = TRUE
  PROVE  TypeInv /\ HandoverInv /\ JoinInv /\ [Next]_vars => JoinInv'
<1> SUFFICES ASSUME TypeInv, HandoverInv, JoinInv, [Next]_vars PROVE JoinInv'
  OBVIOUS
<1>1. CASE UNCHANGED vars
  BY <1>1, JoinSameJoins DEF vars, SameJoins
<1>2. CASE Next
  BY <1>2, WorkerSameJoins, RequestSameJoins, JoinSameJoins, JoinCaller DEF Next
<1> QED
  BY <1>1, <1>2

\* Every worker that is not joined has the slot it was started for, and a
\* reaper past pthread_join has none.
THEOREM JoinCorrect ==
  ASSUME BuildKernel = TRUE
  PROVE  Spec => []JoinInv
<1>1. Init => JoinInv
  BY JoinInit
<1>2. TypeInv /\ HandoverInv /\ JoinInv /\ [Next]_vars => JoinInv'
  BY JoinNext
<1> QED
  BY <1>1, <1>2, TypeCorrect, HandoverCorrect, PTL DEF Spec

\* With pthread_join, no slot is cleared while its worker may still touch it,
\* so no plugin is given a slot that the worker of another one still uses.
\* Without it (the flat build) this is false: see NoPluginLeftRunning.
THEOREM WorkerOwnsSlotCorrect ==
  ASSUME BuildKernel = TRUE
  PROVE  Spec => []WorkerOwnsSlot
<1>1. JoinInv => WorkerOwnsSlot
  BY DEF JoinInv, WorkerOwnsSlot, Live
<1> QED
  BY <1>1, JoinCorrect, PTL

(***************************************************************************)
(* Wakeups                                                                 *)
(***************************************************************************)
\* The steps that leave a worker's knowledge of its slot alone.
SameLoops ==
  /\ worker' = worker
  /\ \A s \in Slots :
       /\ slot'[s].start_result = slot[s].start_result
       /\ slot'[s].task_stopped = slot[s].task_stopped

LEMMA LoopSameLoops ==
  ASSUME TypeInv, LoopInv, SameLoops
  PROVE  LoopInv'
<1>1. \A w \in Workers : worker[w].index \in Slots
  BY DEF TypeInv, WorkerType
<1> QED
  BY <1>1 DEF LoopInv, SameLoops, InLoop, InPlugin, InCall

LEMMA LoopInit == Init => LoopInv
BY DEF Init, IdleWorker, LoopInv, InLoop, InPlugin, InCall

LEMMA LoopWorker ==
  ASSUME TypeInv, JoinInv, LoopInv, NEW w \in Workers, WorkerStep(w)
  PROVE  LoopInv'
<1> DEFINE s == worker[w].index
<1>0. /\ slot \in [Slots -> SlotType] /\ worker \in [Workers -> WorkerType]
      /\ s \in Slots /\ worker[w] \in WorkerType
      /\ \A v \in Workers : worker[v].index \in Slots
  BY DEF TypeInv, WorkerType
<1> DEFINE Knows(v) ==
             /\ InLoop(v) \/ worker[v].pc = "load"
                  \/ (worker[v].pc = "ready" /\ worker[v].ret = "ok")
                  => slot[worker[v].index].start_result = "ok"
             /\ worker[v].pc \notin {"idle", "post", "exited"}
                  => ~slot[worker[v].index].task_stopped
             /\ worker[v].pump # "out" => InCall(v)
<1>1. ASSUME NEW v \in Workers \ {w}
      PROVE  Knows(v)'
  <2>1. worker'[v] = worker[v] /\ worker[w].pc # "idle"
        /\ \A u \in Slots \ {s} : slot'[u] = slot[u]
    BY WorkerOwnStep
  <2>2. CASE worker[v].pc = "idle"
    BY <2>1, <2>2 DEF LoopInv, InLoop, InPlugin, InCall
  <2>3. CASE worker[v].pc # "idle"
    <3>1. worker[v].index # s
      BY <2>1, <2>3 DEF JoinInv
    <3>2. slot'[worker'[v].index] = slot[worker[v].index]
      BY <1>0, <2>1, <3>1
    <3>3. Knows(v)
      BY DEF LoopInv
    <3> QED
      BY <2>1, <3>2, <3>3 DEF InLoop, InPlugin, InCall
  <2> QED
    BY <2>2, <2>3
<1>2. Knows(w)'
  <2> USE DEF InLoop, InPlugin, InCall
  <2>0. Knows(w)
    BY DEF LoopInv
  <2>1. CASE WorkerPump(w) \/ WorkerOnStop(w) \/ WorkerHealth(w)
    BY <1>0, <2>0, <2>1 DEF WorkerPump, WorkerOnStop, WorkerHealth, WGoto,
       WGotoWith, WorkerType
  <2>10. CASE CallStep(w)
    BY <1>0, <2>0, <2>10, CallSteps DEF InCall
  <2>2. CASE WorkerPublish(w)
    BY <1>0, <2>0, <2>2 DEF WorkerPublish, WGoto, WorkerType, SlotType
  <2>3. CASE WorkerReady(w)
    <3>1. /\ slot'[s].start_result = slot[s].start_result
          /\ slot'[s].task_stopped = slot[s].task_stopped
          /\ worker'[w] = [worker[w] EXCEPT !.pc =
                             IF worker[w].ret = "ok" THEN "pump" ELSE "finish"]
          /\ worker[w].pc = "ready"
      BY <1>0, <2>3 DEF WorkerReady, WGoto, SlotType
    <3> QED
      BY <1>0, <2>0, <3>1 DEF WorkerType
  <2>4. CASE WorkerDispatched(w)
    BY <1>0, <2>0, <2>4 DEF WorkerDispatched, WGoto, WorkerType, SlotType
  <2>5. CASE WorkerCheck(w)
    <3>1. /\ slot'[s].start_result = slot[s].start_result
          /\ slot'[s].task_stopped = slot[s].task_stopped
          /\ worker'[w].index = s /\ worker[w].pc = "check"
          /\ worker'[w].pump = worker[w].pump
      BY <1>0, <2>5 DEF WorkerCheck, WGoto, SlotType, WorkerType
    <3> QED
      BY <2>0, <3>1
  <2>6. CASE WorkerWait(w)
    <3>1. /\ slot'[s].start_result = slot[s].start_result
          /\ slot'[s].task_stopped = slot[s].task_stopped
          /\ worker'[w].index = s /\ worker[w].pc = "wait"
          /\ worker'[w].pump = worker[w].pump
      BY <1>0, <2>6 DEF WorkerWait, WGoto, SlotType, WorkerType
    <3> QED
      BY <2>0, <3>1
  <2>7. CASE WorkerFinish(w)
    BY <1>0, <2>0, <2>7 DEF WorkerFinish, WGotoWith, WorkerType, SlotType
  <2>8. CASE WorkerMark(w)
    BY <1>0, <2>0, <2>8 DEF WorkerMark, WGoto, WorkerType
  <2>9. CASE WorkerPost(w)
    BY <1>0, <2>0, <2>9 DEF WorkerPost, WGoto, Exit, IdleWorker, WorkerType
  <2> QED
    BY <2>1, <2>2, <2>3, <2>4, <2>5, <2>6, <2>7, <2>8, <2>9, <2>10
       DEF WorkerStep, CallStep
<1> QED
  BY <1>1, <1>2 DEF LoopInv

LEMMA LoopCaller ==
  ASSUME TypeInv, HandoverInv, JoinInv, LoopInv, BuildKernel = TRUE,
         NEW c \in Callers, CallerStep(c)
  PROVE  LoopInv'
<1> DEFINE s == caller[c].index
<1>0. /\ slot \in [Slots -> SlotType] /\ worker \in [Workers -> WorkerType]
      /\ s \in Slots /\ \A v \in Workers : worker[v].index \in Slots
  BY DEF TypeInv, WorkerType, CallerType
<1>1. CASE StartInsert(c)
  <2>1. PICK t \in Slots, w \in Workers :
          /\ FirstEmpty(t)
          /\ slot' = [slot EXCEPT ![t] =
                        [EmptySlot EXCEPT !.id = caller[c].id, !.pid = w]]
          /\ worker' = [worker EXCEPT ![w] =
                          [IdleWorker EXCEPT !.pc = "load", !.index = t]]
    BY <1>1 DEF StartInsert
  <2>2. slot[t].id \notin Plugins
    BY <2>1, NullAssumption DEF FirstEmpty, Occupied
  <2>3. \A v \in Workers : worker[v].pc # "idle" => worker[v].index # t
    BY <2>2 DEF JoinInv
  <2>4. /\ slot'[t].task_stopped = FALSE /\ slot'[t].start_result = "ok"
        /\ \A u \in Slots \ {t} : slot'[u] = slot[u]
    BY <1>0, <2>1 DEF EmptySlot
  <2>5. /\ worker'[w].index = t /\ worker'[w].pc = "load"
        /\ \A v \in Workers \ {w} : worker'[v] = worker[v]
    BY <1>0, <2>1
  <2> QED
    BY <1>0, <2>3, <2>4, <2>5 DEF LoopInv, InLoop, InPlugin, InCall
<1>2. CASE StartRejected(c)
  BY <1>2, LoopSameLoops DEF StartRejected, SameLoops
<1>3. CASE StartWaitReady(c) \/ StartConsume(c)
  BY <1>0, <1>3, LoopSameLoops DEF StartWaitReady, StartConsume, SameLoops, SlotType
<1>4. CASE ReapWaitStopped(c) \/ StopWaitConsumed(c)
  BY <1>0, <1>4, LoopSameLoops
     DEF ReapWaitStopped, StopWaitConsumed, SameLoops, SlotType
<1>5. CASE ReapJoin(c)
  <2>1. slot' = slot
        /\ \A v \in Workers : worker'[v] = worker[v] \/ worker'[v] = IdleWorker
    BY <1>0, <1>5 DEF ReapJoin, Exit
  <2> QED
    BY <2>1 DEF IdleWorker, LoopInv, InLoop, InPlugin, InCall
<1>6. CASE ReapClear(c)
  <2>1. /\ caller[c].pc = "clear" /\ worker' = worker
        /\ \A u \in Slots \ {s} : slot'[u] = slot[u]
    BY <1>0, <1>6 DEF ReapClear
  <2>2. \A v \in Workers : worker[v].pc # "idle" => worker[v].index # s
    BY <2>1 DEF JoinInv
  <2> QED
    BY <1>0, <2>1, <2>2 DEF LoopInv, InLoop, InPlugin, InCall
<1> QED
  BY <1>1, <1>2, <1>3, <1>4, <1>5, <1>6 DEF CallerStep

LEMMA RequestSameLoops ==
  ASSUME TypeInv, Request
  PROVE  SameLoops
<1>0. slot \in [Slots -> SlotType]
  BY DEF TypeInv
<1>1. ASSUME NEW c \in Callers, NEW p \in Plugins, StartCheck(c, p)
      PROVE  SameLoops
  BY <1>1 DEF StartCheck, SameLoops
<1>2. ASSUME NEW c \in Callers, NEW p \in Plugins, StopClaim(c, p)
      PROVE  SameLoops
  BY <1>0, <1>2 DEF StopClaim, SameLoops, SlotType
<1>3. ASSUME NEW p \in Plugins, Dispatch(p)
      PROVE  SameLoops
  BY <1>0, <1>3 DEF Dispatch, SameLoops, SlotType
<1>4. ASSUME NEW p \in Plugins, HealthReset(p)
      PROVE  SameLoops
  BY <1>4 DEF HealthReset, SameLoops
<1>5. ASSUME NEW p \in Plugins, Notify(p)
      PROVE  SameLoops
  BY <1>0, <1>5 DEF Notify, SameLoops, SlotType
<1> QED
  BY <1>1, <1>2, <1>3, <1>4, <1>5 DEF Request

LEMMA LoopNext ==
  ASSUME BuildKernel = TRUE
  PROVE  TypeInv /\ HandoverInv /\ JoinInv /\ LoopInv /\ [Next]_vars => LoopInv'
<1> SUFFICES ASSUME TypeInv, HandoverInv, JoinInv, LoopInv, [Next]_vars
             PROVE  LoopInv'
  OBVIOUS
<1>1. CASE UNCHANGED vars
  BY <1>1, LoopSameLoops DEF vars, SameLoops
<1>2. CASE Next
  BY <1>2, LoopWorker, LoopCaller, RequestSameLoops, LoopSameLoops DEF Next
<1> QED
  BY <1>1, <1>2

\* A plugin whose start failed never runs its loop, and a worker that still
\* runs its plugin is not marked task_stopped.
THEOREM LoopCorrect ==
  ASSUME BuildKernel = TRUE
  PROVE  Spec => []LoopInv
<1>1. Init => LoopInv
  BY LoopInit
<1>2. TypeInv /\ HandoverInv /\ JoinInv /\ LoopInv /\ [Next]_vars => LoopInv'
  BY LoopNext
<1> QED
  BY <1>1, <1>2, TypeCorrect, HandoverCorrect, JoinCorrect, PTL DEF Spec

\* What a step does not take from a worker that sleeps: its slot keeps the
\* events, the request to stop and the count of "pending".
SameWakeups ==
  /\ \A w \in Workers : Asleep(w)' => worker'[w] = worker[w]
  /\ \A w \in Workers : Asleep(w) =>
       LET s == worker[w].index IN
       /\ slot'[s].count = slot[s].count
       /\ slot'[s].stopping = slot[s].stopping
       /\ slot'[s].pending = slot[s].pending

LEMMA WakeupSame ==
  ASSUME TypeInv, NoLostWakeup, SameWakeups
  PROVE  NoLostWakeup'
BY DEF NoLostWakeup, SameWakeups, Asleep, InPump, InCall

LEMMA WakeupInit == Init => NoLostWakeup
BY DEF Init, IdleWorker, NoLostWakeup, Asleep, InPump, InCall

LEMMA WakeupWorker ==
  ASSUME TypeInv, JoinInv, LoopInv, NoLostWakeup, NEW w \in Workers, WorkerStep(w)
  PROVE  NoLostWakeup'
<1> DEFINE s == worker[w].index
<1>0. /\ slot \in [Slots -> SlotType] /\ worker \in [Workers -> WorkerType]
      /\ s \in Slots /\ worker[w] \in WorkerType
      /\ \A v \in Workers : worker[v].index \in Slots
  BY DEF TypeInv, WorkerType
<1>1. ASSUME NEW v \in Workers \ {w}, Asleep(v)'
      PROVE  worker'[v] = worker[v] /\ slot'[worker[v].index] = slot[worker[v].index]
  <2>1. worker'[v] = worker[v] /\ worker[w].pc # "idle"
        /\ \A u \in Slots \ {s} : slot'[u] = slot[u]
    BY WorkerOwnStep
  <2>2. worker[v].index # s
    BY <1>1, <2>1 DEF JoinInv, Asleep, InPump, InCall
  <2> QED
    BY <1>0, <2>1, <2>2
<1>2. /\ worker'[w].pc = "wait" =>
           worker'[w].index = s /\ slot'[s].count = 0 /\ ~slot'[s].stopping
      /\ InPump(w, "asleep")' => worker'[w].index = s /\ ~slot'[s].stopping
  <2> USE DEF InPump, InCall
  <2>0. worker[w].pump # "out" => InCall(w)
    BY DEF LoopInv
  <2>1. CASE WorkerCheck(w)
    <3>1. CASE ~slot[s].stopping /\ slot[s].count > 0
      BY <1>0, <2>0, <2>1, <3>1 DEF WorkerCheck, WGoto, WorkerType
    <3>2. CASE ~(~slot[s].stopping /\ slot[s].count > 0)
      <4>1. slot[s].count \in 0..EventDepth
        BY <1>0, SlotFields
      <4>2. /\ slot' = slot
            /\ worker'[w] = [worker[w] EXCEPT !.pc =
                               IF slot[s].stopping THEN "onstop" ELSE "wait"]
        BY <1>0, <2>1, <3>2 DEF WorkerCheck, WGoto
      <4> QED
        BY <1>0, <3>2, <4>1, <4>2, BoundsAssumption DEF WorkerType
    <3> QED
      BY <3>1, <3>2
  <2>2. CASE WorkerPublish(w) \/ WorkerPump(w) \/ WorkerWait(w)
    BY <1>0, <2>2 DEF WorkerPublish, WorkerPump, WorkerWait, WGoto, WGotoWith,
       WorkerType
  <2>6. CASE CallStep(w)
    BY <1>0, <2>6, CallSteps
  <2>3. CASE WorkerReady(w) \/ WorkerDispatched(w)
    BY <1>0, <2>3 DEF WorkerReady, WorkerDispatched, WGoto, WorkerType
  <2>4. CASE WorkerOnStop(w) \/ WorkerFinish(w) \/ WorkerHealth(w) \/ WorkerMark(w)
    BY <1>0, <2>4 DEF WorkerOnStop, WorkerFinish, WorkerHealth, WorkerMark,
       WGoto, WGotoWith, WorkerType
  <2>5. CASE WorkerPost(w)
    BY <1>0, <2>5 DEF WorkerPost, WGoto, Exit, IdleWorker, WorkerType
  <2> QED
    BY <2>1, <2>2, <2>3, <2>4, <2>5, <2>6 DEF WorkerStep, CallStep
<1> QED
  BY <1>1, <1>2 DEF NoLostWakeup, Asleep, InPump, InCall

LEMMA WakeupCaller ==
  ASSUME TypeInv, JoinInv, LoopInv, NoLostWakeup, NEW c \in Callers, CallerStep(c)
  PROVE  NoLostWakeup'
<1> DEFINE s == caller[c].index
<1>0. /\ slot \in [Slots -> SlotType] /\ worker \in [Workers -> WorkerType]
      /\ s \in Slots /\ \A v \in Workers : worker[v].index \in Slots
  BY DEF TypeInv, WorkerType, CallerType
<1>1. CASE StartInsert(c)
  <2>1. PICK t \in Slots, w \in Workers :
          /\ FirstEmpty(t)
          /\ slot' = [slot EXCEPT ![t] =
                        [EmptySlot EXCEPT !.id = caller[c].id, !.pid = w]]
          /\ worker' = [worker EXCEPT ![w] =
                          [IdleWorker EXCEPT !.pc = "load", !.index = t]]
    BY <1>1 DEF StartInsert
  <2>2. slot[t].id \notin Plugins
    BY <2>1, NullAssumption DEF FirstEmpty, Occupied
  <2>3. \A v \in Workers : worker[v].pc # "idle" => worker[v].index # t
    BY <2>2 DEF JoinInv
  <2>4. \A u \in Slots \ {t} : slot'[u] = slot[u]
    BY <1>0, <2>1
  <2>5. \A v \in Workers : Asleep(v)' => worker'[v] = worker[v]
    BY <1>0, <2>1 DEF Asleep, InPump, InCall, IdleWorker
  <2> QED
    BY <1>0, <2>3, <2>4, <2>5, WakeupSame DEF SameWakeups, Asleep, InPump, InCall
<1>2. CASE StartRejected(c)
  BY <1>2, WakeupSame DEF StartRejected, SameWakeups, Asleep, InPump, InCall
<1>3. CASE StartWaitReady(c)
  BY <1>0, <1>3, WakeupSame DEF StartWaitReady, SameWakeups, SlotType, Asleep,
     InPump, InCall
<1>4. CASE StartConsume(c)
  <2>1. worker' = worker /\ \A u \in Slots \ {s} : slot'[u] = slot[u]
    BY <1>0, <1>4 DEF StartConsume
  <2>2. slot'[s].count = slot[s].count /\ slot'[s].pending = slot[s].pending
    BY <1>0, <1>4 DEF StartConsume, SlotType
  <2>3. slot[s].start_result = "ok" => slot'[s].stopping = slot[s].stopping
    BY <1>0, <1>4, SlotFields DEF StartConsume, SlotType
  <2>4. \A v \in Workers : Asleep(v) => slot[worker[v].index].start_result = "ok"
    BY DEF LoopInv, InLoop, InPlugin, Asleep, InPump, InCall
  <2> QED
    BY <1>0, <2>1, <2>2, <2>3, <2>4, WakeupSame
       DEF SameWakeups, Asleep, InPump, InCall
<1>5. CASE ReapWaitStopped(c) \/ StopWaitConsumed(c)
  BY <1>0, <1>5, WakeupSame
     DEF ReapWaitStopped, StopWaitConsumed, SameWakeups, SlotType, Asleep,
         InPump, InCall
<1>6. CASE ReapJoin(c)
  <2>1. slot' = slot
        /\ \A v \in Workers : worker'[v] = worker[v] \/ worker'[v].pc = "idle"
    BY <1>0, <1>6 DEF ReapJoin, Exit, IdleWorker
  <2> QED
    BY <2>1, WakeupSame DEF SameWakeups, Asleep, InPump, InCall
<1>7. CASE ReapClear(c)
  <2>1. /\ caller[c].pc = "clear" /\ worker' = worker
        /\ \A u \in Slots \ {s} : slot'[u] = slot[u]
    BY <1>0, <1>7 DEF ReapClear
  <2>2. \A v \in Workers : worker[v].pc # "idle" => worker[v].index # s
    BY <2>1 DEF JoinInv
  <2> QED
    BY <1>0, <2>1, <2>2, WakeupSame DEF SameWakeups, Asleep, InPump, InCall
<1> QED
  BY <1>1, <1>2, <1>3, <1>4, <1>5, <1>6, <1>7 DEF CallerStep

LEMMA WakeupRequest ==
  ASSUME TypeInv, LoopInv, NoLostWakeup, Request
  PROVE  NoLostWakeup'
<1>0. /\ slot \in [Slots -> SlotType]
      /\ \A v \in Workers : worker[v].index \in Slots
  BY DEF TypeInv, WorkerType
<1> USE DEF Asleep, InPump, InCall
<1>1. ASSUME NEW c \in Callers, NEW p \in Plugins, StartCheck(c, p)
      PROVE  NoLostWakeup'
  BY <1>1 DEF StartCheck, NoLostWakeup
<1>2. ASSUME NEW c \in Callers, NEW p \in Plugins, StopClaim(c, p)
      PROVE  NoLostWakeup'
  <2>1. PICK s \in Slots :
          slot' = [slot EXCEPT ![s].stopping = TRUE, ![s].pending =
                    IF slot[s].task_stopped THEN @ ELSE @ + 1]
    BY <1>2 DEF StopClaim
  <2>2. worker' = worker /\ \A u \in Slots \ {s} : slot'[u] = slot[u]
    BY <1>0, <1>2, <2>1 DEF StopClaim
  <2>3. ~slot[s].task_stopped => slot'[s].pending = slot[s].pending + 1
    BY <1>0, <2>1 DEF SlotType
  <2>4. \A v \in Workers : Asleep(v) => ~slot[worker[v].index].task_stopped
    BY DEF LoopInv
  <2>5. slot[s].pending + 1 > 0
    BY SlotFields
  <2> QED
    BY <1>0, <2>2, <2>3, <2>4, <2>5 DEF NoLostWakeup
<1>3. ASSUME NEW p \in Plugins, Dispatch(p)
      PROVE  NoLostWakeup'
  <2>1. PICK s \in Slots :
          slot' = [slot EXCEPT ![s].count = @ + 1, ![s].pending = @ + 1]
    BY <1>3 DEF Dispatch
  <2>2. /\ worker' = worker /\ slot'[s].pending = slot[s].pending + 1
        /\ \A u \in Slots \ {s} : slot'[u] = slot[u]
    BY <1>0, <1>3, <2>1 DEF Dispatch, SlotType
  <2>3. slot[s].pending + 1 > 0
    BY SlotFields
  <2> QED
    BY <1>0, <2>2, <2>3 DEF NoLostWakeup
<1>4. ASSUME NEW p \in Plugins, HealthReset(p)
      PROVE  NoLostWakeup'
  BY <1>4 DEF HealthReset, NoLostWakeup
<1>5. ASSUME NEW p \in Plugins, Notify(p)
      PROVE  NoLostWakeup'
  <2>1. PICK s \in Slots : slot' = [slot EXCEPT ![s].pending = @ + 1]
    BY <1>5 DEF Notify
  <2>2. /\ worker' = worker /\ slot'[s].pending = slot[s].pending + 1
        /\ \A u \in Slots \ {s} : slot'[u] = slot[u]
    BY <1>0, <1>5, <2>1 DEF Notify, SlotType
  <2>3. slot[s].pending + 1 > 0
    BY SlotFields
  <2> QED
    BY <1>0, <2>2, <2>3 DEF NoLostWakeup
<1> QED
  BY <1>1, <1>2, <1>3, <1>4, <1>5 DEF Request

LEMMA WakeupNext ==
  TypeInv /\ JoinInv /\ LoopInv /\ NoLostWakeup /\ [Next]_vars => NoLostWakeup'
<1> SUFFICES ASSUME TypeInv, JoinInv, LoopInv, NoLostWakeup, [Next]_vars
             PROVE  NoLostWakeup'
  OBVIOUS
<1>1. CASE UNCHANGED vars
  BY <1>1 DEF vars, NoLostWakeup, Asleep, InPump, InCall
<1>2. CASE Next
  BY <1>2, WakeupWorker, WakeupCaller, WakeupRequest DEF Next
<1> QED
  BY <1>1, <1>2

\* No wakeup is lost: whatever tasks post and wait on "pending", and whatever an
\* awaiting call spends, the loop of a worker never sleeps on it over a queued event,
\* and neither the loop nor an awaiting call over a request to stop.
THEOREM NoLostWakeupCorrect ==
  ASSUME BuildKernel = TRUE
  PROVE  Spec => []NoLostWakeup
<1>1. Init => NoLostWakeup
  BY WakeupInit
<1>2. TypeInv /\ JoinInv /\ LoopInv /\ NoLostWakeup /\ [Next]_vars => NoLostWakeup'
  BY WakeupNext
<1> QED
  BY <1>1, <1>2, TypeCorrect, JoinCorrect, LoopCorrect, PTL DEF Spec

(***************************************************************************)
(* Instances and the quota of the background                               *)
(***************************************************************************)
\* A step that gives no slot a new plugin.
NoNewPlugin ==
  \A s \in Slots : slot'[s].id = slot[s].id \/ slot'[s].id = NoPlugin

LEMMA FewBackgroundSlots ==
  /\ IsFiniteSet(Slots)
  /\ \A S \in SUBSET Slots : IsFiniteSet(S) /\ Cardinality(S) \in Nat
<1>1. IsFiniteSet(Slots)
  BY FS_Interval, BoundsAssumption DEF Slots
<1> QED
  BY <1>1, FS_Subset, FS_CardinalityType

LEMMA InstanceInit == Init => OneInstance
<1> SUFFICES ASSUME Init PROVE OneInstance
  OBVIOUS
<1>1. \A s \in Slots : slot[s].id = NoPlugin
  BY DEF Init, EmptySlot
<1>2. BackgroundSlots = {}
  BY <1>1, NullAssumption, BackgroundAssumption DEF BackgroundSlots
<1> QED
  BY <1>1, <1>2, FS_EmptySet, BoundsAssumption DEF OneInstance, Occupied

LEMMA InstanceNoNew ==
  ASSUME OneInstance, NoNewPlugin
  PROVE  OneInstance'
<1>1. BackgroundSlots' \in SUBSET BackgroundSlots
  BY NullAssumption, BackgroundAssumption DEF BackgroundSlots, NoNewPlugin
<1>2. Cardinality(BackgroundSlots') <= Cardinality(BackgroundSlots)
  <2>1. IsFiniteSet(BackgroundSlots)
    BY FewBackgroundSlots DEF BackgroundSlots
  <2> QED
    BY <1>1, <2>1, FS_Subset
<1>3. BackgroundSlots' \in SUBSET Slots /\ BackgroundSlots \in SUBSET Slots
  BY DEF BackgroundSlots
<1>4. Cardinality(BackgroundSlots') <= MaxBackground
  BY <1>2, <1>3, FewBackgroundSlots, BoundsAssumption DEF OneInstance
<1>5. \A s, t \in Slots : Occupied(s)' /\ slot'[s].id = slot'[t].id => s = t
  BY DEF OneInstance, NoNewPlugin, Occupied
<1> QED
  BY <1>4, <1>5 DEF OneInstance

LEMMA InstanceInsert ==
  ASSUME TypeInv, OneInstance, NEW c \in Callers, StartInsert(c)
  PROVE  OneInstance'
<1> DEFINE p == caller[c].id
<1>1. PICK t \in Slots, w \in Workers :
        /\ FirstEmpty(t)
        /\ slot' = [slot EXCEPT ![t] = [EmptySlot EXCEPT !.id = p, !.pid = w]]
  BY DEF StartInsert
<1>2. /\ slot'[t].id = p /\ slot[t].id = NoPlugin
      /\ \A u \in Slots \ {t} : slot'[u] = slot[u]
  BY <1>1 DEF TypeInv, EmptySlot, FirstEmpty, Occupied
<1>3. /\ \A s \in Slots : slot[s].id # p
      /\ p \in Background => Cardinality(BackgroundSlots) < MaxBackground
  BY DEF StartInsert, Admitted, Found
<1>4. \A s, u \in Slots : Occupied(s)' /\ slot'[s].id = slot'[u].id => s = u
  BY <1>2, <1>3 DEF OneInstance, Occupied
<1>5. BackgroundSlots \in SUBSET Slots /\ t \notin BackgroundSlots
  BY <1>2, NullAssumption, BackgroundAssumption DEF BackgroundSlots
<1>6. Cardinality(BackgroundSlots') <= MaxBackground
  <2>1. CASE p \in Background
    <3>1. BackgroundSlots' = BackgroundSlots \cup {t}
      BY <1>1, <1>2, <2>1 DEF BackgroundSlots
    <3>2. Cardinality(BackgroundSlots') = Cardinality(BackgroundSlots) + 1
      BY <1>5, <3>1, FewBackgroundSlots, FS_AddElement
    <3> QED
      BY <1>3, <1>5, <2>1, <3>2, FewBackgroundSlots, BoundsAssumption
  <2>2. CASE p \notin Background
    <3>1. BackgroundSlots' = BackgroundSlots
      BY <1>1, <1>2, <1>5, <2>2 DEF BackgroundSlots
    <3> QED
      BY <3>1 DEF OneInstance
  <2> QED
    BY <2>1, <2>2
<1> QED
  BY <1>4, <1>6 DEF OneInstance

LEMMA NextNoNew ==
  ASSUME TypeInv, [Next]_vars, ~ \E c \in Callers : StartInsert(c)
  PROVE  NoNewPlugin
<1>0. slot \in [Slots -> SlotType]
  BY DEF TypeInv
<1>1. ASSUME NEW w \in Workers, WorkerStep(w)
      PROVE  NoNewPlugin
  BY <1>1, WorkerSameOwners DEF SameOwners, NoNewPlugin
<1>2. ASSUME NEW p \in Plugins, Dispatch(p) \/ Notify(p) \/ HealthReset(p)
      PROVE  NoNewPlugin
  BY <1>2, EventSameOwners DEF SameOwners, NoNewPlugin
<1>3. ASSUME NEW c \in Callers, NEW p \in Plugins, StartCheck(c, p) \/ StopClaim(c, p)
      PROVE  NoNewPlugin
  <2>1. CASE StartCheck(c, p)
    BY <2>1 DEF StartCheck, NoNewPlugin
  <2>2. CASE StopClaim(c, p)
    BY <1>0, <2>2 DEF StopClaim, NoNewPlugin, SlotType
  <2> QED
    BY <1>3, <2>1, <2>2
<1>4. ASSUME NEW c \in Callers, CallerStep(c)
      PROVE  NoNewPlugin
  <2>1. CASE StartRejected(c) \/ ReapJoin(c)
    BY <2>1 DEF StartRejected, ReapJoin, NoNewPlugin
  <2>2. CASE StartWaitReady(c)
    BY <1>0, <2>2 DEF StartWaitReady, NoNewPlugin, SlotType
  <2>3. CASE StartConsume(c)
    BY <1>0, <2>3 DEF StartConsume, NoNewPlugin, SlotType
  <2>4. CASE ReapWaitStopped(c) \/ StopWaitConsumed(c)
    BY <1>0, <2>4 DEF ReapWaitStopped, StopWaitConsumed, NoNewPlugin, SlotType
  <2>5. CASE ReapClear(c)
    BY <1>0, <2>5 DEF ReapClear, NoNewPlugin, EmptySlot
  <2> QED
    BY <1>4, <2>1, <2>2, <2>3, <2>4, <2>5 DEF CallerStep
<1>5. CASE UNCHANGED vars
  BY <1>5 DEF vars, NoNewPlugin
<1> QED
  BY <1>1, <1>2, <1>3, <1>4, <1>5 DEF Next, Request

\* A plugin id never names two slots and the background plugins never exceed
\* their quota, in either build.
THEOREM OneInstanceCorrect == Spec => []OneInstance
<1>1. Init => OneInstance
  BY InstanceInit
<1>2. TypeInv /\ OneInstance /\ [Next]_vars => OneInstance'
  BY InstanceInsert, NextNoNew, InstanceNoNew
<1> QED
  BY <1>1, <1>2, TypeCorrect, PTL DEF Spec

(***************************************************************************)
(* Failures past the quarantine                                            *)
(***************************************************************************)
LEMMA CallersCounted ==
  /\ Cardinality(Callers) \in Nat \ {0}
  /\ \A S \in SUBSET Callers :
       /\ IsFiniteSet(S) /\ Cardinality(S) \in Nat
       /\ Cardinality(S) <= Cardinality(Callers)
       /\ S # Callers => Cardinality(S) < Cardinality(Callers)
<1>1. IsFiniteSet(Callers) /\ Cardinality(Callers) \in Nat
  BY CallersAssumption, FS_CardinalityType
<1>2. Cardinality(Callers) # 0
  BY <1>1, CallersAssumption, FS_EmptySet
<1>3. ASSUME NEW S \in SUBSET Callers
      PROVE  /\ IsFiniteSet(S) /\ Cardinality(S) \in Nat
             /\ Cardinality(S) <= Cardinality(Callers)
             /\ S # Callers => Cardinality(S) < Cardinality(Callers)
  <2>1. IsFiniteSet(S) /\ Cardinality(S) <= Cardinality(Callers)
    BY <1>1, FS_Subset
  <2>2. Cardinality(S) = Cardinality(Callers) => S = Callers
    BY <1>1, FS_Subset
  <2>3. Cardinality(S) \in Nat
    BY <2>1, FS_CardinalityType
  <2> QED
    BY <1>1, <2>1, <2>2, <2>3
<1> QED
  BY <1>1, <1>2, <1>3

\* The numbers the invariant is about.
LEMMA SlackTypes ==
  ASSUME TypeInv, NEW p \in Plugins
  PROVE  /\ failures[p] \in Nat /\ ToReport(p) \in {0, 1}
         /\ Inserting(p) \in SUBSET Callers
         /\ Cardinality(Inserting(p)) \in Nat
         /\ QuarantineFailures \in Nat /\ Cardinality(Callers) \in Nat \ {0}
<1>1. Inserting(p) \in SUBSET Callers
  BY DEF Inserting
<1> QED
  BY <1>1, CallersCounted, BoundsAssumption DEF TypeInv, ToReport

\* A step that brings no failure and no start of p any closer.
SlackSame(p) ==
  /\ failures'[p] = failures[p]
  /\ \A w \in Workers :
       Unreported(w)' /\ slot'[worker'[w].index].id = p
         => Unreported(w) /\ slot[worker[w].index].id = p
  /\ \A c \in Callers :
       caller'[c].pc = "insert" /\ caller'[c].id = p
         => caller[c].pc = "insert" /\ caller[c].id = p
  /\ Found(p) => Found(p)'

LEMMA SlackKept ==
  ASSUME TypeInv, TypeInv', NEW p \in Plugins, SlackOf(p), SlackSame(p)
  PROVE  SlackOf(p)'
<1>1. ToReport(p)' <= ToReport(p)
  BY DEF ToReport, SlackSame
<1>2. Inserting(p)' \subseteq Inserting(p)
  BY DEF Inserting, SlackSame
<1>3. Cardinality(Inserting(p)') <= Cardinality(Inserting(p))
  BY <1>2, SlackTypes, CallersCounted, FS_Subset
<1>4. /\ ToReport(p)' \in {0, 1} /\ Cardinality(Inserting(p))' \in Nat
  BY SlackTypes, CallersCounted DEF Inserting, ToReport
<1> QED
  BY <1>1, <1>3, <1>4, SlackTypes DEF SlackOf, SlackSame

\* Where a slot of p and its worker are found, when workers are joined.
LEMMA ReporterUnique ==
  ASSUME TypeInv, JoinInv, OneInstance, NEW p \in Plugins,
         NEW v \in Workers, NEW w \in Workers, Unreported(v), worker[w].pc # "idle",
         slot[worker[v].index].id = p, slot[worker[w].index].id = p
  PROVE  v = w
<1>1. worker[v].index \in Slots /\ worker[w].index \in Slots
  BY DEF TypeInv, WorkerType
<1>2. worker[v].index = worker[w].index
  BY <1>1, NullAssumption DEF OneInstance, Occupied
<1> QED
  BY <1>2 DEF JoinInv, Unreported

LEMMA SlackWorker ==
  ASSUME TypeInv, TypeInv', JoinInv, OneInstance, SlackInv,
         NEW w \in Workers, WorkerStep(w)
  PROVE  SlackInv'
<1> SUFFICES ASSUME NEW p \in Plugins PROVE SlackOf(p)'
  BY DEF SlackInv
<1>0. SlackOf(p) /\ worker[w] \in WorkerType
  BY DEF SlackInv, TypeInv
<1>1. /\ caller' = caller
      /\ \A s \in Slots : slot'[s].id = slot[s].id
  BY WorkerSameOwners DEF SameOwners
<1>2. \A v \in Workers : worker'[v].index \in Slots /\ worker[v].index \in Slots
  BY DEF TypeInv, WorkerType
<1>3. Found(p) => Found(p)'
  BY <1>1 DEF Found
<1>4. Unreported(w)' => Unreported(w)
  <2>0. worker \in [Workers -> WorkerType]
    BY DEF TypeInv
  <2>1. CASE WorkerMark(w) \/ WorkerPost(w)
    BY <2>0, <2>1 DEF Unreported, WorkerMark, WorkerPost, WGoto, Exit, IdleWorker,
                      WorkerType
  <2>2. CASE ~(WorkerMark(w) \/ WorkerPost(w) \/ CallStep(w))
    BY <2>2 DEF Unreported, WorkerStep, CallStep, WorkerPublish, WorkerReady,
       WorkerPump, WorkerCheck, WorkerWait, WorkerDispatched, WorkerOnStop,
       WorkerFinish, WorkerHealth
  <2>3. CASE CallStep(w)
    BY <2>3, CallSteps DEF Unreported, InCall
  <2> QED
    BY <2>1, <2>2, <2>3
<1>5. ASSUME NEW v \in Workers, Unreported(v)', slot'[worker'[v].index].id = p
      PROVE  Unreported(v) /\ slot[worker[v].index].id = p
  <2>1. CASE v = w
    BY <1>1, <1>2, <1>4, <1>5, <2>1, WorkerOwnStep DEF Unreported
  <2>2. CASE v # w
    BY <1>1, <1>2, <1>5, <2>2, WorkerOwnStep DEF Unreported
  <2> QED
    BY <2>1, <2>2
<1>6. CASE failures'[p] = failures[p]
  BY <1>0, <1>1, <1>3, <1>5, <1>6, SlackKept DEF SlackSame
<1>7. CASE failures'[p] # failures[p]
  <2>1. /\ WorkerHealth(w) /\ slot[worker[w].index].id = p
        /\ failures'[p] \in {0, failures[p] + 1}
    <3>1. ~CallStep(w)
      BY <1>7, CallSteps
    <3> QED
      BY <1>7, <3>1 DEF WorkerStep, CallStep, WorkerPublish, WorkerReady, WorkerPump,
         WorkerCheck, WorkerWait, WorkerDispatched, WorkerOnStop, WorkerFinish,
         WorkerHealth, WorkerMark, WorkerPost, TypeInv
  <2>2. worker[w].pc = "health" /\ worker'[w].pc = "mark"
    BY <1>0, <2>1 DEF WorkerHealth, WGoto, TypeInv
  <2>3. ToReport(p) = 1
    BY <2>1, <2>2 DEF ToReport, Unreported
  <2>4. ToReport(p)' = 0
    BY <1>5, <2>1, <2>2, ReporterUnique DEF ToReport, Unreported
  <2>5. Inserting(p)' = Inserting(p)
    BY <1>1 DEF Inserting
  <2>6. Found(p)'
    BY <1>2, <1>3, <2>1 DEF Found
  <2>7. CASE failures'[p] = failures[p] + 1
    BY <1>0, <2>3, <2>4, <2>5, <2>6, <2>7, SlackTypes DEF SlackOf
  <2>8. CASE failures'[p] = 0
    BY <1>0, <2>3, <2>4, <2>5, <2>6, <2>8, SlackTypes DEF SlackOf
  <2> QED
    BY <2>1, <2>7, <2>8
<1> QED
  BY <1>6, <1>7

LEMMA SlackInsert ==
  ASSUME TypeInv, TypeInv', HandoverInv, SlackInv, NEW c \in Callers, StartInsert(c)
  PROVE  SlackInv'
<1> SUFFICES ASSUME NEW p \in Plugins PROVE SlackOf(p)'
  BY DEF SlackInv
<1> DEFINE q == caller[c].id
<1>0. SlackOf(p) /\ q \in Plugins
  BY DEF SlackInv, StartInsert, HandoverInv
<1>1. PICK t \in Slots, w \in Workers :
        /\ FirstEmpty(t) /\ worker[w].pc = "idle"
        /\ slot' = [slot EXCEPT ![t] = [EmptySlot EXCEPT !.id = q, !.pid = w]]
        /\ worker' = [worker EXCEPT ![w] = [IdleWorker EXCEPT !.pc = "load", !.index = t]]
        /\ caller' = [caller EXCEPT ![c].pc = "waitReady", ![c].index = t]
  BY DEF StartInsert
<1>2. /\ slot'[t].id = q /\ slot[t].id = NoPlugin
      /\ \A u \in Slots \ {t} : slot'[u] = slot[u]
      /\ \A u \in Slots : slot[u].id # q
  BY <1>1 DEF TypeInv, EmptySlot, FirstEmpty, Occupied, StartInsert, Admitted, Found
<1>3. /\ worker'[w].index = t /\ worker'[w].pc = "load"
      /\ \A v \in Workers \ {w} : worker'[v] = worker[v]
      /\ \A v \in Workers : worker[v].index \in Slots
  BY <1>1 DEF TypeInv, WorkerType
<1>4. /\ caller[c].pc = "insert" /\ caller'[c].pc = "waitReady"
      /\ \A d \in Callers \ {c} : caller'[d] = caller[d]
  BY <1>1 DEF TypeInv, CallerType, StartInsert
<1>5. failures' = failures
  BY DEF StartInsert
<1>6. CASE p = q
  <2>1. ToReport(p) = 0 /\ ToReport(p)' = 1
    BY <1>1, <1>2, <1>3, <1>6 DEF ToReport, Unreported
  <2>2. Inserting(p) = Inserting(p)' \cup {c} /\ c \notin Inserting(p)'
    BY <1>4, <1>6 DEF Inserting
  <2>3. Cardinality(Inserting(p)) = Cardinality(Inserting(p)') + 1
    <3>1. Inserting(p)' \in SUBSET Callers
      BY DEF Inserting
    <3> QED
      BY <2>2, <3>1, CallersCounted, FS_AddElement
  <2>4. Cardinality(Inserting(p)') \in Nat
    <3>1. Inserting(p)' \in SUBSET Callers
      BY DEF Inserting
    <3> QED
      BY <3>1, CallersCounted
  <2>5. Found(p)' /\ ~Found(p)
    BY <1>2, <1>6 DEF Found
  <2> QED
    BY <1>0, <1>5, <2>1, <2>3, <2>4, <2>5, SlackTypes DEF SlackOf
<1>7. CASE p # q
  <2>1. \A v \in Workers : Unreported(v)' /\ slot'[worker'[v].index].id = p
          => Unreported(v) /\ slot[worker[v].index].id = p
    BY <1>2, <1>3, <1>7 DEF Unreported
  <2>2. Found(p) => Found(p)'
    BY <1>2, NullAssumption DEF Found
  <2>3. SlackSame(p)
    BY <1>4, <1>5, <2>1, <2>2 DEF SlackSame
  <2> QED
    BY <1>0, <2>3, SlackKept
<1> QED
  BY <1>6, <1>7

LEMMA SlackClear ==
  ASSUME TypeInv, TypeInv', HandoverInv, JoinInv, OneInstance, SlackInv,
         NEW c \in Callers, ReapClear(c)
  PROVE  SlackInv'
<1> SUFFICES ASSUME NEW p \in Plugins PROVE SlackOf(p)'
  BY DEF SlackInv
<1> DEFINE t == caller[c].index
<1>0. SlackOf(p) /\ t \in Slots /\ caller[c].pc = "clear"
  BY DEF SlackInv, TypeInv, CallerType, ReapClear
<1>1. /\ slot'[t].id = NoPlugin /\ \A u \in Slots \ {t} : slot'[u] = slot[u]
      /\ worker' = worker /\ failures' = failures
      /\ caller'[c].pc = "idle" /\ \A d \in Callers \ {c} : caller'[d] = caller[d]
  BY <1>0 DEF ReapClear, Return, EmptySlot, IdleCaller, TypeInv
<1>2. \A v \in Workers : worker[v].index \in Slots
  BY DEF TypeInv, WorkerType
<1>3. \A d \in Callers : caller'[d].pc = "insert" /\ caller'[d].id = p
        => caller[d].pc = "insert" /\ caller[d].id = p
  BY <1>1
<1>4. \A v \in Workers : Unreported(v)' /\ slot'[worker'[v].index].id = p
        => Unreported(v) /\ slot[worker[v].index].id = p
  BY <1>1, <1>2, NullAssumption DEF Unreported
<1>5. CASE slot[t].id # p
  <2>1. Found(p) => Found(p)'
    BY <1>1, <1>5 DEF Found
  <2>2. SlackSame(p)
    BY <1>1, <1>3, <1>4, <2>1 DEF SlackSame
  <2> QED
    BY <1>0, <2>2, SlackKept
<1>6. CASE slot[t].id = p
  <2>1. ToReport(p) = 0 /\ ToReport(p)' = 0
    <3>1. \A v \in Workers : slot[worker[v].index].id = p => worker[v].index = t
      BY <1>0, <1>2, <1>6, NullAssumption DEF OneInstance, Occupied
    <3>2. \A v \in Workers : ~(Unreported(v) /\ slot[worker[v].index].id = p)
      BY <1>0, <3>1 DEF JoinInv, Unreported
    <3> QED
      BY <1>4, <3>2 DEF ToReport
  <2>2. Cardinality(Inserting(p)) < Cardinality(Callers)
    <3>1. Inserting(p) \in SUBSET Callers /\ Inserting(p) # Callers
      BY <1>0 DEF Inserting
    <3> QED
      BY <3>1, CallersCounted
  <2>3. Inserting(p)' = Inserting(p)
    BY <1>0, <1>1 DEF Inserting
  <2> QED
    BY <1>0, <1>1, <2>1, <2>2, <2>3, SlackTypes DEF SlackOf
<1> QED
  BY <1>5, <1>6

LEMMA SlackCaller ==
  ASSUME TypeInv, TypeInv', SlackInv, NEW c \in Callers,
         CallerStep(c), ~StartInsert(c), ~ReapClear(c)
  PROVE  SlackInv'
<1> SUFFICES ASSUME NEW p \in Plugins PROVE SlackOf(p)'
  BY DEF SlackInv
<1>0. /\ SlackOf(p) /\ slot \in [Slots -> SlotType]
      /\ caller \in [Callers -> CallerType] /\ worker \in [Workers -> WorkerType]
  BY DEF SlackInv, TypeInv
<1>1. \A s \in Slots : slot'[s].id = slot[s].id
  BY <1>0 DEF CallerStep, StartRejected, StartWaitReady, StartConsume,
     ReapWaitStopped, ReapJoin, StopWaitConsumed, SlotType
<1>2. failures' = failures
  BY DEF CallerStep, StartRejected, StartWaitReady, StartConsume,
     ReapWaitStopped, ReapJoin, StopWaitConsumed
<1>3. \A d \in Callers : caller'[d].pc = "insert" => caller[d].pc = "insert"
                                                  /\ caller'[d].id = caller[d].id
  BY <1>0 DEF CallerStep, StartRejected, StartWaitReady, StartConsume,
     ReapWaitStopped, ReapJoin, StopWaitConsumed, Return, CGoto, IdleCaller, CallerType
<1>4. \A w \in Workers : worker'[w] = worker[w] \/ worker'[w] = IdleWorker
  BY <1>0 DEF CallerStep, StartRejected, StartWaitReady, StartConsume,
     ReapWaitStopped, ReapJoin, StopWaitConsumed, Exit
<1>5. \A w \in Workers : worker[w].index \in Slots
  BY <1>0 DEF WorkerType
<1>6. SlackSame(p)
  BY <1>1, <1>2, <1>3, <1>4, <1>5 DEF SlackSame, Found, Unreported, IdleWorker
<1> QED
  BY <1>0, <1>6, SlackKept

LEMMA SlackRequest ==
  ASSUME TypeInv, TypeInv', SlackInv, Request
  PROVE  SlackInv'
<1> SUFFICES ASSUME NEW p \in Plugins PROVE SlackOf(p)'
  BY DEF SlackInv
<1>0. /\ SlackOf(p) /\ slot \in [Slots -> SlotType]
      /\ caller \in [Callers -> CallerType] /\ failures \in [Plugins -> Nat]
      /\ \A w \in Workers : worker[w].index \in Slots
  BY DEF SlackInv, TypeInv, WorkerType
<1>1. ASSUME NEW c \in Callers, NEW q \in Plugins, StartCheck(c, q)
      PROVE  SlackOf(p)'
  <2>1. /\ slot' = slot /\ worker' = worker /\ failures' = failures
        /\ caller'[c].id = q /\ \A d \in Callers \ {c} : caller'[d] = caller[d]
    BY <1>0, <1>1 DEF StartCheck, CallerType
  <2>2. CASE p = q
    <3>1. failures[p] < QuarantineFailures
      BY <1>1, <2>2, SlackTypes DEF StartCheck, Quarantined
    <3>2. ToReport(p)' = ToReport(p)
      BY <2>1 DEF ToReport, Unreported
    <3> QED
      BY <2>1, <3>1, <3>2, SlackTypes DEF SlackOf
  <2>3. CASE p # q
    <3>1. SlackSame(p)
      BY <2>1, <2>3 DEF SlackSame, Found, Unreported
    <3> QED
      BY <1>0, <3>1, SlackKept
  <2> QED
    BY <2>2, <2>3
<1>2. ASSUME NEW c \in Callers, NEW q \in Plugins, StopClaim(c, q)
      PROVE  SlackOf(p)'
  <2>1. /\ \A s \in Slots : slot'[s].id = slot[s].id
        /\ worker' = worker /\ failures' = failures
        /\ caller'[c].pc # "insert" /\ \A d \in Callers \ {c} : caller'[d] = caller[d]
    BY <1>0, <1>2 DEF StopClaim, SlotType, CallerType
  <2>2. SlackSame(p)
    BY <1>0, <2>1 DEF SlackSame, Found, Unreported
  <2> QED
    BY <1>0, <2>2, SlackKept
<1>3. ASSUME NEW q \in Plugins, Dispatch(q) \/ Notify(q) PROVE SlackOf(p)'
  <2>1. /\ \A s \in Slots : slot'[s].id = slot[s].id
        /\ worker' = worker /\ failures' = failures /\ caller' = caller
    BY <1>3, EventSameOwners DEF SameOwners, Dispatch, Notify
  <2>2. SlackSame(p)
    BY <1>0, <2>1 DEF SlackSame, Found, Unreported
  <2> QED
    BY <1>0, <2>2, SlackKept
<1>4. ASSUME NEW q \in Plugins, HealthReset(q) PROVE SlackOf(p)'
  <2>1. slot' = slot /\ worker' = worker /\ caller' = caller
    BY <1>4 DEF HealthReset
  <2>2. CASE failures'[p] = failures[p]
    <3>1. SlackSame(p)
      BY <2>1, <2>2 DEF SlackSame, Found, Unreported
    <3> QED
      BY <1>0, <3>1, SlackKept
  <2>3. CASE failures'[p] # failures[p]
    <3>1. failures'[p] = 0 /\ failures[p] > 0
      BY <1>0, <1>4, <2>3 DEF HealthReset
    <3>2. /\ ToReport(p)' = ToReport(p) /\ Inserting(p)' = Inserting(p)
          /\ Found(p)' = Found(p)
      BY <2>1 DEF ToReport, Unreported, Inserting, Found
    <3> QED
      BY <1>0, <3>1, <3>2, SlackTypes DEF SlackOf
  <2> QED
    BY <2>2, <2>3
<1> QED
  BY <1>1, <1>2, <1>3, <1>4 DEF Request

LEMMA SlackInit == Init => SlackInv
<1> SUFFICES ASSUME Init, NEW p \in Plugins PROVE SlackOf(p)
  BY DEF SlackInv
<1>1. failures[p] = 0 /\ ToReport(p) = 0
  BY DEF Init, ToReport, Unreported, IdleWorker
<1>2. Inserting(p) = {}
  BY DEF Init, Inserting, IdleCaller
<1> QED
  BY <1>1, <1>2, CallersCounted, FS_EmptySet, BoundsAssumption DEF SlackOf

\* The counts and quotas several callers compete for at once are kept: a plugin
\* fails at most once for every task that may start it past its quarantine, no
\* id names two slots, and the background plugins stay within their quota.
THEOREM LimitsKeptCorrect ==
  ASSUME BuildKernel = TRUE
  PROVE  Spec => []LimitsKept
<1>1. Init => SlackInv
  BY SlackInit
<1>2. /\ TypeInv /\ TypeInv' /\ HandoverInv /\ JoinInv /\ OneInstance /\ SlackInv
      /\ [Next]_vars
      => SlackInv'
  <2> SUFFICES ASSUME TypeInv, TypeInv', HandoverInv, JoinInv, OneInstance,
                      SlackInv, [Next]_vars
               PROVE  SlackInv'
    OBVIOUS
  <2>1. CASE UNCHANGED vars
    BY <2>1 DEF vars, SlackInv, SlackOf, ToReport, Unreported, Inserting, Found
  <2>2. CASE Next
    BY <2>2, SlackRequest, SlackWorker, SlackInsert, SlackClear, SlackCaller DEF Next
  <2> QED
    BY <2>1, <2>2
<1>3. TypeInv /\ OneInstance /\ SlackInv => LimitsKept
  <2> SUFFICES ASSUME TypeInv, OneInstance, SlackInv PROVE QuarantineSlack
    BY DEF LimitsKept
  <2> SUFFICES ASSUME NEW p \in Plugins
               PROVE  failures[p] < QuarantineFailures + Cardinality(Callers)
    BY DEF QuarantineSlack
  <2> QED
    BY SlackTypes DEF SlackInv, SlackOf
<1> QED
  BY <1>1, <1>2, <1>3, TypeCorrect, HandoverCorrect, JoinCorrect, OneInstanceCorrect,
     PTL DEF Spec

(***************************************************************************)
(* The scheduler implements PluginRegistry                                 *)
(***************************************************************************)
\* The abstract state, named: the refinement mapping of Registry.
PhaseOf(p) ==
  IF ~Found(p) THEN "absent"
  ELSE IF \E s \in Slots : slot[s].id = p /\ slot[s].stopping
         THEN "reaping" ELSE "live"
Phase == [p \in Plugins |-> PhaseOf(p)]
Running == {p \in Plugins :
              \E w \in Workers : Live(w) /\ slot[worker[w].index].id = p}

\* The steps of the registry, on the named state.
RegistryStep ==
  \/ Phase' = Phase /\ Running' = Running
  \/ \E p \in Plugins :
       \/ /\ Phase[p] = "absent" /\ p \notin Running
          /\ Cardinality({q \in Plugins : Phase[q] # "absent"}) < MaxPlugins
          /\ p \in Background =>
               Cardinality({q \in Plugins : Phase[q] # "absent"} \cap Background)
                 < MaxBackground
          /\ Phase' = [Phase EXCEPT ![p] = "live"]
          /\ Running' = Running \cup {p}
       \/ p \in Running /\ Running' = Running \ {p} /\ Phase' = Phase
       \/ Phase[p] = "live" /\ Phase' = [Phase EXCEPT ![p] = "reaping"]
                            /\ Running' = Running
       \/ /\ Phase[p] = "reaping" /\ p \notin Running
          /\ Phase' = [Phase EXCEPT ![p] = "absent"] /\ Running' = Running

\* Both modules take Cardinality from FiniteSets.
LEMMA RegistryCardinality == \A S : Registry!Cardinality(S) = Cardinality(S)
BY DEF Registry!Cardinality, Cardinality

LEMMA RegistryStepMaps == RegistryStep => [Registry!Next]_(Registry!vars)
<1> SUFFICES ASSUME RegistryStep PROVE [Registry!Next]_(Registry!vars)
  OBVIOUS
<1>1. CASE Phase' = Phase /\ Running' = Running
  BY <1>1 DEF Phase, PhaseOf, Running, Registry!vars
<1>2. ASSUME NEW p \in Plugins,
             Phase[p] = "absent", p \notin Running,
             Cardinality({q \in Plugins : Phase[q] # "absent"}) < MaxPlugins,
             p \in Background =>
               Cardinality({q \in Plugins : Phase[q] # "absent"} \cap Background)
                 < MaxBackground,
             Phase' = [Phase EXCEPT ![p] = "live"],
             Running' = Running \cup {p}
      PROVE  Registry!Start(p)
  <2>1. Registry!Present = {q \in Plugins : Phase[q] # "absent"}
    BY DEF Phase, PhaseOf, Registry!Present
  <2>2. /\ Registry!Cardinality(Registry!Present) < MaxPlugins
        /\ p \in Background =>
             Registry!Cardinality(Registry!Present \cap Background) < MaxBackground
    BY <1>2, <2>1, RegistryCardinality
  <2>3. Phase[p] = "absent" /\ p \notin Running
    BY <1>2
  <2>4. Phase' = [Phase EXCEPT ![p] = "live"] /\ Running' = Running \cup {p}
    BY <1>2
  <2> QED
    BY <2>2, <2>3, <2>4 DEF Phase, PhaseOf, Running, Registry!Start
<1>3. ASSUME NEW p \in Plugins, p \in Running, Running' = Running \ {p}, Phase' = Phase
      PROVE  Registry!Finish(p)
  BY <1>3 DEF Phase, PhaseOf, Running, Registry!Finish
<1>4. ASSUME NEW p \in Plugins,
             Phase[p] = "live", Phase' = [Phase EXCEPT ![p] = "reaping"],
             Running' = Running
      PROVE  Registry!Claim(p)
  BY <1>4 DEF Phase, PhaseOf, Running, Registry!Claim
<1>5. ASSUME NEW p \in Plugins, Phase[p] = "reaping", p \notin Running,
             Phase' = [Phase EXCEPT ![p] = "absent"], Running' = Running
      PROVE  Registry!Remove(p)
  BY <1>5 DEF Phase, PhaseOf, Running, Registry!Remove
<1> QED
  BY <1>1, <1>2, <1>3, <1>4, <1>5 DEF RegistryStep, Registry!Next

LEMMA RegistryInit == Init => Registry!Init
<1> SUFFICES ASSUME Init PROVE Registry!Init
  OBVIOUS
<1>1. \A p \in Plugins : ~Found(p)
  BY NullAssumption DEF Init, Found, EmptySlot
<1>2. \A w \in Workers : ~Live(w)
  BY DEF Init, Live, IdleWorker
<1> QED
  BY <1>1, <1>2 DEF Registry!Init

\* What a slot with an id says of the phase of its plugin.
LEMMA PhaseOfSlot ==
  ASSUME OneInstance, NEW p \in Plugins, NEW s \in Slots, slot[s].id = p
  PROVE  PhaseOf(p) = IF slot[s].stopping THEN "reaping" ELSE "live"
<1>1. \A t \in Slots : slot[t].id = p => t = s
  BY NullAssumption DEF OneInstance, Occupied
<1> QED
  BY <1>1 DEF PhaseOf, Found

LEMMA SamePhase ==
  ASSUME \A s \in Slots : slot'[s].id = slot[s].id /\ slot'[s].stopping = slot[s].stopping
  PROVE  Phase' = Phase
BY DEF Phase, PhaseOf, Found

LEMMA SameRunning ==
  ASSUME TypeInv, \A s \in Slots : slot'[s].id = slot[s].id,
         \A w \in Workers : worker'[w].index \in Slots,
         \A w \in Workers :
           \/ ~Live(w) /\ ~Live(w)'
           \/ Live(w) /\ Live(w)' /\ worker'[w].index = worker[w].index
  PROVE  Running' = Running
BY DEF Running, TypeInv, WorkerType

\* The plugins that are present have slots of their own, all but the empty one.
LEMMA PresentCounted ==
  ASSUME TypeInv, NEW t \in Slots, ~Occupied(t)
  PROVE  /\ Cardinality({q \in Plugins : Phase[q] # "absent"}) < MaxPlugins
         /\ Cardinality(BackgroundSlots) < MaxBackground =>
              Cardinality({q \in Plugins : Phase[q] # "absent"} \cap Background)
                < MaxBackground
<1> DEFINE Present == {q \in Plugins : Phase[q] # "absent"}
           A == {s \in Slots : slot[s].id \in Plugins}
           f == [s \in A |-> slot[s].id]
           g == [s \in BackgroundSlots |-> slot[s].id]
<1>1. Present = {q \in Plugins : Found(q)}
  BY DEF Phase, PhaseOf
<1>2. f \in Surjection(A, Present)
  BY <1>1 DEF Surjection, Found
<1>3. g \in Surjection(BackgroundSlots, Present \cap Background)
  BY <1>1, BackgroundAssumption DEF Surjection, Found, BackgroundSlots
<1>4. A \in SUBSET (Slots \ {t}) /\ BackgroundSlots \in SUBSET Slots
  BY NullAssumption DEF Occupied, BackgroundSlots
<1>5. IsFiniteSet(Slots) /\ Cardinality(Slots) = MaxPlugins
  BY FS_Interval, BoundsAssumption DEF Slots
<1>6. /\ IsFiniteSet(Slots \ {t}) /\ Cardinality(Slots \ {t}) = MaxPlugins - 1
  BY <1>5, FS_RemoveElement
<1>7. IsFiniteSet(A) /\ Cardinality(A) <= MaxPlugins - 1
  BY <1>4, <1>6, FS_Subset
<1>8. IsFiniteSet(BackgroundSlots)
  BY <1>4, <1>5, FS_Subset
<1> HIDE DEF Present, A, f, g
<1>9. IsFiniteSet(Present) /\ Cardinality(Present) <= Cardinality(A)
  BY <1>2, <1>7, FS_Surjection
<1>10. Cardinality(Present \cap Background) <= Cardinality(BackgroundSlots)
  BY <1>3, <1>8, FS_Surjection
<1>11. Cardinality(Present) \in Nat /\ Cardinality(A) \in Nat
  BY <1>7, <1>9, FS_CardinalityType
<1>12. Cardinality(Present) < MaxPlugins
  BY <1>7, <1>9, <1>11, BoundsAssumption
<1>13. /\ Cardinality(Present \cap Background) \in Nat
       /\ Cardinality(BackgroundSlots) \in Nat
  BY <1>3, <1>8, FS_Surjection, FS_CardinalityType
<1>14. Cardinality(BackgroundSlots) < MaxBackground =>
         Cardinality(Present \cap Background) < MaxBackground
  BY <1>10, <1>13, BoundsAssumption
<1> QED
  BY <1>12, <1>14 DEF Present

LEMMA WorkerRefines ==
  ASSUME TypeInv, TypeInv', JoinInv, OneInstance, NEW w \in Workers, WorkerStep(w)
  PROVE  RegistryStep
<1>0. /\ worker \in [Workers -> WorkerType]
      /\ \A v \in Workers : worker[v].index \in Slots /\ worker'[v].index \in Slots
  BY DEF TypeInv, WorkerType
<1>1. \A s \in Slots : slot'[s].id = slot[s].id /\ slot'[s].stopping = slot[s].stopping
  BY WorkerSameOwners DEF SameOwners
<1>2. Phase' = Phase
  BY <1>1, SamePhase
<1>3. \A v \in Workers \ {w} : worker'[v] = worker[v]
  BY WorkerOwnStep
<1>4. CASE WorkerPost(w)
  <2> DEFINE p == slot[worker[w].index].id
  <2>1. Live(w) /\ ~Live(w)' /\ p \in Plugins
    <3>1. worker[w].pc = "post" /\ worker'[w].pc \in {"exited", "idle"}
      BY <1>0, <1>4 DEF WorkerPost, WGoto, Exit, IdleWorker, WorkerType
    <3> QED
      BY <3>1 DEF Live, JoinInv
  <2>2. p \in Running
    BY <2>1 DEF Running
  <2>3. Running' = Running \ {p}
    <3>1. ASSUME NEW v \in Workers, Live(v), slot[worker[v].index].id = p
          PROVE  v = w
      BY <1>0, <2>1, <3>1, NullAssumption DEF OneInstance, Occupied, JoinInv, Live
    <3>2. \A q \in Plugins : q \in Running' <=>
            \E v \in Workers \ {w} : Live(v) /\ slot[worker[v].index].id = q
      BY <1>0, <1>1, <1>3, <2>1 DEF Running, Live
    <3>3. \A q \in Plugins : q \in Running' <=> q \in Running /\ q # p
      BY <2>1, <3>1, <3>2 DEF Running
    <3>4. Running' \subseteq Plugins /\ Running \subseteq Plugins
      BY DEF Running
    <3> QED
      BY <3>3, <3>4
  <2> QED
    BY <1>2, <2>1, <2>2, <2>3 DEF RegistryStep
<1>5. CASE ~WorkerPost(w)
  <2>1. Live(w) /\ Live(w)'
    <3>1. CASE WorkerReady(w) \/ WorkerCheck(w) \/ WorkerDispatched(w)
      BY <1>0, <3>1 DEF Live, WorkerReady, WorkerCheck, WorkerDispatched, WGoto,
                        WorkerType
    <3>2. CASE WorkerPublish(w) \/ WorkerPump(w) \/ WorkerWait(w) \/ WorkerOnStop(w)
                 \/ WorkerFinish(w) \/ WorkerHealth(w) \/ WorkerMark(w)
      BY <1>0, <3>2 DEF Live, WorkerPublish, WorkerPump, WorkerWait, WorkerOnStop,
         WorkerFinish, WorkerHealth, WorkerMark, WGoto, WGotoWith, WorkerType
    <3>3. CASE CallStep(w)
      BY <3>3, CallSteps DEF Live, InCall
    <3> QED
      BY <1>5, <3>1, <3>2, <3>3 DEF WorkerStep, CallStep
  <2>2. worker'[w].index = worker[w].index
    BY <2>1, WorkerOwnStep DEF Live
  <2>3. Running' = Running
    BY <1>0, <1>1, <1>3, <2>1, <2>2, SameRunning DEF Live
  <2> QED
    BY <1>2, <2>3 DEF RegistryStep
<1> QED
  BY <1>4, <1>5

LEMMA InsertRefines ==
  ASSUME TypeInv, TypeInv', HandoverInv, OneInstance, NEW c \in Callers, StartInsert(c)
  PROVE  RegistryStep
<1> PICK p \in Plugins : p = caller[c].id
  BY DEF StartInsert, HandoverInv
<1>1. PICK t \in Slots, w \in Workers :
        /\ FirstEmpty(t) /\ worker[w].pc = "idle"
        /\ slot' = [slot EXCEPT ![t] = [EmptySlot EXCEPT !.id = p, !.pid = w]]
        /\ worker' = [worker EXCEPT ![w] = [IdleWorker EXCEPT !.pc = "load", !.index = t]]
  BY DEF StartInsert
<1>2. /\ ~Found(p) /\ slot[t].id = NoPlugin
      /\ p \in Background => Cardinality(BackgroundSlots) < MaxBackground
  BY <1>1 DEF StartInsert, Admitted, FirstEmpty, Occupied
<1>3. /\ slot'[t].id = p /\ ~slot'[t].stopping
      /\ \A u \in Slots \ {t} : slot'[u] = slot[u]
  BY <1>1 DEF TypeInv, EmptySlot
<1>4. /\ Live(w)' /\ worker'[w].index = t /\ ~Live(w)
      /\ \A v \in Workers \ {w} : worker'[v] = worker[v]
      /\ \A v \in Workers : worker[v].index \in Slots
  BY <1>1 DEF TypeInv, WorkerType, Live
<1>5. Phase[p] = "absent" /\ p \notin Running
  BY <1>2, <1>4 DEF Phase, PhaseOf, Running, Found
<1>6. Phase' = [Phase EXCEPT ![p] = "live"]
  <2>1. PhaseOf(p)' = "live"
    BY <1>2, <1>3 DEF PhaseOf, Found
  <2>2. ASSUME NEW q \in Plugins, q # p PROVE PhaseOf(q)' = PhaseOf(q)
    BY <1>2, <1>3, <2>2, NullAssumption DEF PhaseOf, Found
  <2> QED
    BY <1>2, <2>1, <2>2 DEF Phase
<1>7. Running' = Running \cup {p}
  <2>1. p \in Running'
    BY <1>2, <1>3, <1>4 DEF Running
  <2>2. ASSUME NEW q \in Plugins, q # p PROVE q \in Running' <=> q \in Running
    <3>1. q \in Running' => q \in Running
      BY <1>3, <1>4, <2>2 DEF Running, Live
    <3>2. q \in Running => q \in Running'
      BY <1>2, <1>3, <1>4, <2>2, NullAssumption DEF Running, Live
    <3> QED
      BY <3>1, <3>2
  <2>3. Running' \subseteq Plugins /\ Running \subseteq Plugins
    BY DEF Running
  <2> QED
    BY <1>2, <2>1, <2>2, <2>3
<1>8. /\ Cardinality({q \in Plugins : Phase[q] # "absent"}) < MaxPlugins
      /\ p \in Background =>
           Cardinality({q \in Plugins : Phase[q] # "absent"} \cap Background)
             < MaxBackground
  BY <1>1, <1>2, PresentCounted DEF FirstEmpty
<1> QED
  BY <1>5, <1>6, <1>7, <1>8 DEF RegistryStep

LEMMA CallerRefines ==
  ASSUME TypeInv, TypeInv', HandoverInv, JoinInv, OneInstance, NEW c \in Callers,
         CallerStep(c)
  PROVE  RegistryStep
<1> DEFINE s == caller[c].index
<1>0. /\ slot \in [Slots -> SlotType] /\ worker \in [Workers -> WorkerType]
      /\ s \in Slots
      /\ \A v \in Workers : worker[v].index \in Slots /\ worker'[v].index \in Slots
  BY DEF TypeInv, WorkerType, CallerType
<1>1. CASE StartInsert(c)
  BY <1>1, InsertRefines
<1>2. CASE StartRejected(c) \/ StartWaitReady(c) \/ ReapWaitStopped(c)
           \/ StopWaitConsumed(c)
  <2>1. /\ worker' = worker
        /\ \A t \in Slots : slot'[t].id = slot[t].id /\ slot'[t].stopping = slot[t].stopping
    BY <1>0, <1>2 DEF StartRejected, StartWaitReady, ReapWaitStopped, StopWaitConsumed,
                      SlotType
  <2> QED
    BY <1>0, <2>1, SamePhase, SameRunning DEF RegistryStep, Live
<1>3. CASE ReapJoin(c)
  <2>1. slot' = slot
    BY <1>3 DEF ReapJoin
  <2>2. \A v \in Workers : \/ worker'[v] = worker[v]
                           \/ worker[v].pc = "exited" /\ worker'[v] = IdleWorker
    BY <1>0, <1>3 DEF ReapJoin, Exit
  <2>3. \A v \in Workers :
          \/ ~Live(v) /\ ~Live(v)'
          \/ Live(v) /\ Live(v)' /\ worker'[v].index = worker[v].index
    BY <2>2 DEF Live, IdleWorker
  <2> QED
    BY <1>0, <2>1, <2>3, SamePhase, SameRunning DEF RegistryStep
<1>4. CASE StartConsume(c)
  <2>1. PICK p \in Plugins : slot[s].id = p
    BY <1>4 DEF StartConsume, HandoverInv, Starting
  <2>2. /\ worker' = worker
        /\ \A t \in Slots : slot'[t].id = slot[t].id
        /\ \A t \in Slots \ {s} : slot'[t] = slot[t]
    BY <1>0, <1>4 DEF StartConsume, SlotType
  <2>3. Running' = Running
    BY <1>0, <2>2, SameRunning DEF Live
  <2>4. CASE slot'[s].stopping = slot[s].stopping
    <3>1. Phase' = Phase
      BY <2>2, <2>4, SamePhase
    <3> QED
      BY <2>3, <3>1 DEF RegistryStep
  <2>5. CASE slot'[s].stopping # slot[s].stopping
    <3>1. ~slot[s].stopping /\ slot'[s].stopping
      BY <1>0, <1>4, <2>5 DEF StartConsume, SlotType
    <3>2. PhaseOf(p) = "live"
      BY <1>0, <2>1, <3>1, PhaseOfSlot
    <3>3. PhaseOf(p)' = "reaping"
      BY <1>0, <2>1, <2>2, <3>1 DEF PhaseOf, Found
    <3>4. ASSUME NEW q \in Plugins, q # p PROVE PhaseOf(q)' = PhaseOf(q)
      BY <2>1, <2>2, <3>4 DEF PhaseOf, Found
    <3>5. Phase[p] = "live" /\ Phase' = [Phase EXCEPT ![p] = "reaping"]
      BY <3>2, <3>3, <3>4 DEF Phase
    <3> QED
      BY <2>3, <3>5 DEF RegistryStep
  <2> QED
    BY <2>4, <2>5
<1>5. CASE ReapClear(c)
  <2>1. PICK p \in Plugins : slot[s].id = p /\ slot[s].stopping
    BY <1>5 DEF ReapClear, HandoverInv, Reaping
  <2>2. /\ worker' = worker /\ slot'[s].id = NoPlugin
        /\ \A t \in Slots \ {s} : slot'[t] = slot[t]
    BY <1>0, <1>5 DEF ReapClear, EmptySlot
  <2>3. \A t \in Slots : slot[t].id = p => t = s
    BY <1>0, <2>1, NullAssumption DEF OneInstance, Occupied
  <2>4. \A v \in Workers : Live(v) => worker[v].index # s
    BY <1>5 DEF ReapClear, JoinInv, Live
  <2>5. p \notin Running
    BY <1>0, <2>3, <2>4 DEF Running
  <2>6. Running' = Running
    BY <1>0, <2>2, <2>4 DEF Running, Live
  <2>7. PhaseOf(p) = "reaping"
    BY <1>0, <2>1, PhaseOfSlot
  <2>8. PhaseOf(p)' = "absent"
    BY <2>2, <2>3, NullAssumption DEF PhaseOf, Found
  <2>9. ASSUME NEW q \in Plugins, q # p PROVE PhaseOf(q)' = PhaseOf(q)
    BY <2>1, <2>2, <2>9, NullAssumption DEF PhaseOf, Found
  <2>10. Phase[p] = "reaping" /\ Phase' = [Phase EXCEPT ![p] = "absent"]
    BY <2>7, <2>8, <2>9 DEF Phase
  <2> QED
    BY <2>5, <2>6, <2>10 DEF RegistryStep
<1> QED
  BY <1>1, <1>2, <1>3, <1>4, <1>5 DEF CallerStep

LEMMA RequestRefines ==
  ASSUME TypeInv, TypeInv', OneInstance, Request
  PROVE  RegistryStep
<1>0. /\ slot \in [Slots -> SlotType]
      /\ \A v \in Workers : worker'[v].index \in Slots
  BY DEF TypeInv, WorkerType
<1>1. worker' = worker
  BY DEF Request, StartCheck, StopClaim, Dispatch, Notify, HealthReset
<1>2. ASSUME NEW p \in Plugins, Dispatch(p) \/ Notify(p) \/ HealthReset(p)
      PROVE  RegistryStep
  <2>1. SameOwners
    BY <1>2, EventSameOwners
  <2> QED
    BY <1>0, <1>1, <2>1, SamePhase, SameRunning DEF RegistryStep, SameOwners, Live
<1>3. ASSUME NEW c \in Callers, NEW p \in Plugins, StartCheck(c, p) PROVE RegistryStep
  <2>1. slot' = slot
    BY <1>3 DEF StartCheck
  <2> QED
    BY <1>0, <1>1, <2>1, SamePhase, SameRunning DEF RegistryStep, Live
<1>4. ASSUME NEW c \in Callers, NEW p \in Plugins, StopClaim(c, p) PROVE RegistryStep
  <2>1. PICK s \in Slots :
          /\ slot[s].id = p /\ Unclaimed(s)
          /\ slot' = [slot EXCEPT ![s].stopping = TRUE,
                        ![s].pending = IF slot[s].task_stopped THEN @ ELSE Woken(s)]
    BY <1>4 DEF StopClaim
  <2>2. /\ \A t \in Slots : slot'[t].id = slot[t].id
        /\ \A t \in Slots \ {s} : slot'[t] = slot[t]
        /\ slot'[s].stopping
    BY <1>0, <2>1 DEF SlotType
  <2>3. Running' = Running
    BY <1>0, <1>1, <2>2, SameRunning DEF Live
  <2>4. PhaseOf(p) = "live"
    BY <2>1, PhaseOfSlot
  <2>5. PhaseOf(p)' = "reaping"
    BY <2>1, <2>2 DEF PhaseOf, Found
  <2>6. ASSUME NEW q \in Plugins, q # p PROVE PhaseOf(q)' = PhaseOf(q)
    BY <2>1, <2>2, <2>6 DEF PhaseOf, Found
  <2>7. Phase[p] = "live" /\ Phase' = [Phase EXCEPT ![p] = "reaping"]
    BY <2>4, <2>5, <2>6 DEF Phase
  <2> QED
    BY <2>3, <2>7 DEF RegistryStep
<1> QED
  BY <1>2, <1>3, <1>4 DEF Request

\* With pthread_join, the scheduler implements the registry: whatever the slots,
\* semaphores and tasks do, a plugin has one instance, which ends when one task
\* claims it and is gone only after its code has ended.
THEOREM ImplementsRegistryCorrect ==
  ASSUME BuildKernel = TRUE
  PROVE  Spec => Registry!Spec
<1>1. Init => Registry!Init
  BY RegistryInit
<1>2. /\ TypeInv /\ TypeInv' /\ HandoverInv /\ JoinInv /\ OneInstance /\ [Next]_vars
      => [Registry!Next]_(Registry!vars)
  <2> SUFFICES ASSUME TypeInv, TypeInv', HandoverInv, JoinInv, OneInstance,
                      [Next]_vars
               PROVE  RegistryStep
    BY RegistryStepMaps
  <2>1. CASE UNCHANGED vars
    BY <2>1 DEF vars, RegistryStep, Phase, PhaseOf, Found, Running, Live
  <2>2. CASE Next
    BY <2>2, RequestRefines, WorkerRefines, CallerRefines DEF Next
  <2> QED
    BY <2>1, <2>2
<1> QED
  BY <1>1, <1>2, TypeCorrect, HandoverCorrect, JoinCorrect, OneInstanceCorrect,
     PTL DEF Spec, Registry!Spec

================================================================================
