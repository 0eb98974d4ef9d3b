--------------------------- MODULE PluginAsyncProofs ---------------------------
(***************************************************************************)
(* What holds of PluginAsync for every set of permissions and clients,     *)
(* every size of the ring and every bound of the model.                    *)
(***************************************************************************)
EXTENDS PluginAsync, SequenceTheorems, TLAPS

\* The one-line tests and moves are always expanded.
USE DEF history, Occupied, LockFree, Alone, Begins, InCallback, Woken, Goto, CGoto,
        Return, Open

(***************************************************************************)
(* Types                                                                   *)
(***************************************************************************)
LEMMA EmptyTypes ==
  /\ EmptySlot \in SlotType /\ NoPlugin \in PluginType
  /\ NoWorker \in WorkerType /\ IdleClient \in ClientType
<1>1. EmptySlot \in SlotType
  BY BoundsAssumption DEF EmptySlot, SlotType
<1>2. NoPlugin \in PluginType
  BY BoundsAssumption DEF NoPlugin, PluginType
<1>3. NoWorker \in WorkerType
  BY BoundsAssumption DEF NoWorker, WorkerType, WorkerPC, Calls, Needs, Lost
<1>4. IdleClient \in ClientType
  BY BoundsAssumption DEF IdleClient, ClientType, ClientPC
<1> QED
  BY <1>1, <1>2, <1>3, <1>4

LEMMA NoToken == NoWorker.cur \in [gen : 0..MaxStarts, req : 0..MaxRequests]
BY BoundsAssumption DEF NoWorker

LEMMA TypeInit ==
  ASSUME Init PROVE TypeInv
<1>1. client \in [Clients -> ClientType]
  BY EmptyTypes DEF Init
<1> QED
  <2>1. 0 \in 0..MaxStarts /\ 0 \in 0..MaxUpdates
    BY BoundsAssumption
  <2> QED
    BY <1>1, <2>1, EmptyTypes DEF Init, TypeInv

\* Where the worker is, and the result of the start, when a call has ended.
LEMMA CallEnded ==
  ASSUME TypeInv, NEW ok \in BOOLEAN, CallEnds(ok)
  PROVE  /\ worker' \in WorkerType /\ slot' \in SlotType
         /\ slot' = [slot EXCEPT !.start = slot'.start]
         /\ worker'.call = "none"
         /\ worker'.pc \in {"cancel", "finish", "enable", "check", "pump"}
         /\ worker'.pc = "cancel" <=> worker.call = "stop"
         /\ worker'.pc = "enable" => worker.call = "load"
         /\ worker'.pc = "check" => worker.call = "reaction"
         /\ slot'.start # slot.start => worker.call \in {"load", "start"}
         /\ slot'.start = "fail" => slot.start = "fail" \/ worker'.pc = "finish"
         /\ worker'.pc = "enable" => slot'.start = slot.start
         /\ slot'.start = "none" => slot.start = "none"
<1> DEFINE pc == CASE worker.call = "stop" -> "cancel"
                   [] worker.call # "stop" /\ ~ok -> "finish"
                   [] worker.call = "load" /\ ok -> "enable"
                   [] worker.call = "reaction" /\ ok -> "check"
                   [] OTHER -> "pump"
<1> slot \in SlotType /\ worker \in WorkerType
  BY DEF TypeInv
<1>1. worker' = [worker EXCEPT !.pc = pc, !.call = "none", !.got = "none"]
  BY DEF CallEnds
<1>2. /\ pc \in {"cancel", "finish", "enable", "check", "pump"}
      /\ pc = "cancel" <=> worker.call = "stop"
      /\ pc = "enable" <=> worker.call = "load" /\ ok
      /\ pc = "check" => worker.call = "reaction"
      /\ pc = "finish" <=> worker.call # "stop" /\ ~ok
  <2>1. CASE ok
    BY <2>1
  <2>2. CASE ~ok
    BY <2>2
  <2> QED
    BY <2>1, <2>2
<1>3. /\ worker'.pc = pc /\ worker'.call = "none"
  BY <1>1 DEF WorkerType
<1>4. worker' \in WorkerType
  BY <1>1, <1>2 DEF WorkerType, WorkerPC, Calls
<1>5. CASE worker.call = "start" \/ (worker.call = "load" /\ ~ok)
  <2>1. slot' = [slot EXCEPT !.start = IF ok THEN "ok" ELSE "fail"]
    BY <1>5 DEF CallEnds
  <2>2. slot' \in SlotType /\ slot'.start = (IF ok THEN "ok" ELSE "fail")
    BY <2>1 DEF SlotType
  <2> QED
    BY <1>2, <1>3, <1>4, <1>5, <2>1, <2>2
<1>6. CASE ~(worker.call = "start" \/ (worker.call = "load" /\ ~ok))
  <2>1. slot' = slot
    BY <1>6 DEF CallEnds
  <2>2. slot = [slot EXCEPT !.start = slot.start]
    BY DEF SlotType
  <2> QED
    BY <1>2, <1>3, <1>4, <1>6, <2>1, <2>2
<1> QED
  BY <1>5, <1>6

LEMMA ClientMoves ==
  ASSUME TypeInv, NEW c \in Clients, NEW pc \in ClientPC
  PROVE  /\ CGoto(c, pc) => client' \in [Clients -> ClientType]
         /\ Return(c) => client' \in [Clients -> ClientType]
<1>1. client[c] \in ClientType
  BY DEF TypeInv
<1>2. [client[c] EXCEPT !.pc = pc] \in ClientType
  BY <1>1 DEF ClientType
<1> QED
  BY <1>2, EmptyTypes DEF TypeInv

LEMMA WorkerTypes ==
  ASSUME TypeInv, InstanceInv, WorkerStep \/ Event
  PROVE  TypeInv'
<1>0. /\ slot \in SlotType /\ plugin \in PluginType /\ worker \in WorkerType
      /\ client \in [Clients -> ClientType]
  BY DEF TypeInv
<1> USE DEF WorkerPC, Calls
<1>1. CASE Load
  <2>1. plugin' \in PluginType
    BY <1>0, <1>1, EmptyTypes DEF Load, SlotType, PluginType
  <2>2. worker' \in WorkerType
    BY <1>0, <1>1 DEF Load, WorkerType
  <2> QED
    BY <1>1, <2>1, <2>2 DEF Load, TypeInv
<1>2. CASE Enable
  <2>1. slot' \in SlotType
    BY <1>0, <1>2 DEF Enable, SlotType, PluginType
  <2>2. worker' \in WorkerType
    BY <1>0, <1>2 DEF Enable, WorkerType
  <2> QED
    BY <1>2, <2>1, <2>2 DEF Enable, TypeInv
<1>3. ASSUME NEW need \in Needs, BeginReadGeneration(need) PROVE TypeInv'
  <2>1. worker' \in WorkerType
    BY <1>0, <1>3 DEF BeginReadGeneration, WorkerType, PluginType
  <2> QED
    BY <1>3, <2>1 DEF BeginReadGeneration, TypeInv
<1>4. CASE Begin
  <2>1. worker' \in WorkerType
    BY <1>0, <1>4, EmptyTypes DEF Begin, WorkerType, NoWorker
  <2>2. CASE BeginRefused
    BY <1>4, <2>1, <2>2 DEF Begin, TypeInv
  <2>3. CASE ~BeginRefused
    <3> DEFINE req == plugin.next_request
               e == [req |-> req, need |-> worker.need, pgen |-> worker.pgen,
                     lost |-> "no"]
    <3>1. req \in 1..MaxRequests
      BY <1>0, <1>4, BoundsAssumption DEF Begin, InstanceInv, PluginType
    <3>2. plugin' = [plugin EXCEPT !.next_request = req + 1,
                                   !.pending = plugin.pending \cup {e}]
      BY <1>0, <1>4, <2>3 DEF Begin, PluginType
    <3>3. e \in Entry
      BY <1>0, <3>1 DEF Entry, Lost, WorkerType
    <3> HIDE DEF e
    <3>4. plugin' \in PluginType
      <4>1. plugin.pending \cup {e} \in SUBSET Entry
        BY <1>0, <3>3 DEF PluginType
      <4>2. req + 1 \in 1..(MaxRequests + 1)
        BY <3>1, BoundsAssumption
      <4> QED
        BY <1>0, <3>2, <4>1, <4>2 DEF PluginType
    <3>5. plugin.generation \in 1..MaxStarts
      BY <1>0, <1>4, BoundsAssumption DEF Begin, InstanceInv, PluginType, SlotType
    <3>6. issued' \subseteq Token
      BY <1>4, <2>3, <3>1, <3>5 DEF Begin, TypeInv, Token
    <3> QED
      BY <1>4, <2>1, <3>4, <3>6 DEF Begin, TypeInv
  <2> QED
    BY <2>2, <2>3
<1>5. CASE CodeReturns
  BY <1>5, CallEnded DEF CodeReturns, TypeInv
<1>6. CASE CodeAwaits
  <2>1. worker' \in WorkerType
    BY <1>0, <1>6 DEF CodeAwaits, WorkerType
  <2> QED
    BY <1>6, <2>1 DEF CodeAwaits, TypeInv
<1>7. CASE PumpCanceled
  <2>1. worker' \in WorkerType /\ slot' \in SlotType
    <3>1. CASE InCallback
      BY <1>7, <3>1, CallEnded DEF PumpCanceled
    <3>2. CASE ~InCallback
      BY <1>0, <1>7, <3>2 DEF PumpCanceled, WorkerType
    <3> QED
      BY <3>1, <3>2
  <2> QED
    BY <1>7, <2>1 DEF PumpCanceled, TypeInv
<1>8. CASE PumpTimesOut
  BY <1>8, CallEnded DEF PumpTimesOut, TypeInv
<1>9. CASE PumpTakes
  <2>1. Head(slot.ring) \in Token /\ Tail(slot.ring) \in Seq(Token)
    BY <1>0, <1>9 DEF PumpTakes, SlotType
  <2>2. Head(slot.ring) \in [gen : 0..MaxStarts, req : 0..MaxRequests]
    BY <2>1, BoundsAssumption DEF Token
  <2>3. worker' \in WorkerType
    BY <1>0, <1>9, <2>2 DEF PumpTakes, WorkerType
  <2>4. slot' \in SlotType
    BY <1>0, <1>9, <2>1 DEF PumpTakes, SlotType
  <2> QED
    BY <1>9, <2>3, <2>4 DEF PumpTakes, TypeInv
<1>10. CASE PumpEmpty
  <2>1. worker' \in WorkerType
    BY <1>0, <1>10 DEF PumpEmpty, WorkerType
  <2> QED
    BY <1>10, <2>1 DEF PumpEmpty, TypeInv
<1>11. CASE Wake
  <2>1. worker' \in WorkerType
    BY <1>0, <1>11 DEF Wake, WorkerType
  <2>2. slot' \in SlotType
    BY <1>0, <1>11 DEF Wake, SlotType
  <2> QED
    BY <1>11, <2>1, <2>2 DEF Wake, TypeInv
<1>12. CASE Check \/ Event
  <2>1. \/ worker' = [worker EXCEPT !.pc = "code", !.call = "stop"]
        \/ worker' = [worker EXCEPT !.pc = "sleep"]
        \/ worker' = [worker EXCEPT !.pc = "code", !.call = "event"]
    BY <1>12 DEF Check, Event
  <2>2. worker' \in WorkerType
    <3>1. /\ [worker EXCEPT !.pc = "code", !.call = "stop"] \in WorkerType
          /\ [worker EXCEPT !.pc = "sleep"] \in WorkerType
          /\ [worker EXCEPT !.pc = "code", !.call = "event"] \in WorkerType
      BY <1>0 DEF WorkerType
    <3> QED
      BY <2>1, <3>1
  <2> QED
    BY <1>12, <2>2 DEF Check, Event, TypeInv
<1>13. CASE Deliver
  <2>1. worker' \in WorkerType
    <3>1. CASE PendingEntry(worker.cur) = {}
      BY <1>0, <1>13, <3>1, NoToken DEF Deliver, WorkerType
    <3>2. CASE PendingEntry(worker.cur) # {}
      <4> PICK e \in PendingEntry(worker.cur) :
            worker' = [worker EXCEPT !.pc = "settle", !.lost = e.lost,
                                     !.current = StillCurrent(e)]
        BY <1>13, <3>2 DEF Deliver
      <4>1. e.lost \in Lost
        BY <1>0 DEF PendingEntry, PluginType, Entry
      <4>2. StillCurrent(e) \in BOOLEAN
        BY DEF StillCurrent
      <4> QED
        BY <1>0, <4>1, <4>2 DEF WorkerType
    <3> QED
      BY <3>1, <3>2
  <2> QED
    BY <1>13, <2>1 DEF Deliver, TypeInv
<1>14. CASE Settle
  <2> PICK e \in PendingEntry(worker.cur) :
       /\ plugin' = [plugin EXCEPT !.pending = @ \ {e}]
       /\ worker' = [worker EXCEPT
            !.pc = "code", !.cur = NoWorker.cur, !.current = FALSE, !.lost = "no",
            !.call = IF worker.call = "none" THEN "reaction" ELSE @,
            !.got = IF worker.current /\ e.need \subseteq plugin.permissions
                      THEN "value" ELSE "errno"]
    BY <1>14 DEF Settle
  <2>1. plugin' \in PluginType
    BY <1>0 DEF PluginType
  <2>2. worker' \in WorkerType
    <3>1. (IF worker.call = "none" THEN "reaction" ELSE worker.call) \in Calls
      BY <1>0 DEF WorkerType
    <3>2. (IF worker.current /\ e.need \subseteq plugin.permissions
             THEN "value" ELSE "errno") \in {"none", "value", "errno"}
      OBVIOUS
    <3> QED
      BY <1>0, <3>1, <3>2, NoToken DEF WorkerType, Lost
  <2> QED
    BY <1>14, <2>1, <2>2 DEF Settle, TypeInv
<1>15. CASE CancelAll
  <2>1. plugin' \in PluginType /\ worker' \in WorkerType
    BY <1>0, <1>15 DEF CancelAll, PluginType, WorkerType
  <2> QED
    BY <1>15, <2>1 DEF CancelAll, TypeInv
<1>16. CASE Finish
  <2>1. slot' \in SlotType /\ worker' \in WorkerType
    BY <1>0, <1>16 DEF Finish, SlotType, WorkerType
  <2> QED
    BY <1>16, <2>1 DEF Finish, TypeInv
<1>17. CASE Destroy
  <2>1. worker' \in WorkerType
    BY <1>0, <1>17 DEF Destroy, WorkerType
  <2> QED
    BY <1>17, <2>1, EmptyTypes DEF Destroy, TypeInv
<1> QED
  BY <1>1, <1>2, <1>3, <1>4, <1>5, <1>6, <1>7, <1>8, <1>9, <1>10, <1>11,
     <1>12, <1>13, <1>14, <1>15, <1>16, <1>17 DEF WorkerStep

LEMMA ClientTypes ==
  ASSUME TypeInv, NEW c \in Clients, Update(c) \/ StartLoad(c) \/ Stop(c) \/ ClientStep(c)
  PROVE  TypeInv'
<1>0. /\ slot \in SlotType /\ plugin \in PluginType /\ worker \in WorkerType
      /\ client \in [Clients -> ClientType] /\ client[c] \in ClientType
  BY DEF TypeInv
<1> USE DEF ClientPC
<1>1. CASE Update(c)
  <2>1. grants' \subseteq Permissions /\ updates' \in 0..MaxUpdates
    BY <1>1, BoundsAssumption DEF Update, TypeInv
  <2> QED
    BY <1>1, <2>1, ClientMoves DEF Update, TypeInv
<1>2. CASE StartLoad(c)
  <2>1. client' \in [Clients -> ClientType]
    BY <1>0, <1>2 DEF StartLoad, ClientType, TypeInv
  <2>2. crossed' \in BOOLEAN
    BY <1>2 DEF StartLoad, TypeInv
  <2> QED
    BY <1>2, <2>1, <2>2 DEF StartLoad, TypeInv
<1>3. CASE Stop(c)
  <2>1. slot' \in SlotType
    <3>1. (IF worker.pc = "gone" THEN slot.pending ELSE slot.pending + 1) \in Nat
      BY <1>0 DEF SlotType
    <3> QED
      BY <1>0, <1>3, <3>1 DEF Stop, SlotType
  <2>2. crossed' \in BOOLEAN
    BY <1>3 DEF Stop, TypeInv
  <2> QED
    BY <1>3, <2>1, <2>2, ClientMoves DEF Stop, TypeInv
<1>4. CASE Snapshot(c)
  <2>1. client' \in [Clients -> ClientType]
    <3>1. CASE Occupied
      <4>1. client' = [client EXCEPT ![c].pc = "apply", ![c].pid = slot.pid]
        BY <1>4, <3>1 DEF Snapshot
      <4>2. slot.pid \in 0..MaxStarts
        BY <1>0 DEF SlotType
      <4> QED
        BY <1>0, <4>1, <4>2 DEF ClientType
    <3>2. CASE ~Occupied
      BY <1>4, <3>2, ClientMoves DEF Snapshot
    <3> QED
      BY <3>1, <3>2
  <2> QED
    BY <1>4, <2>1 DEF Snapshot, TypeInv
<1>5. CASE Apply(c)
  <2>1. client' \in [Clients -> ClientType]
    BY <1>0, <1>5 DEF Apply, ClientType, TypeInv
  <2> QED
    BY <1>5, <2>1 DEF Apply, TypeInv
<1>16. CASE ApplyFails(c)
  <2>1. stale' \in 0..MaxStarts
    BY <1>0, <1>16 DEF ApplyFails, ClientType
  <2> QED
    BY <1>16, <2>1, ClientMoves DEF ApplyFails, TypeInv
<1>6. ASSUME NEW mask \in SUBSET Permissions, NEW how \in Lost
      PROVE  Lose(plugin.pending, mask, how) \subseteq Entry
  <2>1. plugin.pending \subseteq Entry
    BY <1>0 DEF PluginType
  <2> QED
    BY <2>1 DEF Lose, Entry
<1>7. CASE Commit(c)
  <2>1. slot' \in SlotType
    BY <1>0, <1>7 DEF Commit, SlotType, ClientType
  <2>2. plugin' \in PluginType
    <3>1. Lose(plugin.pending, client[c].mask, "before") \subseteq Entry
      BY <1>0, <1>6 DEF ClientType, Lost
    <3> QED
      <4>1. plugin.permission_generation + 1 \in Nat
        BY <1>0 DEF PluginType
      <4>2. \/ plugin' = plugin
            \/ plugin' = [plugin EXCEPT
                 !.permission_generation = plugin.permission_generation + 1,
                 !.pending = Lose(plugin.pending, client[c].mask, "before")]
        BY <1>0, <1>7 DEF Commit, PluginType
      <4> QED
        BY <1>0, <3>1, <4>1, <4>2 DEF PluginType
  <2>3. client' \in [Clients -> ClientType]
    BY <1>7, ClientMoves DEF Commit
  <2>4. stale' \in 0..MaxStarts
    BY <1>7, BoundsAssumption DEF Commit, TypeInv
  <2> QED
    BY <1>7, <2>1, <2>2, <2>3, <2>4 DEF Commit, TypeInv
<1>8. CASE Store(c)
  <2>1. Lose(plugin.pending, client[c].mask, "during") \subseteq Entry
    BY <1>0, <1>6 DEF ClientType, Lost
  <2>2. plugin' \in PluginType
    BY <1>0, <1>8, <2>1 DEF Store, PluginType, ClientType
  <2>3. slot' \in SlotType
    BY <1>0, <1>8 DEF Store, SlotType
  <2> QED
    BY <1>8, <2>2, <2>3, ClientMoves DEF Store, TypeInv
<1>9. CASE StartInsert(c)
  <2>1. starts + 1 \in 0..MaxStarts
    BY <1>9, BoundsAssumption DEF StartInsert, TypeInv
  <2>2. slot' \in SlotType
    BY <1>0, <1>9, <2>1, EmptyTypes DEF StartInsert, SlotType, ClientType
  <2>3. worker' \in WorkerType
    BY <1>9, EmptyTypes DEF StartInsert, WorkerType, WorkerPC
  <2>4. client' \in [Clients -> ClientType]
    BY <1>0, <1>9, EmptyTypes DEF StartInsert, ClientType
  <2> QED
    BY <1>9, <2>1, <2>2, <2>3, <2>4 DEF StartInsert, TypeInv
<1>10. CASE StartRejected(c)
  BY <1>10, ClientMoves DEF StartRejected, TypeInv
<1>11. CASE StartReturns(c)
  <2>1. slot' \in SlotType
    BY <1>0, <1>11 DEF StartReturns, SlotType
  <2>2. client' \in [Clients -> ClientType]
    BY <1>11, ClientMoves DEF StartReturns
  <2> QED
    BY <1>11, <2>1, <2>2 DEF StartReturns, TypeInv
<1>12. CASE Clear(c)
  BY <1>12, ClientMoves, EmptyTypes DEF Clear, TypeInv
<1> QED
  BY <1>1, <1>2, <1>3, <1>4, <1>5, <1>7, <1>8, <1>9, <1>10, <1>11, <1>12, <1>16
  DEF ClientStep

LEMMA CompleteTypes ==
  ASSUME TypeInv, NEW t \in issued, Complete(t)
  PROVE  TypeInv'
<1>1. slot \in SlotType /\ t \in Token
  BY DEF TypeInv
<1>2. Append(slot.ring, t) \in Seq(Token)
  BY <1>1 DEF SlotType
<1>3. slot' = [slot EXCEPT !.ring = Append(slot.ring, t),
                           !.pending = slot.pending + 1]
  BY <1>1 DEF Complete, SlotType
<1>4. slot' \in SlotType
  <2> DEFINE ring == Append(slot.ring, t)
  <2>1. slot.pending + 1 \in Nat /\ ring \in Seq(Token)
    BY <1>1, <1>2 DEF SlotType
  <2> HIDE DEF ring
  <2>2. slot' = [slot EXCEPT !.ring = ring, !.pending = slot.pending + 1]
    BY <1>3 DEF ring
  <2> QED
    BY <1>1, <2>1, <2>2 DEF SlotType
<1> QED
  BY <1>4 DEF Complete, TypeInv

LEMMA TypeStep ==
  ASSUME TypeInv, InstanceInv, Next
  PROVE  TypeInv'
BY WorkerTypes, ClientTypes, CompleteTypes DEF Next

(***************************************************************************)
(* The instance, the open slot, the ring and its wakeups                   *)
(***************************************************************************)
\* The fields of the slot that the end of a call leaves alone.
LEMMA CallEndedSlot ==
  ASSUME TypeInv, NEW ok \in BOOLEAN, CallEnds(ok)
  PROVE  /\ slot'.pid = slot.pid /\ slot'.generation = slot.generation
         /\ slot'.accept_completions = slot.accept_completions
         /\ slot'.stopping = slot.stopping /\ slot'.ring = slot.ring
         /\ slot'.pending = slot.pending
         /\ slot'.permissions = slot.permissions
         /\ slot'.start_consumed = slot.start_consumed
<1>1. slot' = [slot EXCEPT !.start = slot'.start]
  BY CallEnded
<1>2. slot \in SlotType
  BY DEF TypeInv
<1> QED
  BY <1>1, <1>2 DEF SlotType

LEMMA InstanceInit == ASSUME Init PROVE InstanceInv
BY DEF Init, InstanceInv, NoWorker, EmptySlot

LEMMA InstanceStep ==
  ASSUME TypeInv, InstanceInv, Next
  PROVE  InstanceInv'
<1>0. /\ slot \in SlotType /\ plugin \in PluginType /\ worker \in WorkerType
  BY DEF TypeInv
<1> USE DEF InstanceInv
<1>1. CASE Load
  BY <1>0, <1>1 DEF Load, NoPlugin, WorkerType, SlotType
<1>2. CASE Enable
  BY <1>0, <1>2 DEF Enable, WorkerType, SlotType
<1>3. ASSUME NEW need \in Needs, BeginReadGeneration(need) PROVE InstanceInv'
  BY <1>0, <1>3 DEF BeginReadGeneration, WorkerType
<1>4. CASE Begin
  <2>1. worker'.pc = "code" /\ plugin'.generation = plugin.generation /\ slot' = slot
    BY <1>0, <1>4 DEF Begin, WorkerType, PluginType
  <2> QED
    BY <1>4, <2>1 DEF Begin
<1>5. CASE CodeReturns \/ PumpTimesOut \/ (PumpCanceled /\ InCallback)
  <2> PICK ok \in BOOLEAN : CallEnds(ok)
    BY <1>5 DEF CodeReturns, PumpTimesOut, PumpCanceled
  <2>1. plugin' = plugin /\ worker.pc \in {"code", "pump", "sleep", "settle"}
    BY <1>5 DEF CodeReturns, PumpTimesOut, PumpCanceled
  <2> QED
    BY <2>1, CallEnded, CallEndedSlot
<1>6. CASE CodeAwaits \/ (PumpCanceled /\ ~InCallback) \/ PumpEmpty \/ Check \/ Event
  <2>1. slot' = slot /\ plugin' = plugin
    BY <1>6 DEF CodeAwaits, PumpCanceled, PumpEmpty, Check, Event
  <2>2. worker.pc \in {"code", "pump", "check", "sleep"}
    BY <1>6 DEF CodeAwaits, PumpCanceled, PumpEmpty, Check, Event
  <2>3. worker'.pc \in {"code", "pump", "check", "sleep"}
    BY <1>0, <1>6 DEF CodeAwaits, PumpCanceled, PumpEmpty, Check, Event, WorkerType
  <2> QED
    BY <2>1, <2>2, <2>3
<1>7. CASE PumpTakes
  BY <1>0, <1>7 DEF PumpTakes, WorkerType, SlotType
<1>8. CASE Wake
  BY <1>0, <1>8 DEF Wake, WorkerType, SlotType
<1>9. CASE Deliver
  <2>1. worker'.pc \in {"pump", "settle"}
    BY <1>0, <1>9 DEF Deliver, WorkerType
  <2> QED
    BY <1>9, <2>1 DEF Deliver
<1>10. CASE Settle
  <2>1. worker'.pc = "code" /\ plugin'.generation = plugin.generation
    BY <1>0, <1>10 DEF Settle, WorkerType, PluginType
  <2> QED
    BY <1>10, <2>1 DEF Settle
<1>11. CASE CancelAll
  BY <1>0, <1>11 DEF CancelAll, WorkerType, PluginType
<1>12. CASE Finish
  BY <1>0, <1>12 DEF Finish, WorkerType, SlotType
<1>13. CASE Destroy
  BY <1>0, <1>13 DEF Destroy, WorkerType
<1>14. ASSUME NEW t \in issued, Complete(t) PROVE InstanceInv'
  BY <1>0, <1>14 DEF Complete, SlotType
<1>15. ASSUME NEW c \in Clients,
              \/ Update(c) \/ StartLoad(c) \/ Snapshot(c)
              \/ Apply(c) \/ ApplyFails(c) \/ StartRejected(c)
       PROVE  InstanceInv'
  BY <1>15 DEF Update, StartLoad, Snapshot, Apply, ApplyFails, StartRejected
<1>16. ASSUME NEW c \in Clients, Stop(c) PROVE InstanceInv'
  BY <1>0, <1>16 DEF Stop, SlotType
<1>17. ASSUME NEW c \in Clients, Commit(c) PROVE InstanceInv'
  <2>1. /\ slot'.pid = slot.pid /\ slot'.generation = slot.generation
        /\ slot'.accept_completions = slot.accept_completions
        /\ plugin'.generation = plugin.generation
        /\ plugin'.next_request = plugin.next_request
    BY <1>0, <1>17 DEF Commit, SlotType, PluginType
  <2> QED
    BY <1>17, <2>1 DEF Commit
<1>18. ASSUME NEW c \in Clients, Store(c) PROVE InstanceInv'
  BY <1>0, <1>18 DEF Store, SlotType, PluginType
<1>19. ASSUME NEW c \in Clients, StartInsert(c) PROVE InstanceInv'
  BY <1>0, <1>19 DEF StartInsert, EmptySlot, NoWorker, TypeInv
<1>20. ASSUME NEW c \in Clients, StartReturns(c) PROVE InstanceInv'
  BY <1>0, <1>20 DEF StartReturns, SlotType
<1>21. ASSUME NEW c \in Clients, Clear(c) PROVE InstanceInv'
  BY <1>0, <1>21 DEF Clear, EmptySlot, NoWorker
<1> QED
  BY <1>1, <1>2, <1>3, <1>4, <1>5, <1>6, <1>7, <1>8, <1>9, <1>10, <1>11, <1>12,
     <1>13, <1>14, <1>15, <1>16, <1>17, <1>18, <1>19, <1>20, <1>21
  DEF Next, WorkerStep, ClientStep

LEMMA OpenInit == ASSUME Init PROVE OpenInv
BY DEF Init, OpenInv, EmptySlot, IdleClient

LEMMA OpenWorker ==
  ASSUME TypeInv, InstanceInv, OpenInv, WorkerStep \/ Event
  PROVE  OpenInv'
<1>0. /\ slot \in SlotType /\ plugin \in PluginType /\ worker \in WorkerType
  BY DEF TypeInv
<1> USE DEF OpenInv
<1>1. CASE Load
  BY <1>0, <1>1 DEF Load, WorkerType, SlotType
<1>2. CASE Enable
  BY <1>0, <1>2 DEF Enable, WorkerType, SlotType
<1>3. ASSUME NEW need \in Needs, BeginReadGeneration(need) PROVE OpenInv'
  BY <1>0, <1>3 DEF BeginReadGeneration, WorkerType
<1>4. CASE Begin
  <2>1. worker'.pc = "code" /\ worker'.call = worker.call
    BY <1>0, <1>4 DEF Begin, WorkerType
  <2> QED
    BY <1>4, <2>1 DEF Begin
<1>5. CASE CodeReturns \/ PumpTimesOut \/ (PumpCanceled /\ InCallback)
  <2> PICK ok \in BOOLEAN : CallEnds(ok)
    BY <1>5 DEF CodeReturns, PumpTimesOut, PumpCanceled
  <2>1. /\ client' = client /\ LockFree
        /\ worker.pc \in {"code", "pump", "sleep", "settle"}
    BY <1>5 DEF CodeReturns, PumpTimesOut, PumpCanceled
  <2> QED
    BY <2>1, CallEnded, CallEndedSlot
<1>6. CASE CodeAwaits \/ (PumpCanceled /\ ~InCallback) \/ PumpEmpty \/ Check \/ Event
  <2>1. slot' = slot /\ client' = client
    BY <1>6 DEF CodeAwaits, PumpCanceled, PumpEmpty, Check, Event
  <2>2. worker.pc \in {"code", "pump", "check", "sleep"}
    BY <1>6 DEF CodeAwaits, PumpCanceled, PumpEmpty, Check, Event
  <2>3. /\ worker'.pc \in {"code", "pump", "check", "sleep"}
        /\ worker'.call \in {worker.call, "stop", "event"}
    BY <1>0, <1>6 DEF CodeAwaits, PumpCanceled, PumpEmpty, Check, Event, WorkerType
  <2> QED
    BY <2>1, <2>2, <2>3
<1>7. CASE PumpTakes
  BY <1>0, <1>7 DEF PumpTakes, WorkerType, SlotType
<1>8. CASE Wake
  BY <1>0, <1>8 DEF Wake, WorkerType, SlotType
<1>9. CASE Deliver
  <2>1. worker'.pc \in {"pump", "settle"} /\ worker'.call = worker.call
    BY <1>0, <1>9 DEF Deliver, WorkerType
  <2> QED
    BY <1>9, <2>1 DEF Deliver
<1>10. CASE Settle
  <2>1. worker'.pc = "code" /\ worker'.call \in {worker.call, "reaction"}
    BY <1>0, <1>10 DEF Settle, WorkerType
  <2> QED
    BY <1>10, <2>1 DEF Settle
<1>11. CASE CancelAll
  BY <1>0, <1>11 DEF CancelAll, WorkerType
<1>12. CASE Finish
  BY <1>0, <1>12 DEF Finish, WorkerType, SlotType
<1>13. CASE Destroy
  BY <1>0, <1>13 DEF Destroy, WorkerType
<1> QED
  BY <1>1, <1>2, <1>3, <1>4, <1>5, <1>6, <1>7, <1>8, <1>9, <1>10, <1>11, <1>12,
     <1>13 DEF WorkerStep

LEMMA OpenOthers ==
  ASSUME TypeInv, InstanceInv, OpenInv,
         \/ \E t \in issued : Complete(t)
         \/ \E c \in Clients : Update(c) \/ StartLoad(c) \/ Stop(c) \/ ClientStep(c)
  PROVE  OpenInv'
<1>0. /\ slot \in SlotType /\ client \in [Clients -> ClientType]
  BY DEF TypeInv
<1> USE DEF OpenInv
<1>1. ASSUME NEW t \in issued, Complete(t) PROVE OpenInv'
  BY <1>0, <1>1 DEF Complete, SlotType
<1>2. ASSUME NEW c \in Clients,
             \/ Update(c) \/ StartLoad(c) \/ Snapshot(c)
             \/ Apply(c) \/ ApplyFails(c) \/ StartRejected(c)
      PROVE  OpenInv'
  <2>1. slot' = slot /\ worker' = worker /\ client[c].pc # "store"
    BY <1>2 DEF Update, StartLoad, Snapshot, Apply, ApplyFails, StartRejected
  <2>2. client'[c].pc # "store" /\ \A d \in Clients : d # c => client'[d] = client[d]
    BY <1>0, <1>2
    DEF Update, StartLoad, Snapshot, Apply, ApplyFails, StartRejected, ClientType,
        IdleClient
  <2> QED
    BY <2>1, <2>2
<1>3. ASSUME NEW c \in Clients, Stop(c) PROVE OpenInv'
  <2>1. /\ ~slot'.accept_completions /\ slot'.start = slot.start /\ worker' = worker
    BY <1>0, <1>3 DEF Stop, SlotType
  <2>2. \A d \in Clients : client'[d].pc # "store"
    BY <1>0, <1>3 DEF Stop, ClientType
  <2> QED
    BY <2>1, <2>2
<1>4. ASSUME NEW c \in Clients, Commit(c) PROVE OpenInv'
  <2>1. /\ slot'.pid = slot.pid /\ slot'.start = slot.start
        /\ slot'.accept_completions = slot.accept_completions
        /\ slot'.stopping = slot.stopping /\ worker' = worker
    BY <1>0, <1>4 DEF Commit, SlotType
  <2>2. \A d \in Clients : client'[d].pc = "store" =>
          d = c /\ slot.accept_completions /\ client'[d].pid = slot.pid
    BY <1>0, <1>4 DEF Commit, ClientType, IdleClient
  <2> QED
    BY <2>1, <2>2
<1>5. ASSUME NEW c \in Clients, Store(c) PROVE OpenInv'
  <2>1. /\ slot'.pid = slot.pid /\ slot'.start = slot.start
        /\ slot'.accept_completions = slot.accept_completions
        /\ slot'.stopping = slot.stopping /\ worker' = worker
    BY <1>0, <1>5 DEF Store, SlotType
  <2>2. \A d \in Clients : client'[d].pc # "store"
    BY <1>0, <1>5 DEF Store, ClientType, IdleClient
  <2> QED
    BY <2>1, <2>2
<1>6. ASSUME NEW c \in Clients, StartInsert(c) PROVE OpenInv'
  <2>1. \A d \in Clients : client'[d].pc # "store"
    BY <1>0, <1>6 DEF StartInsert, ClientType, IdleClient
  <2> QED
    BY <1>6, <2>1 DEF StartInsert, EmptySlot
<1>7. ASSUME NEW c \in Clients, StartReturns(c) PROVE OpenInv'
  <2>1. /\ slot'.pid = slot.pid /\ slot'.start = slot.start
        /\ slot'.accept_completions = slot.accept_completions /\ worker' = worker
        /\ slot'.stopping # slot.stopping => slot.start = "fail"
    BY <1>0, <1>7 DEF StartReturns, SlotType
  <2>2. \A d \in Clients : client'[d].pc # "store"
    BY <1>0, <1>7 DEF StartReturns, ClientType, IdleClient
  <2> QED
    BY <2>1, <2>2
<1>8. ASSUME NEW c \in Clients, Clear(c) PROVE OpenInv'
  <2>1. \A d \in Clients : client'[d].pc # "store"
    BY <1>0, <1>8 DEF Clear, ClientType, IdleClient
  <2> QED
    BY <1>8, <2>1 DEF Clear, EmptySlot
<1> QED
  BY <1>1, <1>2, <1>3, <1>4, <1>5, <1>6, <1>7, <1>8 DEF ClientStep

LEMMA OpenStep ==
  ASSUME TypeInv, InstanceInv, OpenInv, Next
  PROVE  OpenInv'
BY OpenWorker, OpenOthers DEF Next

LEMMA RingStep ==
  ASSUME TypeInv, InstanceInv, RingCurrent, Next
  PROVE  RingCurrent'
<1>0. slot \in SlotType
  BY DEF TypeInv
<1>1. CASE PumpTakes
  <2>1. slot'.ring = Tail(slot.ring) /\ slot'.pid = slot.pid /\ slot.ring # <<>>
    BY <1>0, <1>1 DEF PumpTakes, SlotType
  <2>2. /\ Len(Tail(slot.ring)) = Len(slot.ring) - 1
        /\ \A i \in 1..Len(Tail(slot.ring)) : Tail(slot.ring)[i] = slot.ring[i + 1]
    BY <1>0, <2>1, HeadTailProperties DEF SlotType
  <2> QED
    BY <1>0, <2>1, <2>2, BoundsAssumption DEF RingCurrent, SlotType
<1>2. ASSUME NEW t \in issued, Complete(t) PROVE RingCurrent'
  <2>1. /\ slot'.ring = Append(slot.ring, t) /\ slot'.pid = slot.pid
        /\ Len(slot.ring) < MaxPending /\ t.gen = slot.pid
    BY <1>0, <1>2 DEF Complete, SlotType, SameInstance, Accepting, InstanceInv
  <2>2. /\ Len(Append(slot.ring, t)) = Len(slot.ring) + 1
        /\ \A i \in 1..Len(slot.ring) : Append(slot.ring, t)[i] = slot.ring[i]
        /\ Append(slot.ring, t)[Len(slot.ring) + 1] = t
    BY <1>0 DEF SlotType
  <2> QED
    BY <1>0, <2>1, <2>2, BoundsAssumption DEF RingCurrent, SlotType
<1>3. ASSUME NEW c \in Clients, StartInsert(c) \/ Clear(c) PROVE RingCurrent'
  <2>1. slot'.ring = <<>>
    <3>1. CASE StartInsert(c)
      BY <3>1 DEF StartInsert, EmptySlot
    <3>2. CASE Clear(c)
      BY <3>2 DEF Clear, EmptySlot
    <3> QED
      BY <1>3, <3>1, <3>2
  <2> QED
    BY <2>1, BoundsAssumption DEF RingCurrent
<1>4. CASE slot'.ring = slot.ring /\ slot'.pid = slot.pid
  BY <1>4 DEF RingCurrent
<1>5. CASE WorkerStep /\ ~PumpTakes
  <2>1. CASE CodeReturns \/ PumpTimesOut \/ (PumpCanceled /\ InCallback)
    BY <1>4, <2>1, CallEndedSlot DEF CodeReturns, PumpTimesOut, PumpCanceled
  <2>2. CASE ~(CodeReturns \/ PumpTimesOut \/ (PumpCanceled /\ InCallback))
    BY <1>0, <1>4, <1>5, <2>2
    DEF WorkerStep, Load, Enable, BeginReadGeneration, Begin, CodeAwaits,
        PumpCanceled, PumpEmpty, Wake, Check, Deliver, Settle, CancelAll,
        Finish, Destroy, SlotType
  <2> QED
    BY <2>1, <2>2
<1>6. CASE Event
  BY <1>4, <1>6 DEF Event
<1>7. ASSUME NEW c \in Clients,
             \/ Update(c) \/ StartLoad(c) \/ Stop(c)
             \/ Snapshot(c) \/ Apply(c) \/ ApplyFails(c)
             \/ Commit(c) \/ Store(c) \/ StartRejected(c) \/ StartReturns(c)
      PROVE  RingCurrent'
  BY <1>0, <1>4, <1>7
  DEF Update, StartLoad, Stop, Snapshot, Apply, ApplyFails, Commit, Store,
      StartRejected, StartReturns, SlotType
<1> QED
  BY <1>1, <1>2, <1>3, <1>5, <1>6, <1>7 DEF Next, ClientStep

LEMMA RingInit == ASSUME Init PROVE RingCurrent /\ WakeupInv
BY BoundsAssumption DEF Init, RingCurrent, WakeupInv, Unended, EmptySlot, NoWorker

LEMMA WakeupWorker ==
  ASSUME TypeInv, InstanceInv, OpenInv, WakeupInv, WorkerStep \/ Event
  PROVE  WakeupInv'
<1>0. /\ slot \in SlotType /\ worker \in WorkerType
      /\ Len(slot.ring) \in Nat /\ slot.pending \in Nat
  BY DEF TypeInv, SlotType
<1> USE DEF WakeupInv, Unended
<1>1. CASE Load
  BY <1>0, <1>1 DEF Load, WorkerType
<1>2. CASE Enable
  <2>1. /\ slot'.ring = slot.ring /\ slot'.pending = slot.pending
        /\ slot'.stopping = slot.stopping /\ worker'.pc = "code"
    BY <1>0, <1>2 DEF Enable, SlotType, WorkerType
  <2> QED
    BY <1>2, <2>1 DEF Enable
<1>3. ASSUME NEW need \in Needs, BeginReadGeneration(need) PROVE WakeupInv'
  BY <1>0, <1>3 DEF BeginReadGeneration, WorkerType
<1>4. CASE Begin
  BY <1>0, <1>4 DEF Begin, WorkerType
<1>5. CASE CodeReturns \/ PumpTimesOut \/ (PumpCanceled /\ InCallback)
  <2> PICK ok \in BOOLEAN : CallEnds(ok) /\ (PumpTimesOut => ~ok)
    BY <1>5 DEF CodeReturns, PumpTimesOut, PumpCanceled
  <2>1. /\ worker.pc \in {"code", "pump", "sleep", "settle"}
        /\ worker.pc = "pump" => slot.stopping \/ (~ok /\ InCallback)
    BY <1>5 DEF CodeReturns, PumpTimesOut, PumpCanceled
  <2>2. worker'.pc \in {"cancel", "finish", "enable", "check", "pump"}
    BY CallEnded
  <2>3. ~ok => worker'.pc \in {"cancel", "finish"}
    BY <1>0 DEF CallEnds, WorkerType
  <2> QED
    BY <1>0, <2>1, <2>2, <2>3, CallEndedSlot
<1>6. CASE CodeAwaits
  BY <1>0, <1>6 DEF CodeAwaits, WorkerType
<1>7. CASE PumpCanceled /\ ~InCallback
  BY <1>0, <1>7 DEF PumpCanceled, WorkerType
<1>8. CASE PumpTakes
  <2>1. /\ slot'.ring = Tail(slot.ring) /\ slot'.pending = slot.pending
        /\ worker'.pc = "deliver" /\ worker.pc = "pump" /\ slot.ring # <<>>
        /\ slot'.stopping = slot.stopping
    BY <1>0, <1>8 DEF PumpTakes, SlotType, WorkerType
  <2>2. Len(Tail(slot.ring)) = Len(slot.ring) - 1
    BY <1>0, <2>1, HeadTailProperties DEF SlotType
  <2> QED
    BY <1>0, <2>1, <2>2
<1>9. CASE PumpEmpty
  <2>1. /\ slot' = slot /\ ~slot.stopping /\ Len(slot.ring) = 0
        /\ worker'.pc \in {"sleep", "check"}
    BY <1>0, <1>9 DEF PumpEmpty, WorkerType
  <2> QED
    BY <1>0, <2>1
<1>10. CASE Wake
  <2>1. /\ slot'.ring = slot.ring /\ slot'.pending = slot.pending - 1
        /\ slot'.stopping = slot.stopping /\ worker'.pc = "pump"
        /\ worker.pc = "sleep"
    BY <1>0, <1>10 DEF Wake, SlotType, WorkerType
  <2> QED
    BY <1>0, <2>1
<1>11. CASE Check
  <2>1. /\ slot' = slot /\ worker.pc = "check" /\ worker'.pc \in {"code", "sleep"}
        /\ slot.stopping => worker'.pc = "code"
    BY <1>0, <1>11 DEF Check, WorkerType
  <2> QED
    BY <1>0, <2>1
<1>12. CASE Event
  BY <1>0, <1>12 DEF Event, WorkerType
<1>13. CASE Deliver
  <2>1. worker'.pc \in {"pump", "settle"}
    BY <1>0, <1>13 DEF Deliver, WorkerType
  <2>2. slot' = slot /\ worker.pc = "deliver"
    BY <1>13 DEF Deliver
  <2> QED
    BY <1>0, <2>1, <2>2
<1>14. CASE Settle
  <2>1. worker'.pc = "code"
    BY <1>0, <1>14 DEF Settle, WorkerType
  <2> QED
    BY <1>0, <1>14, <2>1 DEF Settle
<1>15. CASE CancelAll \/ Destroy
  <2>1. slot' = slot /\ worker'.pc \in {"finish", "gone"}
    BY <1>0, <1>15 DEF CancelAll, Destroy, WorkerType
  <2> QED
    BY <2>1
<1>16. CASE Finish
  BY <1>0, <1>16 DEF Finish, WorkerType
<1> QED
  BY <1>1, <1>2, <1>3, <1>4, <1>5, <1>6, <1>7, <1>8, <1>9, <1>10, <1>11, <1>12,
     <1>13, <1>14, <1>15, <1>16 DEF WorkerStep

LEMMA WakeupOthers ==
  ASSUME TypeInv, InstanceInv, OpenInv, WakeupInv,
         \/ \E t \in issued : Complete(t)
         \/ \E c \in Clients : Update(c) \/ StartLoad(c) \/ Stop(c) \/ ClientStep(c)
  PROVE  WakeupInv'
<1>0. /\ slot \in SlotType /\ Len(slot.ring) \in Nat /\ slot.pending \in Nat
  BY DEF TypeInv, SlotType
<1> USE DEF WakeupInv, Unended
<1>1. ASSUME NEW t \in issued, Complete(t) PROVE WakeupInv'
  <2>1. /\ slot'.ring = Append(slot.ring, t) /\ slot'.pending = slot.pending + 1
        /\ slot'.stopping = slot.stopping /\ worker' = worker
    BY <1>0, <1>1 DEF Complete, SlotType
  <2>2. Len(Append(slot.ring, t)) = Len(slot.ring) + 1
    BY <1>0 DEF SlotType
  <2> QED
    BY <1>0, <2>1, <2>2
<1>2. ASSUME NEW c \in Clients, \/ Update(c) \/ StartLoad(c) \/ Snapshot(c)
                                \/ Apply(c) \/ ApplyFails(c) \/ StartRejected(c)
      PROVE  WakeupInv'
  BY <1>2 DEF Update, StartLoad, Snapshot, Apply, ApplyFails, StartRejected
<1>3. ASSUME NEW c \in Clients, Stop(c) PROVE WakeupInv'
  <2>1. /\ slot'.stopping /\ worker' = worker
        /\ worker.pc # "gone" => slot'.pending = slot.pending + 1
    BY <1>0, <1>3 DEF Stop, SlotType
  <2> QED
    BY <1>0, <2>1
<1>4. ASSUME NEW c \in Clients, Commit(c) PROVE WakeupInv'
  BY <1>0, <1>4 DEF Commit, SlotType
<1>5. ASSUME NEW c \in Clients, Store(c) PROVE WakeupInv'
  <2>1. /\ slot'.ring = slot.ring /\ slot'.pending = slot.pending + 1
        /\ slot'.stopping = slot.stopping /\ worker' = worker
    BY <1>0, <1>5 DEF Store, SlotType
  <2> QED
    BY <1>0, <2>1
<1>6. ASSUME NEW c \in Clients, StartInsert(c) PROVE WakeupInv'
  BY <1>6 DEF StartInsert, EmptySlot, NoWorker
<1>7. ASSUME NEW c \in Clients, StartReturns(c) PROVE WakeupInv'
  <2>1. /\ slot'.ring = slot.ring /\ slot'.pending = slot.pending
        /\ worker' = worker
        /\ slot'.stopping # slot.stopping =>
             slot.start = "fail" /\ slot'.stopping /\ ~slot.stopping
    BY <1>0, <1>7 DEF StartReturns, SlotType
  <2> QED
    BY <1>0, <2>1 DEF OpenInv
<1>8. ASSUME NEW c \in Clients, Clear(c) PROVE WakeupInv'
  BY <1>8 DEF Clear, EmptySlot, NoWorker
<1> QED
  BY <1>1, <1>2, <1>3, <1>4, <1>5, <1>6, <1>7, <1>8 DEF ClientStep

\* The inductive invariant of the completions: what a client that works on the
\* instance knows of it, which tokens are open, where each of them is on its
\* way to the plugin, and that the worker is woken for it.
THEOREM Completions == Spec => [](TypeInv /\ CompletionInv)
<1>1. Init => TypeInv /\ CompletionInv
  BY TypeInit, InstanceInit, OpenInit, RingInit DEF CompletionInv
<1>2. TypeInv /\ CompletionInv /\ [Next]_vars => (TypeInv /\ CompletionInv)'
  <2> SUFFICES ASSUME TypeInv, CompletionInv, [Next]_vars
               PROVE  (TypeInv /\ CompletionInv)'
    OBVIOUS
  <2> USE DEF CompletionInv
  <2>1. CASE Next
    <3>1. TypeInv' /\ InstanceInv' /\ OpenInv' /\ RingCurrent'
      BY <2>1, TypeStep, InstanceStep, OpenStep, RingStep
    <3>2. WakeupInv'
      BY <2>1, WakeupWorker, WakeupOthers DEF Next
    <3> QED
      BY <3>1, <3>2
  <2>2. CASE UNCHANGED vars
    BY <2>2 DEF vars, TypeInv, InstanceInv, OpenInv, RingCurrent, WakeupInv, Unended
  <2> QED
    BY <2>1, <2>2
<1> QED
  BY <1>1, <1>2, PTL DEF Spec

\* Completions and the worker: nothing is lost or mixed up between the
\* providers and the plugin, however they interleave.
THEOREM RingTheorem == Spec => []RingInv
<1>1. TypeInv /\ CompletionInv => RingInv
  <2> SUFFICES ASSUME TypeInv, CompletionInv PROVE NoLostWakeup
    BY DEF RingInv, CompletionInv
  <2>1. slot \in SlotType /\ Len(slot.ring) \in Nat /\ slot.pending \in Nat
    BY DEF TypeInv, SlotType
  <2>2. slot.ring # <<>> => Len(slot.ring) > 0
    BY <2>1 DEF SlotType
  <2> QED
    BY <2>1, <2>2 DEF CompletionInv, WakeupInv, Unended, NoLostWakeup
<1> QED
  BY <1>1, Completions, PTL

(***************************************************************************)
(* Requests that lose their permission                                     *)
(***************************************************************************)
LEMMA LostInit == ASSUME Init PROVE LostInv
BY DEF Init, LostInv, NoWorker, NoPlugin

\* A refresh takes a permission away only from requests that need one.
LEMMA Loses ==
  ASSUME NEW entries \in SUBSET Entry, NEW mask, NEW how \in Lost,
         NEW x \in Lose(entries, mask, how)
  PROVE  \E e \in entries :
           /\ x.pgen = e.pgen /\ x.need = e.need
           /\ x.lost # e.lost => x.lost = how /\ e.need # {}
<1> PICK e \in entries :
      x = [e EXCEPT !.lost = IF @ = "no" /\ ~(e.need \subseteq mask) THEN how ELSE @]
  BY DEF Lose
<1> QED
  BY DEF Entry

LEMMA LostWorker ==
  ASSUME TypeInv, LostInv, WorkerStep \/ Event
  PROVE  LostInv'
<1>0. /\ plugin \in PluginType /\ worker \in WorkerType
      /\ plugin.permission_generation \in Nat /\ worker.pgen \in Nat
      /\ \A e \in plugin.pending : e.pgen \in Nat
  BY DEF TypeInv, PluginType, WorkerType, Entry
<1> USE DEF LostInv
<1>1. CASE Load
  BY <1>0, <1>1 DEF Load, NoPlugin, WorkerType
<1>2. ASSUME NEW need \in Needs, BeginReadGeneration(need) PROVE LostInv'
  BY <1>0, <1>2 DEF BeginReadGeneration, WorkerType
<1>3. CASE Begin
  <2>1. /\ worker'.pc = "code" /\ worker.pc = "begin"
        /\ plugin'.permission_generation = plugin.permission_generation
    BY <1>0, <1>3 DEF Begin, WorkerType, PluginType
  <2>2. \A e \in plugin'.pending :
          e \in plugin.pending \/ (e.pgen = worker.pgen /\ e.lost = "no")
    <3>1. CASE BeginRefused
      BY <1>3, <3>1 DEF Begin
    <3>2. CASE ~BeginRefused
      <4> DEFINE e == [req |-> plugin.next_request, need |-> worker.need,
                       pgen |-> worker.pgen, lost |-> "no"]
      <4>1. plugin'.pending = plugin.pending \cup {e}
        BY <1>0, <1>3, <3>2 DEF Begin, PluginType
      <4>2. e.pgen = worker.pgen /\ e.lost = "no"
        OBVIOUS
      <4> HIDE DEF e
      <4> QED
        BY <4>1, <4>2
    <3> QED
      BY <3>1, <3>2
  <2> QED
    BY <1>0, <2>1, <2>2
<1>4. CASE CodeReturns \/ PumpTimesOut \/ (PumpCanceled /\ InCallback)
  <2> PICK ok \in BOOLEAN : CallEnds(ok)
    BY <1>4 DEF CodeReturns, PumpTimesOut, PumpCanceled
  <2>1. plugin' = plugin
    BY <1>4 DEF CodeReturns, PumpTimesOut, PumpCanceled
  <2>2. worker'.got = "none"
    BY <1>0 DEF CallEnds, WorkerType
  <2> QED
    BY <2>1, <2>2, CallEnded
<1>5. CASE \/ Enable \/ CodeAwaits \/ (PumpCanceled /\ ~InCallback) \/ PumpTakes
           \/ PumpEmpty \/ Wake \/ Check \/ Event \/ Finish
  <2>1. plugin' = plugin
    BY <1>5 DEF Enable, CodeAwaits, PumpCanceled, PumpTakes, PumpEmpty, Wake, Check,
                Event, Finish
  <2>2. worker'.pc \notin {"begin", "settle"} /\ worker'.got = "none"
    BY <1>0, <1>5 DEF Enable, CodeAwaits, PumpCanceled, PumpTakes, PumpEmpty, Wake,
                      Check, Event, Finish, WorkerType
  <2> QED
    BY <2>1, <2>2
<1>6. CASE Deliver
  <2>0. plugin' = plugin /\ worker.pc = "deliver"
    BY <1>6 DEF Deliver
  <2>1. CASE PendingEntry(worker.cur) = {}
    BY <1>0, <1>6, <2>0, <2>1 DEF Deliver, WorkerType
  <2>2. CASE PendingEntry(worker.cur) # {}
    <3> PICK e \in PendingEntry(worker.cur) :
          worker' = [worker EXCEPT !.pc = "settle", !.lost = e.lost,
                                   !.current = StillCurrent(e)]
      BY <1>6, <2>2 DEF Deliver
    <3>1. /\ worker'.pc = "settle" /\ worker'.lost = e.lost
          /\ worker'.current = StillCurrent(e) /\ worker'.got = worker.got
      BY <1>0 DEF WorkerType
    <3>2. e \in plugin.pending
      BY DEF PendingEntry
    <3>3. e.lost = "before" => ~StillCurrent(e)
      BY <1>0, <3>2 DEF StillCurrent
    <3> QED
      BY <2>0, <3>1, <3>3
  <2> QED
    BY <2>1, <2>2
<1>7. CASE Settle
  <2>1. /\ worker'.pc = "code" /\ plugin'.pending \subseteq plugin.pending
        /\ plugin'.permission_generation = plugin.permission_generation
    BY <1>0, <1>7 DEF Settle, WorkerType, PluginType
  <2> QED
    BY <2>1
<1>8. CASE CancelAll \/ Destroy
  <2>1. /\ worker'.pc \in {"finish", "gone"} /\ plugin'.pending = {}
        /\ worker'.got = worker.got /\ worker.pc \in {"cancel", "destroy"}
    BY <1>0, <1>8 DEF CancelAll, Destroy, WorkerType, PluginType, NoPlugin
  <2> QED
    BY <2>1
<1> QED
  BY <1>1, <1>2, <1>3, <1>4, <1>5, <1>6, <1>7, <1>8 DEF WorkerStep

LEMMA LostOthers ==
  ASSUME TypeInv, LostInv,
         \/ \E t \in issued : Complete(t)
         \/ \E c \in Clients : Update(c) \/ StartLoad(c) \/ Stop(c) \/ ClientStep(c)
  PROVE  LostInv'
<1>0. /\ plugin \in PluginType /\ plugin.pending \subseteq Entry
      /\ plugin.permission_generation \in Nat
      /\ \A e \in plugin.pending : e.pgen \in Nat
      /\ client \in [Clients -> ClientType] /\ worker.pgen \in Nat
  BY DEF TypeInv, PluginType, WorkerType, Entry
<1> USE DEF LostInv
<1>1. ASSUME NEW t \in issued, Complete(t) PROVE LostInv'
  BY <1>1 DEF Complete
<1>2. ASSUME NEW c \in Clients,
             \/ Update(c) \/ StartLoad(c) \/ Stop(c)
             \/ Snapshot(c) \/ Apply(c) \/ ApplyFails(c)
             \/ StartRejected(c) \/ StartReturns(c)
      PROVE  LostInv'
  BY <1>2 DEF Update, StartLoad, Stop, Snapshot, Apply, ApplyFails, StartRejected,
              StartReturns
<1>3. ASSUME NEW c \in Clients, StartInsert(c) \/ Clear(c) PROVE LostInv'
  <2>1. worker'.pc \in {"load", "none"} /\ worker'.got = "none" /\ plugin' = plugin
    BY <1>3 DEF StartInsert, Clear, NoWorker
  <2> QED
    BY <2>1
<1>4. ASSUME NEW c \in Clients, Commit(c) PROVE LostInv'
  <2>0. worker' = worker
    BY <1>4 DEF Commit
  <2>1. CASE plugin' = plugin
    BY <2>0, <2>1
  <2>2. CASE plugin' # plugin
    <3>1. /\ plugin'.permission_generation = plugin.permission_generation + 1
          /\ plugin'.pending = Lose(plugin.pending, client[c].mask, "before")
      BY <1>0, <1>4, <2>2 DEF Commit, PluginType
    <3>2. ASSUME NEW x \in plugin'.pending
          PROVE  /\ x.pgen <= plugin.permission_generation
                 /\ x.lost = "before" => x.need # {}
      <4> PICK e \in plugin.pending :
             /\ x.pgen = e.pgen /\ x.need = e.need
             /\ x.lost # e.lost => x.lost = "before" /\ e.need # {}
        BY <1>0, <3>1, Loses DEF Lost
      <4> QED
        BY <1>0
    <3>3. \A x \in plugin'.pending : x.pgen \in Nat
      BY <1>0, <3>1, Loses DEF Lost
    <3> QED
      BY <1>0, <2>0, <3>1, <3>2, <3>3
  <2> QED
    BY <2>1, <2>2
<1>5. ASSUME NEW c \in Clients, Store(c) PROVE LostInv'
  <2>1. /\ plugin'.permission_generation = plugin.permission_generation
        /\ plugin'.pending = Lose(plugin.pending, client[c].mask, "during")
        /\ worker' = worker
    BY <1>0, <1>5 DEF Store, PluginType
  <2>2. ASSUME NEW x \in plugin'.pending
        PROVE  \E e \in plugin.pending :
                 /\ x.pgen = e.pgen /\ x.need = e.need
                 /\ x.lost = "before" => e.lost = "before"
    BY <1>0, <2>1, Loses DEF Lost
  <2> QED
    BY <1>0, <2>1, <2>2
<1> QED
  BY <1>1, <1>2, <1>3, <1>4, <1>5 DEF ClientStep

LEMMA LostStep ==
  ASSUME TypeInv, LostInv, [Next]_vars PROVE LostInv'
<1>1. CASE Next
  BY <1>1, LostWorker, LostOthers DEF Next
<1>2. CASE UNCHANGED vars
  BY <1>2 DEF vars, LostInv
<1> QED
  BY <1>1, <1>2

\* What the worker does with a request that a refresh has taken the permission
\* from, whatever it and the clients have done since.
LEMMA WithheldStep ==
  ASSUME TypeInv, LostInv, [Next]_vars, worker.pc = "settle", worker.lost = "before"
  PROVE  worker'.got # "value"
<1>0. worker \in WorkerType /\ worker.got = "none" /\ ~worker.current
  BY DEF TypeInv, LostInv
<1>1. CASE Settle
  BY <1>0, <1>1 DEF Settle, WorkerType
<1>2. CASE PumpTimesOut
  BY <1>0, <1>2 DEF PumpTimesOut, CallEnds, WorkerType
<1>3. CASE worker' = worker
  BY <1>0, <1>3
<1>4. ASSUME NEW c \in Clients, StartInsert(c) \/ Clear(c) PROVE worker'.got # "value"
  BY <1>4 DEF StartInsert, Clear, NoWorker
<1>5. CASE WorkerStep \/ Event
  BY <1>1, <1>2, <1>5
  DEF WorkerStep, Event, Load, Enable, BeginReadGeneration, Begin, CodeReturns,
      CodeAwaits, PumpCanceled, PumpTakes, PumpEmpty, Wake, Check, Deliver,
      CancelAll, Finish, Destroy
<1>6. ASSUME NEW t \in issued, Complete(t) PROVE worker' = worker
  BY <1>6 DEF Complete
<1>7. ASSUME NEW c \in Clients,
             \/ Update(c) \/ StartLoad(c) \/ Stop(c)
             \/ Snapshot(c) \/ Apply(c) \/ ApplyFails(c)
             \/ Commit(c) \/ Store(c) \/ StartRejected(c) \/ StartReturns(c)
      PROVE  worker' = worker
  BY <1>7 DEF Update, StartLoad, Stop, Snapshot, Apply, ApplyFails, Commit, Store,
              StartRejected, StartReturns
<1>8. CASE UNCHANGED vars
  BY <1>3, <1>8 DEF vars
<1> QED
  BY <1>3, <1>4, <1>5, <1>6, <1>7, <1>8 DEF Next, ClientStep

\* A request that a refresh finds pending and whose permission it takes away
\* never gets its result, for any number of grants and revocations after it.
THEOREM WithheldTheorem == Spec => RevokedResultsWithheld
<1>1. Spec => []LostInv
  <2>1. Init => LostInv
    BY LostInit
  <2>2. TypeInv /\ LostInv /\ [Next]_vars => LostInv'
    BY LostStep
  <2> QED
    BY <2>1, <2>2, Completions, PTL DEF Spec
<1>2. TypeInv /\ LostInv /\ [Next]_vars =>
        [worker.pc = "settle" /\ worker.lost = "before" => worker'.got # "value"]_vars
  BY WithheldStep
<1> QED
  BY <1>1, <1>2, Completions, PTL DEF Spec, RevokedResultsWithheld

(***************************************************************************)
(* Starts                                                                  *)
(***************************************************************************)
LEMMA StartInit == ASSUME Init PROVE StartInv
BY DEF Init, StartInv, EmptySlot, NoWorker, IdleClient

\* A step of the worker that leaves the clients and the result alone.
LEMMA StartKept ==
  ASSUME StartInv, client' = client, slot'.pid = slot.pid,
         slot'.start_consumed = slot.start_consumed,
         slot'.start = slot.start,
         worker'.pc \notin {"load", "enable"}, worker'.call # "load"
  PROVE  StartInv'
BY DEF StartInv

LEMMA StartWorker ==
  ASSUME TypeInv, StartInv, WorkerStep \/ Event
  PROVE  StartInv'
<1>0. slot \in SlotType /\ worker \in WorkerType
  BY DEF TypeInv
<1>1. CASE CodeReturns \/ PumpTimesOut \/ (PumpCanceled /\ InCallback)
  <2> PICK ok \in BOOLEAN : CallEnds(ok)
    BY <1>1 DEF CodeReturns, PumpTimesOut, PumpCanceled
  <2>1. client' = client
    BY <1>1 DEF CodeReturns, PumpTimesOut, PumpCanceled
  <2> QED
    BY <2>1, CallEnded, CallEndedSlot DEF StartInv
<1>2. CASE Load
  <2>1. slot' = slot /\ client' = client /\ worker.pc = "load" /\ worker'.pc = "code"
    BY <1>0, <1>2 DEF Load, WorkerType
  <2> QED
    BY <2>1 DEF StartInv
<1>3. CASE (\E need \in Needs : BeginReadGeneration(need)) \/ Begin
  <2>1. /\ slot' = slot /\ client' = client /\ worker'.pc \in {"code", "begin"}
        /\ worker'.call = worker.call
    BY <1>0, <1>3 DEF BeginReadGeneration, Begin, WorkerType
  <2> QED
    BY <2>1 DEF StartInv
<1>4. CASE \/ CodeAwaits \/ (PumpCanceled /\ ~InCallback) \/ PumpTakes \/ PumpEmpty
           \/ Wake \/ Check \/ Event \/ Deliver \/ CancelAll \/ Finish \/ Destroy
  <2>1. /\ client' = client /\ slot'.pid = slot.pid /\ slot'.start = slot.start
        /\ slot'.start_consumed = slot.start_consumed
    BY <1>0, <1>4 DEF CodeAwaits, PumpCanceled, PumpTakes, PumpEmpty, Wake, Check,
                      Event, Deliver, CancelAll, Finish, Destroy, SlotType
  <2>2. worker.call # "load"
    BY <1>4 DEF StartInv, CodeAwaits, PumpCanceled, PumpTakes, PumpEmpty, Wake, Check,
                Event, Deliver, CancelAll, Finish, Destroy
  <2>3. worker'.call \in {worker.call, "stop", "event"}
    BY <1>0, <1>4 DEF CodeAwaits, PumpCanceled, PumpTakes, PumpEmpty, Wake, Check,
                      Event, Deliver, CancelAll, Finish, Destroy, WorkerType
  <2>4. worker'.pc \notin {"load", "enable"}
    BY <1>0, <1>4 DEF CodeAwaits, PumpCanceled, PumpTakes, PumpEmpty, Wake, Check,
                      Event, Deliver, CancelAll, Finish, Destroy, WorkerType
  <2> QED
    BY <2>1, <2>2, <2>3, <2>4, StartKept
<1>5. CASE Enable \/ Settle
  <2>1. /\ client' = client /\ slot'.pid = slot.pid /\ slot'.start = slot.start
        /\ slot'.start_consumed = slot.start_consumed
    BY <1>0, <1>5 DEF Enable, Settle, SlotType
  <2>2. worker'.call # "load" /\ worker'.pc = "code"
    BY <1>0, <1>5 DEF StartInv, Enable, Settle, WorkerType
  <2> QED
    BY <2>1, <2>2, StartKept
<1> QED
  BY <1>1, <1>2, <1>3, <1>4, <1>5 DEF WorkerStep

LEMMA StartOthers ==
  ASSUME TypeInv, StartInv,
         \/ \E t \in issued : Complete(t)
         \/ \E c \in Clients : Update(c) \/ StartLoad(c) \/ Stop(c) \/ ClientStep(c)
  PROVE  StartInv'
<1>0. slot \in SlotType /\ client \in [Clients -> ClientType]
  BY DEF TypeInv
<1> USE DEF StartInv
<1>1. ASSUME NEW t \in issued, Complete(t) PROVE StartInv'
  BY <1>0, <1>1 DEF Complete, SlotType
<1>2. ASSUME NEW c \in Clients,
             \/ Update(c) \/ StartLoad(c) \/ Stop(c)
             \/ Snapshot(c) \/ Apply(c) \/ ApplyFails(c)
             \/ Commit(c) \/ Store(c) \/ StartRejected(c)
      PROVE  StartInv'
  <2>1. /\ slot'.pid = slot.pid /\ slot'.start = slot.start
        /\ slot'.start_consumed = slot.start_consumed /\ worker' = worker
        /\ client[c].pc # "waiting"
    BY <1>0, <1>2 DEF Update, StartLoad, Stop, Snapshot, Apply, ApplyFails, Commit,
                      Store, StartRejected, SlotType
  <2>2. client'[c].pc # "waiting" /\ \A d \in Clients : d # c => client'[d] = client[d]
    BY <1>0, <1>2 DEF Update, StartLoad, Stop, Snapshot, Apply, ApplyFails, Commit,
                      Store, StartRejected, ClientType, IdleClient
  <2> QED
    BY <2>1, <2>2
<1>3. ASSUME NEW c \in Clients, StartInsert(c) PROVE StartInv'
  <2>1. /\ client'[c].pc = "waiting" /\ \A d \in Clients : d # c => client'[d] = client[d]
    BY <1>0, <1>3 DEF StartInsert, IdleClient
  <2>2. /\ slot'.pid # 0 /\ ~slot'.start_consumed /\ slot'.start = "none"
        /\ worker'.call = "none" /\ slot.pid = 0
    BY <1>0, <1>3 DEF StartInsert, EmptySlot, NoWorker, TypeInv
  <2> QED
    BY <2>1, <2>2
<1>4. ASSUME NEW c \in Clients, StartReturns(c) PROVE StartInv'
  <2>1. client'[c].pc # "waiting" /\ \A d \in Clients : d # c => client'[d] = client[d]
    BY <1>0, <1>4 DEF StartReturns, ClientType, IdleClient
  <2>2. /\ slot'.start_consumed /\ slot'.start = slot.start /\ slot.start # "none"
        /\ worker' = worker /\ client[c].pc = "waiting"
    BY <1>0, <1>4 DEF StartReturns, SlotType
  <2> QED
    BY <2>1, <2>2
<1>5. ASSUME NEW c \in Clients, Clear(c) PROVE StartInv'
  <2>1. client'[c].pc # "waiting" /\ \A d \in Clients : d # c => client'[d] = client[d]
    BY <1>0, <1>5 DEF Clear, IdleClient
  <2>2. /\ slot'.pid = 0 /\ ~slot'.start_consumed /\ worker'.pc = "none"
        /\ worker'.call = "none" /\ slot'.start = "none" /\ slot.start_consumed
    BY <1>5 DEF Clear, EmptySlot, NoWorker
  <2> QED
    BY <2>1, <2>2
<1> QED
  BY <1>1, <1>2, <1>3, <1>4, <1>5 DEF ClientStep

(***************************************************************************)
(* Grants that reach the plugin                                            *)
(***************************************************************************)
LEMMA SyncInit == ASSUME Init PROVE SyncInv
BY DEF Init, SyncInv, SyncedIn, Synced, EmptySlot, IdleClient

\* A step of the worker that neither opens the slot nor sets the plugin up.
LEMMA SyncKept ==
  ASSUME SyncInv, client' = client, grants' = grants, history' = history,
         slot'.pid = slot.pid, slot'.permissions = slot.permissions,
         plugin'.permissions = plugin.permissions,
         slot'.accept_completions => slot.accept_completions,
         Starting' => Starting
  PROVE  SyncInv'
BY DEF SyncInv, SyncedIn, Synced

LEMMA SyncWorker ==
  ASSUME TypeInv, InstanceInv, OpenInv, StartInv, SyncInv, WorkerStep \/ Event
  PROVE  SyncInv'
<1>0. slot \in SlotType /\ worker \in WorkerType /\ plugin \in PluginType
  BY DEF TypeInv
<1>1. CASE Load
  <2>1. /\ slot' = slot /\ client' = client /\ grants' = grants /\ history' = history
        /\ plugin'.permissions = slot.permissions /\ ~slot.accept_completions
    BY <1>1 DEF Load, NoPlugin, OpenInv
  <2>2. \A c \in Clients : client[c].pc # "store"
    BY <2>1 DEF OpenInv
  <2> QED
    BY <2>1, <2>2 DEF SyncInv, SyncedIn, Synced
<1>2. CASE Enable
  <2>1. /\ client' = client /\ grants' = grants /\ history' = history
        /\ plugin' = plugin /\ slot'.pid = slot.pid /\ worker.pc = "enable"
        /\ slot'.permissions = slot.permissions
    BY <1>0, <1>2 DEF Enable, SlotType
  <2>2. PICK w \in Clients : client[w].pc = "waiting"
    BY <2>1 DEF StartInv, InstanceInv
  <2>3. ASSUME ~crossed
        PROVE  /\ \A c \in Clients : c # w => client[c].pc = "idle"
               /\ slot.permissions = grants /\ plugin.permissions = grants
    BY <2>1, <2>2, <2>3 DEF SyncInv, SyncedIn, Starting
  <2> QED
    BY <2>1, <2>2, <2>3 DEF SyncInv, SyncedIn, Synced
<1>3. CASE Destroy
  <2>1. /\ slot' = slot /\ client' = client /\ grants' = grants /\ history' = history
        /\ ~slot.accept_completions /\ ~Starting'
    BY <1>0, <1>3 DEF Destroy, OpenInv, StartInv, Starting, WorkerType
  <2> QED
    BY <2>1 DEF SyncInv, SyncedIn, Synced, OpenInv
<1>4. CASE CodeReturns \/ PumpTimesOut \/ (PumpCanceled /\ InCallback)
  <2> PICK ok \in BOOLEAN : CallEnds(ok)
    BY <1>4 DEF CodeReturns, PumpTimesOut, PumpCanceled
  <2>1. /\ client' = client /\ grants' = grants /\ history' = history
        /\ plugin' = plugin
    BY <1>4 DEF CodeReturns, PumpTimesOut, PumpCanceled
  <2>2. Starting' => Starting
    BY CallEnded DEF Starting
  <2> QED
    BY <2>1, <2>2, CallEndedSlot, SyncKept
<1>5. CASE \/ (\E need \in Needs : BeginReadGeneration(need)) \/ Begin
           \/ CodeAwaits \/ (PumpCanceled /\ ~InCallback) \/ PumpTakes \/ PumpEmpty
           \/ Wake \/ Check \/ Event \/ Deliver \/ Settle \/ CancelAll \/ Finish
  <2>1. /\ client' = client /\ grants' = grants /\ history' = history
    BY <1>5 DEF BeginReadGeneration, Begin, CodeAwaits, PumpCanceled, PumpTakes,
                PumpEmpty, Wake, Check, Event, Deliver, Settle, CancelAll, Finish
  <2>2. /\ slot'.pid = slot.pid /\ slot'.permissions = slot.permissions
        /\ slot'.accept_completions => slot.accept_completions
    BY <1>0, <1>5 DEF BeginReadGeneration, Begin, CodeAwaits, PumpCanceled, PumpTakes,
                PumpEmpty, Wake, Check, Event, Deliver, Settle, CancelAll, Finish,
                SlotType
  <2>3. plugin'.permissions = plugin.permissions
    BY <1>0, <1>5 DEF BeginReadGeneration, Begin, CodeAwaits, PumpCanceled, PumpTakes,
                PumpEmpty, Wake, Check, Event, Deliver, Settle, CancelAll, Finish,
                PluginType
  <2>4. worker'.pc # "enable" /\ (worker'.call = "load" => worker.call = "load")
    BY <1>0, <1>5 DEF BeginReadGeneration, Begin, CodeAwaits, PumpCanceled, PumpTakes,
                PumpEmpty, Wake, Check, Event, Deliver, Settle, CancelAll, Finish,
                WorkerType
  <2> QED
    BY <2>1, <2>2, <2>3, <2>4, SyncKept DEF Starting
<1> QED
  BY <1>1, <1>2, <1>3, <1>4, <1>5 DEF WorkerStep

\* The only call under way goes on, or returns.
LEMMA SyncOne ==
  ASSUME SyncInv, ~crossed, NEW c \in Clients, client[c].pc # "idle",
         \A d \in Clients : d # c => client'[d] = client[d],
         client'[c].pc = "idle" /\ slot'.accept_completions /\ stale' # slot'.pid =>
           Synced',
         SyncedIn(c)'
  PROVE  SyncInv'
<1>1. \A d \in Clients : d # c => client'[d].pc = "idle"
  BY DEF SyncInv
<1> QED
  BY <1>1 DEF SyncInv, SyncedIn

\* A call begins when no other is under way.
LEMMA SyncBegins ==
  ASSUME NEW c \in Clients, Alone,
         \A d \in Clients : d # c => client'[d] = client[d],
         client'[c].pc # "idle", SyncedIn(c)'
  PROVE  SyncInv'
BY DEF SyncInv, SyncedIn

LEMMA SyncCalls ==
  ASSUME TypeInv, NEW c \in Clients, SyncInv,
         Update(c) \/ StartLoad(c) \/ Stop(c)
  PROVE  SyncInv'
<1> SUFFICES ASSUME ~crossed' PROVE SyncInv'
  BY DEF SyncInv
<1>0. client \in [Clients -> ClientType] /\ slot \in SlotType
  BY DEF TypeInv
<1>1. \A d \in Clients : d # c => client'[d] = client[d]
  BY <1>0 DEF Update, StartLoad, Stop
<1>2. CASE Update(c)
  <2>1. client'[c].pc = "snapshot" /\ Alone
    BY <1>0, <1>2 DEF Update, ClientType
  <2> QED
    BY <1>1, <2>1, SyncBegins DEF SyncedIn
<1>3. CASE StartLoad(c)
  <2>1. /\ client'[c].pc = "manifest" /\ client'[c].mask = grants /\ Alone /\ ~crossed
        /\ slot' = slot /\ plugin' = plugin /\ grants' = grants /\ stale' = stale
    BY <1>0, <1>3 DEF StartLoad, ClientType
  <2> QED
    BY <1>1, <2>1, SyncBegins DEF SyncInv, SyncedIn, Synced
<1>4. CASE Stop(c)
  <2>1. client'[c].pc = "reaping" /\ Alone
    BY <1>0, <1>4 DEF Stop, ClientType
  <2> QED
    BY <1>1, <2>1, SyncBegins DEF SyncedIn
<1> QED
  BY <1>2, <1>3, <1>4

LEMMA SyncReturns ==
  ASSUME TypeInv, InstanceInv, OpenInv, NEW c \in Clients, SyncInv, ClientStep(c)
  PROVE  SyncInv'
<1>1. crossed' = crossed /\ grants' = grants
  BY DEF ClientStep, Snapshot, Apply, ApplyFails, Commit, Store, StartInsert,
         StartRejected, StartReturns, Clear
<1> SUFFICES ASSUME ~crossed PROVE SyncInv'
  BY <1>1 DEF SyncInv
<1>0. /\ client \in [Clients -> ClientType] /\ slot \in SlotType
      /\ plugin \in PluginType /\ worker \in WorkerType
  BY DEF TypeInv
<1>2. SyncedIn(c) /\ client[c].pc # "idle"
  BY DEF SyncInv, ClientStep, Snapshot, Apply, ApplyFails, Commit, Store, StartInsert,
         StartRejected, StartReturns, Clear
<1>3. \A d \in Clients : d # c => client'[d] = client[d]
  BY <1>0 DEF ClientStep, Snapshot, Apply, ApplyFails, Commit, Store,
              StartInsert, StartRejected, StartReturns, Clear
<1> SUFFICES /\ SyncedIn(c)'
             /\ client'[c].pc = "idle" /\ slot'.accept_completions
                  /\ stale' # slot'.pid => Synced'
  BY <1>2, <1>3, SyncOne
<1> USE DEF SyncedIn, Synced, Starting
<1>4. CASE Snapshot(c)
  <2>1. slot' = slot
    BY <1>4 DEF Snapshot
  <2>2. CASE Occupied
    <3>1. client'[c].pc = "apply" /\ client'[c].pid = slot.pid
      BY <1>0, <1>4, <2>2 DEF Snapshot, ClientType
    <3> QED
      BY <2>1, <3>1
  <2>3. CASE ~Occupied
    <3>1. client'[c].pc = "idle" /\ ~slot.accept_completions
      BY <1>0, <1>4, <2>3 DEF Snapshot, IdleClient, InstanceInv, OpenInv
    <3> QED
      BY <2>1, <3>1
  <2> QED
    BY <2>2, <2>3
<1>5. CASE Apply(c)
  <2>1. /\ slot' = slot /\ client[c].pc = "apply"
        /\ client'[c].pc = "commit" /\ client'[c].mask = grants
        /\ client'[c].pid = client[c].pid
    BY <1>0, <1>5 DEF Apply, ClientType
  <2> QED
    BY <1>1, <1>2, <2>1
<1>12. CASE ApplyFails(c)
  <2>1. /\ client[c].pc = "apply" /\ client'[c].pc = "idle" /\ slot' = slot
        /\ stale' = slot.pid
    BY <1>0, <1>2, <1>12 DEF ApplyFails, IdleClient
  <2> QED
    BY <2>1
<1>6. CASE Commit(c)
  <2>1. /\ client[c].pc = "commit" /\ slot'.permissions = grants
        /\ slot'.accept_completions = slot.accept_completions
    BY <1>0, <1>2, <1>6 DEF Commit, SlotType
  <2>2. CASE Open
    <3>1. client'[c].pc = "store" /\ client'[c].mask = client[c].mask
      BY <1>0, <1>2, <1>6, <2>1, <2>2 DEF Commit, ClientType
    <3> QED
      BY <1>1, <1>2, <2>1, <3>1
  <2>3. CASE ~Open
    <3>1. client'[c].pc = "idle"
      BY <1>0, <1>6, <2>3 DEF Commit, IdleClient
    <3> QED
      BY <2>1, <2>3, <3>1
  <2> QED
    BY <2>2, <2>3
<1>7. CASE Store(c)
  <2>1. /\ client[c].pc = "store" /\ client'[c].pc = "idle"
        /\ slot'.permissions = slot.permissions
        /\ plugin'.permissions = client[c].mask
    BY <1>0, <1>7 DEF Store, SlotType, PluginType, IdleClient
  <2> QED
    BY <1>1, <1>2, <2>1
<1>8. CASE StartInsert(c)
  <2>1. /\ client[c].pc = "manifest" /\ client'[c].pc = "waiting"
        /\ ~slot'.accept_completions /\ slot'.permissions = client[c].mask
    BY <1>0, <1>8 DEF StartInsert, EmptySlot, IdleClient
  <2>2. worker'.pc = "load" /\ worker'.call = "none"
    BY <1>8 DEF StartInsert, NoWorker
  <2> QED
    BY <1>1, <1>2, <2>1, <2>2
<1>9. CASE StartRejected(c)
  <2>1. /\ client[c].pc = "manifest" /\ client'[c].pc = "idle"
        /\ slot' = slot /\ plugin' = plugin /\ stale' = stale
    BY <1>0, <1>9 DEF StartRejected, IdleClient
  <2> QED
    BY <1>1, <1>2, <2>1
<1>10. CASE StartReturns(c)
  <2>1. /\ client[c].pc = "waiting" /\ client'[c].pc \in {"idle", "reaping"}
        /\ slot'.accept_completions = slot.accept_completions
        /\ slot'.permissions = slot.permissions /\ plugin' = plugin
    BY <1>0, <1>10 DEF StartReturns, IdleClient, SlotType, ClientType
  <2> QED
    BY <1>1, <1>2, <2>1
<1>11. CASE Clear(c)
  <2>1. client'[c].pc = "idle" /\ ~slot'.accept_completions
    BY <1>0, <1>11 DEF Clear, IdleClient, EmptySlot
  <2> QED
    BY <2>1
<1> QED
  BY <1>4, <1>5, <1>6, <1>7, <1>8, <1>9, <1>10, <1>11, <1>12 DEF ClientStep

LEMMA SyncStep ==
  ASSUME TypeInv, InstanceInv, OpenInv, StartInv, SyncInv, Next
  PROVE  SyncInv'
<1>1. ASSUME NEW t \in issued, Complete(t) PROVE SyncInv'
  <2>1. slot \in SlotType
    BY DEF TypeInv
  <2>2. /\ slot'.pid = slot.pid /\ slot'.permissions = slot.permissions
        /\ slot'.accept_completions = slot.accept_completions
    BY <1>1, <2>1 DEF Complete, SlotType
  <2> QED
    BY <1>1, <2>2, SyncKept DEF Complete, Starting
<1> QED
  BY <1>1, SyncWorker, SyncCalls, SyncReturns DEF Next

\* A refresh never writes into a plugin that is being set up or torn down, and
\* what it is to write arrives: a call that has met no other leaves the running
\* plugin with exactly the grants that are stored, unless the last refresh of this
\* instance has returned the error of ny_permission_apply.  A later one that
\* returns 0, and a restart, make up for the error.
THEOREM RefreshTheorem == Spec => []RefreshReachesPlugin
<1>1. Init => StartInv /\ SyncInv
  BY StartInit, SyncInit
<1>2. /\ TypeInv /\ CompletionInv /\ StartInv /\ SyncInv /\ [Next]_vars
      => (StartInv /\ SyncInv)'
  <2> SUFFICES ASSUME TypeInv, CompletionInv, StartInv, SyncInv, [Next]_vars
               PROVE  (StartInv /\ SyncInv)'
    OBVIOUS
  <2>1. CASE Next
    <3>1. StartInv'
      BY <2>1, StartWorker, StartOthers DEF Next
    <3>2. SyncInv'
      BY <2>1, SyncStep DEF CompletionInv
    <3> QED
      BY <3>1, <3>2
  <2>2. CASE UNCHANGED vars
    BY <2>2 DEF vars, StartInv, SyncInv, SyncedIn, Synced, Starting
  <2> QED
    BY <2>1, <2>2
<1>3. CompletionInv /\ SyncInv => RefreshReachesPlugin
  BY DEF CompletionInv, OpenInv, SyncInv, Synced, RefreshReachesPlugin,
         RefreshesOpenPlugin, GrantsReachPlugin
<1> QED
  BY <1>1, <1>2, <1>3, Completions, PTL DEF Spec

================================================================================
