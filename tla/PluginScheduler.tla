---------------------------- MODULE PluginScheduler ----------------------------
(***************************************************************************)
(* The life of a plugin slot in app/nyabula_core/ny_scheduler.c: tasks of  *)
(* the system (web, agent, CLI) start and stop plugins and send them       *)
(* events; each started plugin runs in a worker task of its own; the slot  *)
(* the worker uses is reaped by exactly one of the tasks that know it.     *)
(*                                                                         *)
(* One step is one critical section of g_scheduler_lock, one semaphore     *)
(* operation or one call of the runtime between two of them.  The body of  *)
(* an event, the completion ring and the permissions belong to module      *)
(* PluginAsync; here a call of the runtime is its result.                  *)
(***************************************************************************)
EXTENDS Naturals, FiniteSets

CONSTANTS
  Plugins,             \* plugin ids
  Background,          \* the plugins whose manifest says "background"
  Callers,             \* tasks that call the public functions
  Workers,             \* tasks that task_create/pthread_create may return
  MaxPlugins,          \* CONFIG_NYABULA_CORE_MAX_PLUGINS
  MaxBackground,       \* CONFIG_NYABULA_CORE_MAX_BACKGROUND_PLUGINS
  EventDepth,          \* CONFIG_NYABULA_CORE_EVENT_DEPTH
  QuarantineFailures,  \* CONFIG_NYABULA_CORE_QUARANTINE_FAILURES
  PendingBound,        \* bound of the model on the count of sem "pending"
  BuildKernel,         \* CONFIG_BUILD_KERNEL: workers are joinable threads
  NoPlugin, NoTask     \* a zeroed id and a zeroed pid

ASSUME BoundsAssumption ==
  /\ MaxPlugins \in Nat \ {0}
  /\ MaxBackground \in Nat /\ EventDepth \in Nat /\ PendingBound \in Nat
  /\ QuarantineFailures \in Nat
ASSUME NullAssumption == NoPlugin \notin Plugins /\ NoTask \notin Workers
ASSUME BackgroundAssumption == Background \subseteq Plugins
ASSUME BuildAssumption == BuildKernel \in BOOLEAN
ASSUME CallersAssumption == IsFiniteSet(Callers) /\ Callers # {}

VARIABLES
  slot,      \* g_scheduler_slots, with its four semaphores
  worker,    \* the worker tasks: where they are, their argv[1], their ret
  caller,    \* the calling tasks: where they are in which call
  failures   \* the failure count ny_health.c stores for each plugin

vars == <<slot, worker, caller, failures>>

(***************************************************************************)
(* Data                                                                    *)
(***************************************************************************)
Slots == 0..(MaxPlugins - 1)            \* the indices of g_scheduler_slots
Results == {"ok", "fail", "canceled"}   \* 0, another errno, -ECANCELED

EmptySlot ==
  [id |-> NoPlugin, stopping |-> FALSE, task_stopped |-> FALSE,
   state |-> "empty", start_result |-> "ok", pid |-> NoTask, count |-> 0,
   ready |-> 0, start_consumed |-> 0, pending |-> 0, stopped |-> 0]

SlotType ==
  [id : Plugins \cup {NoPlugin}, stopping : BOOLEAN, task_stopped : BOOLEAN,
   state : {"empty", "running", "stopped", "failed"}, start_result : Results,
   pid : Workers \cup {NoTask}, count : 0..EventDepth,
   ready : Nat, start_consumed : Nat, pending : Nat, stopped : Nat]

\* Where a worker is in ny_scheduler_worker; "exited" is a thread nobody has
\* joined yet, "idle" a task that does not exist.
WorkerPC == {"idle", "load", "publish", "ready", "pump", "check", "wait",
             "dispatch", "dispatched", "onstop", "finish", "health",
             "mark", "post", "exited"}

\* Where a caller is in ny_scheduler_start_config or ny_scheduler_stop.
CallerPC == {"idle", "insert", "waitReady", "consume", "waitStopped", "join",
             "waitConsumed", "clear"}

\* Where an awaiting call of the runtime is in ny_scheduler_pump: not in it,
\* about to take the lock, or asleep on "pending" until its deadline.
PumpPC == {"out", "head", "asleep"}

WorkerType == [pc : WorkerPC, pump : PumpPC, index : Slots, ret : Results]
CallerType == [pc : CallerPC, op : {"start", "stop"},
               id : Plugins \cup {NoPlugin}, index : Slots]

IdleWorker == [pc |-> "idle", pump |-> "out", index |-> 0, ret |-> "ok"]
IdleCaller == [pc |-> "idle", op |-> "start", id |-> NoPlugin, index |-> 0]

Init ==
  /\ slot = [s \in Slots |-> EmptySlot]
  /\ worker = [w \in Workers |-> IdleWorker]
  /\ caller = [c \in Callers |-> IdleCaller]
  /\ failures = [p \in Plugins |-> 0]

\* ny_scheduler_find_locked, ny_scheduler_background_count_locked
Occupied(s) == slot[s].id # NoPlugin
Found(p) == \E s \in Slots : slot[s].id = p
BackgroundSlots == {s \in Slots : slot[s].id \in Background}

\* ny_scheduler_empty_locked: the first slot that is not occupied
FirstEmpty(s) == ~Occupied(s) /\ \A t \in Slots : ~Occupied(t) => s <= t

\* The two tests and the two steps that several operations share.  Each is
\* preceded by the faulty form a run shows its property to depend on.
UnclaimedIfRunning(s) == ~slot[s].task_stopped
Unclaimed(s) == ~slot[s].stopping
QueueFull(s) == slot[s].count >= EventDepth
Woken(s) == slot[s].pending + 1
SleepOrFinish(ret) == IF ret = "ok" THEN "wait" ELSE "finish"
PumpOrFinish(ret) == IF ret = "ok" THEN "pump" ELSE "finish"

WGoto(w, pc) == worker' = [worker EXCEPT ![w].pc = pc]
WGotoWith(w, pc, ret) == worker' = [worker EXCEPT ![w].pc = pc, ![w].ret = ret]
CGoto(c, pc) == caller' = [caller EXCEPT ![c].pc = pc]
Exit(w) == worker' = [worker EXCEPT ![w] = IdleWorker]
Return(c) == caller' = [caller EXCEPT ![c] = IdleCaller]

(***************************************************************************)
(* The worker: ny_scheduler_worker                                         *)
(***************************************************************************)
\* A call of the runtime that may await: load_config and ny_on_start, or
\* ny_on_event.  It ends with its result, from wherever it is.
InCall(w) == worker[w].pc \in {"load", "dispatch"}
EndCall(w, ret) ==
  worker' = [worker EXCEPT
               ![w].pc = IF worker[w].pc = "load" THEN "publish" ELSE "dispatched",
               ![w].pump = "out", ![w].ret = ret]
InPump(w, at) == InCall(w) /\ worker[w].pump = at
PGoto(w, at) == worker' = [worker EXCEPT ![w].pump = at]

\* ny_runtime_call, ny_wasm_call: the plugin's code ends, or awaits and enters
\* ny_scheduler_pump with the deadline of the call.
WorkerCallEnds(w) ==
  /\ InPump(w, "out")
  /\ \E ret \in {"ok", "fail"} : EndCall(w, ret)
  /\ UNCHANGED <<slot, caller, failures>>

WorkerAwaits(w) ==
  /\ InPump(w, "out")
  /\ PGoto(w, "head")
  /\ UNCHANGED <<slot, caller, failures>>

\* The pump under the lock: a stop cancels the call; a completion or an answer
\* lets it go on; otherwise the pump goes to sleep.
WorkerAwaitPump(w) ==
  /\ InPump(w, "head")
  /\ IF slot[worker[w].index].stopping
       THEN EndCall(w, "canceled")
       ELSE PGoto(w, "out") \/ PGoto(w, "asleep")
  /\ UNCHANGED <<slot, caller, failures>>

\* sem_clockwait takes one count of "pending", whoever posted it: the wakeup of
\* an event queued meanwhile is spent here.  A signal or the time to poll a
\* transfer ends the sleep without one.
WorkerAwaitWoken(w) ==
  LET s == worker[w].index IN
  /\ InPump(w, "asleep")
  /\ \/ slot[s].pending > 0 /\ slot' = [slot EXCEPT ![s].pending = @ - 1]
     \/ UNCHANGED slot
  /\ PGoto(w, "head")
  /\ UNCHANGED <<caller, failures>>

\* The deadline ends the call: in the plugin's code, asleep, or in the pump
\* when that has not found a stop.
WorkerTimesOut(w) ==
  /\ InCall(w)
  /\ worker[w].pump = "head" => ~slot[worker[w].index].stopping
  /\ EndCall(w, "fail")
  /\ UNCHANGED <<slot, caller, failures>>

WorkerPublish(w) ==
  /\ worker[w].pc = "publish"
  /\ slot' = [slot EXCEPT
                ![worker[w].index].start_result = worker[w].ret,
                ![worker[w].index].state =
                    IF worker[w].ret = "ok" THEN "running" ELSE "failed"]
  /\ WGoto(w, "ready")
  /\ UNCHANGED <<caller, failures>>

WorkerReady(w) ==
  /\ worker[w].pc = "ready"
  /\ slot' = [slot EXCEPT ![worker[w].index].ready = @ + 1]
  /\ WGoto(w, PumpOrFinish(worker[w].ret))
  /\ UNCHANGED <<caller, failures>>

\* ny_scheduler_pump(slot, 0): -ECANCELED and -EAGAIN go on to the check of
\* "stopping", a completion whose callback fails ends the loop.
WorkerPump(w) ==
  /\ worker[w].pc = "pump"
  /\ \/ WGoto(w, "check")
     \/ ~slot[worker[w].index].stopping /\ WGotoWith(w, "finish", "fail")
  /\ UNCHANGED <<slot, caller, failures>>

WorkerCheck(w) ==
  LET s == worker[w].index IN
  /\ worker[w].pc = "check"
  /\ IF ~slot[s].stopping /\ slot[s].count > 0
       THEN /\ slot' = [slot EXCEPT ![s].count = @ - 1]
            /\ WGoto(w, "dispatch")
       ELSE /\ WGoto(w, IF slot[s].stopping THEN "onstop" ELSE "wait")
            /\ UNCHANGED slot
  /\ UNCHANGED <<caller, failures>>

WorkerWait(w) ==
  LET s == worker[w].index IN
  /\ worker[w].pc = "wait"
  /\ slot[s].pending > 0
  /\ slot' = [slot EXCEPT ![s].pending = @ - 1]
  /\ WGoto(w, "pump")
  /\ UNCHANGED <<caller, failures>>

WorkerDispatched(w) ==
  /\ worker[w].pc = "dispatched"
  /\ slot' = [slot EXCEPT ![worker[w].index].state =
                IF worker[w].ret = "ok" THEN "running" ELSE "failed"]
  /\ WGoto(w, PumpOrFinish(worker[w].ret))
  /\ UNCHANGED <<caller, failures>>

\* ny_plugin_stop: ny_on_stop and the cancellation of what is pending.  The pump
\* of an ny_on_stop that awaits finds "stopping" and does not sleep.
WorkerOnStop(w) ==
  /\ worker[w].pc = "onstop"
  /\ \E ret \in Results : WGotoWith(w, "finish", ret)
  /\ UNCHANGED <<slot, caller, failures>>

WorkerFinish(w) ==
  LET s == worker[w].index
      ret == IF worker[w].ret = "canceled" /\ slot[s].stopping
               THEN "ok" ELSE worker[w].ret
  IN
  /\ worker[w].pc = "finish"
  /\ slot' = [slot EXCEPT ![s].state = IF ret = "ok" THEN "stopped" ELSE "failed"]
  /\ WGotoWith(w, "health", ret)
  /\ UNCHANGED <<caller, failures>>

\* ny_health_record_failure / _success, with the configuration in the slot
WorkerHealth(w) ==
  LET p == slot[worker[w].index].id IN
  /\ worker[w].pc = "health"
  /\ failures' =
       IF p \in Plugins
         THEN [failures EXCEPT ![p] = IF worker[w].ret = "ok" THEN 0 ELSE @ + 1]
         ELSE failures
  /\ WGoto(w, "mark")
  /\ UNCHANGED <<slot, caller>>

\* The plugin is destroyed and the slot marked, under the lock ...
WorkerMark(w) ==
  /\ worker[w].pc = "mark"
  /\ slot' = [slot EXCEPT ![worker[w].index].task_stopped = TRUE]
  /\ WGoto(w, "post")
  /\ UNCHANGED <<caller, failures>>

\* ... and "stopped" is posted after the lock is released: the last access.
\* (First the form that forgets to post.)
WorkerPostLost(w) ==
  /\ worker[w].pc = "post"
  /\ IF BuildKernel THEN WGoto(w, "exited") ELSE Exit(w)
  /\ UNCHANGED <<slot, caller, failures>>

WorkerPost(w) ==
  /\ worker[w].pc = "post"
  /\ slot' = [slot EXCEPT ![worker[w].index].stopped = @ + 1]
  /\ IF BuildKernel THEN WGoto(w, "exited") ELSE Exit(w)
  /\ UNCHANGED <<caller, failures>>

WorkerStep(w) ==
  \/ WorkerCallEnds(w) \/ WorkerAwaits(w) \/ WorkerAwaitPump(w)
  \/ WorkerAwaitWoken(w) \/ WorkerTimesOut(w)
  \/ WorkerPublish(w) \/ WorkerReady(w)
  \/ WorkerPump(w) \/ WorkerCheck(w) \/ WorkerWait(w)
  \/ WorkerDispatched(w) \/ WorkerOnStop(w)
  \/ WorkerFinish(w) \/ WorkerHealth(w) \/ WorkerMark(w) \/ WorkerPost(w)

(***************************************************************************)
(* The callers: ny_scheduler_start_config, ny_scheduler_stop               *)
(***************************************************************************)
QuarantinedLate(p) == failures[p] > QuarantineFailures
Quarantined(p) == failures[p] >= QuarantineFailures

\* ny_health_check, under its own lock, before the scheduler's
StartCheck(c, p) ==
  /\ caller[c].pc = "idle"
  /\ ~Quarantined(p)
  /\ caller' = [caller EXCEPT ![c].pc = "insert", ![c].op = "start", ![c].id = p]
  /\ UNCHANGED <<slot, worker, failures>>

AdmittedOverQuota(p) == ~Found(p)
Admitted(p) ==
  /\ ~Found(p)
  /\ p \in Background => Cardinality(BackgroundSlots) < MaxBackground

StartInsert(c) ==
  LET p == caller[c].id IN
  /\ caller[c].pc = "insert"
  /\ Admitted(p)
  /\ \E s \in Slots, w \in Workers :
       /\ FirstEmpty(s)
       /\ worker[w].pc = "idle"
       /\ slot' = [slot EXCEPT ![s] = [EmptySlot EXCEPT !.id = p, !.pid = w]]
       /\ worker' = [worker EXCEPT ![w] = [IdleWorker EXCEPT !.pc = "load", !.index = s]]
       /\ caller' = [caller EXCEPT ![c].pc = "waitReady", ![c].index = s]
  /\ UNCHANGED failures

\* -EEXIST, -EDQUOT, -ENOSPC, or sem_init or task_create failed: what was
\* filled in is zeroed again before the lock is released.
StartRejected(c) ==
  /\ caller[c].pc = "insert"
  /\ Return(c)
  /\ UNCHANGED <<slot, worker, failures>>

StartWaitReady(c) ==
  LET s == caller[c].index IN
  /\ caller[c].pc = "waitReady"
  /\ slot[s].ready > 0
  /\ slot' = [slot EXCEPT ![s].ready = @ - 1]
  /\ CGoto(c, "consume")
  /\ UNCHANGED <<worker, failures>>

\* The starter reads the result and hands the slot over; of a start that
\* failed it becomes the reaper unless a stop already is.
StartConsume(c) ==
  LET s == caller[c].index
      reap == slot[s].start_result # "ok" /\ Unclaimed(s)
  IN
  /\ caller[c].pc = "consume"
  /\ slot' = [slot EXCEPT ![s].start_consumed = @ + 1,
                          ![s].stopping = @ \/ reap]
  /\ IF reap THEN CGoto(c, "waitStopped") ELSE Return(c)
  /\ UNCHANGED <<worker, failures>>

StopClaim(c, p) ==
  /\ caller[c].pc = "idle"
  /\ \E s \in Slots :
       /\ slot[s].id = p
       /\ Unclaimed(s)
       /\ slot' = [slot EXCEPT ![s].stopping = TRUE,
                     ![s].pending = IF slot[s].task_stopped THEN @ ELSE Woken(s)]
       /\ caller' = [caller EXCEPT ![c] =
            [pc |-> IF slot[s].task_stopped THEN "join" ELSE "waitStopped",
             op |-> "stop", id |-> p, index |-> s]]
  /\ UNCHANGED <<worker, failures>>

ReapWaitStopped(c) ==
  LET s == caller[c].index IN
  /\ caller[c].pc = "waitStopped"
  /\ slot[s].stopped > 0
  /\ slot' = [slot EXCEPT ![s].stopped = @ - 1]
  /\ CGoto(c, "join")
  /\ UNCHANGED <<worker, failures>>

ReapJoinless(c) ==
  /\ caller[c].pc = "join"
  /\ CGoto(c, IF caller[c].op = "stop" THEN "waitConsumed" ELSE "clear")
  /\ UNCHANGED <<slot, worker, failures>>

\* pthread_join, which only the kernel build has.  The caller of a failed
\* start has posted start_consumed itself and does not wait for it.
ReapJoin(c) ==
  LET w == slot[caller[c].index].pid IN
  /\ caller[c].pc = "join"
  /\ IF BuildKernel
       THEN /\ w \in Workers
            /\ worker[w].pc = "exited"
            /\ Exit(w)
       ELSE UNCHANGED worker
  /\ CGoto(c, IF caller[c].op = "stop" THEN "waitConsumed" ELSE "clear")
  /\ UNCHANGED <<slot, failures>>

StopConsumedUnseen(c) ==
  /\ caller[c].pc = "waitConsumed"
  /\ CGoto(c, "clear")
  /\ UNCHANGED <<slot, worker, failures>>

StopWaitConsumed(c) ==
  LET s == caller[c].index IN
  /\ caller[c].pc = "waitConsumed"
  /\ slot[s].start_consumed > 0
  /\ slot' = [slot EXCEPT ![s].start_consumed = @ - 1]
  /\ CGoto(c, "clear")
  /\ UNCHANGED <<worker, failures>>

\* ny_scheduler_clear_locked
ReapClear(c) ==
  /\ caller[c].pc = "clear"
  /\ slot' = [slot EXCEPT ![caller[c].index] = EmptySlot]
  /\ Return(c)
  /\ UNCHANGED <<worker, failures>>

CallerStep(c) ==
  \/ StartInsert(c) \/ StartRejected(c) \/ StartWaitReady(c) \/ StartConsume(c)
  \/ ReapWaitStopped(c) \/ ReapJoin(c) \/ StopWaitConsumed(c) \/ ReapClear(c)

\* ny_scheduler_dispatch and ny_scheduler_enqueue_locked.  The caller's rate
\* (events_per_minute) may refuse any event, as the caller may send none.
Dispatch(p) ==
  /\ \E s \in Slots :
       /\ slot[s].id = p
       /\ slot[s].state = "running" /\ ~slot[s].stopping
       /\ ~QueueFull(s)
       /\ slot[s].pending < PendingBound
       /\ slot' = [slot EXCEPT ![s].count = @ + 1, ![s].pending = Woken(s)]
  /\ UNCHANGED <<worker, caller, failures>>

\* A completion (ny_scheduler_complete) or new permissions
\* (ny_scheduler_refresh_permissions) for the plugin: a count of "pending" with
\* no event behind it.
Notify(p) ==
  /\ \E s \in Slots :
       /\ slot[s].id = p
       /\ slot[s].pending < PendingBound
       /\ slot' = [slot EXCEPT ![s].pending = Woken(s)]
  /\ UNCHANGED <<worker, caller, failures>>

\* ny_health_reset, from the command line
HealthReset(p) ==
  /\ failures[p] > 0
  /\ failures' = [failures EXCEPT ![p] = 0]
  /\ UNCHANGED <<slot, worker, caller>>

Request ==
  \/ \E c \in Callers, p \in Plugins : StartCheck(c, p) \/ StopClaim(c, p)
  \/ \E p \in Plugins : Dispatch(p) \/ Notify(p) \/ HealthReset(p)

Next ==
  \/ Request
  \/ \E w \in Workers : WorkerStep(w)
  \/ \E c \in Callers : CallerStep(c)

\* The kernel schedules every task that can run, a started call goes on, and a
\* call of the runtime reaches its deadline however often it awaits.  Nobody
\* has to send a request.
Fairness ==
  /\ \A w \in Workers : WF_vars(WorkerStep(w)) /\ WF_vars(WorkerTimesOut(w))
  /\ \A c \in Callers : WF_vars(CallerStep(c))

Spec == Init /\ [][Next]_vars
FairSpec == Spec /\ Fairness

(***************************************************************************)
(* Properties                                                              *)
(***************************************************************************)
TypeInv ==
  /\ slot \in [Slots -> SlotType]
  /\ worker \in [Workers -> WorkerType]
  /\ caller \in [Callers -> CallerType]
  /\ failures \in [Plugins -> Nat]

\* A caller that owns the wait/join/clear sequence of its slot, and a caller
\* that has started a plugin and has not read the result yet.
Reaping(c) == caller[c].pc \in {"waitStopped", "join", "waitConsumed", "clear"}
Starting(c) == caller[c].pc \in {"waitReady", "consume"}

\* The wait/join/clear sequence of a slot has one owner: a stop that races a
\* failing start, or another stop, never reaps a second time.
OneReaper ==
  /\ \A c \in Callers : Reaping(c) => slot[caller[c].index].stopping
  /\ \A c, d \in Callers :
       c # d /\ Reaping(c) /\ Reaping(d) => caller[c].index # caller[d].index

\* start_consumed: the slot is not destroyed, or given to another plugin,
\* before the caller that started it has read the result.
SlotKeptForStarter ==
  \A c \in Callers : Starting(c) => slot[caller[c].index].id = caller[c].id

\* A worker that may still touch its slot.
Live(w) == worker[w].pc \notin {"idle", "exited"}

\* A slot is not cleared while its worker may still touch it, so that a later
\* plugin of the slot never shares it with the worker of an earlier one.
WorkerOwnsSlot ==
  \A w \in Workers : Live(w) => slot[worker[w].index].pid = w

\* A worker whose next access of the slot is a call of the plugin, its loop
\* or its last semaphore wait: not one that only has to post "stopped".
InPlugin(w) == worker[w].pc \in {"pump", "check", "wait", "dispatch", "onstop"}

\* stop returns after the plugin has: no worker is left in the loop of a
\* plugin whose slot was cleared.  The flat build does not keep this: see
\* README, "What the code does not keep".
NoPluginLeftRunning ==
  \A w \in Workers : InPlugin(w) => slot[worker[w].index].pid = w

\* A worker that waits on "pending": in its loop, or in a call that awaits.
Asleep(w) == worker[w].pc = "wait" \/ InPump(w, "asleep")

\* No wakeup is lost, although awaiting calls spend the wakeups of events that
\* stay in the queue: the loop does not sleep over an event, and neither the
\* loop nor an awaiting call sleeps over a request to stop.
NoLostWakeup ==
  \A w \in Workers :
    LET s == worker[w].index IN
    /\ worker[w].pc = "wait" /\ slot[s].count > 0 => slot[s].pending > 0
    /\ Asleep(w) /\ slot[s].stopping => slot[s].pending > 0

\* ny_health_check runs before the lock that inserts the slot, so a plugin may
\* fail once more for every other start that was already past the check, and
\* no more than that.
QuarantineSlack ==
  \A p \in Plugins : failures[p] < QuarantineFailures + Cardinality(Callers)

\* A plugin id names at most one slot, so find_locked has one answer, and the
\* background plugins stay within their quota.
OneInstance ==
  /\ \A s, t \in Slots : Occupied(s) /\ slot[s].id = slot[t].id => s = t
  /\ Cardinality(BackgroundSlots) <= MaxBackground

\* The counts and quotas that several callers compete for at once are kept.
LimitsKept == TypeInv /\ QuarantineSlack /\ OneInstance

\* The scheduler implements PluginRegistry: a plugin is present while a slot
\* has its id, reaped while that slot is "stopping", and running while a
\* worker may still touch the slot.
Registry == INSTANCE PluginRegistry WITH
  phase <- [p \in Plugins |->
              IF ~Found(p) THEN "absent"
              ELSE IF \E s \in Slots : slot[s].id = p /\ slot[s].stopping
                     THEN "reaping" ELSE "live"],
  running <- {p \in Plugins :
                \E w \in Workers : Live(w) /\ slot[worker[w].index].id = p}

ImplementsFairRegistry == Registry!FairSpec

\* Every start and every stop returns.
CallsReturn == \A c \in Callers : caller[c].pc # "idle" ~> caller[c].pc = "idle"

(***************************************************************************)
(* The invariants the proofs of module PluginSchedulerProofs rest on       *)
(***************************************************************************)
\* Who may use a slot, in either build.  A starter has its slot to itself
\* until it posts start_consumed, which it has not done yet; a reaper owns an
\* occupied slot that is "stopping"; and no starter is left on a slot that is
\* about to be cleared, or that the caller of a failed start reaps.
HandoverInv ==
  /\ \A c \in Callers : caller[c].pc # "idle" => caller[c].id \in Plugins
  /\ \A c \in Callers : Starting(c) =>
       /\ slot[caller[c].index].id = caller[c].id
       /\ slot[caller[c].index].start_consumed = 0
  /\ \A c \in Callers : Reaping(c) =>
       /\ slot[caller[c].index].id \in Plugins
       /\ slot[caller[c].index].stopping
  /\ \A c, d \in Callers : c # d /\ caller[c].index = caller[d].index =>
       /\ ~(Starting(c) /\ Starting(d))
       /\ ~(Reaping(c) /\ Reaping(d))
       /\ Reaping(c) /\ (caller[c].op = "start" \/ caller[c].pc = "clear")
            => ~Starting(d)

\* Which worker a slot belongs to, when workers are joined: every worker that
\* is not joined has its slot, and a reaper past the join has none.
JoinInv ==
  /\ \A w \in Workers : worker[w].pc # "idle" =>
       /\ slot[worker[w].index].pid = w
       /\ slot[worker[w].index].id \in Plugins
  /\ \A c \in Callers, w \in Workers :
       caller[c].pc \in {"waitConsumed", "clear"} /\ worker[w].pc # "idle"
         => worker[w].index # caller[c].index

\* What a worker knows of its slot: a plugin whose start failed is past its load
\* and never in the loop, only a worker past its mark is task_stopped, and only a
\* call is in the pump with a deadline.
InLoop(w) == InPlugin(w) \/ worker[w].pc = "dispatched"
LoopInv ==
  \A w \in Workers :
    LET s == slot[worker[w].index] IN
    /\ InLoop(w) \/ worker[w].pc = "load"
         \/ (worker[w].pc = "ready" /\ worker[w].ret = "ok")
         => s.start_result = "ok"
    /\ worker[w].pc \notin {"idle", "post", "exited"} => ~s.task_stopped
    /\ worker[w].pump # "out" => InCall(w)

\* The failures of a plugin that are counted or may still be: those stored, the
\* one of a worker that has not reported yet, and one for each start past the
\* check.  A start passes the check below the limit, and by the time the slot is
\* free for another start some task has had to leave the queue for it to reap it.
Unreported(w) == worker[w].pc \notin {"idle", "mark", "post", "exited"}
ToReport(p) ==
  IF \E w \in Workers : Unreported(w) /\ slot[worker[w].index].id = p THEN 1 ELSE 0
Inserting(p) == {c \in Callers : caller[c].pc = "insert" /\ caller[c].id = p}

SlackOf(p) ==
  \/ /\ failures[p] + ToReport(p) <= QuarantineFailures
     /\ Found(p) \/ failures[p] < QuarantineFailures
  \/ failures[p] + ToReport(p) + Cardinality(Inserting(p))
       < QuarantineFailures + Cardinality(Callers)
SlackInv == \A p \in Plugins : SlackOf(p)

================================================================================
