------------------------------ MODULE PluginAsync ------------------------------
(***************************************************************************)
(* Asynchronous requests and permissions of one QuickJS plugin.            *)
(*                                                                         *)
(* The code of the plugin begins requests in its worker and gets a token   *)
(* for each (ny_runtime.c); providers complete tokens from other tasks     *)
(* into the completion ring of the slot, and the worker delivers them from *)
(* the pump (ny_scheduler.c); clients grant and revoke permissions, which  *)
(* refresh the running plugin, and start and stop it.                      *)
(*                                                                         *)
(* One step is one critical section of g_scheduler_lock or                 *)
(* g_permission_lock, one atomic access outside of them, or a stretch of   *)
(* plugin code that touches neither.  Which task reaps the slot, and when, *)
(* is module PluginScheduler; here a slot is cleared after its worker.     *)
(***************************************************************************)
EXTENDS Naturals, Sequences, FiniteSets, SequencesExt

CONSTANTS
  Permissions,    \* what the manifest of the plugin requests
  Clients,        \* tasks that start, stop, grant and revoke
  MaxPending,     \* NY_PLUGIN_MAX_PENDING
  MaxStarts,      \* bound of the model: instances of the plugin
  MaxRequests,    \* bound of the model: requests an instance begins
  MaxUpdates,     \* bound of the model: grants and revocations
  MaxWakeups      \* bound of the model: posts of a provider not waited for

ASSUME BoundsAssumption ==
  /\ MaxPending \in Nat \ {0} /\ MaxStarts \in Nat /\ MaxRequests \in Nat
  /\ MaxUpdates \in Nat /\ MaxWakeups \in Nat

VARIABLES
  grants,    \* the stored grants of the plugin (ny_permission.c)
  slot,      \* its slot of the scheduler
  plugin,    \* its struct ny_plugin_s
  worker,    \* the worker task
  client,    \* the tasks that call
  issued,    \* the tokens providers know
  starts,    \* how many instances there have been
  updates,   \* how many grants and revocations there have been
  crossed,   \* history: a call has met another since the last update alone
  stale      \* history: the instance a failed refresh has left with its grants

vars == <<grants, slot, plugin, worker, client, issued, starts, updates,
          crossed, stale>>
history == <<crossed, stale>>

(***************************************************************************)
(* Data                                                                    *)
(***************************************************************************)
Token == [gen : 1..MaxStarts, req : 1..MaxRequests]

\* What a request needs: one permission or none.
Needs == {{}} \cup {{p} : p \in Permissions}

\* An entry of plugin->pending.  "lost" is no field of the code: the plugin has
\* lost the permission since the request began, in a refresh that found the
\* request pending ("before") or that it began in the middle of ("during").
Lost == {"no", "before", "during"}
Entry == [req : 1..MaxRequests, need : Needs, pgen : Nat, lost : Lost]

NoPlugin == [generation |-> 0, next_request |-> 1, permissions |-> {},
             permission_generation |-> 0, pending |-> {}]

EmptySlot == [pid |-> 0, stopping |-> FALSE, accept_completions |-> FALSE,
              generation |-> 0, permissions |-> {}, ring |-> <<>>,
              pending |-> 0, start |-> "none", start_consumed |-> FALSE]

\* "code" runs the plugin, "pump" is the head of ny_scheduler_pump, "sleep" its
\* wait; call is the lifecycle call the code belongs to, "load" the evaluation
\* of the module, "reaction" the code a completion runs outside of a call,
\* "none" the main loop.
WorkerPC == {"none", "load", "enable", "code", "begin", "pump", "sleep",
             "deliver", "settle", "check", "cancel", "finish", "destroy", "gone"}
Calls == {"none", "load", "start", "event", "stop", "reaction"}

NoWorker == [pc |-> "none", call |-> "none", need |-> {}, pgen |-> 0,
             cur |-> [gen |-> 0, req |-> 0], current |-> FALSE, lost |-> "no",
             got |-> "none"]

ClientPC == {"idle", "snapshot", "apply", "commit", "store",
             "manifest", "waiting", "reaping"}
IdleClient == [pc |-> "idle", mask |-> {}, pid |-> 0]

\* What was granted before this boot is stored.
Init ==
  /\ grants \in SUBSET Permissions
  /\ slot = EmptySlot
  /\ plugin = NoPlugin
  /\ worker = NoWorker
  /\ client = [c \in Clients |-> IdleClient]
  /\ issued = {}
  /\ starts = 0
  /\ updates = 0
  /\ crossed = FALSE
  /\ stale = 0

Occupied == slot.pid # 0

\* g_scheduler_lock is held across two steps only by a refresh between its two
\* atomic writes; every other critical section is one step.
LockFree == \A c \in Clients : client[c].pc # "store"

\* A call of ny_plugins_request holds g_plugins_lock until it returns; the
\* command line takes no such lock, and crosses the calls that are under way.
Alone == \A d \in Clients : client[d].pc = "idle"
Begins(c) ==
  /\ client[c].pc = "idle"
  /\ crossed' = (crossed \/ ~Alone)

InCallback == worker.call \in {"start", "event", "stop"}

\* sem_post(&slot->pending)
Woken == slot.pending + 1

Goto(pc) == worker' = [worker EXCEPT !.pc = pc]
CGoto(c, pc) == client' = [client EXCEPT ![c].pc = pc]
Return(c) == client' = [client EXCEPT ![c] = IdleClient]

(***************************************************************************)
(* The worker                                                              *)
(***************************************************************************)
\* ny_plugin_load_config runs the code of the module when it has set up the
\* plugin; the slot does not know the generation of the plugin yet.
Load ==
  /\ worker.pc = "load"
  /\ plugin' = [NoPlugin EXCEPT !.generation = slot.pid,
                                !.permissions = slot.permissions]
  /\ worker' = [worker EXCEPT !.pc = "code", !.call = "load"]
  /\ UNCHANGED <<grants, slot, client, issued, starts, updates, history>>

\* The slot learns the generation and opens for completions.
Enable ==
  /\ worker.pc = "enable" /\ LockFree
  /\ slot' = [slot EXCEPT !.generation = plugin.generation,
                          !.accept_completions = ~slot.stopping]
  /\ worker' = [worker EXCEPT !.pc = "code", !.call = "start"]
  /\ UNCHANGED <<grants, plugin, client, issued, starts, updates, history>>

\* ny_plugin_async_begin_authorized reads the generation of the permissions
\* and then the permissions, two atomic loads with no lock.
BeginReadGeneration(need) ==
  /\ worker.pc = "code"
  /\ plugin.next_request <= MaxRequests
  /\ worker' = [worker EXCEPT !.pc = "begin", !.need = need, !.got = "none",
                              !.pgen = plugin.permission_generation]
  /\ UNCHANGED <<grants, slot, plugin, client, issued, starts, updates, history>>

BeginRefused ==
  \/ ~(worker.need \subseteq plugin.permissions)     \* -EACCES
  \/ Cardinality(plugin.pending) = MaxPending        \* -EAGAIN

Begin ==
  /\ worker.pc = "begin"
  /\ worker' = [worker EXCEPT !.pc = "code", !.need = {}, !.pgen = 0]
  /\ IF BeginRefused
       THEN UNCHANGED <<plugin, issued>>
       ELSE LET req == plugin.next_request IN
            /\ plugin' = [plugin EXCEPT !.next_request = req + 1,
                 !.pending = @ \cup {[req |-> req, need |-> worker.need,
                                      pgen |-> worker.pgen, lost |-> "no"]}]
            /\ issued' = issued \cup {[gen |-> plugin.generation, req |-> req]}
  /\ UNCHANGED <<grants, slot, client, starts, updates, history>>

\* Where the worker goes when a call of the plugin has ended.  The result of
\* a failed load and of ny_on_start is published; ny_on_stop is followed by
\* cancel_all anyway.
CallEnds(ok) ==
  /\ slot' = IF worker.call = "start" \/ (worker.call = "load" /\ ~ok)
               THEN [slot EXCEPT !.start = IF ok THEN "ok" ELSE "fail"] ELSE slot
  /\ worker' = [worker EXCEPT
       !.pc = CASE worker.call = "stop" -> "cancel"
                [] worker.call # "stop" /\ ~ok -> "finish"
                [] worker.call = "load" /\ ok -> "enable"
                [] worker.call = "reaction" /\ ok -> "check"
                [] OTHER -> "pump",
       !.call = "none", !.got = "none"]

CodeReturns ==
  /\ worker.pc = "code" /\ LockFree
  /\ \E ok \in BOOLEAN : CallEnds(ok)
  /\ UNCHANGED <<grants, plugin, client, issued, starts, updates, history>>

\* A lifecycle call returned a promise that is still pending.
CodeAwaits ==
  /\ worker.pc = "code" /\ InCallback
  /\ worker' = [worker EXCEPT !.pc = "pump", !.got = "none"]
  /\ UNCHANGED <<grants, slot, plugin, client, issued, starts, updates, history>>

\* ny_scheduler_pump: "stopping" first, then the deadline of a lifecycle call,
\* then one completion.
PumpCanceled ==
  /\ worker.pc = "pump" /\ LockFree
  /\ slot.stopping
  /\ IF InCallback THEN CallEnds(FALSE) ELSE Goto("check") /\ UNCHANGED slot
  /\ UNCHANGED <<grants, plugin, client, issued, starts, updates, history>>

\* A completion may be taken and not delivered any more.
PumpTimesOut ==
  /\ worker.pc \in {"pump", "sleep", "settle"} /\ LockFree
  /\ InCallback /\ ~slot.stopping
  /\ CallEnds(FALSE)
  /\ UNCHANGED <<grants, plugin, client, issued, starts, updates, history>>

PumpTakes ==
  /\ worker.pc = "pump" /\ LockFree
  /\ ~slot.stopping /\ slot.ring # <<>>
  /\ worker' = [worker EXCEPT !.pc = "deliver", !.cur = Head(slot.ring)]
  /\ slot' = [slot EXCEPT !.ring = Tail(@)]
  /\ UNCHANGED <<grants, plugin, client, issued, starts, updates, history>>

PumpEmpty ==
  /\ worker.pc = "pump" /\ LockFree
  /\ ~slot.stopping /\ slot.ring = <<>>
  /\ Goto(IF InCallback THEN "sleep" ELSE "check")
  /\ UNCHANGED <<grants, slot, plugin, client, issued, starts, updates, history>>

\* sem_clockwait in a call, sem_wait in the main loop
Wake ==
  /\ worker.pc = "sleep"
  /\ slot.pending > 0
  /\ slot' = [slot EXCEPT !.pending = @ - 1]
  /\ Goto("pump")
  /\ UNCHANGED <<grants, plugin, client, issued, starts, updates, history>>

\* The main loop after the pump: stop, take an event, or sleep.
Check ==
  /\ worker.pc = "check" /\ LockFree
  /\ worker' = IF slot.stopping
                 THEN [worker EXCEPT !.pc = "code", !.call = "stop"]
                 ELSE [worker EXCEPT !.pc = "sleep"]
  /\ UNCHANGED <<grants, slot, plugin, client, issued, starts, updates, history>>

\* A user event is in the queue, or arrives with a wakeup of its own.
Event ==
  /\ worker.pc \in {"check", "sleep"} /\ LockFree
  /\ ~slot.stopping /\ ~InCallback
  /\ worker' = [worker EXCEPT !.pc = "code", !.call = "event"]
  /\ UNCHANGED <<grants, slot, plugin, client, issued, starts, updates, history>>

\* ny_runtime_deliver: an unknown or foreign token is dropped; the generation
\* of the permissions is read, and after it the permissions.
PendingEntry(t) == {e \in plugin.pending : e.req = t.req /\ t.gen = plugin.generation}

\* An unprotected request does not care for the generation of the grants.
AlwaysCurrent(e) == TRUE
StillCurrent(e) ==
  e.need = {} \/ e.pgen = plugin.permission_generation

Deliver ==
  /\ worker.pc = "deliver"
  /\ IF PendingEntry(worker.cur) = {}
       THEN worker' = [worker EXCEPT !.pc = "pump", !.cur = NoWorker.cur]
       ELSE \E e \in PendingEntry(worker.cur) :
              worker' = [worker EXCEPT !.pc = "settle", !.lost = e.lost,
                                       !.current = StillCurrent(e)]
  /\ UNCHANGED <<grants, slot, plugin, client, issued, starts, updates, history>>

\* The promise is resolved with the value or rejected with -EACCES; the entry
\* is freed before the code that waits for it runs.
Settle ==
  /\ worker.pc = "settle"
  /\ \E e \in PendingEntry(worker.cur) :
       /\ plugin' = [plugin EXCEPT !.pending = @ \ {e}]
       /\ worker' = [worker EXCEPT
            !.pc = "code", !.cur = NoWorker.cur, !.current = FALSE, !.lost = "no",
            !.call = IF worker.call = "none" THEN "reaction" ELSE @,
            !.got = IF worker.current /\ e.need \subseteq plugin.permissions
                      THEN "value" ELSE "errno"]
  /\ UNCHANGED <<grants, slot, client, issued, starts, updates, history>>

\* ny_plugin_async_cancel_all: every pending promise is rejected.
CancelAll ==
  /\ worker.pc = "cancel"
  /\ plugin' = [plugin EXCEPT !.pending = {}]
  /\ Goto("finish")
  /\ UNCHANGED <<grants, slot, client, issued, starts, updates, history>>

Finish ==
  /\ worker.pc = "finish" /\ LockFree
  /\ slot' = [slot EXCEPT !.accept_completions = FALSE]
  /\ Goto("destroy")
  /\ UNCHANGED <<grants, plugin, client, issued, starts, updates, history>>

\* ny_plugin_destroy runs no code of the plugin.
Destroy ==
  /\ worker.pc = "destroy"
  /\ plugin' = NoPlugin
  /\ Goto("gone")
  /\ UNCHANGED <<grants, slot, client, issued, starts, updates, history>>

WorkerStep ==
  \/ Load \/ Enable
  \/ (\E need \in Needs : BeginReadGeneration(need)) \/ Begin
  \/ CodeReturns \/ CodeAwaits
  \/ PumpCanceled \/ PumpTimesOut \/ PumpTakes \/ PumpEmpty \/ Wake \/ Check
  \/ Deliver \/ Settle \/ CancelAll \/ Finish \/ Destroy

(***************************************************************************)
(* Providers: ny_scheduler_complete                                        *)
(***************************************************************************)
SameSlot(t) == Occupied
SameInstance(t) == Occupied /\ slot.generation = t.gen        \* else -ESTALE
Accepting == ~slot.stopping /\ slot.accept_completions         \* else -ECANCELED
Queued(t) == Contains(slot.ring, t)                            \* -EALREADY

Complete(t) ==
  /\ LockFree
  /\ SameInstance(t) /\ Accepting /\ ~Queued(t)
  /\ Len(slot.ring) < MaxPending                               \* else -EAGAIN
  /\ slot.pending < MaxWakeups
  /\ slot' = [slot EXCEPT !.ring = Append(@, t), !.pending = Woken]
  /\ UNCHANGED <<grants, plugin, worker, client, issued, starts, updates, history>>

(***************************************************************************)
(* Clients                                                                 *)
(***************************************************************************)
\* ny_permission_update: one permission is granted or revoked; granting what
\* is granted and revoking (through the web) what is not still refreshes.
Update(c) ==
  /\ client[c].pc = "idle"
  /\ updates < MaxUpdates
  /\ crossed' = ~Alone
  /\ \E p \in Permissions : grants' \in {grants \cup {p}, grants \ {p}}
  /\ updates' = updates + 1
  /\ CGoto(c, "snapshot")
  /\ UNCHANGED <<slot, plugin, worker, issued, starts, stale>>

\* ny_scheduler_refresh_permissions: the first critical section
Snapshot(c) ==
  /\ client[c].pc = "snapshot" /\ LockFree
  /\ IF Occupied
       THEN client' = [client EXCEPT ![c].pc = "apply", ![c].pid = slot.pid]
       ELSE Return(c)
  /\ UNCHANGED <<grants, slot, plugin, worker, issued, starts, updates, history>>

\* ny_permission_apply, on the copy.  When the stored grants cannot be read the
\* refresh returns the error: the caller gets it, and the plugin nothing.
ApplyFails(c) ==
  /\ client[c].pc = "apply"
  /\ Return(c)
  /\ stale' = client[c].pid
  /\ UNCHANGED <<grants, slot, plugin, worker, issued, starts, updates, crossed>>

Apply(c) ==
  /\ client[c].pc = "apply"
  /\ client' = [client EXCEPT ![c].pc = "commit", ![c].mask = grants]
  /\ UNCHANGED <<grants, slot, plugin, worker, issued, starts, updates, history>>

\* Which pending requests lose their permission to a mask
Lose(entries, mask, how) ==
  {[e EXCEPT !.lost = IF @ = "no" /\ ~(e.need \subseteq mask) THEN how ELSE @] :
     e \in entries}

\* The second critical section, if the slot still is the same instance.  Only
\* a plugin that accepts completions ("Open") is refreshed itself; its two
\* atomic fields are written one after the other.
Open == slot.accept_completions

Commit(c) ==
  /\ client[c].pc = "commit" /\ LockFree
  /\ IF slot.pid = client[c].pid
       THEN slot' = [slot EXCEPT !.permissions = client[c].mask]
       ELSE UNCHANGED slot
  /\ IF slot.pid = client[c].pid /\ Open
       THEN /\ plugin' = [plugin EXCEPT !.permission_generation = @ + 1,
                              !.pending = Lose(@, client[c].mask, "before")]
            /\ CGoto(c, "store")
       ELSE UNCHANGED plugin /\ Return(c)
  /\ stale' = IF slot.pid = client[c].pid THEN 0 ELSE stale
  /\ UNCHANGED <<grants, worker, issued, starts, updates, crossed>>

StoreForgotten(c) ==
  /\ client[c].pc = "store"
  /\ slot' = [slot EXCEPT !.pending = Woken]
  /\ Return(c)
  /\ UNCHANGED <<grants, plugin, worker, issued, starts, updates, history>>

Store(c) ==
  LET mask == client[c].mask IN
  /\ client[c].pc = "store"
  /\ plugin' = [plugin EXCEPT !.permissions = mask,
                              !.pending = Lose(@, mask, "during")]
  /\ slot' = [slot EXCEPT !.pending = Woken]
  /\ Return(c)
  /\ UNCHANGED <<grants, worker, issued, starts, updates, history>>

\* ny_manifest_load reads the grants before the slot exists.
StartLoad(c) ==
  /\ Begins(c)
  /\ client' = [client EXCEPT ![c].pc = "manifest", ![c].mask = grants]
  /\ UNCHANGED <<grants, slot, plugin, worker, issued, starts, updates, stale>>

\* Instances are numbered: no two have the same pid or generation.
StartInsert(c) ==
  /\ client[c].pc = "manifest" /\ LockFree
  /\ ~Occupied /\ starts < MaxStarts
  /\ starts' = starts + 1
  /\ slot' = [EmptySlot EXCEPT !.pid = starts + 1, !.permissions = client[c].mask]
  /\ worker' = [NoWorker EXCEPT !.pc = "load"]
  /\ client' = [client EXCEPT ![c] = [IdleClient EXCEPT !.pc = "waiting"]]
  /\ UNCHANGED <<grants, plugin, issued, updates, history>>

\* -EEXIST, or another error before there is a task
StartRejected(c) ==
  /\ client[c].pc = "manifest"
  /\ Return(c)
  /\ UNCHANGED <<grants, slot, plugin, worker, issued, starts, updates, history>>

StartReturns(c) ==
  LET reap == slot.start = "fail" /\ ~slot.stopping IN
  /\ client[c].pc = "waiting" /\ LockFree
  /\ slot.start # "none"
  /\ slot' = [slot EXCEPT !.start_consumed = TRUE, !.stopping = @ \/ reap]
  /\ IF reap THEN CGoto(c, "reaping") ELSE Return(c)
  /\ UNCHANGED <<grants, plugin, worker, issued, starts, updates, history>>

Stop(c) ==
  /\ Begins(c) /\ LockFree
  /\ Occupied /\ ~slot.stopping
  /\ slot' = [slot EXCEPT !.stopping = TRUE, !.accept_completions = FALSE,
                          !.pending = IF worker.pc = "gone" THEN @ ELSE Woken]
  /\ CGoto(c, "reaping")
  /\ UNCHANGED <<grants, plugin, worker, issued, starts, updates, stale>>

Clear(c) ==
  /\ client[c].pc = "reaping" /\ LockFree
  /\ worker.pc = "gone" /\ slot.start_consumed
  /\ slot' = EmptySlot
  /\ worker' = NoWorker
  /\ Return(c)
  /\ UNCHANGED <<grants, plugin, issued, starts, updates, history>>

ClientStep(c) ==
  \/ Snapshot(c) \/ Apply(c) \/ ApplyFails(c) \/ Commit(c) \/ Store(c)
  \/ StartInsert(c) \/ StartRejected(c) \/ StartReturns(c) \/ Clear(c)

Next ==
  \/ WorkerStep \/ Event
  \/ \E t \in issued : Complete(t)
  \/ \E c \in Clients : Update(c) \/ StartLoad(c) \/ Stop(c) \/ ClientStep(c)

Spec == Init /\ [][Next]_vars

(***************************************************************************)
(* Properties                                                              *)
(***************************************************************************)
SlotType ==
  [pid : 0..MaxStarts, stopping : BOOLEAN, accept_completions : BOOLEAN,
   generation : 0..MaxStarts, permissions : SUBSET Permissions,
   ring : Seq(Token), pending : Nat, start : {"none", "ok", "fail"},
   start_consumed : BOOLEAN]
PluginType ==
  [generation : 0..MaxStarts, next_request : 1..(MaxRequests + 1),
   permissions : SUBSET Permissions, permission_generation : Nat,
   pending : SUBSET Entry]
WorkerType ==
  [pc : WorkerPC, call : Calls, need : Needs, pgen : Nat,
   cur : [gen : 0..MaxStarts, req : 0..MaxRequests], current : BOOLEAN,
   lost : Lost, got : {"none", "value", "errno"}]
ClientType == [pc : ClientPC, mask : SUBSET Permissions, pid : 0..MaxStarts]

TypeInv ==
  /\ grants \subseteq Permissions
  /\ slot \in SlotType /\ plugin \in PluginType /\ worker \in WorkerType
  /\ client \in [Clients -> ClientType]
  /\ issued \subseteq Token
  /\ starts \in 0..MaxStarts /\ updates \in 0..MaxUpdates /\ crossed \in BOOLEAN
  /\ stale \in 0..MaxStarts

\* A completion waits in the ring only for the instance that issued its token,
\* and the ring of NY_PLUGIN_MAX_PENDING entries is never overrun.
RingCurrent ==
  /\ \A i \in DOMAIN slot.ring : slot.ring[i].gen = slot.pid
  /\ Len(slot.ring) <= MaxPending

\* The worker does not sleep on "pending" over a completion or a request to
\* stop, in the main loop or in the wait of a lifecycle call.
NoLostWakeup ==
  worker.pc = "sleep" /\ (slot.ring # <<>> \/ slot.stopping) => slot.pending > 0

\* Nothing is lost or mixed up between the providers and the worker.
RingInv == TypeInv /\ RingCurrent /\ NoLostWakeup

\* A request that a refresh finds pending and whose permission it takes away
\* never gets its result, not even when the permission is granted again.
RevokedResultsWithheld ==
  [][worker.pc = "settle" /\ worker.lost = "before" => worker'.got # "value"]_vars

\* The same for every request that was pending when its permission was taken
\* away, those that began while the refresh was writing included.  The code does
\* not keep this: see README, "What the code does not keep".
NoRevokedResult ==
  [][worker.pc = "settle" /\ worker.lost # "no" => worker'.got # "value"]_vars

\* A refresh never writes into a plugin that its worker is setting up or
\* tearing down without the lock.
RefreshesOpenPlugin ==
  \A c \in Clients : client[c].pc = "store" =>
    /\ worker.pc \notin {"load", "enable", "destroy", "gone"}
    /\ worker.call # "load"

\* When no client is in a call, a plugin that accepts completions has exactly
\* the permissions that are stored, and its slot shows them, if since the last
\* update no call has crossed another and no refresh of this instance has
\* returned an error.  One that returns 0 later makes up for the error, and so
\* does a restart.
GrantsReachPlugin ==
  Alone /\ slot.accept_completions /\ ~crossed /\ stale # slot.pid
    => plugin.permissions = grants /\ slot.permissions = grants

\* The same whether the refresh returned an error or not.  The code does not keep
\* this: see README.
StoredGrantsReachPlugin ==
  Alone /\ slot.accept_completions /\ ~crossed
    => plugin.permissions = grants /\ slot.permissions = grants

\* A refresh writes where it may, and what it is to write arrives.
RefreshReachesPlugin == RefreshesOpenPlugin /\ GrantsReachPlugin

\* When no client is in a call, no running plugin has a permission that the
\* owner has revoked.  The code does not keep this where clients are not
\* serialised: see README.
RevokedIsRefused ==
  Alone /\ slot.accept_completions => plugin.permissions \subseteq grants

(***************************************************************************)
(* Inductive invariants                                                    *)
(***************************************************************************)
\* A worker runs while the slot is occupied, and from the set-up to the
\* destruction of the plugin both belong to the same instance; only an open
\* slot knows the generation for certain.
InstanceInv ==
  /\ worker.pc = "none" <=> slot.pid = 0
  /\ worker.pc \notin {"none", "load", "gone"} => plugin.generation = slot.pid
  /\ slot.generation \in {0, slot.pid}
  /\ slot.accept_completions => slot.generation = slot.pid
  /\ worker.pc = "begin" => plugin.next_request <= MaxRequests

\* A slot is open while the code of the plugin may run, and only the end of a
\* failed start finds one that is stopping open; one refresh at a time is
\* between its two writes, and holds the slot open.
OpenInv ==
  /\ slot.accept_completions =>
       /\ worker.pc \notin {"none", "load", "enable", "destroy", "gone"}
       /\ worker.call # "load"
       /\ slot.stopping => worker.pc = "finish"
  /\ slot.start = "fail" => worker.pc \in {"finish", "destroy", "gone"}
  /\ \A c \in Clients : client[c].pc = "store" =>
       /\ slot.accept_completions /\ slot.pid = client[c].pid
       /\ \A d \in Clients : client[d].pc = "store" => d = c

\* Every completion in the ring has a wakeup of its own that is still to come,
\* but for the one the pump is about to take.
Unended == ~slot.stopping
             /\ worker.pc \notin {"cancel", "finish", "destroy", "gone"}
WakeupInv ==
  /\ Unended /\ worker.pc # "pump" => Len(slot.ring) <= slot.pending
  /\ Unended /\ worker.pc = "pump" => Len(slot.ring) <= slot.pending + 1
  /\ worker.pc = "sleep" /\ slot.stopping => slot.pending > 0

CompletionInv == InstanceInv /\ OpenInv /\ RingCurrent /\ WakeupInv

\* A request that lost its permission to a refresh that found it began under
\* an older generation of the permissions, and the worker has seen that.
LostInv ==
  /\ \A e \in plugin.pending :
       /\ e.pgen <= plugin.permission_generation
       /\ e.lost = "before" =>
            e.need # {} /\ e.pgen < plugin.permission_generation
  /\ worker.pc = "begin" => worker.pgen <= plugin.permission_generation
  /\ worker.pc = "settle" /\ worker.lost = "before" => ~worker.current
  /\ worker.got # "none" => worker.pc = "code"

\* One client waits for a start, from the insertion until it has consumed the
\* result; until the plugin has started there is no result.
StartInv ==
  /\ \A c, d \in Clients :
       client[c].pc = "waiting" /\ client[d].pc = "waiting" => c = d
  /\ \A c \in Clients :
       client[c].pc = "waiting" => Occupied /\ ~slot.start_consumed
  /\ Occupied /\ ~slot.start_consumed =>
       \E c \in Clients : client[c].pc = "waiting"
  /\ slot.start_consumed => slot.start # "none"
  /\ worker.pc \in {"load", "enable"} \/ worker.call = "load" =>
       slot.start = "none"
  /\ worker.call = "load" => worker.pc \in {"code", "begin"}

\* What a call that has met no other leaves or is about to leave: the stored
\* grants, in the slot and in the plugin, unless a refresh has failed.
Synced == plugin.permissions = grants /\ slot.permissions = grants
Starting == worker.pc = "enable" \/ worker.call = "load"
SyncedIn(c) ==
  /\ client[c].pc \in {"apply", "commit"} => client[c].pid = slot.pid
  /\ client[c].pc \in {"commit", "store", "manifest"} => client[c].mask = grants
  /\ client[c].pc \in {"store", "waiting"} => slot.permissions = grants
  /\ client[c].pc = "manifest" /\ slot.accept_completions /\ stale # slot.pid =>
       Synced
  /\ client[c].pc = "waiting" /\ (slot.accept_completions \/ Starting) =>
       plugin.permissions = grants

SyncInv ==
  ~crossed =>
    /\ \A c, d \in Clients :
         client[c].pc # "idle" /\ client[d].pc # "idle" => c = d
    /\ Alone /\ slot.accept_completions /\ stale # slot.pid => Synced
    /\ \A c \in Clients : SyncedIn(c)

================================================================================
