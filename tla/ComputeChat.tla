----------------------------- MODULE ComputeChat -----------------------------
(***************************************************************************)
(* Calls to the local model: the client of NuttX, ny_compute.c, and the    *)
(* daemon nyampd on Linux that loads and runs it (nyampd_llm.cpp).         *)
(*                                                                         *)
(* A call that chats, loads or unloads holds g_compute.llm_lock and talks  *)
(* through a port of its own.  The receive task puts a frame into the port *)
(* that waits for its request id, learns the generation of the daemon and  *)
(* starts the thread for a load that the panel asked for.  The daemon has  *)
(* a transport thread that answers requests, a thread that pulls and loads *)
(* a model and one that runs a chat.  One step is one critical section,    *)
(* one frame sent or taken, or one atomic access; a deadline may pass      *)
(* whenever it is looked at.  A load fails because the model is missing,   *)
(* a run because the prompt is too long: other failures end alike.         *)
(* Definitions preceded by a faulty form are the ones the properties are   *)
(* shown to depend on.                                                     *)
(***************************************************************************)
EXTENDS Naturals, Sequences, SequencesExt

CONSTANTS
  Models,      \* names of models
  Default,     \* the one that a chat loads
  None,        \* no model
  Parts,       \* frames of the body of a request
  Pieces,      \* frames of an answer
  PortDepth,   \* NY_COMPUTE_PORT_DEPTH
  MaxCalls,    \* bound of the model: calls
  MaxFaults    \* bound of the model: restarts, lost links, refused writes and ports

ASSUME ComputeAssumption ==
  /\ {Parts, Pieces, PortDepth} \subseteq Nat \ {0}
  /\ {MaxCalls, MaxFaults} \subseteq Nat
  /\ Default \in Models /\ None \notin Models

VARIABLES
  generation,  \* g_compute.generation, 0 while it is unknown
  llm,         \* g_compute.llm: what the panel shows of the model
  loader,      \* the load that the panel asked for
  call,        \* the call that holds llm_lock
  port,        \* its port
  up, down,    \* frames on their way to the daemon, and from it
  daemon,
  calls,       \* how many calls there have been
  faults,      \* how many faults there have been
  ran,         \* history: how often a call was run
  called,      \* history: requests cancelled before their run was decided
  givenUp,     \* history: calls that ended without the daemon's last word
  unopened     \* history: the load last asked for had no port and nobody says so

client == <<generation, llm, loader, call, port>>
history == <<ran, called, givenUp, unopened>>
vars == <<client, up, down, daemon, calls, faults, history>>

\* The n-th request of call k.  Request ids are never used twice.
Call(id) == id[1]
NoId == <<0, 0>>

Frame(kind, op, id, arg) == [kind |-> kind, op |-> op, id |-> id, arg |-> arg]

NoPort == [id |-> NoId, queue |-> <<>>]
NoCall == [kind |-> "none", pc |-> "idle", op |-> "none", id |-> NoId,
           name |-> None, gen |-> 0, part |-> 1, retried |-> FALSE,
           told |-> FALSE, late |-> FALSE, got |-> <<>>, out |-> "none"]
NoLoad == [pc |-> "idle", id |-> NoId, name |-> None, status |-> "none"]
NoRun == [pc |-> "idle", id |-> NoId, status |-> "none"]
Daemon(gen) == [gen |-> gen, session |-> FALSE, loaded |-> None, load |-> NoLoad,
                body |-> <<>>, run |-> NoRun, running |-> FALSE,
                active |-> NoId, cancel |-> FALSE]

\* How a daemon makes its generation known: READY, or its answer to a probe.
Ready == Frame("event", "ready", NoId, daemon'.gen)

Init ==
  /\ generation = 0
  /\ llm = [state |-> "unloaded", chatting |-> FALSE, cancel |-> FALSE]
  /\ loader = [pc |-> "none", k |-> 0, name |-> None]
  /\ call = NoCall /\ port = NoPort
  /\ daemon = Daemon(1)
  /\ up = <<>> /\ down = <<Frame("event", "ready", NoId, 1)>>
  /\ calls = 0 /\ faults = 0
  /\ ran = [k \in 1..MaxCalls |-> 0] /\ called = FALSE /\ givenUp = {}
  /\ unopened = FALSE

Fault == faults < MaxFaults /\ faults' = faults + 1
Show(state) == llm' = [llm EXCEPT !.state = state]
Goto(pc) == call' = [call EXCEPT !.pc = pc]

(***************************************************************************)
(* The receive task                                                        *)
(***************************************************************************)
\* ny_compute_set_generation
Adopt(gen) ==
  /\ generation' = gen
  /\ llm' = IF gen # generation /\ llm.state \in {"ready", "busy"}
              THEN [llm EXCEPT !.state = "unloaded"] ELSE llm

\* ny_compute_deliver: a frame that no port waits for and one that finds the
\* port full are dropped.
Delivered(f) ==
  IF port.id = f.id /\ Len(port.queue) < PortDepth
    THEN [port EXCEPT !.queue = Append(@, f)] ELSE port

Receive ==
  /\ down # <<>> /\ down' = Tail(down)
  /\ LET f == Head(down) IN
     IF f.op = "ready"
       THEN Adopt(f.arg) /\ UNCHANGED port
       ELSE port' = Delivered(f) /\ UNCHANGED <<generation, llm>>
  /\ UNCHANGED <<loader, call, up, daemon, calls, faults, history>>

\* ny_compute_llm_poll: the thread is started, or cannot be.
StartLoader ==
  /\ loader.pc = "pending"
  /\ \/ loader' = [loader EXCEPT !.pc = "start"] /\ UNCHANGED <<llm, faults>>
     \/ Fault /\ loader' = [loader EXCEPT !.pc = "none"] /\ Show("error")
  /\ UNCHANGED <<generation, call, port, up, down, daemon, calls, history>>

(***************************************************************************)
(* Who calls                                                               *)
(***************************************************************************)
Begun(kind, k, name) ==
  [NoCall EXCEPT !.kind = kind, !.op = kind, !.id = <<k, 1>>, !.name = name,
                 !.pc = "begin"]

\* ny_compute_chat and ny_compute_llm_unload; a caller that finds the lock
\* taken is told so and leaves.
Chat ==
  /\ call.kind = "none" /\ calls < MaxCalls
  /\ calls' = calls + 1 /\ call' = Begun("chat", calls', Default)
  /\ llm' = [llm EXCEPT !.chatting = TRUE, !.cancel = FALSE]
  /\ unopened' = FALSE
  /\ UNCHANGED <<generation, loader, port, up, down, daemon, faults, ran, called,
                 givenUp>>

Unload ==
  /\ call.kind = "none" /\ calls < MaxCalls
  /\ calls' = calls + 1 /\ call' = Begun("unload", calls', None)
  /\ UNCHANGED <<generation, llm, loader, port, up, down, daemon, faults, history>>

\* compute.llm.load of the panel, and its thread, which finds the lock taken or
\* cannot open a port.  The link or a port that is missing is reported; open()
\* may fail for other reasons, which ny_compute_llm_loader does not know.
AskLoad(name) ==
  /\ loader.pc = "none" /\ ~llm.chatting /\ calls < MaxCalls
  /\ calls' = calls + 1
  /\ loader' = [pc |-> "pending", k |-> calls', name |-> name]
  /\ Show("loading") /\ unopened' = FALSE
  /\ UNCHANGED <<generation, call, port, up, down, daemon, faults, ran, called,
                 givenUp>>

Load ==
  /\ loader.pc = "start"
  /\ \/ /\ call.kind = "none" /\ call' = Begun("load", loader.k, loader.name)
        /\ loader' = [loader EXCEPT !.pc = "calling"] /\ UNCHANGED <<faults,
                                                                     unopened>>
     \/ /\ loader' = [loader EXCEPT !.pc = "refused"] /\ UNCHANGED <<call,
                                                                     unopened>>
        /\ IF call.kind = "none" THEN Fault ELSE UNCHANGED faults
     \/ /\ call.kind = "none" /\ Fault /\ UNCHANGED call
        /\ loader' = [loader EXCEPT !.pc = "ended"] /\ unopened' = TRUE
  /\ UNCHANGED <<generation, llm, port, up, down, daemon, calls, ran, called,
                 givenUp>>

\* A load that was refused, or a link that is missing, is reported by the thread.
Unreported == UNCHANGED llm
Report == IF loader.pc = "refused" THEN Show("error") ELSE UNCHANGED llm

LoaderEnds ==
  /\ loader.pc \in {"refused", "ended"} /\ Report
  /\ loader' = [loader EXCEPT !.pc = "none"]
  /\ UNCHANGED <<generation, call, port, up, down, daemon, calls, faults, history>>

\* ny_compute_chat_cancel
Cancel ==
  /\ llm.chatting /\ ~llm.cancel
  /\ llm' = [llm EXCEPT !.cancel = TRUE]
  /\ UNCHANGED <<generation, loader, call, port, up, down, daemon, calls, faults,
                 history>>

(***************************************************************************)
(* A call                                                                  *)
(***************************************************************************)
Over(out, heard) ==
  /\ call' = [call EXCEPT !.pc = "close", !.out = out]
  /\ givenUp' = IF heard THEN givenUp ELSE givenUp \cup {Call(call.id)}

Unheard == {"timeout", "reset", "io"}

Request(op) ==
  call' = [call EXCEPT !.op = op, !.pc = "begin", !.part = 1,
                       !.id = <<Call(@), @[2] + 1>>]

\* ny_compute_llm_call, from the generation it starts with to the frame it
\* sends.  The port is routed before the frame is written.
Begin ==
  /\ call.pc = "begin"
  /\ call' = [call EXCEPT !.pc = "send", !.gen = generation]
  /\ IF call.op = "load" THEN Show("loading") ELSE UNCHANGED llm
  /\ UNCHANGED <<generation, loader, port, up, down, daemon, calls, faults,
                 history>>

\* What ny_compute_llm_call returned: the status of the daemon or an error of
\* its own.  A chat whose first request finds no model loads one and asks again.
RetriesTimeouts(status) == status \in {"not_ready", "timeout"} /\ ~call.retried
Retries(status) == status = "not_ready" /\ ~call.retried

ChatReturned(status) ==
  /\ UNCHANGED llm
  /\ IF status = "ok" /\ call.part < Parts
       THEN call' = [call EXCEPT !.pc = "begin", !.part = @ + 1] /\ UNCHANGED givenUp
     ELSE IF status = "ok" THEN Goto("accepted") /\ UNCHANGED givenUp
     ELSE IF Retries(status) THEN Request("load") /\ UNCHANGED givenUp
     ELSE Over(status, status \notin Unheard)

\* ny_compute_llm_load_locked
LoadReturned(status) ==
  /\ Show(IF status = "ok" THEN "ready" ELSE "error")
  /\ IF status = "ok" /\ call.kind = "chat"
       THEN /\ call' = [call EXCEPT !.op = "chat", !.pc = "begin", !.part = 1,
                                    !.retried = TRUE, !.id = <<Call(@), @[2] + 1>>]
            /\ UNCHANGED givenUp
       ELSE Over(status, status \notin Unheard)

Returned(status) ==
  CASE call.op = "chat" -> ChatReturned(status)
    [] call.op = "load" -> LoadReturned(status)
    [] OTHER -> /\ UNCHANGED llm
                /\ Over(IF status = "invalid" THEN "ok" ELSE status,
                        status \notin Unheard)

Send ==
  /\ call.pc = "send"
  /\ \/ /\ up' = Append(up, Frame("request", call.op, call.id,
                    IF call.op = "chat" THEN call.part ELSE call.name))
        /\ Goto("await") /\ UNCHANGED <<llm, givenUp, faults>>
     \/ Fault /\ Returned("io") /\ UNCHANGED up
  /\ port' = [port EXCEPT !.id = call.id]
  /\ UNCHANGED <<generation, loader, down, daemon, calls, ran, called, unopened>>

\* A frame that is not the answer is passed over.
TakeAnswer ==
  LET f == Head(port.queue) IN
  /\ call.pc = "await" /\ port.queue # <<>>
  /\ port' = [port EXCEPT !.queue = Tail(@)]
  /\ IF f.kind = "response" /\ f.op = call.op
       THEN Returned(f.arg)
       ELSE UNCHANGED <<llm, call, givenUp>>
  /\ UNCHANGED <<generation, loader, up, down, daemon, calls, faults, ran, called,
                 unopened>>

\* The daemon that would have answered is gone.  This is looked at when nothing
\* came for a while; something may have come since.
Restarted == call.gen # 0 /\ generation # call.gen

NoAnswer ==
  /\ call.pc = "await"
  /\ \/ Restarted /\ Returned("reset")
     \/ Returned("timeout")
  /\ UNCHANGED <<generation, loader, port, up, down, daemon, calls, faults, ran,
                 called, unopened>>

\* The chat is under way: the state is shown, and then the generation read.
Accepted ==
  /\ call.pc = "accepted" /\ Goto("watch") /\ Show("busy")
  /\ UNCHANGED <<generation, loader, port, up, down, daemon, calls, faults,
                 history>>

Watch ==
  /\ call.pc = "watch"
  /\ call' = [call EXCEPT !.pc = "collect", !.gen = generation]
  /\ UNCHANGED <<generation, llm, loader, port, up, down, daemon, calls, faults,
                 history>>

\* ny_compute_chat_collect.  A cancel is forwarded once, written or not; a
\* deadline that has passed counts as one and is extended once.
Forward ==
  \/ /\ up' = Append(up, Frame("request", "cancel", call.id, None))
     /\ UNCHANGED faults
  \/ Fault /\ UNCHANGED up

Tell ==
  /\ call.pc = "collect" /\ llm.cancel /\ ~call.told
  /\ call' = [call EXCEPT !.told = TRUE] /\ Forward
  /\ UNCHANGED <<generation, llm, loader, port, down, daemon, calls, history>>

Ends == call.late

Expire ==
  /\ call.pc = "collect"
  /\ IF Ends
       THEN Over("timeout", FALSE) /\ UNCHANGED <<up, faults>>
       ELSE /\ call' = [call EXCEPT !.late = TRUE, !.told = TRUE]
            /\ UNCHANGED givenUp
            /\ IF call.told THEN UNCHANGED <<up, faults>> ELSE Forward
  /\ UNCHANGED <<generation, llm, loader, port, down, daemon, calls, ran, called,
                 unopened>>

Finished(status) ==
  CASE call.late /\ status = "cancelled" -> "timeout"
    [] status = "ok" /\ Len(call.got) # Pieces -> "proto"
    [] OTHER -> status

\* A piece of the answer that does not follow the last one ends the call.
Follows(offset) == offset = Len(call.got) + 1

Collected(f) ==
  CASE f.op = "result" /\ Follows(f.arg) ->
         /\ call' = [call EXCEPT !.got = Append(@, <<f.id, f.arg>>)]
         /\ UNCHANGED givenUp
    [] f.op = "result" /\ ~Follows(f.arg) -> Over("proto", FALSE)
    [] f.op = "finish" -> Over(Finished(f.arg), TRUE)
    [] OTHER -> UNCHANGED <<call, givenUp>>

Take ==
  /\ call.pc = "collect" /\ port.queue # <<>>
  /\ port' = [port EXCEPT !.queue = Tail(@)] /\ Collected(Head(port.queue))
  /\ UNCHANGED <<generation, llm, loader, up, down, daemon, calls, faults, ran,
                 called, unopened>>

Reset ==
  /\ call.pc = "collect" /\ Restarted /\ Over("reset", FALSE)
  /\ UNCHANGED <<generation, llm, loader, port, up, down, daemon, calls, faults,
                 ran, called, unopened>>

\* The port is closed and the chat is over for chat_cancel.
Close ==
  /\ call.pc = "close" /\ Goto("settle")
  /\ port' = NoPort
  /\ llm' = IF call.kind = "chat"
              THEN [llm EXCEPT !.chatting = FALSE, !.cancel = FALSE] ELSE llm
  /\ UNCHANGED <<generation, loader, up, down, daemon, calls, faults, history>>

\* What the model is now, and the lock is given back.
Shown(out) ==
  CASE out \in {"ok", "too_long", "cancelled", "invalid"} -> "ready"
    [] out = "reset" -> "unloaded"
    [] out = "not_ready" -> llm.state
    [] OTHER -> "error"

Settle ==
  /\ call.pc = "settle"
  /\ CASE call.kind = "chat" -> Show(Shown(call.out))
       [] call.kind = "unload" /\ call.out = "ok" -> Show("unloaded")
       [] OTHER -> UNCHANGED llm
  /\ loader' = IF call.kind = "load"
                 THEN [loader EXCEPT !.pc = IF call.out = "busy" THEN "refused"
                                                                 ELSE "ended"]
                 ELSE loader
  /\ call' = NoCall /\ called' = FALSE
  /\ UNCHANGED <<generation, port, up, down, daemon, calls, faults, ran, givenUp,
                 unopened>>

CallStep ==
  \/ Begin \/ Send \/ TakeAnswer \/ NoAnswer \/ Accepted \/ Watch
  \/ Tell \/ Expire \/ Take \/ Reset \/ Close \/ Settle

(***************************************************************************)
(* The daemon: requests                                                    *)
(***************************************************************************)
Reply(f, status) == down' = Append(down, Frame("response", f.op, f.id, status))
Loading == daemon.load.pc = "work"

\* LlmService::BeginLoad.  Loading what is loaded succeeds, another model has to
\* be unloaded first; the threads of the load and the run before are joined.
BeginLoad(f) ==
  IF daemon.running \/ (daemon.loaded = None /\ Loading)
                    \/ daemon.loaded \notin {None, f.arg}
    THEN Reply(f, "busy") /\ UNCHANGED daemon
  ELSE IF daemon.loaded = f.arg THEN Reply(f, "ok") /\ UNCHANGED daemon
  ELSE /\ daemon.load.pc = "idle" /\ UNCHANGED down
       /\ daemon' = [daemon EXCEPT !.load = [NoLoad EXCEPT
                       !.pc = "work", !.id = f.id, !.name = f.arg]]

DaemonUnload(f) ==
  IF daemon.running \/ Loading THEN Reply(f, "busy") /\ UNCHANGED daemon
  ELSE IF ~daemon.session THEN Reply(f, "invalid") /\ UNCHANGED daemon
  ELSE Reply(f, "ok") /\ daemon' = [daemon EXCEPT !.loaded = None]

\* What is left of the body when its run begins.
BodyKept(body) == body
BodyTaken(body) == <<>>

\* LlmService::BeginChat.  A frame that does not continue the body that is
\* arriving drops it and is refused; the last one starts the run.
Continues(f) ==
  /\ f.arg = Len(daemon.body) + 1
  /\ daemon.body # <<>> => daemon.body[1] = f.id

BeginChat(f) ==
  IF daemon.running \/ Loading THEN Reply(f, "busy") /\ UNCHANGED <<daemon, ran>>
  ELSE IF daemon.loaded = None
    THEN Reply(f, "not_ready") /\ UNCHANGED <<daemon, ran>>
  ELSE IF ~Continues(f)
    THEN /\ Reply(f, "invalid") /\ UNCHANGED ran
         /\ daemon' = [daemon EXCEPT !.body = <<>>]
  ELSE IF f.arg < Parts
    THEN /\ Reply(f, "ok") /\ UNCHANGED ran
         /\ daemon' = [daemon EXCEPT !.body = Append(@, f.id)]
  ELSE /\ daemon.run.pc = "idle" /\ Reply(f, "ok")
       /\ daemon' = [daemon EXCEPT !.body = BodyTaken(@), !.cancel = FALSE,
                       !.running = TRUE, !.active = f.id,
                       !.run = [pc |-> "start", id |-> f.id, status |-> "none"]]
       /\ ran' = [ran EXCEPT ![Call(f.id)] = @ + 1]

\* LlmService::Cancel takes no lock that a run holds.
DaemonCancel(f) ==
  IF ~daemon.session \/ daemon.active # f.id
    THEN Reply(f, "invalid") /\ UNCHANGED <<daemon, called>>
    ELSE /\ Reply(f, "ok") /\ daemon' = [daemon EXCEPT !.cancel = TRUE]
         /\ called' = (called \/ (f.id = call.id /\ daemon.run.pc \in {"start", "run"}))

Dispatch ==
  LET f == Head(up) IN
  /\ up # <<>> /\ up' = Tail(up)
  /\ CASE f.op = "load" -> BeginLoad(f) /\ UNCHANGED <<ran, called>>
       [] f.op = "unload" -> DaemonUnload(f) /\ UNCHANGED <<ran, called>>
       [] f.op = "chat" -> BeginChat(f) /\ UNCHANGED called
       [] f.op = "cancel" -> DaemonCancel(f) /\ UNCHANGED ran
  /\ UNCHANGED <<client, calls, faults, givenUp, unopened>>

(***************************************************************************)
(* The daemon: its threads                                                 *)
(***************************************************************************)
DaemonStep ==
  UNCHANGED <<client, up, calls, faults, history>>

\* LlmService::Loader: pulled and loaded or not, admission first, then the
\* answer to the request.
LoadEnds(status) ==
  /\ daemon.load.pc = "work" /\ UNCHANGED down /\ DaemonStep
  /\ daemon' = [daemon EXCEPT
       !.load = [@ EXCEPT !.pc = "answer", !.status = status],
       !.session = @ \/ status # "not_ready",
       !.loaded = IF status = "ok" THEN daemon.load.name ELSE @]

LoadAnswers ==
  /\ daemon.load.pc = "answer" /\ DaemonStep
  /\ down' = Append(down, Frame("response", "load", daemon.load.id, daemon.load.status))
  /\ daemon' = [daemon EXCEPT !.load = NoLoad]

\* LlmService::ChatWorker.  A prompt is refused, or the session runs; the flag
\* of the cancel decides over what came out of it.
Decided(status) == [daemon.run EXCEPT !.pc = "decided", !.status = status]

RunStartsAfresh ==
  /\ daemon.run.pc = "start" /\ UNCHANGED down /\ DaemonStep
  /\ daemon' = [daemon EXCEPT !.run.pc = "run", !.cancel = FALSE]

RunStarts ==
  /\ daemon.run.pc = "start" /\ UNCHANGED down /\ DaemonStep
  /\ \/ daemon' = [daemon EXCEPT !.run = Decided("too_long")]
     \/ daemon' = [daemon EXCEPT !.run.pc = "run"]

RunEnds ==
  /\ daemon.run.pc = "run" /\ UNCHANGED down /\ DaemonStep
  /\ daemon' = [daemon EXCEPT
       !.run = Decided(IF daemon.cancel THEN "cancelled" ELSE "ok")]

\* EndRun, and the answer is queued
RunAnswers ==
  /\ daemon.run.pc = "decided" /\ DaemonStep
  /\ daemon' = [daemon EXCEPT !.run.pc = "answered", !.active = NoId]
  /\ down' = down \o IF daemon.run.status # "ok" THEN <<>>
                     ELSE [i \in 1..Pieces |->
                             Frame("event", "result", daemon.run.id, i)]

RunReleases ==
  /\ daemon.run.pc = "answered" /\ UNCHANGED down /\ DaemonStep
  /\ daemon' = [daemon EXCEPT !.run.pc = "over", !.running = FALSE]

RunFinishes ==
  /\ daemon.run.pc = "over" /\ DaemonStep
  /\ down' = Append(down, Frame("event", "finish", daemon.run.id, daemon.run.status))
  /\ daemon' = [daemon EXCEPT !.run = NoRun]

DaemonWorks ==
  \/ \E status \in {"ok", "not_ready"} : LoadEnds(status)
  \/ LoadAnswers \/ RunStarts \/ RunEnds \/ RunAnswers \/ RunReleases \/ RunFinishes

\* The daemon ends and is started again.  What it had not written is lost, and
\* what it had not read.
Restart ==
  /\ Fault /\ daemon' = Daemon(daemon.gen + 1)
  /\ \E n \in 0..Len(down) : down' = Append(SubSeq(down, 1, n), Ready)
  /\ up' = <<>>
  /\ UNCHANGED <<client, calls, history>>

\* ny_compute_link_lost: the transport of the peer went away, and comes back
\* with a new daemon.
LinkLost ==
  /\ Fault /\ daemon' = Daemon(daemon.gen + 1)
  /\ generation' = 0 /\ up' = <<>> /\ down' = <<Ready>>
  /\ UNCHANGED <<llm, loader, call, port, calls, history>>

Next ==
  \/ Receive \/ StartLoader
  \/ Chat \/ Unload \/ (\E name \in Models : AskLoad(name)) \/ Load \/ LoaderEnds
  \/ Cancel \/ CallStep
  \/ Dispatch \/ DaemonWorks \/ Restart \/ LinkLost

\* The tasks of NuttX go on and time passes.  The daemon and the link owe
\* nothing.
Fairness ==
  WF_vars(CallStep) /\ WF_vars(StartLoader \/ Load \/ LoaderEnds)

Spec == Init /\ [][Next]_vars
FairSpec == Spec /\ Fairness

(***************************************************************************)
(* Properties                                                              *)
(***************************************************************************)
TypeInv ==
  /\ llm.state \in {"unloaded", "loading", "ready", "busy", "error"}
  /\ call.kind \in {"none", "chat", "load", "unload"}
  /\ call.pc \in {"idle", "begin", "send", "await", "accepted", "watch", "collect",
                 "close", "settle"}
  /\ call.part \in 1..Parts /\ Len(daemon.body) < Parts
  /\ Len(port.queue) <= PortDepth
  /\ daemon.loaded \in Models \cup {None}

\* A chat is run once at most, over every retry, and one that returns an
\* answer returns all of that run's and nothing else, whatever was dropped.
AnsweredOnce ==
  /\ TypeInv
  /\ \A k \in 1..MaxCalls : ran[k] <= 1
  /\ call.kind = "chat" /\ call.out = "ok" =>
       /\ call.got = [i \in 1..Pieces |-> <<call.id, i>>]
       /\ ran[Call(call.id)] = 1

\* The daemon refuses a chat as busy or out of place only for what an earlier
\* call left behind that had given up, never for one that had its last word.
Refuses(f) == f.kind = "response" /\ f.op = "chat" /\ f.arg \in {"busy", "invalid"}
LeftBehind ==
  {Call(id) : id \in ToSet(daemon.body)
     \cup (IF daemon.running THEN {daemon.run.id} ELSE {})
     \cup (IF Loading THEN {daemon.load.id} ELSE {})}

RefusalsExplained ==
  [][Len(down') > Len(down) /\ Refuses(Last(down'))
       => LeftBehind # {} /\ LeftBehind \subseteq givenUp]_vars

\* A chat that the daemon said it had cancelled, before its outcome was
\* decided, does not return an answer.
CancelObeyed == call.kind = "chat" /\ call.out = "ok" => ~called

\* Every call ends, and the panel does not show "loading" or "busy" for ever,
\* unless the load it shows had no port for a reason that is not reported.
Unsettled == llm.state \in {"loading", "busy"}
Settles ==
  (call.kind # "none" \/ Unsettled)
    ~> (call.kind = "none" /\ (Unsettled => unopened))

\* The same for whatever reason there was no port.  The code does not keep this:
\* see README, "What the code does not keep".
LoadReported ==
  (call.kind # "none" \/ Unsettled) ~> (call.kind = "none" /\ ~Unsettled)

\* A model that is shown as ready is there.  The code does not keep this: see
\* README, "What the code does not keep".
ReadyIsTrue ==
  call.kind = "none" /\ generation = daemon.gen /\ llm.state = "ready"
    => daemon.loaded # None

(***************************************************************************)
(* Inductive invariants (ComputeChatProofs)                                *)
(***************************************************************************)
\* The frames of call k in a queue
Of(frames, k) == {i \in DOMAIN frames : Call(frames[i].id) = k}
LoadOf(k) == daemon.load.pc # "idle" /\ Call(daemon.load.id) = k
RunOf(k) == daemon.run.pc # "idle" /\ Call(daemon.run.id) = k

\* Nothing is under way for a call, or one thing: its request, the load that
\* it asked for or the answer.
Untouched(k) ==
  /\ Of(up, k) = {} /\ Of(down, k) = {} /\ Of(port.queue, k) = {}
  /\ ~LoadOf(k) /\ ran[k] = 0

Single(places) == \A a, b \in places : a = b
Alone(k) ==
  /\ Single(Of(up, k)) /\ Single(Of(down, k)) /\ Single(Of(port.queue, k))
  /\ Of(up, k) # {} => Of(down, k) = {} /\ Of(port.queue, k) = {} /\ ~LoadOf(k)
  /\ Of(down, k) # {} => Of(port.queue, k) = {} /\ ~LoadOf(k)
  /\ Of(port.queue, k) # {} => ~LoadOf(k)

\* A call is numbered when it is asked for, and until it begins no frame knows
\* its number.
NumberInv ==
  /\ calls \in 0..MaxCalls /\ ran \in [1..MaxCalls -> {0, 1}]
  /\ \A k \in (calls + 1)..MaxCalls : ran[k] = 0
  /\ call.kind # "none" => Call(call.id) \in 1..calls
  /\ \A i \in DOMAIN up : Call(up[i].id) \in 1..calls
  /\ \A i \in DOMAIN down : IF down[i].op = "ready" THEN down[i].id = NoId
                            ELSE Call(down[i].id) \in 1..calls
  /\ daemon.load.pc # "idle" => Call(daemon.load.id) \in 1..calls
  /\ loader.pc \in {"pending", "start"} =>
       /\ loader.k \in 1..calls /\ Untouched(loader.k)
       /\ call.kind # "none" => Call(call.id) # loader.k

\* What a call may ask for: a chat also loads the model.
AskInv ==
  /\ call.kind = "none" => call = NoCall
  /\ call.kind = "chat" => call.op \in {"chat", "load"}
  /\ call.kind \in {"load", "unload"} => call.op = call.kind
  /\ \A i \in DOMAIN up :
       /\ up[i].op \in {"load", "unload", "chat", "cancel"}
       /\ up[i].op = "load" => up[i].arg \in Models \cup {None}

\* The port is that of the call.
PortInv ==
  /\ \A i \in DOMAIN port.queue : port.queue[i].id = port.id
  /\ call.kind = "none" <=> call.pc = "idle"
  /\ call.pc \in {"idle", "settle"} => port = NoPort
  /\ call.pc \in {"begin", "send"} =>
       /\ port.queue = <<>> /\ Untouched(Call(call.id))
       /\ port.id # NoId => Call(port.id) = Call(call.id)
  /\ call.pc \in {"await", "accepted", "watch", "collect", "close"} =>
       port.id = call.id

\* A request has one answer, and nothing else is under way before it came,
\* unless it was the one that began the run.
AwaitInv ==
  call.pc = "await" =>
    LET k == Call(call.id) IN
    /\ \A i \in Of(up, k) :
         up[i].op = call.op /\ (call.op = "chat" => up[i].arg = call.part)
    /\ IF ran[k] = 0 THEN Alone(k)
       ELSE /\ call.op = "chat" /\ call.part = Parts
            /\ \A i \in Of(down, k) :
                 down[i].kind = "response" /\ down[i].op = "chat"
                   => down[i].arg = "ok"
            /\ \A i \in Of(port.queue, k) :
                 port.queue[i].kind = "response" /\ port.queue[i].op = "chat"
                   => port.queue[i].arg = "ok"

\* A run comes of one request and has one end.
IsEvent(f) == f.op \in {"result", "finish"}
RunInv ==
  /\ daemon.run.pc # "idle" =>
       Call(daemon.run.id) \in 1..calls /\ ran[Call(daemon.run.id)] = 1
  /\ daemon.active = IF daemon.run.pc \in {"start", "run", "decided"}
                     THEN daemon.run.id ELSE NoId
  /\ \A i \in DOMAIN up : up[i].op = "chat" =>
       /\ ran[Call(up[i].id)] = 0
       /\ \A j \in Of(up, Call(up[i].id)) : up[j].op = "chat" => j = i
  /\ \A i \in DOMAIN down : IsEvent(down[i]) =>
       /\ ran[Call(down[i].id)] = 1
       /\ down[i].op = "finish" => ~RunOf(Call(down[i].id))
  /\ \A i \in DOMAIN port.queue : IsEvent(port.queue[i]) =>
       /\ ran[Call(port.queue[i].id)] = 1
       /\ port.queue[i].op = "finish" => ~RunOf(Call(port.queue[i].id))

\* What a chat has collected, and what it ends with
CollectInv ==
  /\ call.pc \notin {"close", "settle"} => call.out = "none"
  /\ call.pc \notin {"collect", "close", "settle"} => call.got = <<>>
  /\ call.got = [i \in 1..Len(call.got) |-> <<call.id, i>>]
  /\ call.kind = "chat" /\ call.out = "ok" =>
       /\ Len(call.got) = Pieces
       /\ ran[Call(call.id)] = 1 /\ ~RunOf(Call(call.id))

\* A cancel that came in time is what the run ends with.
CalledInv ==
  called =>
    LET k == Call(call.id) IN
    /\ call.kind # "none" /\ ran[k] = 1
    /\ call.kind = "chat" => call.out # "ok"
    /\ RunOf(k) => IF daemon.run.pc \in {"start", "run"} THEN daemon.cancel
                   ELSE daemon.run.status # "ok"
    /\ \A i \in Of(down, k) : down[i].op = "finish" => down[i].arg # "ok"
    /\ \A i \in Of(port.queue, k) :
         port.queue[i].op = "finish" => port.queue[i].arg # "ok"

\* What the daemon still has of call k: a part of its body, its run or its load
BodyOf(k) == \E i \in DOMAIN daemon.body : Call(daemon.body[i]) = k
Left(k) ==
  \/ BodyOf(k)
  \/ daemon.running /\ Call(daemon.run.id) = k
  \/ Loading /\ Call(daemon.load.id) = k

Current(k) == call.kind # "none" /\ k = Call(call.id)

\* The daemon has n frames of this body, or it is a new one and will say that it
\* has no model; in no case does it refuse the next frame.
Accepts(id, n) ==
  /\ ~daemon.running /\ ~Loading
  /\ daemon.body = IF daemon.loaded = None THEN <<>> ELSE [i \in 1..n |-> id]

\* What is left of a call that is over is of one that had given up.
OwnerInv ==
  /\ daemon.running <=> daemon.run.pc \in {"start", "run", "decided", "answered"}
  /\ givenUp \subseteq 1..calls
  /\ loader.pc \in {"pending", "start"} => loader.k \notin givenUp
  /\ \A k \in 1..MaxCalls : Left(k) => k \in givenUp \/ Current(k)
  /\ \A i \in DOMAIN daemon.body : Call(daemon.body[i]) \in 1..calls

\* The frames that ask for something: one of a call at most and none of a call
\* that was run, and after the first of a body the next comes without delay.
Asks(f) == f.op \in {"chat", "load"}
AskedInv ==
  /\ \A i, j \in DOMAIN up :
       Asks(up[i]) /\ Asks(up[j]) /\ Call(up[i].id) = Call(up[j].id) => i = j
  /\ \A i \in DOMAIN up : Asks(up[i]) =>
       /\ ran[Call(up[i].id)] = 0
       /\ Call(up[i].id) \in givenUp \/ Current(Call(up[i].id))
       /\ up[i].op = "chat" /\ up[i].arg # 1 =>
            i = 1 /\ up[i].arg \in 2..Parts /\ Accepts(up[i].id, up[i].arg - 1)
  /\ \A k \in 1..MaxCalls : ran[k] = 1 =>
       ~BodyOf(k) /\ ~(Loading /\ Call(daemon.load.id) = k)

\* Frames of earlier calls come before those of the present one, of which the
\* daemon has nothing before it has dealt with them.
OrderInv ==
  call.kind # "none" =>
    LET k == Call(call.id) IN
    /\ \A i, j \in DOMAIN up : i < j /\ Call(up[i].id) = k => Call(up[j].id) = k
    /\ (\E i \in DOMAIN up : Call(up[i].id) # k) => ~Left(k)

\* What an answer to a chat that was not run says of the body
Answers(f) == f.kind = "response" /\ f.op = "chat"
Says(f) ==
  Answers(f) =>
    IF f.arg = "ok"
    THEN call.part < Parts /\ up = <<>> /\ Accepts(call.id, call.part)
    ELSE ~BodyOf(Call(call.id))

BodyInv ==
  LET k == Call(call.id) IN
  /\ call.pc \in {"begin", "send"} =>
       IF call.op = "chat" /\ call.part # 1
       THEN up = <<>> /\ Accepts(call.id, call.part - 1) ELSE ~BodyOf(k)
  /\ call.pc = "await" =>
       /\ \A i \in Of(up, k) : up[i].id = call.id
       /\ call.op # "chat" => ~BodyOf(k)
       /\ call.op = "chat" /\ ran[k] = 0 =>
            /\ call.part = 1 /\ Of(up, k) # {} => ~BodyOf(k)
            /\ \A i \in Of(down, k) : Says(down[i])
            /\ \A i \in Of(port.queue, k) : Says(port.queue[i])
  /\ call.pc \in {"accepted", "watch", "collect"} => ran[k] = 1
  /\ call.pc \in {"close", "settle"} /\ k \notin givenUp =>
       ~Left(k) /\ \A i \in Of(up, k) : ~Asks(up[i])

LeftInv == OwnerInv /\ AskedInv /\ OrderInv /\ BodyInv

==============================================================================
