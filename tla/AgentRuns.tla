----------------------------- MODULE AgentRuns ------------------------------
(***************************************************************************)
(* The runs of the agent, ny_agent.c: what is asked of it, what its tools  *)
(* do, what the owner has to allow first and what is recorded of it.       *)
(*                                                                         *)
(* The record "agent" of the state database holds the latest runs.  It is  *)
(* read, changed and written as a whole under g_agent_lock, so a request   *)
(* of the panel, a part of a tool call and the end of a run are one step   *)
(* each; a write that fails leaves everything as it was.  The agent loop   *)
(* itself is a library outside of the repository: it takes the message of  *)
(* a run, announces that it is at work, calls tools, several at a time,    *)
(* and answers once they have returned.                                    *)
(***************************************************************************)
EXTENDS Naturals, FiniteSets

CONSTANTS
  Requests,      \* request ids, each with the conversation it belongs to
  Conversation(_),
  Remote,        \* the requests of external clients
  Tools,         \* tool calls at a time
  StepLimit,     \* NY_AGENT_STEP_LIMIT
  AcceptLimit,   \* NY_AGENT_ACCEPT_LIMIT, in runs and steps
  RecordLimit,   \* what a run in progress may make of it
  MaxRuns,       \* bound of the model: runs
  MaxBoots       \* bound of the model: restarts

ASSUME AgentAssumption ==
  /\ {StepLimit, AcceptLimit, RecordLimit, MaxRuns, MaxBoots} \subseteq Nat
  /\ Remote \subseteq Requests /\ StepLimit > 0
  /\ AcceptLimit > 0 /\ AcceptLimit <= RecordLimit

VARIABLES
  record,        \* the runs, by id
  service,       \* g_agent_started and g_agent_ready
  active,        \* g_agent_active, 0 for none
  cancel,        \* g_agent_cancel
  loop,          \* the run that the agent loop has, 0 for none
  outbound,      \* its messages to the worker
  tool,          \* the tool calls
  runs,          \* how many runs there have been
  boots,         \* how often the board restarted
  allowed,       \* history: steps the owner allowed
  applied,       \* history: how often a step had its effect
  begun          \* history: runs of a request that were not forgotten since

volatile == <<service, active, cancel, loop, outbound, tool>>
history == <<allowed, applied, begun>>
vars == <<record, volatile, runs, boots, history>>

Runs == 1..MaxRuns
Flying == {"queued", "running", "waiting_approval", "cancelling"}
Final == {"succeeded", "failed", "cancelled", "unknown", "deleted"}
NoCall == [pc |-> "idle", step |-> 0, kind |-> "read", late |-> FALSE,
           ok |-> FALSE]

Steps(id) == DOMAIN record[id].steps
Idle(t) == tool[t].pc = "idle"

\* A tool call of nyabula_action waits for the owner, one of nyabula_plugin may
\* deploy a plugin, and "read" stands for all the others.
Kinds == {"read", "write", "deploy"}

Init ==
  /\ record = [id \in {} |-> {}] /\ service = "off"
  /\ active = 0 /\ cancel = 0 /\ loop = 0 /\ outbound = {}
  /\ tool = [t \in Tools |-> NoCall]
  /\ runs = 0 /\ boots = 0
  /\ allowed = {} /\ applied = [id \in Runs |-> [n \in 1..StepLimit |-> 0]]
  /\ begun = [r \in Requests |-> {}]

(***************************************************************************)
(* The size of the record                                                  *)
(***************************************************************************)
\* What takes room: the runs (n = 0) and their steps
Entries(rec) ==
  {entry \in Runs \X (0..StepLimit) :
     /\ entry[1] \in DOMAIN rec
     /\ entry[2] \in {0} \cup DOMAIN rec[entry[1]].steps}
Size(rec) == Cardinality(Entries(rec))

Without(rec, ids) == [id \in DOMAIN rec \ ids |-> rec[id]]

\* What makes room for a run: runs that are over, first those of other
\* conversations, the oldest first
Spare(rec, keep) == {id \in DOMAIN rec \ {keep} : rec[id].state \in Final}
Sooner(rec, keep, a, b) ==
  LET own(id) == rec[id].conversation = rec[keep].conversation
  IN (~own(a) /\ own(b)) \/ ((own(a) <=> own(b)) /\ a < b)

Evictions(rec, keep, limit) ==
  {ids \in SUBSET Spare(rec, keep) :
     /\ Size(Without(rec, ids)) <= limit
     /\ \A a \in Spare(rec, keep), b \in ids :
          Sooner(rec, keep, a, b) => a \in ids
     /\ \A id \in ids : (\A a \in ids : ~Sooner(rec, keep, id, a))
                          => Size(Without(rec, ids \ {id})) > limit}

\* The record is stored without what had to go; nothing is stored if that is
\* too little.
StoredRoom(rec, keep, limit) ==
  \E ids \in Evictions(rec, keep, limit) :
    /\ record' = Without(rec, ids)
    /\ begun' = [r \in Requests |->
         IF keep \notin DOMAIN record /\ r = rec[keep].request
         THEN (begun[r] \cup {keep}) \ ids ELSE begun[r] \ ids]

SetState(id, state) == record' = [record EXCEPT ![id].state = state]

(***************************************************************************)
(* Requests                                                                *)
(***************************************************************************)
Started == service # "off"

\* ny_agent_start: what was under way when the board stopped is unknown.
EveryUnknown(state) == IF state = "deleted" THEN state ELSE "unknown"
Unknown(state) == IF state \in Flying THEN "unknown" ELSE state

Start ==
  /\ service = "off" /\ service' = "started"
  /\ record' = [id \in DOMAIN record |->
                  [record[id] EXCEPT !.state = Unknown(@)]]
  /\ UNCHANGED <<active, cancel, loop, outbound, tool, runs, boots, history>>

\* The worker has brought the loop up.
Ready ==
  /\ service = "started" /\ service' = "ready"
  /\ UNCHANGED <<record, active, cancel, loop, outbound, tool, runs, boots,
                 history>>

\* A request that is on record is answered with its run, or refused when that
\* was deleted.  A definition with a faulty form before it is one a run shows
\* its property to depend on.
KnownUndeleted(r) ==
  \E id \in DOMAIN record :
    record[id].request = r /\ record[id].state # "deleted"
Known(r) == \E id \in DOMAIN record : record[id].request = r

NewRun(r) == [request |-> r, conversation |-> Conversation(r),
              state |-> "queued", steps |-> [n \in {} |-> {}], deploys |-> {}]

\* ny_agent_submit, which in the end hands the message to the loop, or fails
\* to and leaves the run on record.
Submit(r) ==
  /\ service = "ready" /\ ~Known(r) /\ active = 0 /\ runs < MaxRuns
  /\ runs' = runs + 1
  /\ StoredRoom([id \in DOMAIN record \cup {runs'} |->
                   IF id = runs' THEN NewRun(r) ELSE record[id]],
                runs', AcceptLimit)
  /\ (active' = runs' /\ loop' = runs') \/ UNCHANGED <<active, loop>>
  /\ UNCHANGED <<service, cancel, outbound, tool, boots, allowed, applied>>

\* ny_agent_decide
Decide(n, decision) ==
  /\ Started /\ active # 0 /\ cancel = 0
  /\ n \in Steps(active) /\ record[active].steps[n] = "pending"
  /\ record' = [record EXCEPT ![active].steps[n] = decision]
  /\ allowed' = IF decision = "authorized" THEN allowed \cup {<<active, n>>}
                ELSE allowed
  /\ UNCHANGED <<volatile, runs, boots, applied, begun>>

Cancel ==
  /\ Started /\ active # 0
  /\ SetState(active, "cancelling") /\ cancel' = active
  /\ UNCHANGED <<service, active, loop, outbound, tool, runs, boots, history>>

Undeleted(c) == {id \in DOMAIN record : record[id].conversation = c
                                        /\ record[id].state # "deleted"}

Deletable(c) == Undeleted(c) # {} /\ active \notin Undeleted(c)

\* Only the ids of the runs are kept.
DeleteConversation(c) ==
  /\ Started /\ Deletable(c)
  /\ record' = [id \in DOMAIN record |->
       IF id \in Undeleted(c)
       THEN [record[id] EXCEPT !.state = "deleted", !.deploys = {},
                               !.steps = [n \in {} |-> {}]]
       ELSE record[id]]
  /\ UNCHANGED <<volatile, runs, boots, history>>

Request ==
  \/ Start \/ Cancel
  \/ \E r \in Requests : Submit(r) \/ DeleteConversation(Conversation(r))
  \/ \E n \in 1..StepLimit, decision \in {"authorized", "denied"} :
       Decide(n, decision)

(***************************************************************************)
(* Tool calls                                                              *)
(***************************************************************************)
MayStepOn == active # 0
MayStep == active # 0 /\ cancel = 0

\* The steps a run may have
StepsLeft(id) == Cardinality(Steps(id)) < StepLimit

\* The first part of ny_agent_tool_execute: the step is on record before it is
\* taken, and one that changes something waits for the owner.  An external
\* client may not change anything.
ToolBegin(t) ==
  /\ loop # 0 /\ Idle(t) /\ MayStep /\ StepsLeft(active)
  /\ \E kind \in Kinds :
     LET remote == record[active].request \in Remote
         waits == kind = "write" /\ ~remote
         n == Cardinality(Steps(active)) + 1
         run == record[active]
         next == [run EXCEPT
           !.state = IF waits THEN "waiting_approval" ELSE @,
           !.deploys = IF kind = "deploy" THEN @ \cup {n} ELSE @,
           !.steps = [m \in 1..n |-> IF m < n THEN run.steps[m]
                                     ELSE IF waits THEN "pending"
                                     ELSE "started"]]
     IN /\ StoredRoom([record EXCEPT ![active] = next], active, RecordLimit)
        /\ tool' = [tool EXCEPT ![t] =
             [NoCall EXCEPT !.step = n, !.kind = kind,
                            !.pc = IF waits THEN "wait"
                                   ELSE IF remote /\ kind # "read" THEN "save"
                                   ELSE "do"]]
  /\ UNCHANGED <<service, active, cancel, loop, outbound, runs, boots, allowed,
                 applied>>

\* What ny_agent_wait_approval finds when it looks
Refused(t) ==
  \/ cancel # 0 \/ tool[t].late
  \/ record[active].steps[tool[t].step] = "denied"
GrantedInTime(t) ==
  cancel = 0
  /\ (tool[t].late \/ record[active].steps[tool[t].step] = "authorized")
Granted(t) ==
  cancel = 0 /\ ~tool[t].late
  /\ record[active].steps[tool[t].step] = "authorized"

ToolRefused(t) ==
  /\ tool[t].pc = "wait" /\ Refused(t)
  /\ tool' = [tool EXCEPT ![t].pc = "save"]
  /\ UNCHANGED <<record, service, active, cancel, loop, outbound, runs, boots,
                 history>>

ToolGranted(t) ==
  /\ tool[t].pc = "wait" /\ Granted(t)
  /\ LET steps == [record[active].steps EXCEPT ![tool[t].step] = "started"]
     IN record' = [record EXCEPT ![active].steps = steps,
          ![active].state = IF \E n \in DOMAIN steps : steps[n] = "pending"
                            THEN @ ELSE "running"]
  /\ tool' = [tool EXCEPT ![t].pc = "do"]
  /\ UNCHANGED <<service, active, cancel, loop, outbound, runs, boots, history>>

\* The write of the grant fails: the step is not taken.
ToolGrantLost(t) ==
  /\ tool[t].pc = "wait" /\ Granted(t)
  /\ tool' = [tool EXCEPT ![t].pc = "save"]
  /\ UNCHANGED <<record, service, active, cancel, loop, outbound, runs, boots,
                 history>>

\* Nobody decided for two minutes.
NeverOverdue(t) == FALSE
Overdue(t) == tool[t].pc = "wait" /\ ~tool[t].late

ToolLate(t) ==
  /\ Overdue(t)
  /\ tool' = [tool EXCEPT ![t].late = TRUE]
  /\ UNCHANGED <<record, service, active, cancel, loop, outbound, runs, boots,
                 history>>

\* The request that the step stands for
ToolDo(t) ==
  /\ tool[t].pc = "do"
  /\ \E ok \in BOOLEAN :
       /\ tool' = [tool EXCEPT ![t].pc = "save", ![t].ok = ok]
       /\ applied' = IF ok THEN [applied EXCEPT ![active][tool[t].step] = @ + 1]
                     ELSE applied
  /\ UNCHANGED <<record, service, active, cancel, loop, outbound, runs, boots,
                 allowed, begun>>

Outcome(t) == IF tool[t].ok THEN "succeeded" ELSE "failed"

\* A deployment that succeeds makes up for those that failed before it.
Recovered(t, n) ==
  /\ tool[t].ok /\ tool[t].kind = "deploy" /\ n \in record[active].deploys
  /\ record[active].steps[n] = "failed"

\* The outcome of the step is stored, or that fails.
ToolSave(t) ==
  /\ tool[t].pc = "save"
  /\ \/ record' = [record EXCEPT ![active].steps =
            [n \in DOMAIN @ |-> IF n = tool[t].step THEN Outcome(t)
                                ELSE IF Recovered(t, n) THEN "recovered"
                                ELSE @[n]]]
     \/ UNCHANGED record
  /\ tool' = [tool EXCEPT ![t] = NoCall]
  /\ UNCHANGED <<service, active, cancel, loop, outbound, runs, boots, history>>

ToolGoesOn(t) == ToolRefused(t) \/ ToolGranted(t) \/ ToolGrantLost(t)
                 \/ ToolLate(t) \/ ToolDo(t) \/ ToolSave(t)

(***************************************************************************)
(* The loop and the worker                                                 *)
(***************************************************************************)
Interim == [of |-> loop, kind |-> "interim"]

LoopAnnounces ==
  /\ loop # 0 /\ Interim \notin outbound /\ record[loop].state = "queued"
  /\ outbound' = outbound \cup {Interim}
  /\ UNCHANGED <<record, service, active, cancel, loop, tool, runs, boots,
                 history>>

\* It asks now and then whether the run was cancelled (ny_agent_cancelled); that
\* of an external client is when the client was removed.
MayBeCancelled == cancel = loop \/ record[loop].request \in Remote

LoopAnswers ==
  /\ loop # 0 /\ (\A t \in Tools : Idle(t))
  /\ \E kind \in {"ok", "error", "cancelled"} :
       /\ kind = "cancelled" => MayBeCancelled
       /\ outbound' = outbound \cup {[of |-> loop, kind |-> kind]}
  /\ loop' = 0
  /\ UNCHANGED <<record, service, active, cancel, tool, runs, boots, history>>

\* The messages come in order.
WorkerInterim ==
  \E message \in outbound :
    /\ message.kind = "interim"
    /\ outbound' = outbound \ {message}
    /\ IF record[message.of].state = "queued"
       THEN SetState(message.of, "running") \/ UNCHANGED record
       ELSE UNCHANGED record
    /\ UNCHANGED <<service, active, cancel, loop, tool, runs, boots, history>>

\* How a run that was answered is recorded: an answer that does not fit the
\* record counts as a failure, and so does a step that did not succeed.
Verdicts(message) ==
  LET steps == record[message.of].steps
      fails == \E n \in DOMAIN steps :
                 steps[n] \notin {"succeeded", "recovered"}
  IN {"failed"} \cup
     CASE message.kind = "cancelled" -> {"cancelled"}
       [] message.kind = "ok" /\ ~fails -> {"succeeded"}
       [] OTHER -> {}

WorkerFinish ==
  \E message \in outbound :
    /\ message.kind # "interim"
    /\ \A earlier \in outbound : earlier.kind # "interim"
    /\ message.of \in DOMAIN record
    /\ \E verdict \in Verdicts(message) : SetState(message.of, verdict)
    /\ outbound' = outbound \ {message}
    /\ active' = 0 /\ cancel' = 0
    /\ UNCHANGED <<service, loop, tool, runs, boots, history>>

Restart ==
  /\ boots < MaxBoots /\ boots' = boots + 1
  /\ service' = "off" /\ active' = 0 /\ cancel' = 0 /\ loop' = 0
  /\ outbound' = {} /\ tool' = [t \in Tools |-> NoCall]
  /\ UNCHANGED <<record, runs, history>>

Work == Ready \/ LoopAnnounces \/ LoopAnswers \/ WorkerInterim \/ WorkerFinish
        \/ \E t \in Tools : ToolBegin(t) \/ ToolGoesOn(t)

Next == Request \/ Work \/ Restart

Spec == Init /\ [][Next]_vars

\* Tools return, the loop does not call tools for ever, and the worker tries
\* until the end of a run is stored.
FairSpec ==
  /\ Spec
  /\ \A t \in Tools : WF_vars(ToolGoesOn(t))
  /\ SF_vars(LoopAnswers) /\ WF_vars(WorkerInterim) /\ WF_vars(WorkerFinish)

(***************************************************************************)
(* Properties                                                              *)
(***************************************************************************)
\* What the record and the tool calls may hold.
StepStates == {"pending", "authorized", "denied", "started", "succeeded",
               "failed", "recovered"}
TypeInv ==
  /\ DOMAIN record \subseteq Runs
  /\ \A id \in DOMAIN record :
       /\ record[id].state \in Flying \cup Final
       /\ Steps(id) \subseteq 1..StepLimit
       /\ \A n \in Steps(id) : record[id].steps[n] \in StepStates
  /\ Size(record) <= RecordLimit
  /\ active \in 0..MaxRuns /\ cancel \in 0..MaxRuns

\* The run that is active is on record and under way, whatever is deleted or
\* makes room: the worker, which tries until it has stored the end of a run,
\* finds it (ny_agent.c:1056), and a tool call finds its step.
ActiveStored ==
  /\ active # 0 =>
       active \in DOMAIN record /\ record[active].state \in Flying
  /\ loop # 0 => loop = active
  /\ \A t \in Tools : ~Idle(t) => active # 0 /\ tool[t].step \in Steps(active)

\* A request leads to one run, as long as that is on record, deleted or not.
RequestOnce == \A r \in Requests : Cardinality(begun[r]) <= 1

\* What is on record is what the agent works on: no request has two runs, no
\* run grows past its limits, and the one that is active is never lost.
RecordSound == TypeInv /\ ActiveStored /\ RequestOnce

\* No step that waits for the owner is taken without the owner, and none twice.
Allowed ==
  \A id \in Runs, n \in 1..StepLimit :
    /\ applied[id][n] <= 1
    /\ \A t \in Tools : tool[t].pc = "do" /\ tool[t].kind = "write" =>
         <<active, tool[t].step>> \in allowed

\* What is recorded as done was done, and a run counts as a success only when
\* each of its steps was, or was a deployment that a later one made up for.
DoneIsDone ==
  \A id \in DOMAIN record :
    \A n \in Steps(id) :
      LET step == record[id].steps[n] IN
      /\ step = "succeeded" => applied[id][n] = 1
      /\ step = "recovered" =>
           \E m \in record[id].deploys : record[id].steps[m] = "succeeded"
      /\ record[id].state = "succeeded" => step \in {"succeeded", "recovered"}

\* Between an effect and its record, across refusals, answers that come late,
\* failing writes and restarts: what was done had been allowed, and what is
\* recorded as done was done.
EffectsRecorded == Allowed /\ DoneIsDone

\* A run that is over stays what it was recorded as until it is deleted or has
\* to make room.
FinalStays ==
  [][\A id \in DOMAIN record \cap DOMAIN record' :
       record[id].state \in Final =>
         record'[id].state \in {record[id].state, "deleted"}]_vars

\* A run that was cancelled takes no further step.
NoStepAfterCancel ==
  [][cancel # 0 /\ active' = active =>
       /\ record'[active].state = "cancelling"
       /\ DOMAIN record'[active].steps = Steps(active)
       /\ \A n \in Steps(active) :
            record'[active].steps[n] = "started"
              => record[active].steps[n] = "started"]_vars

\* A run ends, also when the owner never decides and writes fail.
RunEnds == active # 0 ~> active = 0

(***************************************************************************)
(* Inductive invariants (AgentRunsProofs)                                  *)
(***************************************************************************)
RunType ==
  [request : Requests, conversation : {Conversation(r) : r \in Requests},
   state : Flying \cup Final, deploys : SUBSET (1..StepLimit),
   steps : UNION {[1..k -> StepStates] : k \in 0..StepLimit}]
ToolType == [pc : {"idle", "wait", "do", "save"}, step : 0..StepLimit,
             kind : Kinds, late : BOOLEAN, ok : BOOLEAN]

\* The steps of a run are numbered in the order they were begun.
RunsInv ==
  /\ runs \in 0..MaxRuns
  /\ record \in [DOMAIN record -> RunType] /\ DOMAIN record \subseteq 1..runs
  /\ \A id \in DOMAIN record : record[id].deploys \subseteq Steps(id)
  /\ tool \in [Tools -> ToolType]
  /\ Size(record) <= RecordLimit

\* The run that is active is the one that the loop and the worker have.
ActiveInv ==
  /\ active # 0 => /\ service # "off" /\ active \in DOMAIN record
                   /\ record[active].state \in Flying
  /\ cancel \in {0, active} /\ loop \in {0, active}
  /\ cancel # 0 => record[active].state = "cancelling"
  /\ \A message \in outbound :
       /\ active # 0 /\ message.of = active
       /\ message.kind # "interim" =>
            /\ loop = 0
            /\ \A other \in outbound :
                 other.kind # "interim" => other = message

\* A request has the run that is on record of it, and no other.
BegunInv ==
  \A r \in Requests :
    /\ begun[r] = {id \in DOMAIN record : record[id].request = r}
    /\ \A a, b \in begun[r] : a = b

\* A step that a tool call has not yet stored the outcome of
Open == {"pending", "authorized", "denied", "started"}

\* A tool call has a step of its own of the active run.
ToolInv ==
  \A t \in Tools : ~Idle(t) =>
    /\ loop # 0 /\ tool[t].step \in Steps(active)
    /\ record[active].steps[tool[t].step] \in Open
    /\ \A u \in Tools \ {t} : ~Idle(u) => tool[u].step # tool[t].step
    /\ tool[t].kind = "deploy" => tool[t].step \in record[active].deploys
    /\ tool[t].pc = "wait" => tool[t].kind = "write"
    /\ tool[t].pc = "do" /\ tool[t].kind = "write" =>
         <<active, tool[t].step>> \in allowed

\* A step has its effect when its tool call does it, and not before.
EffectInv ==
  /\ applied \in [Runs -> [1..StepLimit -> {0, 1}]]
  /\ \A id \in Runs, n \in 1..StepLimit :
       /\ id > runs => applied[id][n] = 0
       /\ id = active /\ n \notin Steps(id) => applied[id][n] = 0
  /\ \A t \in Tools :
       /\ tool[t].pc \in {"wait", "do"} =>
            ~tool[t].ok /\ applied[active][tool[t].step] = 0
       /\ tool[t].pc = "save" /\ tool[t].ok =>
            applied[active][tool[t].step] = 1
  /\ \A id \in DOMAIN record : \A n \in Steps(id) :
       record[id].steps[n] = "authorized" => <<id, n>> \in allowed

=============================================================================
