--------------------------- MODULE AgentRunsProofs ---------------------------
(***************************************************************************)
(* Proofs about AgentRuns: the record is what the agent works on, what is  *)
(* recorded as done was done and had been allowed, a run that is over      *)
(* stays over, and one that was cancelled takes no further step, for every *)
(* number of requests, tool calls, runs and steps.                         *)
(*                                                                         *)
(* The inductive invariant RecordInv has a part for the shape of the       *)
(* record, one for the run that is active, one for the requests, one for   *)
(* the tool calls and two for the effects of the steps.                    *)
(***************************************************************************)
EXTENDS AgentRuns, FiniteSetTheorems, TLAPS

RecordInv ==
  /\ RunsInv /\ ActiveInv /\ BegunInv /\ ToolInv /\ EffectInv /\ DoneIsDone

StepsType == UNION {[1..k -> StepStates] : k \in 0..StepLimit}

LEMMA RunFields ==
  ASSUME NEW run \in RunType
  PROVE  /\ run.request \in Requests
         /\ run.state \in Flying \cup Final
         /\ run.deploys \subseteq 1..StepLimit
         /\ run.steps \in StepsType
BY DEF RunType, StepsType

\* The steps of a run are a sequence.
LEMMA StepsCounted ==
  ASSUME NEW steps \in StepsType
  PROVE  \E k \in 0..StepLimit :
           /\ steps \in [1..k -> StepStates] /\ DOMAIN steps = 1..k
           /\ Cardinality(DOMAIN steps) = k
<1>1. PICK k \in 0..StepLimit : steps \in [1..k -> StepStates]
  BY DEF StepsType
<1>2. DOMAIN steps = 1..k /\ k \in Nat
  BY <1>1, AgentAssumption
<1>3. Cardinality(1..k) = k
  BY <1>2, FS_Interval
<1> QED
  BY <1>1, <1>2, <1>3

(***************************************************************************)
(* The size of the record                                                  *)
(***************************************************************************)
LEMMA SizeMonotone ==
  ASSUME NEW rec, NEW other, Entries(rec) \subseteq Entries(other)
  PROVE  Size(rec) \in Nat /\ Size(rec) <= Size(other)
<1>1. IsFiniteSet(Runs) /\ IsFiniteSet(0..StepLimit)
  BY FS_Interval, AgentAssumption DEF Runs
<1>2. IsFiniteSet(Runs \X (0..StepLimit))
  BY <1>1, FS_Product
<1>3. IsFiniteSet(Entries(other))
  BY <1>2, FS_Subset DEF Entries
<1> QED
  BY <1>3, FS_Subset, FS_CardinalityType DEF Size

LEMMA SizeKept ==
  ASSUME NEW rec, NEW other, DOMAIN rec \subseteq DOMAIN other,
         \A id \in DOMAIN rec : DOMAIN rec[id].steps \subseteq DOMAIN other[id].steps
  PROVE  Size(rec) \in Nat /\ Size(rec) <= Size(other)
<1>1. Entries(rec) \subseteq Entries(other)
  BY DEF Entries
<1> QED
  BY <1>1, SizeMonotone

\* What a record that had to make room keeps
LEMMA RoomMade ==
  ASSUME NEW rec, NEW keep, NEW limit, StoredRoom(rec, keep, limit)
  PROVE  \E ids \in SUBSET Spare(rec, keep) :
           /\ record' = Without(rec, ids) /\ Size(record') <= limit
           /\ begun' = [r \in Requests |->
                IF keep \notin DOMAIN record /\ r = rec[keep].request
                THEN (begun[r] \cup {keep}) \ ids ELSE begun[r] \ ids]
<1>1. PICK ids \in Evictions(rec, keep, limit) :
        /\ record' = Without(rec, ids)
        /\ begun' = [r \in Requests |->
             IF keep \notin DOMAIN record /\ r = rec[keep].request
             THEN (begun[r] \cup {keep}) \ ids ELSE begun[r] \ ids]
  BY Zenon DEF StoredRoom
<1>2. ids \in SUBSET Spare(rec, keep) /\ Size(Without(rec, ids)) <= limit
  BY Zenon DEF Evictions
<1> QED
  BY <1>1, <1>2, Zenon

(***************************************************************************)
(* Steps that change no step of a run                                      *)
(***************************************************************************)
StatesChange ==
  /\ record' \in [DOMAIN record -> RunType]
  /\ \A id \in DOMAIN record :
       /\ record'[id].request = record[id].request
       /\ record'[id].steps = record[id].steps
       /\ record'[id].deploys = record[id].deploys

LEMMA OneState ==
  ASSUME RunsInv, NEW id \in DOMAIN record, NEW state \in Flying \cup Final,
         SetState(id, state)
  PROVE  /\ StatesChange
         /\ record'[id].state = state
         /\ \A x \in DOMAIN record \ {id} : record'[x] = record[x]
<1>1. record \in [DOMAIN record -> RunType]
      /\ record' = [record EXCEPT ![id].state = state]
  BY DEF RunsInv, SetState
<1>2. [record[id] EXCEPT !.state = state] \in RunType
  BY <1>1 DEF RunType
<1> QED
  BY <1>1, <1>2 DEF StatesChange, RunType

LEMMA StatesChangeKeeps ==
  ASSUME RecordInv, StatesChange, UNCHANGED <<runs, tool, begun, allowed, applied>>,
         \A id \in DOMAIN record :
           record'[id].state = "succeeded" =>
             \A n \in Steps(id) : record[id].steps[n] \in {"succeeded", "recovered"}
  PROVE  /\ RunsInv' /\ BegunInv' /\ DoneIsDone'
         /\ active' = active /\ loop' = loop => ToolInv' /\ EffectInv'
         /\ active' = 0 /\ (\A t \in Tools : Idle(t)) => ToolInv' /\ EffectInv'
<1>1. DOMAIN record' = DOMAIN record /\ \A id \in DOMAIN record : Steps(id)' = Steps(id)
  BY DEF StatesChange, Steps
<1>2. RunsInv'
  <2>1. Size(record') <= Size(record) /\ Size(record) \in Nat /\ Size(record') \in Nat
    BY <1>1, SizeKept DEF Steps
  <2>2. RunsInv /\ RecordLimit \in Nat
    BY AgentAssumption DEF RecordInv
  <2>3. Size(record)' <= RecordLimit
    BY <2>1, <2>2 DEF RunsInv, Size, Entries, Runs
  <2> QED
    BY <1>1, <2>2, <2>3 DEF RunsInv, StatesChange
<1>3. BegunInv'
  BY <1>1 DEF RecordInv, BegunInv, StatesChange
<1>4. DoneIsDone'
  BY <1>1 DEF RecordInv, DoneIsDone, StatesChange
<1>5. ASSUME active' = active, loop' = loop PROVE ToolInv' /\ EffectInv'
  <2>1. active # 0 => active \in DOMAIN record
    BY DEF RecordInv, ActiveInv
  <2>2. \A t \in Tools : ~Idle(t) => active \in DOMAIN record
    BY <2>1, AgentAssumption DEF RecordInv, ToolInv, ActiveInv
  <2>3. ToolInv'
    BY <1>1, <1>5, <2>2 DEF RecordInv, ToolInv, StatesChange, Idle
  <2>4. EffectInv'
    <3>1. EffectInv
      BY DEF RecordInv
    <3>2. \A id \in Runs, n \in 1..StepLimit :
            id = active /\ n \notin Steps(id)' => applied[id][n] = 0
      <4> SUFFICES ASSUME NEW id \in Runs, NEW n \in 1..StepLimit, id = active,
                          n \notin Steps(id)'
                   PROVE  applied[id][n] = 0
        OBVIOUS
      <4>1. id \in DOMAIN record
        BY <2>1, AgentAssumption DEF Runs
      <4> QED
        BY <1>1, <3>1, <4>1 DEF EffectInv
    <3>3. \A id \in DOMAIN record' : \A n \in Steps(id)' :
            record'[id].steps[n] = "authorized" => <<id, n>> \in allowed'
      BY <1>1, <3>1 DEF EffectInv, StatesChange
    <3> QED
      BY <1>5, <3>1, <3>2, <3>3 DEF EffectInv, Runs
  <2> QED
    BY <2>3, <2>4
<1>6. ASSUME active' = 0, \A t \in Tools : Idle(t) PROVE ToolInv' /\ EffectInv'
  <2>1. ToolInv'
    BY <1>6 DEF ToolInv, Idle
  <2>2. \A id \in Runs : id # 0
    BY AgentAssumption DEF Runs
  <2>3. EffectInv'
    BY <1>1, <1>6, <2>2 DEF RecordInv, EffectInv, StatesChange, Idle, Runs
  <2> QED
    BY <2>1, <2>3
<1> QED
  BY <1>2, <1>3, <1>4, <1>5, <1>6

LEMMA NoChange == ASSUME RunsInv, record' = record PROVE StatesChange
BY DEF RunsInv, StatesChange

LEMMA DoneSteps ==
  ASSUME DoneIsDone, NEW id \in DOMAIN record, record[id].state = "succeeded"
  PROVE  \A n \in Steps(id) : record[id].steps[n] \in {"succeeded", "recovered"}
BY DEF DoneIsDone

LEMMA StartKeeps == RecordInv /\ Start => RecordInv'
<1> SUFFICES ASSUME RecordInv, Start PROVE RecordInv'
  OBVIOUS
<1>1. active = 0 /\ cancel = 0 /\ loop = 0 /\ outbound = {}
  BY DEF RecordInv, ActiveInv, Start
<1>2. \A id \in DOMAIN record :
        /\ record'[id] = [record[id] EXCEPT !.state = Unknown(@)]
        /\ record[id] \in RunType
  BY DEF Start, RecordInv, RunsInv
<1>3. ASSUME NEW id \in DOMAIN record
      PROVE  /\ record'[id] \in RunType
             /\ record'[id].request = record[id].request
             /\ record'[id].steps = record[id].steps
             /\ record'[id].deploys = record[id].deploys
             /\ record'[id].state = Unknown(record[id].state)
  <2>1. PICK state \in Flying \cup Final : state = Unknown(record[id].state)
    BY <1>2 DEF Unknown, Final, RunType
  <2>2. record'[id] = [record[id] EXCEPT !.state = state]
    BY <1>2, <2>1
  <2> QED
    BY <1>2, <2>1, <2>2 DEF RunType
<1>4. StatesChange
  BY <1>3 DEF Start, StatesChange
<1>5. RunsInv' /\ BegunInv' /\ DoneIsDone' /\ ToolInv' /\ EffectInv'
  BY <1>3, <1>4, StatesChangeKeeps, DoneSteps DEF Start, RecordInv, Unknown, history
<1>6. ActiveInv'
  BY <1>1 DEF Start, ActiveInv
<1> QED
  BY <1>5, <1>6 DEF RecordInv

LEMMA CancelKeeps == RecordInv /\ Cancel => RecordInv'
<1> SUFFICES ASSUME RecordInv, Cancel PROVE RecordInv'
  OBVIOUS
<1>1. active \in DOMAIN record /\ RunsInv /\ service # "off"
  BY DEF Cancel, RecordInv, ActiveInv
<1>2. StatesChange /\ record'[active].state = "cancelling"
      /\ \A x \in DOMAIN record \ {active} : record'[x] = record[x]
  BY <1>1, OneState DEF Cancel, Flying
<1>3. RunsInv' /\ BegunInv' /\ DoneIsDone' /\ ToolInv' /\ EffectInv'
  BY <1>2, StatesChangeKeeps, DoneSteps DEF Cancel, RecordInv, volatile, history
<1>4. ActiveInv'
  BY <1>1, <1>2 DEF Cancel, RecordInv, ActiveInv, StatesChange, Flying
<1> QED
  BY <1>3, <1>4 DEF RecordInv

LEMMA AnnounceKeeps == RecordInv /\ LoopAnnounces => RecordInv'
<1> SUFFICES ASSUME RecordInv, LoopAnnounces PROVE RecordInv'
  OBVIOUS
<1>1. StatesChange
  BY NoChange DEF LoopAnnounces, RecordInv
<1>2. RunsInv' /\ BegunInv' /\ DoneIsDone' /\ ToolInv' /\ EffectInv'
  BY <1>1, StatesChangeKeeps, DoneSteps DEF LoopAnnounces, RecordInv, history
<1>3. ActiveInv'
  BY DEF LoopAnnounces, RecordInv, ActiveInv, Interim
<1> QED
  BY <1>2, <1>3 DEF RecordInv

LEMMA AnswerKeeps == RecordInv /\ LoopAnswers => RecordInv'
<1> SUFFICES ASSUME RecordInv, LoopAnswers PROVE RecordInv'
  OBVIOUS
<1>1. StatesChange
  BY NoChange DEF LoopAnswers, RecordInv
<1>2. RunsInv' /\ BegunInv' /\ DoneIsDone'
  BY <1>1, StatesChangeKeeps, DoneSteps DEF LoopAnswers, RecordInv, history
<1>3. ActiveInv'
  BY DEF LoopAnswers, RecordInv, ActiveInv
<1>4. ToolInv'
  BY DEF LoopAnswers, ToolInv, Idle
<1>5. EffectInv'
  BY DEF LoopAnswers, RecordInv, EffectInv, Steps, history
<1> QED
  BY <1>2, <1>3, <1>4, <1>5 DEF RecordInv

LEMMA InterimKeeps == RecordInv /\ WorkerInterim => RecordInv'
<1> SUFFICES ASSUME RecordInv, WorkerInterim PROVE RecordInv'
  OBVIOUS
<1>1. PICK message \in outbound :
        /\ outbound' = outbound \ {message}
        /\ \/ record[message.of].state = "queued" /\ SetState(message.of, "running")
           \/ UNCHANGED record
        /\ UNCHANGED <<service, active, cancel, loop, tool, runs, boots, history>>
  BY DEF WorkerInterim
<1>2. active # 0 /\ message.of = active /\ active \in DOMAIN record
  BY DEF RecordInv, ActiveInv
<1>3. StatesChange
      /\ \/ record' = record
         \/ /\ record[active].state = "queued" /\ record'[active].state = "running"
            /\ \A x \in DOMAIN record \ {active} : record'[x] = record[x]
  BY <1>1, <1>2, OneState, NoChange DEF RecordInv, Flying
<1>4. RunsInv' /\ BegunInv' /\ DoneIsDone' /\ ToolInv' /\ EffectInv'
  BY <1>1, <1>3, StatesChangeKeeps, DoneSteps DEF RecordInv, history
<1>5. ActiveInv'
  BY <1>1, <1>2, <1>3 DEF RecordInv, ActiveInv, StatesChange, Flying
<1> QED
  BY <1>4, <1>5 DEF RecordInv

LEMMA FinishKeeps == RecordInv /\ WorkerFinish => RecordInv'
<1> SUFFICES ASSUME RecordInv, WorkerFinish PROVE RecordInv'
  OBVIOUS
<1>0. PICK message \in outbound :
        /\ message.kind # "interim"
        /\ \A earlier \in outbound : earlier.kind # "interim"
        /\ \E verdict \in Verdicts(message) : SetState(message.of, verdict)
        /\ outbound' = outbound \ {message}
        /\ active' = 0 /\ cancel' = 0
        /\ UNCHANGED <<service, loop, tool, runs, boots, history>>
  BY DEF WorkerFinish
<1>1. PICK verdict \in Verdicts(message) : SetState(message.of, verdict)
  BY <1>0
<1>2. /\ active # 0 /\ message.of = active /\ active \in DOMAIN record
      /\ loop = 0 /\ outbound' = {}
  BY <1>0, <1>1 DEF RecordInv, ActiveInv
<1>3. verdict \in Final
  BY <1>0, <1>1 DEF Verdicts, Final
<1>4. verdict = "succeeded" =>
        \A n \in Steps(active) :
          record[active].steps[n] \in {"succeeded", "recovered"}
  BY <1>0, <1>1, <1>2 DEF Verdicts, Steps
<1>5. StatesChange /\ record'[active].state = verdict
      /\ \A x \in DOMAIN record \ {active} : record'[x] = record[x]
  BY <1>0, <1>1, <1>2, <1>3, OneState DEF RecordInv
<1>6. \A t \in Tools : Idle(t)
  BY <1>2 DEF RecordInv, ToolInv
<1>7. RunsInv' /\ BegunInv' /\ DoneIsDone' /\ ToolInv' /\ EffectInv'
  BY <1>0, <1>1, <1>4, <1>5, <1>6, StatesChangeKeeps, DoneSteps DEF RecordInv, history
<1>8. ActiveInv'
  BY <1>0, <1>1, <1>2 DEF ActiveInv
<1> QED
  BY <1>7, <1>8 DEF RecordInv

LEMMA RestartKeeps == RecordInv /\ Restart => RecordInv'
<1> SUFFICES ASSUME RecordInv, Restart PROVE RecordInv'
  OBVIOUS
<1>1. \A t \in Tools : tool'[t].pc = "idle" /\ tool'[t] \in ToolType
  BY AgentAssumption DEF Restart, NoCall, ToolType, Kinds
<1>2. RunsInv' /\ BegunInv' /\ DoneIsDone'
  BY <1>1 DEF Restart, RecordInv, RunsInv, BegunInv, DoneIsDone, Size, Entries, Runs,
              Steps, history
<1>3. ActiveInv'
  BY DEF Restart, ActiveInv
<1>4. ToolInv'
  BY <1>1 DEF ToolInv, Idle
<1>5. \A id \in Runs : id # 0
  BY AgentAssumption DEF Runs
<1>6. EffectInv'
  BY <1>1, <1>5 DEF Restart, RecordInv, EffectInv, Steps, Runs, history
<1> QED
  BY <1>2, <1>3, <1>4, <1>6 DEF RecordInv

LEMMA ReadyKeeps == RecordInv /\ Ready => RecordInv'
<1> SUFFICES ASSUME RecordInv, Ready PROVE RecordInv'
  OBVIOUS
<1>1. StatesChange
  BY NoChange DEF Ready, RecordInv
<1>2. RunsInv' /\ BegunInv' /\ DoneIsDone' /\ ToolInv' /\ EffectInv'
  BY <1>1, StatesChangeKeeps, DoneSteps DEF Ready, RecordInv, history
<1>3. ActiveInv'
  BY DEF Ready, RecordInv, ActiveInv
<1> QED
  BY <1>2, <1>3 DEF RecordInv

(***************************************************************************)
(* Runs that are submitted and deleted                                     *)
(***************************************************************************)
LEMMA NewRunTyped ==
  ASSUME NEW r \in Requests
  PROVE  /\ NewRun(r) \in RunType /\ NewRun(r).request = r
         /\ NewRun(r).state = "queued" /\ DOMAIN NewRun(r).steps = {}
         /\ NewRun(r).deploys = {}
<1> DEFINE none == [n \in {} |-> {}]
<1>1. none \in [1..0 -> StepStates] /\ 0 \in 0..StepLimit
  BY AgentAssumption
<1>2. none \in UNION {[1..k -> StepStates] : k \in 0..StepLimit} /\ DOMAIN none = {}
  BY <1>1
<1> HIDE DEF none
<1>3. NewRun(r) = [request |-> r, conversation |-> Conversation(r),
                   state |-> "queued", steps |-> none, deploys |-> {}]
  BY DEF NewRun, none
<1>4. "queued" \in Flying \cup Final /\ {} \in SUBSET (1..StepLimit)
      /\ Conversation(r) \in {Conversation(q) : q \in Requests}
  BY DEF Flying
<1> QED
  BY <1>2, <1>3, <1>4 DEF RunType

LEMMA SubmitKeeps ==
  ASSUME RecordInv, NEW r \in Requests, Submit(r)
  PROVE  RecordInv'
<1> DEFINE rec == [id \in DOMAIN record \cup {runs'} |->
                     IF id = runs' THEN NewRun(r) ELSE record[id]]
<1>0. RunsInv /\ ActiveInv /\ BegunInv /\ ToolInv /\ EffectInv /\ DoneIsDone
  BY DEF RecordInv
<1>1. /\ runs' = runs + 1 /\ active = 0 /\ ~Known(r)
      /\ StoredRoom(rec, runs', AcceptLimit)
      /\ (active' = runs' /\ loop' = runs') \/ UNCHANGED <<active, loop>>
      /\ UNCHANGED <<cancel, outbound, tool, allowed, applied>>
      /\ service = "ready" /\ service' = service /\ runs < MaxRuns
  BY DEF Submit
<1>2. cancel = 0 /\ loop = 0 /\ outbound = {} /\ \A t \in Tools : Idle(t)
  BY <1>0, <1>1 DEF ActiveInv, ToolInv
<1>3. /\ runs' \in 1..MaxRuns /\ runs' \notin DOMAIN record /\ runs \in Nat
      /\ DOMAIN record \subseteq 1..runs' /\ MaxRuns \in Nat
  BY <1>0, <1>1, AgentAssumption DEF RunsInv
<1>4. PICK ids \in SUBSET Spare(rec, runs') :
        /\ record' = Without(rec, ids) /\ Size(record') <= AcceptLimit
        /\ begun' = [q \in Requests |->
             IF runs' \notin DOMAIN record /\ q = rec[runs'].request
             THEN (begun[q] \cup {runs'}) \ ids ELSE begun[q] \ ids]
  BY <1>1, RoomMade
<1>5. runs' \notin ids
  BY DEF Spare
<1>6. /\ DOMAIN record' = (DOMAIN record \cup {runs'}) \ ids
      /\ record'[runs'] = NewRun(r)
      /\ \A id \in DOMAIN record \ ids : record'[id] = record[id]
      /\ rec[runs'] = NewRun(r)
      /\ record' = [id \in DOMAIN record' |-> record'[id]]
  BY <1>3, <1>4, <1>5 DEF Without
<1> HIDE DEF rec
<1>7. NewRun(r) \in RunType /\ NewRun(r).request = r
      /\ NewRun(r).state = "queued" /\ DOMAIN NewRun(r).steps = {}
      /\ NewRun(r).deploys = {}
  BY NewRunTyped
<1>8. RunsInv'
  <2>1. \A id \in DOMAIN record' : record'[id] \in RunType
    BY <1>0, <1>6, <1>7 DEF RunsInv
  <2>2. \A id \in DOMAIN record' : record'[id].deploys \subseteq Steps(id)'
    BY <1>0, <1>6, <1>7 DEF RunsInv, Steps
  <2>4. Size(record') \in Nat
    BY SizeMonotone
  <2>3. Size(record)' <= RecordLimit
    BY <1>4, <2>4, AgentAssumption DEF Size, Entries, Runs
  <2> QED
    BY <1>0, <1>1, <1>3, <1>6, <2>1, <2>2, <2>3, AgentAssumption DEF RunsInv
<1>9. ActiveInv'
  <2>1. CASE active' = runs' /\ loop' = runs'
    BY <1>1, <1>2, <1>5, <1>6, <1>7, <2>1 DEF ActiveInv, Flying
  <2>2. CASE UNCHANGED <<active, loop>>
    BY <1>1, <1>2, <2>2 DEF ActiveInv
  <2> QED
    BY <1>1, <2>1, <2>2
<1>10. BegunInv'
  <2>1. \A q \in Requests :
          begun[q] = {id \in DOMAIN record : record[id].request = q}
          /\ \A a, b \in begun[q] : a = b
    BY <1>0 DEF BegunInv
  <2>2. begun[r] = {}
    BY <1>1, <2>1 DEF Known
  <2>3. ASSUME NEW q \in Requests
        PROVE  /\ begun'[q] = {id \in DOMAIN record' : record'[id].request = q}
               /\ \A a, b \in begun'[q] : a = b
    <3>1. CASE q = r
      <4>1. begun'[q] = {runs'}
        BY <1>3, <1>4, <1>5, <1>6, <1>7, <2>2, <3>1
      <4>2. \A id \in DOMAIN record' : record'[id].request = q <=> id = runs'
        BY <1>1, <1>6, <1>7, <3>1 DEF Known
      <4> QED
        BY <1>5, <1>6, <4>1, <4>2
    <3>2. CASE q # r
      <4>1. begun'[q] = begun[q] \ ids
        BY <1>4, <1>6, <1>7, <3>2
      <4>2. runs' \notin begun'[q] /\ record'[runs'].request # q
        BY <1>3, <1>6, <1>7, <2>1, <3>2, <4>1
      <4>3. \A id : id \in begun'[q]
                <=> id \in DOMAIN record' /\ record'[id].request = q
        BY <1>6, <2>1, <4>1, <4>2
      <4> QED
        BY <2>1, <4>1, <4>3
    <3> QED
      BY <3>1, <3>2
  <2> QED
    BY <2>3 DEF BegunInv
<1>11. ToolInv'
  BY <1>1, <1>2 DEF ToolInv, Idle
<1>12. EffectInv'
  <2>1. \A id \in Runs, n \in 1..StepLimit :
          /\ id > runs' => applied[id][n] = 0
          /\ id = active' => applied[id][n] = 0
    BY <1>0, <1>1, <1>3, AgentAssumption DEF EffectInv, Runs
  <2>2. \A id \in DOMAIN record' : \A n \in Steps(id)' :
          record'[id].steps[n] = "authorized" => <<id, n>> \in allowed
    BY <1>0, <1>6, <1>7 DEF EffectInv, Steps
  <2> QED
    BY <1>0, <1>1, <1>2, <2>1, <2>2 DEF EffectInv, Idle, Runs
<1>13. DoneIsDone'
  BY <1>0, <1>1, <1>6, <1>7 DEF DoneIsDone, Steps
<1> QED
  BY <1>8, <1>9, <1>10, <1>11, <1>12, <1>13 DEF RecordInv

LEMMA DeleteKeeps ==
  ASSUME RecordInv, NEW c, DeleteConversation(c)
  PROVE  RecordInv'
<1> DEFINE gone == Undeleted(c)
           Empty(run) == [run EXCEPT !.state = "deleted", !.deploys = {},
                                     !.steps = [n \in {} |-> {}]]
<1>0. RunsInv /\ ActiveInv /\ BegunInv /\ ToolInv /\ EffectInv /\ DoneIsDone
  BY DEF RecordInv
<1>1. /\ active \notin gone
      /\ record' = [id \in DOMAIN record |->
                      IF id \in gone THEN Empty(record[id]) ELSE record[id]]
      /\ UNCHANGED <<service, active, cancel, loop, outbound, tool, runs, begun,
                     allowed, applied>>
  BY DEF DeleteConversation, Deletable, volatile, history
<1>2. ASSUME NEW run \in RunType
      PROVE  /\ Empty(run) \in RunType /\ DOMAIN Empty(run).steps = {}
             /\ Empty(run).request = run.request /\ Empty(run).state = "deleted"
             /\ Empty(run).deploys = {}
  <2> DEFINE none == [n \in {} |-> {}]
  <2>1. none \in [1..0 -> StepStates] /\ 0 \in 0..StepLimit
    BY AgentAssumption
  <2>2. none \in UNION {[1..k -> StepStates] : k \in 0..StepLimit} /\ DOMAIN none = {}
    BY <2>1
  <2>3. Empty(run) = [run EXCEPT !.state = "deleted", !.deploys = {}, !.steps = none]
    OBVIOUS
  <2> HIDE DEF none, Empty
  <2> QED
    BY <1>2, <2>2, <2>3 DEF RunType, Final
<1> HIDE DEF gone, Empty
<1>3. record \in [DOMAIN record -> RunType]
  BY <1>0 DEF RunsInv
<1>4. DOMAIN record' = DOMAIN record
      /\ \A id \in DOMAIN record :
           record'[id] = IF id \in gone THEN Empty(record[id]) ELSE record[id]
  BY <1>1
<1>5. \A id \in DOMAIN record :
        /\ record'[id] \in RunType /\ record'[id].request = record[id].request
        /\ \/ record'[id] = record[id]
           \/ /\ record'[id].state = "deleted" /\ Steps(id)' = {} /\ id # active
              /\ record'[id].deploys = {}
  BY <1>1, <1>2, <1>3, <1>4 DEF Steps
<1>6. RunsInv'
  <2>1. Size(record') \in Nat /\ Size(record') <= Size(record) /\ Size(record) \in Nat
    <3>1. \A id \in DOMAIN record :
            DOMAIN record'[id].steps \subseteq DOMAIN record[id].steps
      BY <1>5 DEF Steps
    <3> QED
      BY <1>4, <3>1, SizeKept
  <2>2. Size(record)' <= RecordLimit
    BY <1>0, <2>1, AgentAssumption DEF RunsInv, Size, Entries, Runs
  <2> QED
    BY <1>0, <1>1, <1>4, <1>5, <2>2 DEF RunsInv, Steps
<1>7. active # 0 => active \in DOMAIN record /\ record'[active] = record[active]
  BY <1>0, <1>1, <1>4 DEF ActiveInv
<1>8. ActiveInv'
  BY <1>0, <1>1, <1>4, <1>7 DEF ActiveInv
<1>9. BegunInv'
  BY <1>0, <1>1, <1>4, <1>5 DEF BegunInv
<1>10. ToolInv'
  <2>1. \A t \in Tools : ~Idle(t) => active # 0
    BY <1>0 DEF ToolInv, ActiveInv
  <2> QED
    BY <1>0, <1>1, <1>7, <2>1 DEF ToolInv, Steps, Idle
<1>11. EffectInv'
  <2>1. \A id \in Runs, n \in 1..StepLimit :
          id = active /\ n \notin Steps(id)' => applied[id][n] = 0
    BY <1>0, <1>7, AgentAssumption DEF EffectInv, Steps, Runs
  <2>2. \A id \in DOMAIN record : \A n \in Steps(id)' :
          record'[id].steps[n] = "authorized" => <<id, n>> \in allowed
    BY <1>0, <1>5 DEF EffectInv, Steps
  <2> QED
    BY <1>0, <1>1, <1>4, <2>1, <2>2 DEF EffectInv, Runs
<1>12. DoneIsDone'
  <2>1. \A id \in DOMAIN record : \A n \in Steps(id)' : record'[id] = record[id]
    BY <1>5
  <2> QED
    BY <1>0, <1>1, <1>4, <2>1 DEF DoneIsDone, Steps
<1> QED
  BY <1>6, <1>8, <1>9, <1>10, <1>11, <1>12 DEF RecordInv

(***************************************************************************)
(* Steps of the active run                                                 *)
(***************************************************************************)
\* A tool call belongs to the run that is active, which is on record.
LEMMA CallsActive ==
  ASSUME RecordInv, NEW t \in Tools, ~Idle(t)
  PROVE  /\ active \in DOMAIN record /\ active \in Runs /\ active # 0
         /\ record[active] \in RunType /\ loop = active
         /\ tool[t] \in ToolType
         /\ tool[t].step \in Steps(active) /\ tool[t].step \in 1..StepLimit
         /\ record[active].steps[tool[t].step] \in Open
         /\ record[active].state \in Flying
<1>1. active # 0 /\ loop = active /\ tool[t].step \in Steps(active)
      /\ record[active].steps[tool[t].step] \in Open
  BY DEF RecordInv, ToolInv, ActiveInv
<1>2. active \in DOMAIN record /\ record[active].state \in Flying
  BY <1>1 DEF RecordInv, ActiveInv
<1>3. record[active] \in RunType /\ tool[t] \in ToolType /\ active \in Runs
  BY <1>2, AgentAssumption DEF RecordInv, RunsInv, Runs
<1>4. PICK k \in 0..StepLimit : DOMAIN record[active].steps = 1..k
  BY <1>3, RunFields, StepsCounted
<1>5. tool[t].step \in 1..StepLimit
  BY <1>1, <1>4, AgentAssumption DEF Steps
<1> QED
  BY <1>1, <1>2, <1>3, <1>5

\* The active run is written, with the steps it has.
LEMMA OneRun ==
  ASSUME RecordInv, active \in DOMAIN record, NEW run \in RunType,
         run.request = record[active].request,
         DOMAIN run.steps = DOMAIN record[active].steps,
         run.deploys = record[active].deploys,
         record' = [record EXCEPT ![active] = run],
         UNCHANGED <<runs, begun>>
  PROVE  /\ DOMAIN record' = DOMAIN record
         /\ record' \in [DOMAIN record' -> RunType]
         /\ DOMAIN record' \subseteq 1..runs' /\ runs' \in 0..MaxRuns
         /\ Size(record)' <= RecordLimit
         /\ record'[active] = run
         /\ \A id \in DOMAIN record \ {active} : record'[id] = record[id]
         /\ \A id \in DOMAIN record : Steps(id)' = Steps(id)
         /\ \A id \in DOMAIN record' : record'[id].deploys \subseteq Steps(id)'
         /\ BegunInv'
<1>0. RunsInv /\ BegunInv
  BY DEF RecordInv
<1>1. record \in [DOMAIN record -> RunType]
  BY <1>0 DEF RunsInv
<1>2. /\ DOMAIN record' = DOMAIN record /\ record'[active] = run
      /\ record' \in [DOMAIN record' -> RunType]
      /\ \A id \in DOMAIN record \ {active} : record'[id] = record[id]
  BY <1>1
<1>3. \A id \in DOMAIN record :
        /\ DOMAIN record'[id].steps = DOMAIN record[id].steps
        /\ record'[id].request = record[id].request
        /\ record'[id].deploys = record[id].deploys
  BY <1>2
<1>4. Size(record') \in Nat /\ Size(record') <= Size(record) /\ Size(record) \in Nat
  BY <1>2, <1>3, SizeKept
<1>5. Size(record)' <= RecordLimit
  BY <1>0, <1>4, AgentAssumption DEF RunsInv, Size, Entries, Runs
<1>6. BegunInv'
  BY <1>0, <1>2, <1>3 DEF BegunInv
<1> QED
  BY <1>0, <1>2, <1>3, <1>5, <1>6 DEF RunsInv, Steps

\* A tool call goes on with its step.
LEMMA CallMoves ==
  ASSUME RecordInv, NEW t \in Tools, ~Idle(t), NEW call \in ToolType,
         tool' = [tool EXCEPT ![t] = call],
         call.step = tool[t].step, call.kind = tool[t].kind,
         call.pc \in {"wait", "do", "save"},
         UNCHANGED <<active, loop, allowed>>,
         Steps(active)' = Steps(active),
         record'[active].deploys = record[active].deploys,
         \A u \in Tools : ~Idle(u) => record'[active].steps[tool[u].step] \in Open,
         call.pc = "wait" => call.kind = "write",
         call.pc = "do" /\ call.kind = "write" => <<active, call.step>> \in allowed
  PROVE  /\ tool' \in [Tools -> ToolType] /\ tool'[t] = call
         /\ \A u \in Tools \ {t} : tool'[u] = tool[u]
         /\ ToolInv'
<1>1. /\ tool' \in [Tools -> ToolType] /\ tool'[t] = call
      /\ \A u \in Tools \ {t} : tool'[u] = tool[u]
  BY DEF RecordInv, RunsInv
<1>2. ASSUME NEW u \in Tools, ~Idle(u)'
      PROVE  /\ ~Idle(u) /\ tool'[u].step = tool[u].step
             /\ tool'[u].kind = tool[u].kind
  BY <1>1, <1>2 DEF Idle
<1>3. ASSUME NEW u \in Tools, ~Idle(u)'
      PROVE  /\ loop' # 0 /\ tool'[u].step \in Steps(active)'
             /\ record'[active'].steps[tool'[u].step] \in Open
             /\ \A v \in Tools \ {u} : ~Idle(v)' => tool'[v].step # tool'[u].step
             /\ tool'[u].kind = "deploy" => tool'[u].step \in record'[active'].deploys
  <2>1. ~Idle(u) /\ tool'[u].step = tool[u].step /\ tool'[u].kind = tool[u].kind
    BY <1>2, <1>3
  <2>2. /\ loop # 0 /\ tool[u].step \in Steps(active)
        /\ \A v \in Tools \ {u} : ~Idle(v) => tool[v].step # tool[u].step
        /\ tool[u].kind = "deploy" => tool[u].step \in record[active].deploys
    BY <2>1 DEF RecordInv, ToolInv
  <2>3. \A v \in Tools \ {u} : ~Idle(v)' => tool'[v].step # tool'[u].step
    BY <1>2, <2>1, <2>2
  <2>4. tool'[u].step \in Steps(active)'
    BY <2>1, <2>2
  <2>5. record'[active'].steps[tool'[u].step] \in Open
    BY <2>1
  <2> QED
    BY <2>1, <2>2, <2>3, <2>4, <2>5
<1>4. ASSUME NEW u \in Tools, ~Idle(u)'
      PROVE  /\ tool'[u].pc = "wait" => tool'[u].kind = "write"
             /\ tool'[u].pc = "do" /\ tool'[u].kind = "write" =>
                  <<active', tool'[u].step>> \in allowed'
  BY <1>1, <1>2, <1>4 DEF RecordInv, ToolInv
<1>5. ToolInv'
  BY <1>3, <1>4 DEF ToolInv, Steps
<1> QED
  BY <1>1, <1>5

\* The call waits on, is refused, or cannot store the grant.
LEMMA CallWaits ==
  ASSUME RecordInv, NEW t \in Tools,
         ToolRefused(t) \/ ToolGrantLost(t) \/ ToolLate(t)
  PROVE  RecordInv'
<1>0. RunsInv /\ ActiveInv /\ BegunInv /\ ToolInv /\ EffectInv /\ DoneIsDone
  BY DEF RecordInv
<1>1. tool[t].pc = "wait" /\ ~Idle(t) /\ tool[t] \in ToolType /\ ~tool[t].ok
  BY <1>0 DEF ToolRefused, ToolGrantLost, ToolLate, Overdue, Idle, RunsInv, EffectInv
<1>2. UNCHANGED <<record, service, active, cancel, loop, outbound, runs, boots,
                  allowed, applied, begun>>
  BY DEF ToolRefused, ToolGrantLost, ToolLate, history
<1>3. PICK call \in ToolType :
        /\ tool' = [tool EXCEPT ![t] = call] /\ call.step = tool[t].step
        /\ call.kind = tool[t].kind /\ call.ok = tool[t].ok
        /\ call.pc \in {"wait", "save"}
  <2>1. CASE ToolRefused(t) \/ ToolGrantLost(t)
    <3>1. tool' = [tool EXCEPT ![t] = [tool[t] EXCEPT !.pc = "save"]]
      BY <1>0, <2>1 DEF ToolRefused, ToolGrantLost, RunsInv
    <3>2. [tool[t] EXCEPT !.pc = "save"] \in ToolType
      BY <1>1 DEF ToolType
    <3> QED
      BY <1>1, <3>1, <3>2 DEF ToolType
  <2>2. CASE ToolLate(t)
    <3>1. tool' = [tool EXCEPT ![t] = [tool[t] EXCEPT !.late = TRUE]]
      BY <1>0, <2>2 DEF ToolLate, RunsInv
    <3>2. [tool[t] EXCEPT !.late = TRUE] \in ToolType
      BY <1>1 DEF ToolType
    <3> QED
      BY <1>1, <3>1, <3>2 DEF ToolType
  <2> QED
    BY <2>1, <2>2
<1>4. tool[t].kind = "write"
  BY <1>0, <1>1 DEF ToolInv
<1>5. \A u \in Tools : ~Idle(u) => record[active].steps[tool[u].step] \in Open
  BY <1>0 DEF ToolInv
<1>6. /\ tool' \in [Tools -> ToolType] /\ tool'[t] = call
      /\ \A u \in Tools \ {t} : tool'[u] = tool[u]
      /\ ToolInv'
  BY <1>1, <1>2, <1>3, <1>4, <1>5, CallMoves DEF Steps
<1>7. RunsInv' /\ BegunInv' /\ DoneIsDone'
  BY <1>0, <1>2, <1>6 DEF RunsInv, BegunInv, DoneIsDone, Steps, Size, Entries, Runs
<1>8. ActiveInv'
  BY <1>0, <1>2 DEF ActiveInv
<1>9. EffectInv'
  BY <1>0, <1>1, <1>2, <1>3, <1>6 DEF EffectInv, Steps, Runs
<1> QED
  BY <1>6, <1>7, <1>8, <1>9 DEF RecordInv

\* The request of the step has its effect, or fails.
LEMMA CallActs ==
  ASSUME RecordInv, NEW t \in Tools, ToolDo(t)
  PROVE  RecordInv'
<1>0. RunsInv /\ ActiveInv /\ BegunInv /\ ToolInv /\ EffectInv /\ DoneIsDone
  BY DEF RecordInv
<1>1. tool[t].pc = "do" /\ ~Idle(t)
  BY DEF ToolDo, Idle
<1>2. /\ active \in DOMAIN record /\ active \in Runs /\ tool[t] \in ToolType
      /\ tool[t].step \in Steps(active) /\ tool[t].step \in 1..StepLimit
      /\ record[active].steps[tool[t].step] \in Open
  BY <1>1, CallsActive
<1>3. PICK ok \in BOOLEAN :
        /\ tool' = [tool EXCEPT ![t].pc = "save", ![t].ok = ok]
        /\ applied' = IF ok THEN [applied EXCEPT ![active][tool[t].step] = @ + 1]
                      ELSE applied
  BY DEF ToolDo
<1>4. UNCHANGED <<record, service, active, cancel, loop, outbound, runs, boots,
                  allowed, begun>>
  BY DEF ToolDo
<1> DEFINE call == [tool[t] EXCEPT !.pc = "save", !.ok = ok]
<1>5. /\ tool' = [tool EXCEPT ![t] = call] /\ call \in ToolType
      /\ call.step = tool[t].step /\ call.kind = tool[t].kind
      /\ call.pc = "save" /\ call.ok = ok
  BY <1>0, <1>2, <1>3 DEF RunsInv, ToolType
<1> HIDE DEF call
<1>6. \A u \in Tools : ~Idle(u) => record[active].steps[tool[u].step] \in Open
  BY <1>0 DEF ToolInv
<1>7. /\ tool' \in [Tools -> ToolType] /\ tool'[t] = call
      /\ \A u \in Tools \ {t} : tool'[u] = tool[u]
      /\ ToolInv'
  BY <1>1, <1>4, <1>5, <1>6, CallMoves DEF Steps
<1>8. applied \in [Runs -> [1..StepLimit -> {0, 1}]] /\ applied[active][tool[t].step] = 0
  BY <1>0, <1>1 DEF EffectInv
<1>9. /\ applied' \in [Runs -> [1..StepLimit -> {0, 1}]]
      /\ \A id \in Runs, n \in 1..StepLimit :
           applied'[id][n] = IF ok /\ id = active /\ n = tool[t].step THEN 1
                             ELSE applied[id][n]
  <2>1. CASE ok
    <3> DEFINE row == [applied[active] EXCEPT ![tool[t].step] = 1]
    <3>1. applied' = [applied EXCEPT ![active] = row]
      BY <1>2, <1>3, <1>8, <2>1
    <3>2. row \in [1..StepLimit -> {0, 1}]
          /\ \A n \in 1..StepLimit :
               row[n] = IF n = tool[t].step THEN 1 ELSE applied[active][n]
      BY <1>2, <1>8
    <3> HIDE DEF row
    <3> QED
      BY <1>2, <1>8, <2>1, <3>1, <3>2
  <2>2. CASE ~ok
    BY <1>3, <1>8, <2>2
  <2> QED
    BY <2>1, <2>2
<1>10. RunsInv' /\ BegunInv'
  BY <1>0, <1>4, <1>7 DEF RunsInv, BegunInv, Size, Entries, Runs, Steps
<1>11. ActiveInv'
  BY <1>0, <1>4 DEF ActiveInv
<1>12. \A id \in DOMAIN record : \A n \in Steps(id) :
         id \in Runs /\ n \in 1..StepLimit
  <2> SUFFICES ASSUME NEW id \in DOMAIN record, NEW n \in Steps(id)
               PROVE  id \in Runs /\ n \in 1..StepLimit
    OBVIOUS
  <2>1. PICK k \in 0..StepLimit : DOMAIN record[id].steps = 1..k
    BY <1>0, RunFields, StepsCounted DEF RunsInv
  <2> QED
    BY <1>0, <2>1, AgentAssumption DEF RunsInv, Runs, Steps
<1>13. DoneIsDone'
  <2>1. \A n \in Steps(active) :
          record[active].steps[n] = "succeeded" => n # tool[t].step
    BY <1>2 DEF Open
  <2>2. \A id \in DOMAIN record : \A n \in Steps(id) :
          record[id].steps[n] = "succeeded" => applied'[id][n] = applied[id][n]
    BY <1>9, <1>12, <2>1
  <2> QED
    BY <1>0, <1>4, <2>2 DEF DoneIsDone, Steps
<1>14. EffectInv'
  <2>1. \A id \in Runs, n \in 1..StepLimit :
          /\ id > runs => applied'[id][n] = 0
          /\ id = active /\ n \notin Steps(id) => applied'[id][n] = 0
    <3>1. active \in 1..runs
      BY <1>0, <1>2 DEF RunsInv
    <3>2. ~(active > runs)
      BY <1>0, <3>1 DEF RunsInv
    <3> QED
      BY <1>0, <1>2, <1>9, <3>2 DEF EffectInv
  <2>2. ASSUME NEW u \in Tools
        PROVE  /\ tool'[u].pc \in {"wait", "do"} =>
                    ~tool'[u].ok /\ applied'[active][tool'[u].step] = 0
               /\ tool'[u].pc = "save" /\ tool'[u].ok =>
                    applied'[active][tool'[u].step] = 1
    <3>1. CASE u = t
      BY <1>2, <1>5, <1>7, <1>9, <3>1
    <3>2. CASE u # t /\ ~Idle(u)
      <4>1. tool[u].step # tool[t].step /\ tool[u].step \in 1..StepLimit
        BY <1>0, <1>1, <3>2, CallsActive DEF ToolInv
      <4>2. tool'[u] = tool[u] /\ applied'[active][tool[u].step] = applied[active][tool[u].step]
        BY <1>2, <1>7, <1>9, <3>2, <4>1
      <4> QED
        BY <1>0, <4>2 DEF EffectInv
    <3>3. CASE u # t /\ Idle(u)
      BY <1>7, <3>3 DEF Idle
    <3> QED
      BY <3>1, <3>2, <3>3
  <2> QED
    BY <1>0, <1>4, <1>9, <2>1, <2>2 DEF EffectInv, Steps, Runs
<1> QED
  BY <1>7, <1>10, <1>11, <1>13, <1>14 DEF RecordInv

\* Steps of the active run are written that no outcome is stored of.
LEMMA OpenWritten ==
  ASSUME RecordInv, active \in DOMAIN record, NEW run \in RunType,
         run.request = record[active].request, run.state \in Flying,
         run.deploys = record[active].deploys,
         DOMAIN run.steps = DOMAIN record[active].steps,
         record' = [record EXCEPT ![active] = run],
         \A n \in Steps(active) :
           \/ run.steps[n] = record[active].steps[n]
           \/ record[active].steps[n] \in Open /\ run.steps[n] \in Open,
         UNCHANGED <<runs, begun, applied, active>>
  PROVE  /\ DoneIsDone'
         /\ \A n \in Steps(active) :
              record[active].steps[n] \in Open => record'[active].steps[n] \in Open
<1>1. /\ DOMAIN record' = DOMAIN record /\ record'[active] = run
      /\ \A id \in DOMAIN record \ {active} : record'[id] = record[id]
      /\ \A id \in DOMAIN record : Steps(id)' = Steps(id)
  BY OneRun
<1>2. \A n \in Steps(active), state \in {"succeeded", "recovered"} :
        run.steps[n] = state <=> record[active].steps[n] = state
  BY DEF Open
<1>3. DoneIsDone
  BY DEF RecordInv
<1>4. ASSUME NEW id \in DOMAIN record, NEW n \in Steps(id), id # active
      PROVE  /\ record[id].steps[n] = "succeeded" => applied[id][n] = 1
             /\ record[id].steps[n] = "recovered" =>
                  \E m \in record[id].deploys : record[id].steps[m] = "succeeded"
             /\ record[id].state = "succeeded" =>
                  record[id].steps[n] \in {"succeeded", "recovered"}
  BY <1>3, <1>4 DEF DoneIsDone, Steps
<1>5. ASSUME NEW n \in Steps(active)
      PROVE  /\ run.steps[n] = "succeeded" => applied[active][n] = 1
             /\ run.steps[n] = "recovered" =>
                  \E m \in run.deploys : run.steps[m] = "succeeded"
             /\ run.state # "succeeded"
  <2>1. run.steps[n] = "succeeded" => applied[active][n] = 1
    BY <1>2, <1>3, <1>5 DEF DoneIsDone
  <2>2. ASSUME run.steps[n] = "recovered"
        PROVE  \E m \in run.deploys : run.steps[m] = "succeeded"
    <3>1. PICK m \in record[active].deploys : record[active].steps[m] = "succeeded"
      BY <1>2, <1>3, <1>5, <2>2 DEF DoneIsDone
    <3>2. run.steps[m] = "succeeded"
      BY <1>2, <3>1 DEF RecordInv, RunsInv
    <3> QED
      BY <3>1, <3>2
  <2> QED
    BY <2>1, <2>2 DEF Flying
<1>6. DoneIsDone'
  BY <1>1, <1>4, <1>5 DEF DoneIsDone
<1> QED
  BY <1>1, <1>6

LEMMA DecideKeeps ==
  ASSUME RecordInv, NEW n \in 1..StepLimit, NEW decision \in {"authorized", "denied"},
         Decide(n, decision)
  PROVE  RecordInv'
<1>0. RunsInv /\ ActiveInv /\ BegunInv /\ ToolInv /\ EffectInv /\ DoneIsDone
  BY DEF RecordInv
<1>1. /\ active # 0 /\ cancel = 0 /\ n \in Steps(active)
      /\ record[active].steps[n] = "pending"
      /\ record' = [record EXCEPT ![active].steps[n] = decision]
      /\ allowed' = IF decision = "authorized" THEN allowed \cup {<<active, n>>}
                    ELSE allowed
      /\ UNCHANGED <<service, active, cancel, loop, outbound, tool, runs, applied,
                     begun>>
  BY DEF Decide, volatile
<1>2. active \in DOMAIN record /\ record[active] \in RunType
      /\ record[active].state \in Flying
  BY <1>0, <1>1 DEF ActiveInv, RunsInv
<1> DEFINE steps == [record[active].steps EXCEPT ![n] = decision]
           run == [record[active] EXCEPT !.steps = steps]
<1>3. PICK k \in 0..StepLimit : record[active].steps \in [1..k -> StepStates]
                                 /\ DOMAIN record[active].steps = 1..k
  BY <1>2, RunFields, StepsCounted
<1>4. /\ steps \in [1..k -> StepStates] /\ DOMAIN steps = 1..k /\ steps[n] = decision
      /\ \A m \in 1..k : m # n => steps[m] = record[active].steps[m]
  BY <1>1, <1>3 DEF StepStates, Steps
<1>5. record' = [record EXCEPT ![active] = run]
  BY <1>0, <1>1, <1>2 DEF RunsInv, RunType
<1> HIDE DEF steps
<1>6. /\ run \in RunType /\ run.steps = steps /\ run.state = record[active].state
      /\ run.request = record[active].request /\ run.deploys = record[active].deploys
  <2>1. steps \in UNION {[1..j -> StepStates] : j \in 0..StepLimit}
    BY <1>4
  <2> QED
    BY <1>2, <2>1 DEF RunType
<1> HIDE DEF run
<1>7. \A m \in Steps(active) :
        \/ run.steps[m] = record[active].steps[m]
        \/ record[active].steps[m] \in Open /\ run.steps[m] \in Open
  BY <1>1, <1>3, <1>4, <1>6 DEF Steps, Open
<1>8. /\ DOMAIN record' = DOMAIN record
      /\ record' \in [DOMAIN record' -> RunType]
      /\ DOMAIN record' \subseteq 1..runs' /\ runs' \in 0..MaxRuns
      /\ Size(record)' <= RecordLimit
      /\ record'[active] = run
      /\ \A id \in DOMAIN record \ {active} : record'[id] = record[id]
      /\ \A id \in DOMAIN record : Steps(id)' = Steps(id)
      /\ \A id \in DOMAIN record' : record'[id].deploys \subseteq Steps(id)'
      /\ BegunInv'
  BY <1>1, <1>2, <1>3, <1>4, <1>5, <1>6, OneRun
<1>9. /\ DoneIsDone'
      /\ \A m \in Steps(active) :
           record[active].steps[m] \in Open => record'[active].steps[m] \in Open
  BY <1>1, <1>2, <1>3, <1>4, <1>5, <1>6, <1>7, OpenWritten
<1>10. RunsInv'
  BY <1>0, <1>1, <1>8 DEF RunsInv
<1>11. ActiveInv'
  BY <1>0, <1>1, <1>2, <1>6, <1>8 DEF ActiveInv
<1>12. ToolInv'
  <2>1. \A t \in Tools : ~Idle(t) =>
          /\ tool[t].step \in Steps(active)' /\ tool[t].step \in Steps(active)
          /\ record'[active].steps[tool[t].step] \in Open
          /\ record'[active].deploys = record[active].deploys
    BY <1>0, <1>1, <1>2, <1>6, <1>8, <1>9 DEF ToolInv, Steps
  <2> QED
    BY <1>0, <1>1, <2>1 DEF ToolInv, Idle, Steps
<1>13. EffectInv'
  <2>1. \A id \in DOMAIN record' : \A m \in Steps(id)' :
          record'[id].steps[m] = "authorized" => <<id, m>> \in allowed'
    <3> SUFFICES ASSUME NEW id \in DOMAIN record, NEW m \in Steps(id),
                        record'[id].steps[m] = "authorized"
                 PROVE  <<id, m>> \in allowed'
      BY <1>8
    <3>1. CASE id = active /\ m = n
      BY <1>1, <1>4, <1>6, <1>8, <3>1
    <3>2. CASE ~(id = active /\ m = n)
      <4>1. record[id].steps[m] = "authorized"
        BY <1>3, <1>4, <1>6, <1>8, <3>2 DEF Steps
      <4> QED
        BY <1>0, <1>1, <4>1 DEF EffectInv
    <3> QED
      BY <3>1, <3>2
  <2>2. \A id \in Runs, m \in 1..StepLimit :
          id = active /\ m \notin Steps(id)' => applied[id][m] = 0
    BY <1>0, <1>2, <1>8 DEF EffectInv
  <2> QED
    BY <1>0, <1>1, <2>1, <2>2 DEF EffectInv, Runs
<1> QED
  BY <1>8, <1>9, <1>10, <1>11, <1>12, <1>13 DEF RecordInv

\* The owner allowed the step: it is on record as started before it is taken.
LEMMA GrantKeeps ==
  ASSUME RecordInv, NEW t \in Tools, ToolGranted(t)
  PROVE  RecordInv'
<1>0. RunsInv /\ ActiveInv /\ BegunInv /\ ToolInv /\ EffectInv /\ DoneIsDone
  BY DEF RecordInv
<1> DEFINE n == tool[t].step
           steps == [record[active].steps EXCEPT ![n] = "started"]
           state == IF \E m \in DOMAIN steps : steps[m] = "pending"
                    THEN record[active].state ELSE "running"
           run == [record[active] EXCEPT !.steps = steps, !.state = state]
           call == [tool[t] EXCEPT !.pc = "do"]
<1>1. /\ tool[t].pc = "wait" /\ ~Idle(t) /\ cancel = 0
      /\ record[active].steps[n] = "authorized"
      /\ record' = [record EXCEPT ![active].steps = steps, ![active].state = state]
      /\ tool' = [tool EXCEPT ![t].pc = "do"]
      /\ UNCHANGED <<service, active, cancel, loop, outbound, runs, allowed,
                     applied, begun>>
  BY DEF ToolGranted, Granted, Idle, history
<1>2. /\ active \in DOMAIN record /\ active \in Runs /\ record[active] \in RunType
      /\ tool[t] \in ToolType /\ n \in Steps(active) /\ n \in 1..StepLimit
      /\ record[active].state \in Flying
  BY <1>1, CallsActive
<1>3. PICK k \in 0..StepLimit : record[active].steps \in [1..k -> StepStates]
                                 /\ DOMAIN record[active].steps = 1..k
  BY <1>2, RunFields, StepsCounted
<1>4. /\ steps \in [1..k -> StepStates] /\ DOMAIN steps = 1..k
      /\ steps[n] = "started"
      /\ \A m \in 1..k : m # n => steps[m] = record[active].steps[m]
  BY <1>2, <1>3 DEF StepStates, Steps
<1>5. record' = [record EXCEPT ![active] = run]
  BY <1>0, <1>1, <1>2 DEF RunsInv, RunType
<1>6. state \in Flying
  BY <1>2 DEF Flying
<1>7. tool' = [tool EXCEPT ![t] = call] /\ call \in ToolType
      /\ call.step = n /\ call.kind = tool[t].kind /\ call.pc = "do"
      /\ call.ok = tool[t].ok
  BY <1>0, <1>1, <1>2 DEF RunsInv, ToolType
<1> HIDE DEF steps, state, call
<1>8. /\ run \in RunType /\ run.steps = steps /\ run.state = state
      /\ run.request = record[active].request /\ run.deploys = record[active].deploys
  <2>1. steps \in UNION {[1..j -> StepStates] : j \in 0..StepLimit}
    BY <1>4
  <2> QED
    BY <1>2, <1>6, <2>1 DEF RunType
<1> HIDE DEF run
<1>9. \A m \in Steps(active) :
        \/ run.steps[m] = record[active].steps[m]
        \/ record[active].steps[m] \in Open /\ run.steps[m] \in Open
  BY <1>1, <1>3, <1>4, <1>8 DEF Steps, Open
<1>10. /\ DOMAIN record' = DOMAIN record
       /\ record' \in [DOMAIN record' -> RunType]
       /\ DOMAIN record' \subseteq 1..runs' /\ runs' \in 0..MaxRuns
       /\ Size(record)' <= RecordLimit
       /\ record'[active] = run
       /\ \A id \in DOMAIN record \ {active} : record'[id] = record[id]
       /\ \A id \in DOMAIN record : Steps(id)' = Steps(id)
       /\ \A id \in DOMAIN record' : record'[id].deploys \subseteq Steps(id)'
       /\ BegunInv'
  BY <1>1, <1>2, <1>3, <1>4, <1>5, <1>8, OneRun
<1>11. /\ DoneIsDone'
       /\ \A m \in Steps(active) :
            record[active].steps[m] \in Open => record'[active].steps[m] \in Open
  BY <1>1, <1>2, <1>3, <1>4, <1>5, <1>6, <1>8, <1>9, OpenWritten
<1>12. /\ tool' \in [Tools -> ToolType] /\ tool'[t] = call
       /\ \A u \in Tools \ {t} : tool'[u] = tool[u]
       /\ ToolInv'
  <2>1. \A u \in Tools : ~Idle(u) => record'[active].steps[tool[u].step] \in Open
    BY <1>0, <1>11 DEF ToolInv
  <2>2. <<active, n>> \in allowed
    BY <1>0, <1>1, <1>2 DEF EffectInv
  <2>3. Steps(active)' = Steps(active)
    BY <1>1, <1>2, <1>10 DEF Steps
  <2>4. record'[active].deploys = record[active].deploys
    BY <1>8, <1>10
  <2>5. UNCHANGED <<active, loop, allowed>>
    BY <1>1
  <2> QED
    BY <1>1, <1>7, <2>1, <2>2, <2>3, <2>4, <2>5, CallMoves
<1>13. RunsInv'
  BY <1>10, <1>12 DEF RunsInv
<1>14. ActiveInv'
  BY <1>0, <1>1, <1>2, <1>6, <1>8, <1>10 DEF ActiveInv
<1>15. EffectInv'
  <2>1. \A id \in DOMAIN record' : \A m \in Steps(id)' :
          record'[id].steps[m] = "authorized" => <<id, m>> \in allowed
    <3> SUFFICES ASSUME NEW id \in DOMAIN record, NEW m \in Steps(id),
                        record'[id].steps[m] = "authorized"
                 PROVE  <<id, m>> \in allowed
      BY <1>10
    <3>1. record[id].steps[m] = "authorized"
      BY <1>3, <1>4, <1>8, <1>10 DEF Steps
    <3> QED
      BY <1>0, <3>1 DEF EffectInv
  <2>2. \A id \in Runs, m \in 1..StepLimit :
          id = active /\ m \notin Steps(id)' => applied[id][m] = 0
    BY <1>0, <1>2, <1>10 DEF EffectInv
  <2>3. ASSUME NEW u \in Tools
        PROVE  /\ tool'[u].pc \in {"wait", "do"} =>
                    ~tool'[u].ok /\ applied[active][tool'[u].step] = 0
               /\ tool'[u].pc = "save" /\ tool'[u].ok =>
                    applied[active][tool'[u].step] = 1
    BY <1>0, <1>1, <1>7, <1>12 DEF EffectInv
  <2> QED
    BY <1>0, <1>1, <2>1, <2>2, <2>3 DEF EffectInv, Runs
<1> QED
  BY <1>10, <1>11, <1>12, <1>13, <1>14, <1>15 DEF RecordInv

\* The outcome of the step is stored, or not.
LEMMA SaveKeeps ==
  ASSUME RecordInv, NEW t \in Tools, ToolSave(t)
  PROVE  RecordInv'
<1>0. RunsInv /\ ActiveInv /\ BegunInv /\ ToolInv /\ EffectInv /\ DoneIsDone
  BY DEF RecordInv
<1> DEFINE own == tool[t].step
           old == record[active].steps
           new == [n \in DOMAIN old |-> IF n = own THEN Outcome(t)
                                       ELSE IF Recovered(t, n) THEN "recovered"
                                       ELSE old[n]]
           run == [record[active] EXCEPT !.steps = new]
<1>1. /\ tool[t].pc = "save" /\ ~Idle(t)
      /\ tool' = [tool EXCEPT ![t] = NoCall]
      /\ UNCHANGED <<service, active, cancel, loop, outbound, runs, allowed,
                     applied, begun>>
      /\ record' = [record EXCEPT ![active].steps = new] \/ record' = record
  BY DEF ToolSave, Idle, history
<1>2. /\ active \in DOMAIN record /\ active \in Runs /\ record[active] \in RunType
      /\ tool[t] \in ToolType /\ own \in Steps(active) /\ own \in 1..StepLimit
      /\ old[own] \in Open /\ record[active].state \in Flying
  BY <1>1, CallsActive
<1>3. PICK k \in 0..StepLimit : old \in [1..k -> StepStates] /\ DOMAIN old = 1..k
  BY <1>2, RunFields, StepsCounted
<1>4. /\ new \in [1..k -> StepStates] /\ DOMAIN new = 1..k /\ new[own] = Outcome(t)
      /\ \A n \in 1..k : n # own =>
           new[n] = IF Recovered(t, n) THEN "recovered" ELSE old[n]
  BY <1>2, <1>3 DEF StepStates, Steps, Outcome
<1>5. \A n \in 1..k : Recovered(t, n) =>
        tool[t].ok /\ tool[t].kind = "deploy" /\ old[n] = "failed"
  BY DEF Recovered
<1>6. record' = [record EXCEPT ![active] = run] \/ record' = record
  BY <1>0, <1>1, <1>2 DEF RunsInv, RunType
<1> HIDE DEF new
<1>7. /\ run \in RunType /\ run.steps = new /\ run.state = record[active].state
      /\ run.request = record[active].request /\ run.deploys = record[active].deploys
  <2>1. new \in UNION {[1..j -> StepStates] : j \in 0..StepLimit}
    BY <1>4
  <2> QED
    BY <1>2, <2>1 DEF RunType
<1> HIDE DEF run
<1>8. /\ tool' \in [Tools -> ToolType] /\ tool'[t] = NoCall
      /\ \A u \in Tools \ {t} : tool'[u] = tool[u]
  <2>1. NoCall \in ToolType
    BY AgentAssumption DEF NoCall, ToolType, Kinds
  <2> QED
    BY <1>0, <1>1, <2>1 DEF RunsInv
<1>9. \A u \in Tools : ~Idle(u)' => u # t /\ ~Idle(u) /\ tool'[u] = tool[u]
  BY <1>8 DEF Idle, NoCall
<1>10. ASSUME NEW u \in Tools
       PROVE  /\ tool'[u].pc \in {"wait", "do"} =>
                   ~tool'[u].ok /\ applied[active][tool'[u].step] = 0
              /\ tool'[u].pc = "save" /\ tool'[u].ok =>
                   applied[active][tool'[u].step] = 1
  BY <1>0, <1>8 DEF EffectInv, NoCall
<1>11. CASE record' = record
  <2>1. RunsInv' /\ BegunInv' /\ DoneIsDone'
    BY <1>0, <1>1, <1>8, <1>11 DEF RunsInv, BegunInv, DoneIsDone, Steps, Size,
                                    Entries, Runs
  <2>2. ActiveInv'
    BY <1>0, <1>1, <1>11 DEF ActiveInv
  <2>3. ToolInv'
    BY <1>0, <1>1, <1>9, <1>11 DEF ToolInv, Steps
  <2>4. EffectInv'
    BY <1>0, <1>1, <1>10, <1>11 DEF EffectInv, Steps, Runs
  <2> QED
    BY <2>1, <2>2, <2>3, <2>4 DEF RecordInv
<1>12. CASE record' = [record EXCEPT ![active] = run]
  <2>1. /\ DOMAIN record' = DOMAIN record
        /\ record' \in [DOMAIN record' -> RunType]
        /\ DOMAIN record' \subseteq 1..runs' /\ runs' \in 0..MaxRuns
        /\ Size(record)' <= RecordLimit
        /\ record'[active] = run
        /\ \A id \in DOMAIN record \ {active} : record'[id] = record[id]
        /\ \A id \in DOMAIN record : Steps(id)' = Steps(id)
        /\ \A id \in DOMAIN record' : record'[id].deploys \subseteq Steps(id)'
        /\ BegunInv'
    BY <1>1, <1>2, <1>3, <1>4, <1>7, <1>12, OneRun
  <2>2. RunsInv'
    BY <1>8, <2>1 DEF RunsInv
  <2>3. ActiveInv'
    BY <1>0, <1>1, <1>2, <1>7, <2>1 DEF ActiveInv
  <2>4. ToolInv'
    <3>1. ASSUME NEW u \in Tools, ~Idle(u)'
          PROVE  /\ loop # 0 /\ tool[u].step \in Steps(active)
                 /\ new[tool[u].step] \in Open
      <4>1. ~Idle(u) /\ u # t
        BY <1>9, <3>1
      <4>2. /\ loop # 0 /\ tool[u].step \in Steps(active)
            /\ old[tool[u].step] \in Open /\ tool[u].step # own
        BY <1>0, <1>1, <4>1 DEF ToolInv
      <4> QED
        BY <1>3, <1>4, <1>5, <4>2 DEF Open, Steps
    <3>2. Steps(active)' = Steps(active)
      BY <1>1, <1>2, <2>1 DEF Steps
    <3> QED
      BY <1>0, <1>1, <1>7, <1>9, <2>1, <3>1, <3>2 DEF ToolInv
  <2>5. EffectInv'
    <3>1. \A id \in DOMAIN record' : \A m \in Steps(id)' :
            record'[id].steps[m] = "authorized" => <<id, m>> \in allowed
      <4> SUFFICES ASSUME NEW id \in DOMAIN record, NEW m \in Steps(id),
                          record'[id].steps[m] = "authorized"
                   PROVE  <<id, m>> \in allowed
        BY <2>1
      <4>1. record[id].steps[m] = "authorized"
        BY <1>3, <1>4, <1>7, <2>1 DEF Steps, Outcome
      <4> QED
        BY <1>0, <4>1 DEF EffectInv
    <3>2. \A id \in Runs, m \in 1..StepLimit :
            id = active /\ m \notin Steps(id)' => applied[id][m] = 0
      BY <1>0, <1>2, <2>1 DEF EffectInv
    <3> QED
      BY <1>0, <1>1, <1>10, <3>1, <3>2 DEF EffectInv, Runs
  <2>6. ASSUME NEW n \in 1..k
        PROVE  /\ new[n] = "succeeded" => applied[active][n] = 1
               /\ new[n] = "recovered" =>
                    \E m \in run.deploys : new[m] = "succeeded"
    <3>1. CASE n = own
      BY <1>0, <1>1, <1>4, <3>1 DEF Outcome, EffectInv
    <3>2. CASE n # own /\ Recovered(t, n)
      <4>1. tool[t].ok /\ own \in record[active].deploys
        BY <1>0, <1>1, <1>5, <3>2 DEF ToolInv
      <4> QED
        BY <1>4, <1>7, <3>2, <4>1 DEF Outcome
    <3>3. CASE n # own /\ ~Recovered(t, n)
      <4>1. new[n] = old[n] /\ n \in Steps(active)
        BY <1>3, <1>4, <3>3 DEF Steps
      <4>2. new[n] = "succeeded" => applied[active][n] = 1
        BY <1>0, <1>2, <4>1 DEF DoneIsDone
      <4>3. ASSUME new[n] = "recovered"
            PROVE  \E m \in run.deploys : new[m] = "succeeded"
        <5>1. PICK m \in record[active].deploys : old[m] = "succeeded"
          BY <1>0, <1>2, <4>1, <4>3 DEF DoneIsDone
        <5>2. m \in 1..k /\ m # own
          BY <1>0, <1>2, <1>3, <5>1 DEF RunsInv, Steps, Open
        <5>3. new[m] = "succeeded"
          BY <1>4, <1>5, <5>1, <5>2
        <5> QED
          BY <1>7, <5>1, <5>3
      <4> QED
        BY <4>2, <4>3
    <3> QED
      BY <3>1, <3>2, <3>3
  <2>7. DoneIsDone'
    <3>1. ASSUME NEW id \in DOMAIN record, NEW n \in Steps(id), id # active
          PROVE  /\ record[id].steps[n] = "succeeded" => applied[id][n] = 1
                 /\ record[id].steps[n] = "recovered" =>
                      \E m \in record[id].deploys : record[id].steps[m] = "succeeded"
                 /\ record[id].state = "succeeded" =>
                      record[id].steps[n] \in {"succeeded", "recovered"}
      BY <1>0, <3>1 DEF DoneIsDone
    <3>2. Steps(active) = 1..k /\ run.state # "succeeded"
      BY <1>2, <1>3, <1>7 DEF Steps, Flying
    <3> QED
      BY <1>1, <1>7, <2>1, <2>6, <3>1, <3>2 DEF DoneIsDone
  <2> QED
    BY <2>1, <2>2, <2>3, <2>4, <2>5, <2>7 DEF RecordInv
<1> QED
  BY <1>6, <1>11, <1>12

\* A tool call puts its step on record, after those there are.
LEMMA BeginKeeps ==
  ASSUME RecordInv, NEW t \in Tools, ToolBegin(t)
  PROVE  RecordInv'
<1>0. RunsInv /\ ActiveInv /\ BegunInv /\ ToolInv /\ EffectInv /\ DoneIsDone
  BY DEF RecordInv
<1> DEFINE old == record[active]
           n == Cardinality(Steps(active)) + 1
           remote == old.request \in Remote
           Waits(kind) == kind = "write" /\ ~remote
           Written(kind) == [m \in 1..n |-> IF m < n THEN old.steps[m]
                                           ELSE IF Waits(kind) THEN "pending"
                                           ELSE "started"]
           Later(kind) == [old EXCEPT
             !.state = IF Waits(kind) THEN "waiting_approval" ELSE @,
             !.deploys = IF kind = "deploy" THEN @ \cup {n} ELSE @,
             !.steps = Written(kind)]
           PC(kind) == IF Waits(kind) THEN "wait"
                       ELSE IF remote /\ kind # "read" THEN "save" ELSE "do"
           Called(kind) == [NoCall EXCEPT !.step = n, !.kind = kind, !.pc = PC(kind)]
<1>1. PICK kind \in Kinds :
        /\ StoredRoom([record EXCEPT ![active] = Later(kind)], active, RecordLimit)
        /\ tool' = [tool EXCEPT ![t] = Called(kind)]
  BY DEF ToolBegin
<1>2. /\ loop # 0 /\ Idle(t) /\ active # 0 /\ cancel = 0
      /\ Cardinality(Steps(active)) < StepLimit
      /\ UNCHANGED <<service, active, cancel, loop, outbound, runs, allowed,
                     applied>>
  BY DEF ToolBegin, MayStep, StepsLeft
<1>3. /\ active \in DOMAIN record /\ old \in RunType /\ old.state \in Flying
      /\ active \in Runs /\ active \in 1..runs
  BY <1>0, <1>2, AgentAssumption DEF ActiveInv, RunsInv, Runs
<1>4. PICK k \in 0..StepLimit :
        /\ old.steps \in [1..k -> StepStates] /\ Steps(active) = 1..k
        /\ Cardinality(Steps(active)) = k
  BY <1>3, RunFields, StepsCounted DEF Steps
<1>5. n = k + 1 /\ n \in 1..StepLimit /\ n \notin Steps(active) /\ k \in Nat
  BY <1>2, <1>4, AgentAssumption
<1> DEFINE new == Written(kind)
           run == Later(kind)
           call == Called(kind)
<1>6. /\ new \in [1..n -> StepStates] /\ DOMAIN new = 1..n
      /\ \A m \in 1..k : new[m] = old.steps[m]
      /\ new[n] \in {"pending", "started"}
  BY <1>4, <1>5 DEF StepStates
<1>7. /\ call \in ToolType /\ call.step = n /\ call.kind = kind /\ ~call.ok
      /\ call.pc \in {"wait", "do", "save"}
      /\ call.pc = "wait" => kind = "write"
      /\ call.pc = "do" => kind # "write"
  <2>1. PICK pc \in {"wait", "do", "save"} :
          /\ pc = PC(kind)
          /\ pc = "wait" => kind = "write"
          /\ pc = "do" => kind # "write"
    BY DEF Kinds
  <2>2. call = [NoCall EXCEPT !.step = n, !.kind = kind, !.pc = pc]
    BY <2>1
  <2> HIDE DEF call, n
  <2>3. call = [pc |-> pc, step |-> n, kind |-> kind, late |-> FALSE, ok |-> FALSE]
    BY <2>2 DEF NoCall
  <2> QED
    BY <1>5, <2>1, <2>3 DEF ToolType
<1> HIDE DEF new, call
<1>8. /\ run \in RunType /\ run.steps = new /\ run.state \in Flying
      /\ run.request = old.request
      /\ run.deploys = IF kind = "deploy" THEN old.deploys \cup {n} ELSE old.deploys
  <2> DEFINE state == IF Waits(kind) THEN "waiting_approval" ELSE old.state
             deploys == IF kind = "deploy" THEN old.deploys \cup {n} ELSE old.deploys
  <2>1. run = [old EXCEPT !.state = state, !.deploys = deploys, !.steps = new]
    BY <1>3 DEF new, RunType
  <2>2. state \in Flying /\ deploys \in SUBSET (1..StepLimit)
    BY <1>3, <1>5 DEF Flying, RunType
  <2>3. new \in UNION {[1..j -> StepStates] : j \in 0..StepLimit}
    BY <1>5, <1>6
  <2> HIDE DEF run, state
  <2> QED
    BY <1>3, <2>1, <2>2, <2>3 DEF RunType
<1> HIDE DEF run, Later
<1> DEFINE rec == [record EXCEPT ![active] = run]
<1>9. StoredRoom(rec, active, RecordLimit) /\ tool' = [tool EXCEPT ![t] = call]
  BY <1>1 DEF run, call
<1> HIDE DEF rec
<1>10. PICK ids \in SUBSET Spare(rec, active) :
         /\ record' = Without(rec, ids) /\ Size(record') <= RecordLimit
         /\ begun' = [r \in Requests |->
              IF active \notin DOMAIN record /\ r = rec[active].request
              THEN (begun[r] \cup {active}) \ ids ELSE begun[r] \ ids]
  BY <1>9, RoomMade
<1>11. /\ active \notin ids /\ DOMAIN record' = DOMAIN record \ ids
       /\ record'[active] = run
       /\ \A id \in DOMAIN record' \ {active} : record'[id] = record[id]
       /\ record' = [id \in DOMAIN record' |-> record'[id]]
       /\ begun' = [r \in Requests |-> begun[r] \ ids]
  <2>1. active \notin ids
    BY DEF Spare
  <2>2. record \in [DOMAIN record -> RunType]
    BY <1>0 DEF RunsInv
  <2>3. rec[active] = run /\ DOMAIN rec = DOMAIN record
        /\ \A id \in DOMAIN record \ {active} : rec[id] = record[id]
    BY <1>3, <2>2 DEF rec
  <2> QED
    BY <1>3, <1>10, <2>1, <2>3 DEF Without
<1>12. /\ tool' \in [Tools -> ToolType] /\ tool'[t] = call
       /\ \A u \in Tools \ {t} : tool'[u] = tool[u]
  BY <1>0, <1>7, <1>9 DEF RunsInv
<1>13. RunsInv'
  <2>1. \A id \in DOMAIN record' :
          record'[id] \in RunType /\ record'[id].deploys \subseteq Steps(id)'
    <3>1. record'[active].deploys \subseteq Steps(active)'
      <4>1. old.deploys \subseteq 1..k
        BY <1>0, <1>3, <1>4 DEF RunsInv
      <4>2. Steps(active)' = 1..n
        BY <1>2, <1>6, <1>8, <1>11 DEF Steps
      <4> QED
        BY <1>5, <1>8, <1>11, <4>1, <4>2
    <3> QED
      BY <1>0, <1>2, <1>8, <1>11, <3>1 DEF RunsInv, Steps
  <2>2. Size(record)' <= RecordLimit
    BY <1>10 DEF Size, Entries, Runs
  <2> QED
    BY <1>0, <1>2, <1>11, <1>12, <2>1, <2>2 DEF RunsInv
<1>14. ActiveInv'
  BY <1>0, <1>2, <1>3, <1>8, <1>11 DEF ActiveInv
<1>15. BegunInv'
  BY <1>0, <1>8, <1>11 DEF BegunInv
<1>16. /\ Steps(active)' = 1..n /\ record'[active'].steps = new
       /\ record'[active'].deploys = run.deploys
  BY <1>2, <1>6, <1>8, <1>11 DEF Steps
<1>17. ToolInv'
  <2>1. ASSUME NEW u \in Tools, ~Idle(u)'
        PROVE  /\ loop' # 0 /\ tool'[u].step \in 1..n
               /\ new[tool'[u].step] \in Open
               /\ \A v \in Tools \ {u} : ~Idle(v)' => tool'[v].step # tool'[u].step
               /\ tool'[u].kind = "deploy" => tool'[u].step \in run.deploys
               /\ tool'[u].pc = "wait" => tool'[u].kind = "write"
               /\ tool'[u].pc = "do" /\ tool'[u].kind = "write" =>
                    <<active, tool'[u].step>> \in allowed
    <3>1. \A v \in Tools : v # t /\ ~Idle(v)' =>
            /\ tool'[v] = tool[v] /\ ~Idle(v) /\ tool[v].step \in 1..k
      BY <1>0, <1>4, <1>12 DEF ToolInv, Idle
    <3>2. CASE u = t
      BY <1>2, <1>5, <1>6, <1>7, <1>8, <1>12, <3>1, <3>2 DEF Open
    <3>3. CASE u # t
      <4>1. /\ tool'[u] = tool[u] /\ ~Idle(u) /\ tool[u].step \in 1..k
            /\ tool[u].step \in 1..n /\ new[tool[u].step] = old.steps[tool[u].step]
        BY <1>5, <1>6, <2>1, <3>1, <3>3
      <4>2. \A v \in Tools \ {u} : ~Idle(v)' => tool'[v].step # tool[u].step
        <5> SUFFICES ASSUME NEW v \in Tools \ {u}, ~Idle(v)'
                     PROVE  tool'[v].step # tool[u].step
          OBVIOUS
        <5>1. CASE v = t
          BY <1>5, <1>7, <1>12, <4>1, <5>1
        <5>2. CASE v # t
          BY <1>0, <3>1, <4>1, <5>2 DEF ToolInv
        <5> QED
          BY <5>1, <5>2
      <4> QED
        BY <1>0, <1>2, <1>8, <4>1, <4>2 DEF ToolInv
    <3> QED
      BY <3>2, <3>3
  <2> QED
    BY <1>2, <1>16, <2>1 DEF ToolInv
<1>18. EffectInv'
  <2>1. \A id \in DOMAIN record' : \A m \in Steps(id)' :
          record'[id].steps[m] = "authorized" => <<id, m>> \in allowed
    <3> SUFFICES ASSUME NEW id \in DOMAIN record', NEW m \in Steps(id)',
                        record'[id].steps[m] = "authorized"
                 PROVE  <<id, m>> \in allowed
      OBVIOUS
    <3>1. id \in DOMAIN record /\ m \in Steps(id)
          /\ record[id].steps[m] = "authorized"
      BY <1>2, <1>4, <1>5, <1>6, <1>8, <1>11, <1>16 DEF Steps
    <3> QED
      BY <1>0, <3>1 DEF EffectInv
  <2>2. \A id \in Runs, m \in 1..StepLimit :
          id = active /\ m \notin Steps(id)' => applied[id][m] = 0
    <3>1. Steps(active) \subseteq 1..n
      BY <1>4, <1>5
    <3>2. \A m : m \notin Steps(active)' => m \notin Steps(active)
      BY <1>16, <3>1
    <3> QED
      BY <1>0, <1>2, <3>2 DEF EffectInv, Steps
  <2>3. applied[active][n] = 0
    BY <1>0, <1>3, <1>5 DEF EffectInv
  <2>4. ASSUME NEW u \in Tools
        PROVE  /\ tool'[u].pc \in {"wait", "do"} =>
                    ~tool'[u].ok /\ applied[active][tool'[u].step] = 0
               /\ tool'[u].pc = "save" /\ tool'[u].ok =>
                    applied[active][tool'[u].step] = 1
    BY <1>0, <1>7, <1>12, <2>3 DEF EffectInv
  <2> QED
    BY <1>0, <1>2, <2>1, <2>2, <2>4 DEF EffectInv, Runs
<1>19. DoneIsDone'
  <2>1. ASSUME NEW id \in DOMAIN record', NEW m \in Steps(id)', id # active
        PROVE  /\ record'[id].steps[m] = "succeeded" => applied[id][m] = 1
               /\ record'[id].steps[m] = "recovered" =>
                    \E j \in record'[id].deploys : record'[id].steps[j] = "succeeded"
               /\ record'[id].state = "succeeded" =>
                    record'[id].steps[m] \in {"succeeded", "recovered"}
    <3>1. record'[id] = record[id] /\ id \in DOMAIN record
      BY <1>11, <2>1
    <3> QED
      BY <1>0, <2>1, <3>1 DEF DoneIsDone, Steps
  <2>2. ASSUME NEW m \in 1..n
        PROVE  /\ new[m] = "succeeded" => applied[active][m] = 1
               /\ new[m] = "recovered" =>
                    \E j \in run.deploys : new[j] = "succeeded"
    <3>1. CASE m = n
      BY <1>6, <3>1
    <3>2. CASE m # n
      <4>1. m \in Steps(active) /\ new[m] = old.steps[m]
        BY <1>4, <1>5, <1>6, <3>2
      <4>2. new[m] = "succeeded" => applied[active][m] = 1
        BY <1>0, <1>3, <4>1 DEF DoneIsDone
      <4>3. ASSUME new[m] = "recovered"
            PROVE  \E j \in run.deploys : new[j] = "succeeded"
        <5>1. PICK j \in old.deploys : old.steps[j] = "succeeded"
          BY <1>0, <1>3, <4>1, <4>3 DEF DoneIsDone
        <5>2. j \in 1..k
          BY <1>0, <1>3, <1>4, <5>1 DEF RunsInv
        <5> QED
          BY <1>6, <1>8, <5>1, <5>2
      <4> QED
        BY <4>2, <4>3
    <3> QED
      BY <3>1, <3>2
  <2>3. run.state # "succeeded"
    BY <1>8 DEF Flying
  <2>4. ASSUME NEW m \in Steps(active)'
        PROVE  /\ record'[active].steps[m] = "succeeded" => applied[active][m] = 1
               /\ record'[active].steps[m] = "recovered" =>
                    \E j \in record'[active].deploys :
                      record'[active].steps[j] = "succeeded"
               /\ record'[active].state # "succeeded"
    BY <1>8, <1>11, <1>16, <2>2, <2>3, <2>4
  <2>5. \A id \in DOMAIN record' : \A m \in Steps(id)' :
          /\ record'[id].steps[m] = "succeeded" => applied[id][m] = 1
          /\ record'[id].steps[m] = "recovered" =>
               \E j \in record'[id].deploys : record'[id].steps[j] = "succeeded"
          /\ record'[id].state = "succeeded" =>
               record'[id].steps[m] \in {"succeeded", "recovered"}
    <3> SUFFICES ASSUME NEW id \in DOMAIN record', NEW m \in Steps(id)'
                 PROVE  /\ record'[id].steps[m] = "succeeded" => applied[id][m] = 1
                        /\ record'[id].steps[m] = "recovered" =>
                             \E j \in record'[id].deploys :
                               record'[id].steps[j] = "succeeded"
                        /\ record'[id].state = "succeeded" =>
                             record'[id].steps[m] \in {"succeeded", "recovered"}
      OBVIOUS
    <3>1. CASE id # active
      BY <2>1, <3>1
    <3>2. CASE id = active
      <4>1. m \in Steps(active)'
        BY <1>2, <3>2 DEF Steps
      <4> QED
        BY <2>4, <3>2, <4>1
    <3> QED
      BY <3>1, <3>2
  <2> QED
    BY <1>2, <2>5 DEF DoneIsDone
<1> QED
  BY <1>13, <1>14, <1>15, <1>17, <1>18, <1>19 DEF RecordInv

(***************************************************************************)
(* The record                                                              *)
(***************************************************************************)
LEMMA RecordInit == Init => RecordInv
<1> SUFFICES ASSUME Init PROVE RecordInv
  OBVIOUS
<1>1. /\ DOMAIN record = {} /\ record = [id \in DOMAIN record |-> record[id]]
      /\ service = "off" /\ active = 0 /\ cancel = 0 /\ loop = 0 /\ outbound = {}
      /\ runs = 0 /\ allowed = {} /\ begun = [r \in Requests |-> {}]
      /\ applied = [id \in Runs |-> [n \in 1..StepLimit |-> 0]]
      /\ tool = [t \in Tools |-> NoCall]
  BY DEF Init
<1>2. NoCall \in ToolType /\ NoCall.pc = "idle"
  BY AgentAssumption DEF NoCall, ToolType, Kinds
<1>3. RunsInv
  <2>1. Entries(record) = {}
    BY <1>1 DEF Entries
  <2>2. Size(record) = 0
    BY <2>1, FS_EmptySet DEF Size
  <2> QED
    BY <1>1, <1>2, <2>2, AgentAssumption DEF RunsInv
<1>4. ActiveInv /\ BegunInv
  BY <1>1 DEF ActiveInv, BegunInv
<1>5. ToolInv
  BY <1>1, <1>2 DEF ToolInv, Idle
<1>6. EffectInv
  <2>1. \A id \in Runs, n \in 1..StepLimit : applied[id][n] = 0
    BY <1>1
  <2>2. applied \in [Runs -> [1..StepLimit -> {0, 1}]]
    BY <1>1
  <2> QED
    BY <1>1, <1>2, <2>1, <2>2 DEF EffectInv
<1>7. DoneIsDone
  BY <1>1 DEF DoneIsDone
<1> QED
  BY <1>3, <1>4, <1>5, <1>6, <1>7 DEF RecordInv

LEMMA RecordStep == RecordInv /\ [Next]_vars => RecordInv'
<1> SUFFICES ASSUME RecordInv, [Next]_vars PROVE RecordInv'
  OBVIOUS
<1>1. CASE UNCHANGED vars
  <2>1. RunsInv' /\ BegunInv' /\ DoneIsDone'
    BY <1>1 DEF vars, volatile, history, RecordInv, RunsInv, BegunInv, DoneIsDone,
                Steps, Size, Entries, Runs
  <2>2. ActiveInv' /\ ToolInv' /\ EffectInv'
    BY <1>1 DEF vars, volatile, history, RecordInv, ActiveInv, ToolInv, EffectInv,
                Steps, Idle, Runs
  <2> QED
    BY <2>1, <2>2 DEF RecordInv
<1>2. CASE Request
  <2>1. ASSUME NEW r \in Requests, Submit(r) \/ DeleteConversation(Conversation(r))
        PROVE  RecordInv'
    BY <2>1, SubmitKeeps, DeleteKeeps
  <2>2. ASSUME NEW n \in 1..StepLimit, NEW decision \in {"authorized", "denied"},
               Decide(n, decision)
        PROVE  RecordInv'
    BY <2>2, DecideKeeps
  <2> QED
    BY <1>2, <2>1, <2>2, StartKeeps, CancelKeeps DEF Request
<1>3. CASE Work
  <2>1. ASSUME NEW t \in Tools, ToolBegin(t) \/ ToolGoesOn(t) PROVE RecordInv'
    BY <2>1, BeginKeeps, CallWaits, GrantKeeps, CallActs, SaveKeeps DEF ToolGoesOn
  <2> QED
    BY <1>3, <2>1, ReadyKeeps, AnnounceKeeps, AnswerKeeps, InterimKeeps, FinishKeeps
       DEF Work
<1> QED
  BY <1>1, <1>2, <1>3, RestartKeeps DEF Next

LEMMA RecordCorrect == Spec => []RecordInv
BY RecordInit, RecordStep, PTL DEF Spec

\* What is on record is what the agent works on: a request has one run, no run
\* and no record grows past its limits, and the run that is active is found by
\* the tool calls and by the worker, whatever is deleted or makes room.
THEOREM RecordSoundCorrect == Spec => []RecordSound
<1>1. RecordInv => RecordSound
  <2> SUFFICES ASSUME RecordInv PROVE TypeInv /\ ActiveStored /\ RequestOnce
    BY DEF RecordSound
  <2>0. RunsInv /\ ActiveInv /\ BegunInv /\ ToolInv
    BY DEF RecordInv
  <2>1. DOMAIN record \subseteq Runs
    BY <2>0, AgentAssumption DEF RunsInv, Runs
  <2>2. ASSUME NEW id \in DOMAIN record
        PROVE  /\ record[id].state \in Flying \cup Final
               /\ Steps(id) \subseteq 1..StepLimit
               /\ \A n \in Steps(id) : record[id].steps[n] \in StepStates
    <3>1. record[id] \in RunType
      BY <2>0 DEF RunsInv
    <3>2. PICK k \in 0..StepLimit :
            record[id].steps \in [1..k -> StepStates] /\ Steps(id) = 1..k
      BY <3>1, RunFields, StepsCounted DEF Steps
    <3>3. Steps(id) \subseteq 1..StepLimit
      BY <3>2, AgentAssumption
    <3> QED
      BY <3>1, <3>2, <3>3 DEF RunType
  <2>3. active \in 0..MaxRuns /\ cancel \in 0..MaxRuns
    <3>1. active # 0 => active \in 1..MaxRuns
      BY <2>0, <2>1 DEF ActiveInv, Runs
    <3> QED
      BY <2>0, <3>1, AgentAssumption DEF ActiveInv
  <2>4. TypeInv
    BY <2>0, <2>1, <2>2, <2>3 DEF TypeInv, RunsInv
  <2>5. ActiveStored
    BY <2>0 DEF ActiveInv, ToolInv, ActiveStored
  <2>6. ASSUME NEW r \in Requests PROVE Cardinality(begun[r]) <= 1
    <3>1. CASE begun[r] = {}
      BY <3>1, FS_EmptySet
    <3>2. ASSUME NEW id \in begun[r] PROVE Cardinality(begun[r]) <= 1
      <4>1. begun[r] = {id}
        BY <2>0, <3>2 DEF BegunInv
      <4> QED
        BY <4>1, FS_Singleton
    <3> QED
      BY <3>1, <3>2
  <2> QED
    BY <2>4, <2>5, <2>6 DEF RequestOnce
<1> QED
  BY <1>1, RecordCorrect, PTL

\* Between an effect and its record, across refusals, answers that come late,
\* failing writes and restarts: what was done had been allowed and was done
\* once, and what is recorded as done was done.
THEOREM EffectsRecordedCorrect == Spec => []EffectsRecorded
<1>1. RecordInv => EffectsRecorded
  <2> SUFFICES ASSUME RecordInv PROVE Allowed /\ DoneIsDone
    BY DEF EffectsRecorded
  <2>1. \A id \in Runs, n \in 1..StepLimit : applied[id][n] <= 1
    <3>1. \A id \in Runs, n \in 1..StepLimit : applied[id][n] \in {0, 1}
      BY DEF RecordInv, EffectInv
    <3> QED
      BY <3>1
  <2>2. \A t \in Tools : tool[t].pc = "do" /\ tool[t].kind = "write" =>
          <<active, tool[t].step>> \in allowed
    BY DEF RecordInv, ToolInv, Idle
  <2> QED
    BY <2>1, <2>2 DEF Allowed, RecordInv
<1> QED
  BY <1>1, RecordCorrect, PTL

(***************************************************************************)
(* What a step may not do                                                  *)
(***************************************************************************)
\* Which runs a step changes
LEMMA OthersKept ==
  ASSUME RecordInv, [Next]_vars
  PROVE  \A id \in DOMAIN record \cap DOMAIN record' :
           \/ id = active
           \/ record'[id] = record[id]
           \/ record'[id].state = "deleted"
           \/ record'[id].state = Unknown(record[id].state)
<1>0. /\ record \in [DOMAIN record -> RunType] /\ runs \in Nat
      /\ DOMAIN record \subseteq 1..runs
      /\ \A message \in outbound : message.of = active
  BY DEF RecordInv, RunsInv, ActiveInv
<1>1. CASE UNCHANGED record
  BY <1>1
<1>2. CASE Start
  <2>1. \A id \in DOMAIN record :
          record'[id] = [record[id] EXCEPT !.state = Unknown(@)]
    BY <1>2 DEF Start
  <2>2. \A id \in DOMAIN record : record'[id].state = Unknown(record[id].state)
    BY <1>0, <2>1 DEF RunType
  <2> QED
    BY <2>2
<1>3. ASSUME NEW r \in Requests, Submit(r)
      PROVE  \A id \in DOMAIN record \cap DOMAIN record' : record'[id] = record[id]
  <2> DEFINE rec == [id \in DOMAIN record \cup {runs'} |->
                       IF id = runs' THEN NewRun(r) ELSE record[id]]
  <2>1. StoredRoom(rec, runs', AcceptLimit) /\ runs' = runs + 1
    BY <1>3 DEF Submit
  <2>2. \A id \in DOMAIN record : rec[id] = record[id]
    BY <1>0, <2>1
  <2> HIDE DEF rec
  <2>3. PICK ids : record' = Without(rec, ids)
    BY <2>1, RoomMade
  <2> QED
    BY <2>2, <2>3 DEF Without
<1>4. ASSUME NEW c, DeleteConversation(c)
      PROVE  \A id \in DOMAIN record :
               record'[id] = record[id] \/ record'[id].state = "deleted"
  <2>1. \A id \in DOMAIN record :
          \/ record'[id] = record[id]
          \/ record'[id] = [record[id] EXCEPT !.state = "deleted", !.deploys = {},
                                             !.steps = [n \in {} |-> {}]]
    BY <1>4 DEF DeleteConversation
  <2> QED
    BY <1>0, <2>1 DEF RunType
<1>5. ASSUME NEW t \in Tools, ToolBegin(t)
      PROVE  \A id \in DOMAIN record \cap DOMAIN record' :
               id = active \/ record'[id] = record[id]
  <2>1. PICK run : StoredRoom([record EXCEPT ![active] = run], active, RecordLimit)
    BY <1>5 DEF ToolBegin
  <2> DEFINE rec == [record EXCEPT ![active] = run]
  <2>2. \A id \in DOMAIN record : id # active => rec[id] = record[id]
    BY <1>0
  <2>3. StoredRoom(rec, active, RecordLimit)
    BY <2>1
  <2> HIDE DEF rec
  <2>4. PICK ids : record' = Without(rec, ids)
    BY <2>3, RoomMade
  <2> QED
    BY <2>2, <2>4 DEF Without
<1>6. ASSUME NEW run, record' = [record EXCEPT ![active] = run]
      PROVE  \A id \in DOMAIN record : id = active \/ record'[id] = record[id]
  BY <1>0, <1>6
<1>7. CASE Cancel
  BY <1>0, <1>7 DEF Cancel, SetState
<1>8. ASSUME NEW n, NEW decision, Decide(n, decision)
      PROVE  \A id \in DOMAIN record : id = active \/ record'[id] = record[id]
  BY <1>0, <1>8 DEF Decide
<1>9. ASSUME NEW t \in Tools, ToolGranted(t)
      PROVE  \A id \in DOMAIN record : id = active \/ record'[id] = record[id]
  BY <1>0, <1>9 DEF ToolGranted
<1>10. ASSUME NEW t \in Tools, ToolSave(t)
       PROVE  \A id \in DOMAIN record : id = active \/ record'[id] = record[id]
  <2>1. UNCHANGED record \/ \E new : record' = [record EXCEPT ![active].steps = new]
    BY <1>10 DEF ToolSave
  <2> QED
    BY <1>0, <2>1
<1>11. CASE WorkerInterim \/ WorkerFinish
  <2>1. UNCHANGED record \/ \E state : SetState(active, state)
    BY <1>0, <1>11 DEF WorkerInterim, WorkerFinish
  <2> QED
    BY <1>0, <2>1 DEF SetState
<1>12. ASSUME NEW t \in Tools,
              ToolRefused(t) \/ ToolGrantLost(t) \/ ToolLate(t) \/ ToolDo(t)
       PROVE  UNCHANGED record
  BY <1>12 DEF ToolRefused, ToolGrantLost, ToolLate, ToolDo
<1>13. CASE Ready \/ LoopAnnounces \/ LoopAnswers \/ Restart \/ UNCHANGED vars
  BY <1>13 DEF Ready, LoopAnnounces, LoopAnswers, Restart, vars
<1>14. CASE Request
  BY <1>2, <1>3, <1>4, <1>7, <1>8, <1>14 DEF Request
<1>15. CASE Work
  BY <1>5, <1>9, <1>10, <1>11, <1>12, <1>13, <1>15 DEF Work, ToolGoesOn
<1> QED
  BY <1>13, <1>14, <1>15 DEF Next

\* A run that is over stays what it was recorded as until it is deleted or has
\* to make room.
THEOREM FinalStaysCorrect == Spec => FinalStays
<1> DEFINE Stays == \A id \in DOMAIN record \cap DOMAIN record' :
                      record[id].state \in Final =>
                        record'[id].state \in {record[id].state, "deleted"}
<1>1. RecordInv /\ [Next]_vars => Stays
  <2> SUFFICES ASSUME RecordInv, [Next]_vars,
                      NEW id \in DOMAIN record \cap DOMAIN record',
                      record[id].state \in Final
               PROVE  record'[id].state \in {record[id].state, "deleted"}
    OBVIOUS
  <2>1. id # active
    <3>1. active # 0 => record[active].state \in Flying
      BY DEF RecordInv, ActiveInv
    <3>2. id # 0
      BY DEF RecordInv, RunsInv
    <3> QED
      BY <3>1, <3>2 DEF Flying, Final
  <2>2. Unknown(record[id].state) = record[id].state
    BY DEF Unknown, Flying, Final
  <2> QED
    BY <2>1, <2>2, OthersKept
<1> QED
  BY <1>1, RecordCorrect, PTL DEF Spec, FinalStays

\* A run that was cancelled takes no further step: no tool call of it begins,
\* and none that waits for the owner is let go.
THEOREM NoStepAfterCancelCorrect == Spec => NoStepAfterCancel
<1> DEFINE Halts ==
      cancel # 0 /\ active' = active =>
        /\ record'[active].state = "cancelling"
        /\ DOMAIN record'[active].steps = Steps(active)
        /\ \A n \in Steps(active) :
             record'[active].steps[n] = "started"
               => record[active].steps[n] = "started"
<1>1. RecordInv /\ [Next]_vars => Halts
  <2> SUFFICES ASSUME RecordInv, [Next]_vars, cancel # 0, active' = active
               PROVE  /\ record'[active].state = "cancelling"
                      /\ DOMAIN record'[active].steps = Steps(active)
                      /\ \A n \in Steps(active) :
                           record'[active].steps[n] = "started"
                             => record[active].steps[n] = "started"
    OBVIOUS
  <2>0. /\ active # 0 /\ active \in DOMAIN record /\ service # "off"
        /\ record[active] \in RunType /\ record[active].state = "cancelling"
        /\ \A message \in outbound : message.of = active
    BY DEF RecordInv, RunsInv, ActiveInv
  <2>1. CASE record'[active] = record[active]
    BY <2>0, <2>1 DEF Steps
  <2>2. ASSUME NEW c, DeleteConversation(c) PROVE record'[active] = record[active]
    BY <2>0, <2>2 DEF DeleteConversation, Deletable
  <2>3. CASE Cancel
    <3>1. record' = [record EXCEPT ![active].state = "cancelling"]
      BY <2>3 DEF Cancel, SetState
    <3>2. record'[active] = [record[active] EXCEPT !.state = "cancelling"]
      BY <2>0, <3>1
    <3> QED
      BY <2>0, <3>2 DEF RunType, Steps
  <2>4. ASSUME NEW t \in Tools, ToolSave(t), record' # record
        PROVE  \E steps :
                 /\ record'[active] = [record[active] EXCEPT !.steps = steps]
                 /\ DOMAIN steps = Steps(active)
                 /\ \A n \in Steps(active) :
                      steps[n] = "started" => record[active].steps[n] = "started"
    <3> DEFINE steps == [n \in DOMAIN record[active].steps |->
                           IF n = tool[t].step THEN Outcome(t)
                           ELSE IF Recovered(t, n) THEN "recovered"
                           ELSE record[active].steps[n]]
    <3>1. record' = [record EXCEPT ![active].steps = steps]
      BY <2>4 DEF ToolSave
    <3>2. DOMAIN steps = Steps(active)
      BY DEF Steps
    <3>3. \A n \in Steps(active) :
            steps[n] = "started" => record[active].steps[n] = "started"
      BY DEF Steps, Outcome
    <3> HIDE DEF steps
    <3>4. record'[active] = [record[active] EXCEPT !.steps = steps]
      BY <2>0, <3>1
    <3> QED
      BY <3>2, <3>3, <3>4
  <2>5. ASSUME NEW t \in Tools, ToolSave(t), record' # record
        PROVE  /\ record'[active].state = "cancelling"
               /\ DOMAIN record'[active].steps = Steps(active)
               /\ \A n \in Steps(active) :
                    record'[active].steps[n] = "started"
                      => record[active].steps[n] = "started"
    <3>1. PICK steps :
            /\ record'[active] = [record[active] EXCEPT !.steps = steps]
            /\ DOMAIN steps = Steps(active)
            /\ \A n \in Steps(active) :
                 steps[n] = "started" => record[active].steps[n] = "started"
      BY <2>4, <2>5
    <3>2. record'[active].steps = steps /\ record'[active].state = "cancelling"
      BY <2>0, <3>1 DEF RunType
    <3> QED
      BY <3>1, <3>2
  <2>6. ASSUME NEW t \in Tools, ToolBegin(t) \/ ToolGoesOn(t), ~ToolSave(t)
        PROVE  record' = record
    BY <2>6 DEF ToolBegin, MayStep, ToolGoesOn, ToolGranted, Granted, ToolRefused,
                ToolGrantLost, ToolLate, ToolDo
  <2>7. CASE WorkerInterim \/ WorkerFinish
    <3>1. CASE WorkerInterim
      <4>1. record' = record
        BY <2>0, <3>1 DEF WorkerInterim
      <4> QED
        BY <2>1, <4>1
    <3>2. CASE WorkerFinish
      <4>1. active' = 0
        BY <3>2 DEF WorkerFinish
      <4> QED
        BY <2>0, <4>1
    <3> QED
      BY <2>7, <3>1, <3>2
  <2>8. CASE Ready \/ LoopAnnounces \/ LoopAnswers \/ Restart \/ UNCHANGED vars
    <3>1. active' # 0 => record' = record
      BY <2>8 DEF Ready, LoopAnnounces, LoopAnswers, Restart, vars
    <3> QED
      BY <2>0, <2>1, <3>1
  <2>9. CASE Request
    <3>1. ~Start
      BY <2>0 DEF Start
    <3>2. ASSUME NEW r PROVE ~Submit(r)
      BY <2>0 DEF Submit
    <3>3. ASSUME NEW n, NEW decision PROVE ~Decide(n, decision)
      BY DEF Decide
    <3> QED
      BY <2>1, <2>2, <2>3, <2>9, <3>1, <3>2, <3>3 DEF Request
  <2>10. CASE Work
    BY <2>1, <2>5, <2>6, <2>7, <2>8, <2>10 DEF Work
  <2> QED
    BY <2>1, <2>8, <2>9, <2>10 DEF Next
<1> QED
  BY <1>1, RecordCorrect, PTL DEF Spec, NoStepAfterCancel

==============================================================================
