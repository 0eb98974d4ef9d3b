--------------------------- MODULE VoiceTurnProofs ---------------------------
(***************************************************************************)
(* What holds of VoiceTurn for every capacity of the queue, every number   *)
(* of events from outside and either recogniser.                           *)
(***************************************************************************)
EXTENDS VoiceTurn, TLAPS

(***************************************************************************)
(* The queue of events                                                     *)
(***************************************************************************)

\* What Post(e) leaves behind: e at the end, or a lost event.
Posted(e) ==
  /\ queue' \in Seq(Events) /\ Len(queue') <= QueueCap /\ lost' \in BOOLEAN
  /\ \A i \in DOMAIN queue : i \in DOMAIN queue' /\ queue'[i] = queue[i]
  /\ \A i \in DOMAIN queue' :
       i \in DOMAIN queue \/ (queue'[i] = e /\ \A j \in DOMAIN queue : j < i)
  /\ ~lost' => ~lost /\ \E i \in DOMAIN queue' : queue'[i] = e

Kept == queue' = queue /\ lost' = lost

LEMMA PostPosts ==
  ASSUME Typed, NEW e \in Events, Post(e)
  PROVE  Posted(e)
<1>1. queue \in Seq(Events) /\ Len(queue) <= QueueCap /\ lost \in BOOLEAN
  BY DEF Typed
<1>2. QueueCap \in Nat
  BY VoiceConstants
<1>3. CASE HasRoom
  <2> DEFINE q == Append(queue, e)
  <2>1. queue' = q /\ lost' = lost
    BY <1>1, <1>3 DEF Post
  <2>2. q \in Seq(Events) /\ Len(q) = Len(queue) + 1
    BY <1>1
  <2>3. \A i \in DOMAIN queue : i \in DOMAIN q /\ q[i] = queue[i]
    BY <1>1
  <2>4. Len(q) \in DOMAIN q /\ q[Len(q)] = e
    BY <1>1
  <2>5. \A i \in DOMAIN q :
          i \in DOMAIN queue \/ (q[i] = e /\ \A j \in DOMAIN queue : j < i)
    BY <1>1
  <2>6. Len(q) <= QueueCap
    BY <1>1, <1>2, <1>3, <2>2 DEF HasRoom
  <2> HIDE DEF q
  <2> QED
    BY <1>1, <2>1, <2>2, <2>3, <2>4, <2>5, <2>6 DEF Posted
<1>4. CASE ~HasRoom
  <2>1. queue' = queue /\ lost' = TRUE
    BY <1>4, <1>1 DEF Post
  <2> QED
    BY <1>1, <2>1 DEF Posted
<1> QED
  BY <1>3, <1>4

\* An event that was put into the queue is the only new one in it.
LEMMA PostedIn ==
  ASSUME NEW e \in Events, Posted(e), NEW type
  PROVE  /\ InQueue(type) => InQueue(type)'
         /\ InQueue(type)' => InQueue(type) \/ e.type = type
         /\ ~lost' /\ e.type = type => InQueue(type)'
<1>1. ASSUME InQueue(type) PROVE InQueue(type)'
  <2> PICK i \in DOMAIN queue : queue[i].type = type
    BY <1>1 DEF InQueue
  <2> i \in DOMAIN queue' /\ queue'[i] = queue[i]
    BY DEF Posted
  <2> QED
    BY DEF InQueue
<1>2. ASSUME InQueue(type)' PROVE InQueue(type) \/ e.type = type
  <2> PICK i \in DOMAIN queue' : queue'[i].type = type
    BY <1>2 DEF InQueue
  <2> CASE i \in DOMAIN queue
    <3> queue'[i] = queue[i]
      BY DEF Posted
    <3> QED
      BY DEF InQueue
  <2> CASE queue'[i] = e
    OBVIOUS
  <2> QED
    BY DEF Posted
<1>3. ASSUME ~lost', e.type = type PROVE InQueue(type)'
  BY <1>3 DEF Posted, InQueue
<1> QED
  BY <1>1, <1>2, <1>3

LEMMA PostedKinds ==
  ASSUME NEW e \in Events, Posted(e)
  PROVE  /\ \A type : InQueue(type) => InQueue(type)'
         /\ \A type : InQueue(type)' => InQueue(type) \/ e.type = type
         /\ ~lost' => InQueue(e.type)'
         /\ ~lost' => ~lost
<1>1. \A type : InQueue(type) => InQueue(type)'
  BY PostedIn
<1>2. \A type : InQueue(type)' => InQueue(type) \/ e.type = type
  BY PostedIn
<1>3. ~lost' => InQueue(e.type)'
  BY PostedIn
<1>4. ~lost' => ~lost
  BY DEF Posted
<1> QED
  BY <1>1, <1>2, <1>3, <1>4

\* Every event of the new queue is an old one, or the one posted.
LEMMA PostedEach ==
  ASSUME NEW e \in Events, Posted(e), NEW i \in DOMAIN queue'
  PROVE  (i \in DOMAIN queue /\ queue'[i] = queue[i]) \/ queue'[i] = e
BY DEF Posted

(***************************************************************************)
(* What a step leaves alone                                                *)
(***************************************************************************)

\* The queue is left alone, or an event that is of none of these types came.
Apart(types) ==
  \/ Kept
  \/ \E e \in Events : e.type \notin types /\ Posted(e)

LEMMA ApartEach ==
  ASSUME NEW types, Apart(types)
  PROVE  /\ \A i \in DOMAIN queue : i \in DOMAIN queue' /\ queue'[i] = queue[i]
         /\ \A i \in DOMAIN queue' :
              \/ i \in DOMAIN queue /\ queue'[i] = queue[i]
              \/ queue'[i].type \notin types /\ \A j \in DOMAIN queue : j < i
         /\ ~lost' => ~lost
<1>1. CASE Kept
  BY <1>1 DEF Kept
<1>2. ASSUME NEW e \in Events, e.type \notin types, Posted(e)
      PROVE  /\ \A i \in DOMAIN queue : i \in DOMAIN queue' /\ queue'[i] = queue[i]
             /\ \A i \in DOMAIN queue' :
                  \/ i \in DOMAIN queue /\ queue'[i] = queue[i]
                  \/ queue'[i].type \notin types /\ \A j \in DOMAIN queue : j < i
             /\ ~lost' => ~lost
  BY <1>2 DEF Posted
<1> QED
  BY <1>1, <1>2 DEF Apart

LEMMA ApartIn ==
  ASSUME NEW types, Apart(types), NEW type \in types
  PROVE  InQueue(type)' <=> InQueue(type)
<1>1. /\ \A i \in DOMAIN queue : i \in DOMAIN queue' /\ queue'[i] = queue[i]
      /\ \A i \in DOMAIN queue' :
           \/ i \in DOMAIN queue /\ queue'[i] = queue[i]
           \/ queue'[i].type \notin types
  BY ApartEach
<1>2. ASSUME InQueue(type) PROVE InQueue(type)'
  BY <1>1, <1>2 DEF InQueue
<1>3. ASSUME InQueue(type)' PROVE InQueue(type)
  BY <1>1, <1>3 DEF InQueue
<1> QED
  BY <1>2, <1>3

LEMMA ApartTyped ==
  ASSUME Typed, NEW types, Apart(types)
  PROVE  queue' \in Seq(Events) /\ Len(queue') <= QueueCap /\ lost' \in BOOLEAN
BY DEF Apart, Kept, Posted, Typed

LEMMA SoundFrame ==
  ASSUME SoundInv, UNCHANGED <<sm, player>>, Apart({"speak_done"}),
         ToDo("speak")' <=> ToDo("speak"),
         ToDo("speak_cancel")' <=> ToDo("speak_cancel")
  PROVE  SoundInv'
<1>1. /\ \A i \in DOMAIN queue : i \in DOMAIN queue' /\ queue'[i] = queue[i]
      /\ \A i \in DOMAIN queue' :
           \/ i \in DOMAIN queue /\ queue'[i] = queue[i]
           \/ queue'[i].type # "speak_done"
      /\ ~lost' => ~lost
  <2> {"speak_done"} = {"speak_done"}
    OBVIOUS
  <2> QED
    BY ApartEach
<1>2. Voice => Voice'
  BY <1>1 DEF Voice
<1>3. Silence => Silence'
  BY DEF Silence
<1>4. (player.served <= player.job /\ player.dropped <= player.job)'
  BY DEF SoundInv
<1>5. (\A i \in DOMAIN queue : queue[i].type = "speak_done" =>
          /\ queue[i].of <= player.served
          /\ player.playing => queue[i].of < player.served)'
  BY <1>1 DEF SoundInv
<1>6. (sm.state = "speaking" /\ ~lost => ToDo("speak") \/ Voice)'
  BY <1>1, <1>2 DEF SoundInv
<1>7. (sm.state # "speaking" => ToDo("speak_cancel") \/ Silence)'
  BY <1>3 DEF SoundInv
<1> QED
  BY <1>4, <1>5, <1>6, <1>7 DEF SoundInv

LEMMA RequestFrame ==
  ASSUME RequestInv, UNCHANGED <<sm, asr, stray, count.asr>>, Apart(Ends),
         ToDo("start")' <=> ToDo("start"),
         ToDo("asr_cancel")' <=> ToDo("asr_cancel")
  PROVE  RequestInv'
<1>1. /\ \A i \in DOMAIN queue' :
           \/ i \in DOMAIN queue /\ queue'[i] = queue[i]
           \/ queue'[i].type \notin Ends
      /\ ~lost' => ~lost
  BY ApartEach
<1>2. InQueue("failed")' <=> InQueue("failed")
  BY ApartIn DEF Ends
<1>3. InQueue("finished")' <=> InQueue("finished")
  BY ApartIn DEF Ends
<1>4. (asr.req <= count.asr)'
  BY DEF RequestInv
<1>5. (\A i \in DOMAIN queue : queue[i].type \in Ends
                                 => queue[i].of <= count.asr)'
  BY <1>1 DEF RequestInv, Ends
<1>6. (sm.state = "listening" /\ ~lost =>
          \/ ToDo("start") \/ (asr.open /\ ~asr.silent)
          \/ InQueue("failed") \/ InQueue("finished"))'
  BY <1>1, <1>2, <1>3 DEF RequestInv
<1>7. (~stray /\ asr.open /\ ~asr.silent =>
          /\ \/ sm.state = "listening" /\ ~ToDo("start")
             \/ ToDo("asr_cancel")
          /\ \A i \in DOMAIN queue : queue[i].type \in Ends
                                       => queue[i].of # asr.req)'
  BY <1>1 DEF RequestInv, Ends
<1> QED
  BY <1>4, <1>5, <1>6, <1>7 DEF RequestInv

LEMMA AgentFrame ==
  ASSUME AgentInv, UNCHANGED <<sm, run, stray, count.run, count.dead>>,
         Apart(AgentEvents),
         ToDo("submit")' <=> ToDo("submit"),
         ToDo("agent_cancel")' <=> ToDo("agent_cancel"),
         ToDo("forget")' <=> ToDo("forget")
  PROVE  AgentInv'
<1>1. /\ \A i \in DOMAIN queue' :
           \/ i \in DOMAIN queue /\ queue'[i] = queue[i]
           \/ queue'[i].type \notin AgentEvents
      /\ ~lost' => ~lost
  BY ApartEach
<1>2. /\ InQueue("reply")' <=> InQueue("reply")
      /\ InQueue("pending")' <=> InQueue("pending")
      /\ InQueue("busy")' <=> InQueue("busy")
      /\ InQueue("agent_failed")' <=> InQueue("agent_failed")
  BY ApartIn DEF AgentEvents
<1>3. NewsInQueue' <=> NewsInQueue
  BY <1>2 DEF NewsInQueue
<1>4. RunInv'
  BY <1>1, <1>2, <1>3 DEF AgentInv, RunInv
<1>5. OneOutcome'
  BY <1>1, <1>2, <1>3 DEF AgentInv, OneOutcome
<1>6. LiveAnswers'
  BY <1>1 DEF AgentInv, LiveAnswers, AgentEvents
<1> QED
  BY <1>4, <1>5, <1>6 DEF AgentInv

LEMMA NewsFrame ==
  ASSUME OldNewsFirst, UNCHANGED <<sm, asr.req, stray>>,
         Apart(AgentEvents), Typed,
         ToDo("start")' <=> ToDo("start")
  PROVE  OldNewsFirst'
<1>1. \A i \in DOMAIN queue' :
        \/ i \in DOMAIN queue /\ queue'[i] = queue[i]
        \/ queue'[i].type \notin AgentEvents /\ \A j \in DOMAIN queue : j < i
  BY ApartEach
<1> SUFFICES ASSUME (~stray /\ sm.state = "listening" /\ ~ToDo("start"))',
                    NEW i \in DOMAIN queue', NEW j \in DOMAIN queue',
                    (queue[i].type = "finished" /\ queue[i].of = asr.req)',
                    (queue[j].type \in AgentEvents)'
             PROVE  j < i
  BY DEF OldNewsFirst
<1>2. j \in DOMAIN queue /\ queue'[j] = queue[j]
  BY <1>1
<1>3. CASE i \in DOMAIN queue /\ queue'[i] = queue[i]
  BY <1>2, <1>3 DEF OldNewsFirst
<1>4. CASE \A k \in DOMAIN queue : k < i
  BY <1>2, <1>4
<1> QED
  BY <1>1, <1>3, <1>4

LEMMA PostApart ==
  ASSUME Typed, NEW types, NEW e \in Events, e.type \notin types, Post(e)
  PROVE  Apart(types)
BY PostPosts DEF Apart

LEMMA NoPostApart ==
  ASSUME NEW types, NoPost
  PROVE  Apart(types)
BY DEF NoPost, Kept, Apart

LEMMA EventTyped ==
  ASSUME NEW type \in EventTypes, NEW good \in BOOLEAN, NEW of \in Nat
  PROVE  /\ Event(type, good, of) \in Events
         /\ Event(type, good, of).type = type
         /\ Event(type, good, of).of = of
BY DEF Event, Events

\* The thread's place in its loop changes, its actions do not.
Onwards == acts' = acts /\ pc' \in {"take", "act", "poll", "agent", "idle"}
           /\ (pc' # "act" => acts = <<>>)

LEMMA OnwardsOrder ==
  ASSUME InOrder, Onwards, sm' = sm
  PROVE  /\ InOrder'
         /\ \A name : ToDo(name)' <=> ToDo(name)
<1>1. \A name : ToDo(name)' <=> ToDo(name)
  BY DEF ToDo, Onwards
<1>2. (\A i \in DOMAIN acts :
          /\ acts[i].act \notin Cancels => i = Len(acts)
          /\ acts[i].of # 0 => Len(acts) = 1 /\ acts[i].act = "speak")'
  BY DEF InOrder, Onwards
<1>3. (Len(acts) <= 3 /\ (pc # "act" => acts = <<>>))'
  BY DEF InOrder, Onwards
<1>4. (/\ ToDo("start") => sm.state = "listening"
       /\ ToDo("submit") => sm.state = "thinking"
       /\ ToDo("speak") => sm.state = "speaking"
       /\ ToDo("asr_cancel") => sm.state # "listening"
       /\ ToDo("agent_cancel") \/ ToDo("forget")
            => sm.state # "thinking" /\ ~sm.pending
       /\ sm.pending => sm.state \in {"idle", "speaking"})'
  BY <1>1 DEF InOrder
<1> QED
  BY <1>1, <1>2, <1>3, <1>4 DEF InOrder

\* No more happens than that an event came which no invariant is about.
LEMMA NothingTracked ==
  ASSUME IInv, Onwards, Typed',
         UNCHANGED <<sm, asr, run, player, stray, count.asr, count.run,
                     count.dead>>,
         NEW e \in Events, Kept \/ Posted(e),
         e.type \notin {"speak_done", "failed", "finished", "reply",
                        "pending", "busy", "agent_failed"}
  PROVE  IInv'
<1>1. InOrder' /\ \A name : ToDo(name)' <=> ToDo(name)
  BY OnwardsOrder DEF IInv
<1>2. Apart({"speak_done"}) /\ Apart(Ends) /\ Apart(AgentEvents)
  BY DEF Apart, Ends, AgentEvents
<1>3. SoundInv'
  BY <1>1, <1>2, SoundFrame DEF IInv
<1>4. RequestInv'
  BY <1>1, <1>2, RequestFrame DEF IInv
<1>5. AgentInv'
  BY <1>1, <1>2, AgentFrame DEF IInv
<1>6. OldNewsFirst'
  BY <1>1, <1>2, NewsFrame DEF IInv
<1>7. SilencedRunUnheard'
  BY DEF IInv, SilencedRunUnheard, Onwards
<1> QED
  BY <1>1, <1>3, <1>4, <1>5, <1>6, <1>7 DEF IInv

LEMMA AfterAgentIn == AfterAgent \in {"take", "act", "poll", "agent", "idle"}
BY DEF AfterAgent

LEMMA AfterPollIn == AfterPoll \in {"take", "act", "poll", "agent", "idle"}
BY AfterAgentIn DEF AfterPoll

\* An event of everybody else changes nothing that is waited for.
LEMMA RequestKeeps ==
  ASSUME IInv, NEW type \in Outside, Request(type)
  PROVE  IInv'
<1> DEFINE e == Event(type, TRUE, 0)
<1>1. e \in Events /\ e.type = type
  BY EventTyped DEF Outside, EventTypes
<1>2. Posted(e)
  BY <1>1, PostPosts DEF IInv, Request
<1>3. Onwards
  BY DEF Request, Onwards, IInv, Typed, InOrder
<1>4. /\ UNCHANGED <<sm, asr, run, player, stray, count.asr, count.run, count.dead>>
      /\ count' \in [posts : Nat, asr : Nat, run : Nat, dead : Nat]
  <2> count \in [posts : Nat, asr : Nat, run : Nat, dead : Nat]
    BY DEF IInv, Typed
  <2> count' = [count EXCEPT !.posts = @ + 1]
    BY DEF Request
  <2> QED
    BY DEF Request
<1>5. Typed'
  BY <1>2, <1>3, <1>4 DEF Request, IInv, Typed, Posted, Onwards
<1>6. e.type \notin {"speak_done", "failed", "finished", "reply", "pending",
                     "busy", "agent_failed"}
  BY <1>1 DEF Outside
<1> HIDE DEF e
<1> QED
  BY <1>1, <1>2, <1>3, <1>4, <1>5, <1>6, NothingTracked

LEMMA RestartedKeeps ==
  ASSUME IInv, Restarted
  PROVE  IInv'
<1> DEFINE e == Event("wake", TRUE, 0)
<1>1. e \in Events /\ e.type = "wake"
  BY EventTyped DEF EventTypes
<1>2. Kept /\ fresh' = TRUE
  BY DEF Restarted, Kept
<1>3. Onwards
  BY DEF Restarted, Onwards, IInv, Typed, InOrder
<1>4. /\ UNCHANGED <<sm, asr, run, player, stray, count.asr, count.run, count.dead>>
      /\ count' \in [posts : Nat, asr : Nat, run : Nat, dead : Nat]
  BY DEF Restarted, IInv, Typed
<1>5. Typed'
  BY <1>2, <1>3, <1>4 DEF IInv, Typed, Kept, Onwards
<1> HIDE DEF e
<1> QED
  BY <1>1, <1>2, <1>3, <1>4, <1>5, NothingTracked

LEMMA StutterKeeps ==
  ASSUME IInv, UNCHANGED vars
  PROVE  IInv'
<1> DEFINE e == Event("wake", TRUE, 0)
<1>1. e \in Events /\ e.type = "wake"
  BY EventTyped DEF EventTypes
<1>2. Kept /\ Onwards
  BY DEF vars, Kept, Onwards, IInv, Typed, InOrder
<1>3. UNCHANGED <<sm, asr, run, player, stray, count.asr, count.run, count.dead>>
  BY DEF vars
<1>4. Typed'
  BY DEF IInv, Typed, vars
<1> HIDE DEF e
<1> QED
  BY <1>1, <1>2, <1>3, <1>4, NothingTracked

\* The thread goes past the recogniser or the agent.
LEMMA PassesKeep ==
  ASSUME IInv, PollDone \/ AgentQuiet
  PROVE  IInv'
<1> DEFINE e == Event("wake", TRUE, 0)
<1>1. e \in Events /\ e.type = "wake"
  BY EventTyped DEF EventTypes
<1>2. Onwards
  BY AfterAgentIn, AfterPollIn
  DEF PollDone, AgentQuiet, Onwards, IInv, Typed, InOrder
<1>3. /\ Kept
      /\ UNCHANGED <<sm, asr, run, player, stray, fresh, count>>
  BY DEF PollDone, AgentQuiet, Kept
<1>4. Typed'
  BY <1>2, <1>3 DEF IInv, Typed, Kept, Onwards
<1> HIDE DEF e
<1> QED
  BY <1>1, <1>2, <1>3, <1>4, NothingTracked

LEMMA WireEndpointKeeps ==
  ASSUME IInv, WireEndpoint
  PROVE  IInv'
<1> DEFINE e == Event("endpoint", TRUE, asr.req)
<1>1. e \in Events /\ e.type = "endpoint"
  BY EventTyped DEF EventTypes, AsrEvents, IInv, Typed
<1>2. Kept \/ Posted(e)
  BY <1>1, PostPosts DEF IInv, WireEndpoint, NoPost, Kept
<1>3. Onwards
  BY DEF WireEndpoint, Onwards, IInv, Typed, InOrder
<1>4. /\ UNCHANGED <<sm, asr, run, player, stray, fresh, count.asr, count.run, count.dead>>
      /\ count' \in [posts : Nat, asr : Nat, run : Nat, dead : Nat]
  <2>1. /\ UNCHANGED <<sm, asr, run, player, stray, fresh>>
        /\ count' = [count EXCEPT !.posts = @ + 1]
    BY DEF WireEndpoint
  <2>2. count \in [posts : Nat, asr : Nat, run : Nat, dead : Nat]
    BY DEF IInv, Typed
  <2>3. /\ UNCHANGED <<count.asr, count.run, count.dead>>
        /\ count' \in [posts : Nat, asr : Nat, run : Nat, dead : Nat]
    BY <2>1, <2>2
  <2> QED
    BY <2>1, <2>3
<1>5. Typed'
  <2>1. queue' \in Seq(Events) /\ Len(queue') <= QueueCap /\ lost' \in BOOLEAN
    BY <1>2 DEF IInv, Typed, Kept, Posted
  <2> QED
    BY <1>3, <1>4, <2>1 DEF IInv, Typed, Onwards
<1> HIDE DEF e
<1> QED
  BY <1>1, <1>2, <1>3, <1>4, <1>5, NothingTracked

LEMMA HousekeepingKeeps ==
  ASSUME IInv, Housekeeping
  PROVE  IInv'
<1> DEFINE e == Event("link_lost", FALSE, 0)
<1>1. e \in Events /\ e.type = "link_lost"
  BY EventTyped DEF EventTypes
<1>2. Kept \/ Posted(e)
  BY <1>1, PostPosts DEF IInv, Housekeeping, NoPost, Kept
<1>3. Onwards
  BY DEF Housekeeping, Onwards, IInv, Typed, InOrder
<1>4. /\ UNCHANGED <<sm, asr, run, player, stray, count>>
      /\ fresh' \in BOOLEAN
  BY DEF Housekeeping
<1>5. Typed'
  <2>1. queue' \in Seq(Events) /\ Len(queue') <= QueueCap /\ lost' \in BOOLEAN
    BY <1>2 DEF IInv, Typed, Kept, Posted
  <2> QED
    BY <1>3, <1>4, <2>1 DEF IInv, Typed, Onwards
<1> HIDE DEF e
<1> QED
  BY <1>1, <1>2, <1>3, <1>4, <1>5, NothingTracked

(***************************************************************************)
(* The player                                                              *)
(***************************************************************************)

\* A step that changes the player and puts in the queue at most its report.
LEMMA PlayerFrame ==
  ASSUME IInv, UNCHANGED <<sm, pc, acts, asr, run, fresh, count, stray>>,
         Apart(Ends), Apart(AgentEvents), SoundInv', Typed'
  PROVE  IInv'
<1>1. Onwards
  BY DEF Onwards, IInv, Typed, InOrder
<1>2. InOrder' /\ \A name : ToDo(name)' <=> ToDo(name)
  BY <1>1, OnwardsOrder DEF IInv
<1>3. RequestInv'
  BY <1>2, RequestFrame DEF IInv
<1>4. AgentInv'
  BY <1>2, AgentFrame DEF IInv
<1>5. OldNewsFirst'
  BY <1>2, NewsFrame DEF IInv
<1>6. SilencedRunUnheard'
  BY DEF IInv, SilencedRunUnheard
<1> QED
  BY <1>2, <1>3, <1>4, <1>5, <1>6 DEF IInv

LEMMA PlayStartKeeps ==
  ASSUME IInv, PlayStart
  PROVE  IInv'
<1>1. Kept /\ UNCHANGED <<sm, pc, acts, asr, run, fresh, count, stray>>
  BY DEF PlayStart, Kept
<1>2. Apart(Ends) /\ Apart(AgentEvents)
  BY <1>1 DEF Apart
<1>3. /\ player' \in [job : Nat, sentence : BOOLEAN, served : Nat,
                      cur : BOOLEAN, dropped : Nat, playing : BOOLEAN]
      /\ player'.playing = TRUE /\ player'.served = player.job
      /\ player'.job = player.job /\ player'.cur = player.sentence
      /\ player'.dropped = player.dropped /\ player.job # player.served
      /\ player'.sentence = player.sentence
      /\ player.job \in Nat /\ player.served \in Nat /\ player.dropped \in Nat
  BY DEF PlayStart, IInv, Typed
<1>4. Typed'
  BY <1>1, <1>3 DEF Kept, IInv, Typed
<1>5. \A name : ToDo(name)' <=> ToDo(name)
  BY <1>1 DEF ToDo
<1>6. (player.served <= player.job /\ player.dropped <= player.job)'
  BY <1>3 DEF IInv, SoundInv
<1>7. (\A i \in DOMAIN queue : queue[i].type = "speak_done" =>
          /\ queue[i].of <= player.served
          /\ player.playing => queue[i].of < player.served)'
  <2> SUFFICES ASSUME NEW i \in DOMAIN queue, queue[i].type = "speak_done"
               PROVE  queue[i].of <= player.job /\ queue[i].of < player.job
    BY <1>1, <1>3 DEF Kept
  <2> queue[i].of \in Nat
    <3> queue[i] \in Events
      BY DEF IInv, Typed
    <3> QED
      BY DEF Events
  <2> queue[i].of <= player.served /\ player.served <= player.job
    BY DEF IInv, SoundInv
  <2> QED
    BY <1>3
<1>8. (sm.state = "speaking" /\ ~lost => ToDo("speak") \/ Voice)'
  BY <1>3 DEF Voice
<1>9. Silence => Silence'
  BY <1>3 DEF Silence
<1>10. (sm.state # "speaking" => ToDo("speak_cancel") \/ Silence)'
  BY <1>1, <1>5, <1>9 DEF IInv, SoundInv
<1>11. SoundInv'
  BY <1>6, <1>7, <1>8, <1>10 DEF SoundInv
<1> QED
  BY <1>1, <1>2, <1>4, <1>11, PlayerFrame

LEMMA PlayEndKeeps ==
  ASSUME IInv, PlayEnd
  PROVE  IInv'
<1> DEFINE e == Event("speak_done", TRUE, player.served)
<1>1. e \in Events /\ e.type = "speak_done" /\ e.of = player.served
  <2> player.served \in Nat
    BY DEF IInv, Typed
  <2> QED
    BY EventTyped DEF EventTypes
<1>2. Posted(e)
  BY <1>1, PostPosts DEF IInv, PlayEnd
<1>3. UNCHANGED <<sm, pc, acts, asr, run, fresh, count, stray>>
  BY DEF PlayEnd
<1> HIDE DEF e
<1>4. Apart(Ends) /\ Apart(AgentEvents)
  BY <1>1, <1>2 DEF Apart, Ends, AgentEvents
<1>5. /\ player' \in [job : Nat, sentence : BOOLEAN, served : Nat,
                      cur : BOOLEAN, dropped : Nat, playing : BOOLEAN]
      /\ player'.playing = FALSE /\ player'.served = player.served
      /\ player'.job = player.job /\ player'.dropped = player.dropped
      /\ player'.sentence = player.sentence
      /\ player.job \in Nat /\ player.served \in Nat /\ player.dropped \in Nat
  BY DEF PlayEnd, IInv, Typed
<1>6. Typed'
  BY <1>2, <1>3, <1>5 DEF Posted, IInv, Typed
<1>7. \A name : ToDo(name)' <=> ToDo(name)
  BY <1>3 DEF ToDo
<1>8. (player.served <= player.job /\ player.dropped <= player.job)'
  BY <1>5 DEF IInv, SoundInv
<1>9. (\A i \in DOMAIN queue : queue[i].type = "speak_done" =>
          /\ queue[i].of <= player.served
          /\ player.playing => queue[i].of < player.served)'
  <2> SUFFICES ASSUME NEW i \in DOMAIN queue', queue'[i].type = "speak_done"
               PROVE  queue'[i].of <= player.served
    BY <1>5
  <2>1. CASE queue'[i] = e
    BY <1>1, <1>5, <2>1
  <2>2. CASE i \in DOMAIN queue /\ queue'[i] = queue[i]
    BY <2>2 DEF IInv, SoundInv
  <2> QED
    BY <1>1, <1>2, <2>1, <2>2, PostedEach
<1>10. (sm.state = "speaking" /\ ~lost => ToDo("speak") \/ Voice)'
  <2> SUFFICES ASSUME ~lost' PROVE Voice'
    OBVIOUS
  <2>1. PICK i \in DOMAIN queue' : queue'[i] = e
    BY <1>2 DEF Posted
  <2> QED
    BY <1>1, <1>5, <2>1 DEF Voice
<1>11. Silence => Silence'
  BY <1>5 DEF Silence
<1>12. (sm.state # "speaking" => ToDo("speak_cancel") \/ Silence)'
  BY <1>3, <1>7, <1>11 DEF IInv, SoundInv
<1>13. SoundInv'
  BY <1>8, <1>9, <1>10, <1>12 DEF SoundInv
<1> QED
  BY <1>3, <1>4, <1>6, <1>13, PlayerFrame

(***************************************************************************)
(* The actions of a step                                                   *)
(***************************************************************************)

LEMMA AdvancePlace ==
  ASSUME Advance
  PROVE  /\ pc' \in {"take", "act", "poll", "agent", "idle"}
         /\ pc' # "act" => acts' = <<>>
BY DEF Advance, AfterPoll, AfterAgent

LEMMA TailActs ==
  ASSUME NEW q \in Seq(Actions), q # <<>>
  PROVE  /\ Tail(q) \in Seq(Actions) /\ Len(Tail(q)) = Len(q) - 1
         /\ Len(q) \in Nat /\ Len(q) >= 1
         /\ 1 \in DOMAIN q /\ Head(q) = q[1] /\ Head(q) \in Actions
         /\ \A i \in DOMAIN Tail(q) : i \in Nat /\ i + 1 # 1 /\ i + 1 \in DOMAIN q /\ Tail(q)[i] = q[i + 1]
         /\ \A i \in DOMAIN q : i # 1 =>
              i \in Nat /\ i - 1 \in DOMAIN Tail(q) /\ Tail(q)[i - 1] = q[i]
         /\ \A i \in DOMAIN q : i # 1 => Len(q) # 1
OBVIOUS

LEMMA DoneActs ==
  ASSUME Typed, InOrder, NEW name, Doing(name), Done, sm' = sm, Advance
  PROVE  /\ acts' \in Seq(Actions)
         /\ InOrder'
         /\ ToDo(name)
         /\ \A m : m # name => (ToDo(m)' <=> ToDo(m))
         /\ name \notin Cancels => \A m : ~ToDo(m)'
         /\ \A i \in DOMAIN acts' : acts'[i].of = 0
<1>1. /\ acts \in Seq(Actions) /\ acts # <<>> /\ Head(acts).act = name
      /\ acts' = Tail(acts)
  BY DEF Typed, Doing, Done
<1>2. /\ acts' \in Seq(Actions) /\ Len(acts') = Len(acts) - 1
      /\ 1 \in DOMAIN acts /\ acts[1].act = name
      /\ Len(acts) \in Nat /\ Len(acts) >= 1
      /\ \A i \in DOMAIN acts' : i \in Nat /\ i + 1 # 1 /\ i + 1 \in DOMAIN acts /\ acts'[i] = acts[i + 1]
      /\ \A i \in DOMAIN acts : i # 1 =>
           i \in Nat /\ i - 1 \in DOMAIN acts' /\ acts'[i - 1] = acts[i]
  BY <1>1, TailActs
<1>3. ToDo(name)
  BY <1>2 DEF ToDo
<1>4. ASSUME NEW m, ToDo(m)' PROVE ToDo(m)
  <2> PICK i \in DOMAIN acts' : acts'[i].act = m
    BY <1>4 DEF ToDo
  <2> i + 1 \in DOMAIN acts /\ acts[i + 1].act = m
    BY <1>2
  <2> QED
    BY DEF ToDo
<1>5. ASSUME NEW m, m # name, ToDo(m) PROVE ToDo(m)'
  <2> PICK i \in DOMAIN acts : acts[i].act = m
    BY <1>5 DEF ToDo
  <2> i # 1
    BY <1>2, <1>5
  <2> i - 1 \in DOMAIN acts' /\ acts'[i - 1].act = m
    BY <1>2
  <2> QED
    BY DEF ToDo
<1>6. ASSUME name \notin Cancels PROVE \A m : ~ToDo(m)'
  <2>1. Len(acts) = 1
    BY <1>2, <1>6 DEF InOrder
  <2>2. Len(acts') = 0
    BY <1>2, <2>1
  <2>3. DOMAIN acts' = {}
    BY <1>2, <2>2
  <2> QED
    BY <2>3 DEF ToDo
<1>7. ASSUME NEW i \in DOMAIN acts'
      PROVE  /\ acts'[i].act \notin Cancels => i = Len(acts')
             /\ acts'[i].of = 0
  <2>1. i \in Nat /\ i + 1 # 1 /\ i + 1 \in DOMAIN acts /\ acts'[i] = acts[i + 1]
    BY <1>2
  <2>2. Len(acts) # 1
    BY <1>1, <2>1, TailActs
  <2> QED
    BY <1>2, <2>1, <2>2 DEF InOrder
<1>8. InOrder'
  <2>1. (pc # "act" => acts = <<>>)' /\ Len(acts') <= 3
    BY <1>2, AdvancePlace DEF InOrder
  <2>3. (/\ ToDo("start") => sm.state = "listening"
         /\ ToDo("submit") => sm.state = "thinking"
         /\ ToDo("speak") => sm.state = "speaking"
         /\ ToDo("asr_cancel") => sm.state # "listening"
         /\ ToDo("agent_cancel") \/ ToDo("forget")
              => sm.state # "thinking" /\ ~sm.pending
         /\ sm.pending => sm.state \in {"idle", "speaking"})'
    BY <1>4 DEF InOrder
  <2> QED
    BY <1>7, <2>1, <2>3 DEF InOrder
<1> QED
  BY <1>2, <1>3, <1>4, <1>5, <1>6, <1>7, <1>8

LEMMA ReplacedOnly ==
  ASSUME NEW q \in Seq(Actions), Len(q) = 1, NEW a \in Actions
  PROVE  /\ [q EXCEPT ![1] = a] \in Seq(Actions)
         /\ Len([q EXCEPT ![1] = a]) = 1
         /\ DOMAIN [q EXCEPT ![1] = a] = {1}
         /\ [q EXCEPT ![1] = a][1] = a
<1>1. DOMAIN q = 1..1 /\ q \in [1..1 -> Actions]
  OBVIOUS
<1>2. [q EXCEPT ![1] = a] \in [1..1 -> Actions]
  BY <1>1
<1>3. ASSUME NEW f \in [1..1 -> Actions]
      PROVE  f \in Seq(Actions) /\ Len(f) = 1 /\ DOMAIN f = {1}
  <2>1. \A n \in Nat : f \in [1..n -> Actions]
          => f \in Seq(Actions) /\ Len(f) = n
    OBVIOUS
  <2>2. f \in Seq(Actions) /\ Len(f) = 1
    BY <2>1
  <2>3. DOMAIN f = 1..1 /\ 1..1 = {1}
    OBVIOUS
  <2> QED
    BY <2>2, <2>3
<1>4. [q EXCEPT ![1] = a][1] = a
  BY <1>1
<1> QED
  BY <1>2, <1>3, <1>4

\* An action that becomes its own continuation stays the last one.
LEMMA ContinueActs ==
  ASSUME Typed, InOrder, Doing("start"), NEW arg \in {"attach", "loaded"},
         Continue(arg), sm' = sm, Advance
  PROVE  /\ acts' \in Seq(Actions)
         /\ InOrder'
         /\ \A m : ToDo(m)' <=> ToDo(m)
         /\ \A m : ToDo(m) => m = "start"
         /\ \A i \in DOMAIN acts' : acts'[i].of = 0
<1>1. /\ acts \in Seq(Actions) /\ acts # <<>> /\ Head(acts).act = "start"
      /\ acts' = [acts EXCEPT ![1].arg = arg]
  BY DEF Typed, Doing, Continue
<1>2. 1 \in DOMAIN acts /\ acts[1].act = "start" /\ acts[1] \in Actions
  BY <1>1, TailActs
<1>3. Len(acts) = 1 /\ acts[1].of = 0
  BY <1>2 DEF InOrder, Cancels
<1>4. DOMAIN acts = {1}
  BY <1>1, <1>3
<1>5. [acts[1] EXCEPT !.arg = arg] \in Actions
  BY <1>2 DEF Actions
<1>6. acts' = [acts EXCEPT ![1] = [acts[1] EXCEPT !.arg = arg]]
  BY <1>1
<1>7. /\ acts' \in Seq(Actions) /\ Len(acts') = 1
      /\ DOMAIN acts' = {1} /\ acts'[1] = [acts[1] EXCEPT !.arg = arg]
  BY <1>1, <1>3, <1>5, <1>6, ReplacedOnly
<1>8. acts'[1].act = "start" /\ acts'[1].of = 0
  <2>1. [acts[1] EXCEPT !.arg = arg].act = acts[1].act /\ [acts[1] EXCEPT !.arg = arg].of = acts[1].of
    BY <1>2 DEF Actions
  <2> QED
    BY <1>2, <1>3, <1>7, <2>1
<1>9. \A m : ToDo(m)' <=> m = "start"
  BY <1>7, <1>8 DEF ToDo
<1>10. \A m : ToDo(m) <=> m = "start"
  BY <1>2, <1>4 DEF ToDo
<1>11. \A m : ToDo(m)' <=> ToDo(m)
  BY <1>9, <1>10
<1>12. InOrder'
  <2>1. (pc # "act" => acts = <<>>)' /\ Len(acts') <= 3
    BY <1>7, AdvancePlace
  <2>2. \A i \in DOMAIN acts' : i = Len(acts') /\ acts'[i].of = 0
    BY <1>7, <1>8
  <2>3. (/\ ToDo("start") => sm.state = "listening"
         /\ ToDo("submit") => sm.state = "thinking"
         /\ ToDo("speak") => sm.state = "speaking"
         /\ ToDo("asr_cancel") => sm.state # "listening"
         /\ ToDo("agent_cancel") \/ ToDo("forget")
              => sm.state # "thinking" /\ ~sm.pending
         /\ sm.pending => sm.state \in {"idle", "speaking"})'
    BY <1>11 DEF InOrder
  <2> QED
    BY <2>1, <2>2, <2>3 DEF InOrder
<1> QED
  BY <1>7, <1>8, <1>10, <1>11, <1>12

\* What every action of a step does to the parts it has nothing to do with.
LEMMA ActionFrame ==
  ASSUME IInv, NEW name, Doing(name), Done, Advance,
         UNCHANGED sm
  PROVE  /\ InOrder' /\ acts' \in Seq(Actions)
         /\ pc' \in {"take", "act", "poll", "agent", "idle"}
         /\ ToDo(name)
         /\ \A m : m # name => (ToDo(m)' <=> ToDo(m))
         /\ name \notin Cancels => \A m : ~ToDo(m)'
         /\ SilencedRunUnheard'
<1>1. Typed /\ InOrder /\ SilencedRunUnheard
  BY DEF IInv
<1>2. \A i \in DOMAIN acts' : acts'[i].of = 0
  BY <1>1, DoneActs
<1>3. SilencedRunUnheard'
  BY <1>2 DEF SilencedRunUnheard
<1> QED
  BY <1>1, <1>3, DoneActs, AdvancePlace

LEMMA SayJob ==
  ASSUME Typed, NEW sentence \in BOOLEAN, Say(sentence)
  PROVE  /\ player' \in [job : Nat, sentence : BOOLEAN, served : Nat,
                         cur : BOOLEAN, dropped : Nat, playing : BOOLEAN]
         /\ player'.job = player.job + 1 /\ player'.sentence = sentence
         /\ player'.served = player.served /\ player'.cur = player.cur
         /\ player'.dropped = player.dropped
         /\ player'.playing = player.playing
         /\ player.job \in Nat /\ player.served \in Nat /\ player.dropped \in Nat
<1>1. player \in [job : Nat, sentence : BOOLEAN, served : Nat,
                   cur : BOOLEAN, dropped : Nat, playing : BOOLEAN]
  BY DEF Typed
<1>2. player' = [player EXCEPT !.job = player.job + 1, !.sentence = sentence]
  BY DEF Say
<1>3. player.job \in Nat /\ player.served \in Nat /\ player.dropped \in Nat
  BY <1>1
<1>4. player.job + 1 \in Nat
  BY <1>3
<1>5. player' \in [job : Nat, sentence : BOOLEAN, served : Nat,
                    cur : BOOLEAN, dropped : Nat, playing : BOOLEAN]
  BY <1>1, <1>2, <1>4
<1> QED
  BY <1>1, <1>2, <1>3, <1>5

\* A chime or a cue on the way to the request
LEMMA CueKeeps ==
  ASSUME IInv, Doing("start"), NEW arg \in {"attach", "loaded"},
         Continue(arg), Say(FALSE), Advance,
         UNCHANGED <<sm, queue, asr, run, fresh, count, lost, stray>>
  PROVE  IInv'
<1>1. Typed /\ InOrder
  BY DEF IInv
<1>2. /\ acts' \in Seq(Actions) /\ InOrder'
      /\ \A m : ToDo(m)' <=> ToDo(m)
      /\ \A m : ToDo(m) => m = "start"
      /\ \A i \in DOMAIN acts' : acts'[i].of = 0
  BY <1>1, ContinueActs
<1>3. Kept /\ Apart({"speak_done"}) /\ Apart(Ends) /\ Apart(AgentEvents)
  BY DEF Kept, Apart
<1>4. pc' \in {"take", "act", "poll", "agent", "idle"}
  BY AdvancePlace
<1>5. /\ player' \in [job : Nat, sentence : BOOLEAN, served : Nat,
                      cur : BOOLEAN, dropped : Nat, playing : BOOLEAN]
      /\ player'.job = player.job + 1 /\ player'.sentence = FALSE
      /\ player'.served = player.served /\ player'.cur = player.cur
      /\ player'.dropped = player.dropped
      /\ player'.playing = player.playing
      /\ player.job \in Nat /\ player.served \in Nat /\ player.dropped \in Nat
  BY <1>1, SayJob
<1>6. Typed'
  BY <1>1, <1>2, <1>4, <1>5 DEF Typed
<1>7. SoundInv'
  <2>1. ToDo("start")
    <3> acts # <<>> /\ acts \in Seq(Actions) /\ Head(acts).act = "start"
      BY <1>1 DEF Doing, Typed
    <3> QED
      BY TailActs DEF ToDo
  <2>2. sm.state = "listening" /\ ~ToDo("speak_cancel")
    BY <1>1, <1>2, <2>1 DEF InOrder
  <2>3. Silence
    BY <2>2 DEF IInv, SoundInv
  <2>4. Silence'
    BY <1>5, <2>3 DEF Silence
  <2>5. player.served <= player.job /\ player.dropped <= player.job
    BY DEF IInv, SoundInv
  <2>6. (player.served <= player.job /\ player.dropped <= player.job)'
    BY <1>5, <2>5
  <2>7. (\A i \in DOMAIN queue : queue[i].type = "speak_done" =>
          /\ queue[i].of <= player.served
          /\ player.playing => queue[i].of < player.served)'
    BY <1>5 DEF IInv, SoundInv
  <2>8. sm'.state = "listening"
    BY <2>2
  <2> QED
    BY <2>4, <2>6, <2>7, <2>8 DEF SoundInv
<1>8. RequestInv'
  BY <1>2, <1>3, RequestFrame DEF IInv
<1>9. AgentInv'
  BY <1>2, <1>3, AgentFrame DEF IInv
<1>10. OldNewsFirst'
  BY <1>2, <1>3, NewsFrame DEF IInv
<1>11. SilencedRunUnheard'
  BY <1>2 DEF SilencedRunUnheard
<1> QED
  BY <1>2, <1>6, <1>7, <1>8, <1>9, <1>10, <1>11 DEF IInv

LEMMA DoChimeKeeps ==
  ASSUME IInv, DoChime
  PROVE  IInv'
BY CueKeeps DEF DoChime

LEMMA DoWaitCueKeeps ==
  ASSUME IInv, DoWaitCue
  PROVE  IInv'
BY CueKeeps DEF DoWaitCue

LEMMA DoSpeakKeeps ==
  ASSUME IInv, DoSpeak
  PROVE  IInv'
<1>0. /\ Doing("speak") /\ Done /\ Say(TRUE) /\ Advance
      /\ UNCHANGED <<sm, queue, asr, run, fresh, count, lost, stray>>
  BY DEF DoSpeak
<1>1. Typed /\ InOrder
  BY DEF IInv
<1>2. /\ InOrder' /\ acts' \in Seq(Actions)
      /\ pc' \in {"take", "act", "poll", "agent", "idle"}
      /\ ToDo("speak")
      /\ \A m : m # "speak" => (ToDo(m)' <=> ToDo(m))
      /\ SilencedRunUnheard'
  BY <1>0, ActionFrame
<1>3. Kept /\ Apart({"speak_done"}) /\ Apart(Ends) /\ Apart(AgentEvents)
  BY <1>0 DEF Kept, Apart
<1>4. /\ player' \in [job : Nat, sentence : BOOLEAN, served : Nat,
                      cur : BOOLEAN, dropped : Nat, playing : BOOLEAN]
      /\ player'.job = player.job + 1
      /\ player'.served = player.served
      /\ player'.dropped = player.dropped
      /\ player'.playing = player.playing
      /\ player.job \in Nat /\ player.served \in Nat /\ player.dropped \in Nat
  BY <1>0, <1>1, SayJob
<1>5. Typed'
  BY <1>0, <1>1, <1>2, <1>4 DEF Typed
<1>6. SoundInv'
  <2>1. sm'.state = "speaking"
    BY <1>0, <1>1, <1>2 DEF InOrder
  <2>2. player.served <= player.job /\ player.dropped <= player.job
    BY DEF IInv, SoundInv
  <2>3. (player.served <= player.job /\ player.dropped <= player.job)'
    BY <1>4, <2>2
  <2>4. (\A i \in DOMAIN queue : queue[i].type = "speak_done" =>
          /\ queue[i].of <= player.served
          /\ player.playing => queue[i].of < player.served)'
    BY <1>0, <1>4 DEF IInv, SoundInv
  <2>5. Voice'
    BY <1>4, <2>2 DEF Voice
  <2> QED
    BY <2>1, <2>3, <2>4, <2>5 DEF SoundInv
<1>7. RequestInv'
  BY <1>0, <1>2, <1>3, RequestFrame DEF IInv
<1>8. AgentInv'
  BY <1>0, <1>2, <1>3, AgentFrame DEF IInv
<1>9. OldNewsFirst'
  BY <1>0, <1>2, <1>3, NewsFrame DEF IInv
<1> QED
  BY <1>2, <1>5, <1>6, <1>7, <1>8, <1>9 DEF IInv

LEMMA DoSpeakCancelKeeps ==
  ASSUME IInv, DoSpeakCancel
  PROVE  IInv'
<1>0. /\ Doing("speak_cancel") /\ Done /\ Advance
      /\ player' = [player EXCEPT !.dropped = player.job]
      /\ UNCHANGED <<sm, queue, asr, run, fresh, count, lost, stray>>
  BY DEF DoSpeakCancel
<1>1. Typed /\ InOrder
  BY DEF IInv
<1>2. /\ InOrder' /\ acts' \in Seq(Actions)
      /\ pc' \in {"take", "act", "poll", "agent", "idle"}
      /\ \A m : m # "speak_cancel" => (ToDo(m)' <=> ToDo(m))
      /\ SilencedRunUnheard'
  BY <1>0, ActionFrame
<1>3. Kept /\ Apart({"speak_done"}) /\ Apart(Ends) /\ Apart(AgentEvents)
  BY <1>0 DEF Kept, Apart
<1>4. /\ player' \in [job : Nat, sentence : BOOLEAN, served : Nat,
                      cur : BOOLEAN, dropped : Nat, playing : BOOLEAN]
      /\ player'.job = player.job
      /\ player'.served = player.served
      /\ player'.dropped = player.job
      /\ player'.playing = player.playing
      /\ player.job \in Nat /\ player.served \in Nat
  BY <1>0, <1>1 DEF Typed
<1>5. Typed'
  BY <1>0, <1>1, <1>2, <1>4 DEF Typed
<1>6. SoundInv'
  <2>1. player.served <= player.job
    BY DEF IInv, SoundInv
  <2>2. (player.served <= player.job /\ player.dropped <= player.job)'
    BY <1>4, <2>1
  <2>3. (\A i \in DOMAIN queue : queue[i].type = "speak_done" =>
          /\ queue[i].of <= player.served
          /\ player.playing => queue[i].of < player.served)'
    BY <1>0, <1>4 DEF IInv, SoundInv
  <2>4. Silence'
    BY <1>4, <2>1 DEF Silence
  <2>5. Voice => Voice'
    BY <1>0, <1>4 DEF Voice
  <2>6. ToDo("speak")' <=> ToDo("speak")
    BY <1>2
  <2>7. (sm.state = "speaking" /\ ~lost => ToDo("speak") \/ Voice)'
    BY <1>0, <2>5, <2>6 DEF IInv, SoundInv
  <2> QED
    BY <2>2, <2>3, <2>4, <2>7 DEF SoundInv
<1>7. RequestInv'
  BY <1>0, <1>2, <1>3, RequestFrame DEF IInv
<1>8. AgentInv'
  BY <1>0, <1>2, <1>3, AgentFrame DEF IInv
<1>9. OldNewsFirst'
  BY <1>0, <1>2, <1>3, NewsFrame DEF IInv
<1> QED
  BY <1>2, <1>5, <1>6, <1>7, <1>8, <1>9 DEF IInv

(***************************************************************************)
(* The recogniser                                                          *)
(***************************************************************************)

\* The request goes on, it ends with an outcome, or without one when it was
\* silenced.
Concludes ==
  /\ asr' \in [open : BOOLEAN, silent : BOOLEAN, cloud : BOOLEAN,
               pcm : BOOLEAN, req : Nat]
  /\ asr'.req = asr.req /\ asr'.silent = asr.silent
  /\ \/ Kept /\ (asr'.open = asr.open \/ (asr.silent /\ ~asr'.open))
     \/ /\ ~asr'.open
        /\ \E e \in Events : e.type = "finished" /\ e.of = asr.req /\ Posted(e)

LEMMA FinishPosts ==
  ASSUME Typed, NEW good \in BOOLEAN, Finish(good)
  PROVE  \E e \in Events : e.type = "finished" /\ e.of = asr.req /\ Posted(e)
<1> DEFINE e == Event("finished", good, asr.req)
<1>1. asr.req \in Nat
  BY DEF Typed
<1>2. e \in Events /\ e.type = "finished" /\ e.of = asr.req
  BY <1>1, EventTyped DEF EventTypes, AsrEvents
<1>3. Posted(e)
  BY <1>2, PostPosts DEF Finish
<1> QED
  BY <1>2, <1>3

LEMMA CloudConcludes ==
  ASSUME Typed, NEW good \in BOOLEAN, CloudEnd(good) \/ CloudResult(good)
  PROVE  Concludes
<1>1. asr \in [open : BOOLEAN, silent : BOOLEAN, cloud : BOOLEAN,
               pcm : BOOLEAN, req : Nat]
  BY DEF Typed
<1>2. CASE CloudEnd(good)
  <2>1. /\ asr.open = TRUE /\ asr' = [asr EXCEPT !.pcm = FALSE, !.open = good]
        /\ good => Kept
        /\ ~good => Finish(FALSE)
    BY <1>1, <1>2 DEF CloudEnd, NoPost, Kept
  <2>2. /\ asr' \in [open : BOOLEAN, silent : BOOLEAN, cloud : BOOLEAN,
                     pcm : BOOLEAN, req : Nat]
        /\ asr'.req = asr.req /\ asr'.silent = asr.silent /\ asr'.open = good
    BY <1>1, <2>1
  <2>3. CASE good
    BY <2>1, <2>2, <2>3 DEF Concludes
  <2>4. CASE ~good
    BY <2>1, <2>2, <2>4, FinishPosts DEF Concludes
  <2> QED
    BY <2>3, <2>4
<1>3. CASE CloudResult(good)
  <2>1. /\ asr' \in [open : BOOLEAN, silent : BOOLEAN, cloud : BOOLEAN,
                     pcm : BOOLEAN, req : Nat]
        /\ asr'.req = asr.req /\ asr'.silent = asr.silent /\ asr'.open = FALSE
    BY <1>1, <1>3 DEF CloudResult
  <2> QED
    BY <1>3, <2>1, FinishPosts DEF Concludes, CloudResult
<1> QED
  BY <1>2, <1>3

LEMMA RequestConcluded ==
  ASSUME RequestInv, Typed, Concludes, UNCHANGED <<sm, stray, count.asr>>,
         ToDo("start")' <=> ToDo("start"),
         ToDo("asr_cancel")' <=> ToDo("asr_cancel")
  PROVE  RequestInv'
<1>1. CASE Kept /\ (asr'.open = asr.open \/ (asr.silent /\ ~asr'.open))
  <2>1. /\ InQueue("failed")' <=> InQueue("failed")
        /\ InQueue("finished")' <=> InQueue("finished")
    BY <1>1 DEF Kept, InQueue
  <2>2. (asr.req <= count.asr)'
    BY DEF RequestInv, Concludes
  <2>3. (\A i \in DOMAIN queue : queue[i].type \in Ends
                                   => queue[i].of <= count.asr)'
    BY <1>1 DEF RequestInv, Kept, Ends
  <2>4. (sm.state = "listening" /\ ~lost =>
          \/ ToDo("start") \/ (asr.open /\ ~asr.silent)
          \/ InQueue("failed") \/ InQueue("finished"))'
    BY <1>1, <2>1 DEF RequestInv, Kept, Concludes
  <2>5. (~stray /\ asr.open /\ ~asr.silent =>
          /\ \/ sm.state = "listening" /\ ~ToDo("start")
             \/ ToDo("asr_cancel")
          /\ \A i \in DOMAIN queue : queue[i].type \in Ends
                                       => queue[i].of # asr.req)'
    BY <1>1 DEF RequestInv, Kept, Concludes, Ends
  <2> QED
    BY <2>2, <2>3, <2>4, <2>5 DEF RequestInv
<1>2. ASSUME ~asr'.open,
             NEW e \in Events, e.type = "finished", e.of = asr.req, Posted(e)
      PROVE  RequestInv'
  <2>1. (asr.req <= count.asr)'
    BY DEF RequestInv, Concludes
  <2>2. (\A i \in DOMAIN queue : queue[i].type \in Ends
                                   => queue[i].of <= count.asr)'
    <3> SUFFICES ASSUME NEW i \in DOMAIN queue', queue'[i].type \in Ends
                 PROVE  queue'[i].of <= count.asr
      BY DEF Ends
    <3>1. CASE queue'[i] = e
      BY <1>2, <3>1 DEF RequestInv
    <3>2. CASE i \in DOMAIN queue /\ queue'[i] = queue[i]
      BY <3>2 DEF RequestInv
    <3> QED
      BY <1>2, <3>1, <3>2, PostedEach
  <2>3. ~lost' => InQueue("finished")'
    BY <1>2, PostedIn
  <2> QED
    BY <1>2, <2>1, <2>2, <2>3 DEF RequestInv
<1> QED
  BY <1>1, <1>2 DEF Concludes

LEMMA ConcludesApart ==
  ASSUME Concludes
  PROVE  Apart({"speak_done"}) /\ Apart(AgentEvents)
<1>1. CASE Kept
  BY <1>1 DEF Apart
<1>2. ASSUME NEW e \in Events, e.type = "finished", Posted(e)
      PROVE  Apart({"speak_done"}) /\ Apart(AgentEvents)
  BY <1>2 DEF Apart, AgentEvents
<1> QED
  BY <1>1, <1>2 DEF Concludes

\* The thread looks at the recogniser and goes on.
LEMMA PollKeeps ==
  ASSUME IInv, NEW good \in BOOLEAN, WireClosed(good) \/ CloudPoll(good)
  PROVE  IInv'
<1>1. Typed /\ InOrder
  BY DEF IInv
<1>2. Concludes
  <2>1. CASE WireClosed(good)
    <3>1. /\ asr' = [asr EXCEPT !.open = FALSE]
          /\ asr.silent => Kept
          /\ ~asr.silent => Finish(good)
      BY <2>1 DEF WireClosed, NoPost, Kept
    <3>2. /\ asr' \in [open : BOOLEAN, silent : BOOLEAN, cloud : BOOLEAN,
                       pcm : BOOLEAN, req : Nat]
          /\ asr'.req = asr.req /\ asr'.silent = asr.silent /\ asr'.open = FALSE
      BY <1>1, <3>1 DEF Typed
    <3>3. CASE asr.silent
      BY <3>1, <3>2, <3>3 DEF Concludes
    <3>4. CASE ~asr.silent
      BY <1>1, <3>1, <3>2, <3>4, FinishPosts DEF Concludes
    <3> QED
      BY <3>3, <3>4
  <2>2. CASE CloudPoll(good)
    BY <1>1, <2>2, CloudConcludes DEF CloudPoll
  <2> QED
    BY <2>1, <2>2
<1>3. UNCHANGED <<sm, acts, run, player, fresh, count, stray>>
  BY DEF WireClosed, CloudPoll
<1>4. Onwards
  BY <1>1, AfterPollIn DEF WireClosed, CloudPoll, Onwards, InOrder
<1>5. InOrder' /\ \A name : ToDo(name)' <=> ToDo(name)
  BY <1>1, <1>3, <1>4, OnwardsOrder
<1>6. Apart({"speak_done"}) /\ Apart(AgentEvents)
  BY <1>2, ConcludesApart
<1>7. Typed'
  <2>1. queue' \in Seq(Events) /\ Len(queue') <= QueueCap /\ lost' \in BOOLEAN
    BY <1>1, <1>6, ApartTyped
  <2> QED
    BY <1>1, <1>2, <1>3, <1>4, <2>1 DEF Typed, Onwards, Concludes
<1>8. SoundInv'
  BY <1>3, <1>5, <1>6, SoundFrame DEF IInv
<1>9. RequestInv'
  BY <1>1, <1>2, <1>3, <1>5, RequestConcluded DEF IInv
<1>10. AgentInv'
  BY <1>3, <1>5, <1>6, AgentFrame DEF IInv
<1>11. OldNewsFirst'
  BY <1>1, <1>2, <1>3, <1>5, <1>6, NewsFrame DEF IInv, Concludes
<1>12. SilencedRunUnheard'
  BY <1>3 DEF IInv, SilencedRunUnheard
<1> QED
  BY <1>5, <1>7, <1>8, <1>9, <1>10, <1>11, <1>12 DEF IInv

LEMMA DoEndKeeps ==
  ASSUME IInv, NEW sent \in BOOLEAN, DoEnd(sent)
  PROVE  IInv'
<1>0. /\ Doing("end") /\ Done /\ Advance
      /\ UNCHANGED <<sm, run, player, fresh, count, stray>>
  BY DEF DoEnd
<1>1. Typed /\ InOrder
  BY DEF IInv
<1>2. /\ InOrder' /\ acts' \in Seq(Actions)
      /\ pc' \in {"take", "act", "poll", "agent", "idle"}
      /\ \A m : m # "end" => (ToDo(m)' <=> ToDo(m))
      /\ SilencedRunUnheard'
  BY <1>0, ActionFrame
<1>3. Concludes
  <2>1. CASE CloudEnd(sent) \/ CloudResult(sent)
    BY <1>1, <2>1, CloudConcludes
  <2>2. CASE UNCHANGED asr /\ NoPost
    BY <1>1, <2>2 DEF Concludes, Typed, Kept, NoPost
  <2>3. CASE asr' = [asr EXCEPT !.open = FALSE] /\ Finish(FALSE)
    <3>1. /\ asr' \in [open : BOOLEAN, silent : BOOLEAN, cloud : BOOLEAN,
                       pcm : BOOLEAN, req : Nat]
          /\ asr'.req = asr.req /\ asr'.silent = asr.silent /\ asr'.open = FALSE
      BY <1>1, <2>3 DEF Typed
    <3> QED
      BY <1>1, <2>3, <3>1, FinishPosts DEF Concludes
  <2> QED
    BY <2>1, <2>2, <2>3 DEF DoEnd
<1>4. Apart({"speak_done"}) /\ Apart(AgentEvents)
  BY <1>3, ConcludesApart
<1>5. Typed'
  <2>1. queue' \in Seq(Events) /\ Len(queue') <= QueueCap /\ lost' \in BOOLEAN
    BY <1>1, <1>4, ApartTyped
  <2> QED
    BY <1>0, <1>1, <1>2, <1>3, <2>1 DEF Typed, Concludes
<1>6. SoundInv'
  BY <1>0, <1>2, <1>4, SoundFrame DEF IInv
<1>7. RequestInv'
  BY <1>0, <1>1, <1>2, <1>3, RequestConcluded DEF IInv
<1>8. AgentInv'
  BY <1>0, <1>2, <1>4, AgentFrame DEF IInv
<1>9. OldNewsFirst'
  BY <1>0, <1>1, <1>2, <1>3, <1>4, NewsFrame DEF IInv, Concludes
<1> QED
  BY <1>2, <1>5, <1>6, <1>7, <1>8, <1>9 DEF IInv

LEMMA DoAsrCancelKeeps ==
  ASSUME IInv, DoAsrCancel
  PROVE  IInv'
<1>0. /\ Doing("asr_cancel") /\ Done /\ Advance
      /\ UNCHANGED <<sm, queue, run, player, fresh, count, lost, stray>>
  BY DEF DoAsrCancel
<1>1. Typed /\ InOrder
  BY DEF IInv
<1>2. /\ InOrder' /\ acts' \in Seq(Actions)
      /\ pc' \in {"take", "act", "poll", "agent", "idle"}
      /\ ToDo("asr_cancel")
      /\ \A m : m # "asr_cancel" => (ToDo(m)' <=> ToDo(m))
      /\ SilencedRunUnheard'
  BY <1>0, ActionFrame
<1>3. Kept /\ Apart({"speak_done"}) /\ Apart(Ends) /\ Apart(AgentEvents)
  BY <1>0 DEF Kept, Apart
<1>4. /\ asr' \in [open : BOOLEAN, silent : BOOLEAN, cloud : BOOLEAN,
                   pcm : BOOLEAN, req : Nat]
      /\ asr'.req = asr.req
      /\ asr'.open => asr'.silent
  <2>1. asr \in [open : BOOLEAN, silent : BOOLEAN, cloud : BOOLEAN,
                 pcm : BOOLEAN, req : Nat]
    BY <1>1 DEF Typed
  <2>2. CASE asr.cloud
    <3>1. asr' = [asr EXCEPT !.open = FALSE, !.pcm = FALSE]
      BY <2>2 DEF DoAsrCancel
    <3> QED
      BY <2>1, <3>1
  <2>3. CASE ~asr.cloud /\ asr.open
    <3>1. asr' = [asr EXCEPT !.silent = TRUE]
      BY <2>3 DEF DoAsrCancel
    <3> QED
      BY <2>1, <3>1
  <2>4. CASE ~asr.cloud /\ ~asr.open
    <3>1. asr' = asr
      BY <2>4 DEF DoAsrCancel
    <3> QED
      BY <2>1, <2>4, <3>1
  <2> QED
    BY <2>2, <2>3, <2>4
<1>5. Typed'
  BY <1>0, <1>1, <1>2, <1>4 DEF Typed
<1>6. SoundInv'
  BY <1>0, <1>2, <1>3, SoundFrame DEF IInv
<1>7. RequestInv'
  <2>1. sm'.state # "listening"
    BY <1>0, <1>1, <1>2 DEF InOrder
  <2>2. (asr.req <= count.asr)'
    BY <1>0, <1>4 DEF IInv, RequestInv
  <2>3. (\A i \in DOMAIN queue : queue[i].type \in Ends
                                   => queue[i].of <= count.asr)'
    BY <1>0 DEF IInv, RequestInv, Ends
  <2> QED
    BY <1>4, <2>1, <2>2, <2>3 DEF RequestInv
<1>8. AgentInv'
  BY <1>0, <1>2, <1>3, AgentFrame DEF IInv
<1>9. OldNewsFirst'
  BY <1>0, <1>1, <1>2, <1>3, <1>4, NewsFrame DEF IInv
<1> QED
  BY <1>2, <1>5, <1>6, <1>7, <1>8, <1>9 DEF IInv

\* What the new request is, in either recogniser
LEMMA StartRequest ==
  ASSUME Typed, NEW cloud \in BOOLEAN, NEW ok \in BOOLEAN, DoStart(cloud, ok)
  PROVE  /\ asr' \in [open : BOOLEAN, silent : BOOLEAN, cloud : BOOLEAN,
                      pcm : BOOLEAN, req : Nat]
         /\ asr'.req = count.asr + 1
         /\ ok => asr'.open /\ ~asr'.silent
         /\ ~ok /\ asr'.open => asr.open /\ (asr'.silent <=> asr.silent)
<1> DEFINE req == count.asr + 1
<1>1. asr \in [open : BOOLEAN, silent : BOOLEAN, cloud : BOOLEAN,
               pcm : BOOLEAN, req : Nat]
  BY DEF Typed
<1>2. req \in Nat
  BY DEF Typed
<1>3. CASE cloud
  <2>1. asr' = [open |-> ok, silent |-> FALSE, cloud |-> TRUE,
                pcm |-> ok, req |-> req]
    BY <1>3 DEF DoStart
  <2> HIDE DEF req
  <2> QED
    BY <1>2, <2>1 DEF req
<1>4. CASE ~cloud /\ ok
  <2>1. asr' = [asr EXCEPT !.open = TRUE, !.silent = FALSE, !.cloud = FALSE,
                           !.req = req]
    BY <1>4 DEF DoStart, WireOpened
  <2>2. req = count.asr + 1
    OBVIOUS
  <2> HIDE DEF req
  <2> QED
    BY <1>1, <1>2, <1>4, <2>1, <2>2
<1>5. CASE ~cloud /\ ~ok
  <2>1. asr' = [asr EXCEPT !.cloud = FALSE, !.req = req]
    BY <1>5 DEF DoStart
  <2>2. req = count.asr + 1
    OBVIOUS
  <2> HIDE DEF req
  <2> QED
    BY <1>1, <1>2, <1>5, <2>1, <2>2
<1> QED
  BY <1>3, <1>4, <1>5

LEMMA DoStartKeeps ==
  ASSUME IInv, NEW cloud \in BOOLEAN, NEW ok \in BOOLEAN, DoStart(cloud, ok)
  PROVE  IInv'
<1> DEFINE req == count.asr + 1
           e == Event(IF ok THEN "started" ELSE "failed", ok, req)
<1>0. /\ Doing("start") /\ Done /\ Advance
      /\ UNCHANGED <<sm, run, player, fresh, stray>>
      /\ count' = [count EXCEPT !.asr = req] /\ Post(e)
  BY DEF DoStart
<1>1. Typed /\ InOrder
  BY DEF IInv
<1>2. /\ count' \in [posts : Nat, asr : Nat, run : Nat, dead : Nat]
      /\ req \in Nat /\ count.asr \in Nat /\ count'.asr = req /\ req = count.asr + 1
      /\ UNCHANGED <<count.run, count.dead>>
  <2>1. count \in [posts : Nat, asr : Nat, run : Nat, dead : Nat]
    BY <1>1 DEF Typed
  <2>2. count' = [count EXCEPT !.asr = count.asr + 1]
    BY <1>0
  <2> QED
    BY <2>1, <2>2
<1>3. /\ e \in Events /\ e.of = req
      /\ ok => e.type = "started"
      /\ ~ok => e.type = "failed"
  <2>1. CASE ok
    <3>1. e = Event("started", ok, req)
      BY <2>1
    <3>2. "started" \in EventTypes
      BY DEF EventTypes, AsrEvents
    <3> HIDE DEF e
    <3> QED
      BY <1>2, <2>1, <3>1, <3>2, EventTyped
  <2>2. CASE ~ok
    <3>1. e = Event("failed", ok, req)
      BY <2>2
    <3>2. "failed" \in EventTypes
      BY DEF EventTypes, AsrEvents
    <3> HIDE DEF e
    <3> QED
      BY <1>2, <2>2, <3>1, <3>2, EventTyped
  <2> QED
    BY <2>1, <2>2
<1>4. Posted(e)
  BY <1>0, <1>1, <1>3, PostPosts
<1>5. /\ asr' \in [open : BOOLEAN, silent : BOOLEAN, cloud : BOOLEAN,
                   pcm : BOOLEAN, req : Nat]
      /\ asr'.req = req
      /\ ok => asr'.open /\ ~asr'.silent
      /\ ~ok /\ asr'.open => asr.open /\ (asr'.silent <=> asr.silent)
  BY <1>1, <1>2, StartRequest
<1> HIDE DEF req, e
<1>6. /\ InOrder' /\ acts' \in Seq(Actions)
      /\ pc' \in {"take", "act", "poll", "agent", "idle"}
      /\ ToDo("start")
      /\ \A m : m # "start" => (ToDo(m)' <=> ToDo(m))
      /\ \A m : ~ToDo(m)'
      /\ SilencedRunUnheard'
  BY <1>0, <1>2, ActionFrame DEF Cancels
<1>7. Apart({"speak_done"}) /\ Apart(AgentEvents)
  BY <1>3, <1>4 DEF Apart, AgentEvents
<1>8. Typed'
  BY <1>0, <1>1, <1>2, <1>4, <1>5, <1>6 DEF Typed, Posted
<1>9. SoundInv'
  BY <1>0, <1>6, <1>7, SoundFrame DEF IInv
<1>10. AgentInv'
  BY <1>0, <1>2, <1>6, <1>7, AgentFrame DEF IInv
<1>11. sm'.state = "listening" /\ ~ToDo("asr_cancel")
  BY <1>0, <1>1, <1>6 DEF InOrder
<1>12. \A i \in DOMAIN queue : queue[i].type \in Ends
                                 => queue[i].of <= count.asr /\ queue[i].of \in Nat
  <2> \A i \in DOMAIN queue : queue[i] \in Events
    BY <1>1 DEF Typed
  <2> QED
    BY DEF IInv, RequestInv, Events
<1>13. RequestInv'
  <2>1. (asr.req <= count.asr)'
    BY <1>2, <1>5
  <2>2. (\A i \in DOMAIN queue : queue[i].type \in Ends
                                   => queue[i].of <= count.asr)'
    <3> SUFFICES ASSUME NEW i \in DOMAIN queue', queue'[i].type \in Ends
                 PROVE  queue'[i].of <= count'.asr
      BY DEF Ends
    <3>1. CASE queue'[i] = e
      BY <1>2, <1>3, <3>1
    <3>2. CASE i \in DOMAIN queue /\ queue'[i] = queue[i]
      BY <1>2, <1>12, <3>2
    <3> QED
      BY <1>3, <1>4, <3>1, <3>2, PostedEach
  <2>3. (sm.state = "listening" /\ ~lost =>
          \/ ToDo("start") \/ (asr.open /\ ~asr.silent)
          \/ InQueue("failed") \/ InQueue("finished"))'
    <3>1. ~ok /\ ~lost' => InQueue("failed")'
      BY <1>3, <1>4, PostedIn
    <3> QED
      BY <1>3, <1>5, <3>1
  <2>4. ASSUME ~stray', asr'.open, ~asr'.silent
        PROVE  /\ ok
               /\ \A i \in DOMAIN queue' : queue'[i].type \in Ends
                                             => queue'[i].of # asr'.req
    <3>1. ok
      BY <1>0, <1>5, <1>6, <1>11, <2>4 DEF IInv, RequestInv
    <3>2. ASSUME NEW i \in DOMAIN queue', queue'[i].type \in Ends
          PROVE  queue'[i].of # asr'.req
      <4>1. queue'[i] # e
        BY <1>3, <3>1, <3>2 DEF Ends
      <4>2. i \in DOMAIN queue /\ queue'[i] = queue[i]
        BY <1>3, <1>4, <4>1, PostedEach
      <4> QED
        BY <1>2, <1>5, <1>12, <3>2, <4>2
    <3> QED
      BY <3>1, <3>2
  <2> QED
    BY <1>6, <1>11, <2>1, <2>2, <2>3, <2>4 DEF RequestInv
<1>14. OldNewsFirst'
  <2>1. ASSUME NEW i \in DOMAIN queue', queue'[i].type = "finished",
               queue'[i].of = asr'.req
        PROVE  FALSE
    <3>1. queue'[i] # e
      BY <1>3, <2>1
    <3>2. i \in DOMAIN queue /\ queue'[i] = queue[i]
      BY <1>3, <1>4, <3>1, PostedEach
    <3> QED
      BY <1>2, <1>5, <1>12, <2>1, <3>2 DEF Ends
  <2> QED
    BY <2>1 DEF OldNewsFirst
<1> QED
  BY <1>6, <1>8, <1>9, <1>10, <1>13, <1>14 DEF IInv

(***************************************************************************)
(* The agent                                                               *)
(***************************************************************************)

LEMMA DoAgentCancelKeeps ==
  ASSUME IInv, DoAgentCancel
  PROVE  IInv'
<1>0. /\ Doing("agent_cancel") /\ Done /\ Advance
      /\ run' = [run EXCEPT !.id = 0, !.due = FALSE]
      /\ count' = [count EXCEPT !.dead = count.run]
      /\ UNCHANGED <<sm, queue, asr, player, fresh, lost, stray>>
  BY DEF DoAgentCancel
<1>1. Typed /\ InOrder
  BY DEF IInv
<1>2. /\ InOrder' /\ acts' \in Seq(Actions)
      /\ pc' \in {"take", "act", "poll", "agent", "idle"}
      /\ ToDo("agent_cancel")
      /\ \A m : m # "agent_cancel" => (ToDo(m)' <=> ToDo(m))
      /\ SilencedRunUnheard'
  BY <1>0, ActionFrame
<1>3. Kept /\ Apart({"speak_done"}) /\ Apart(Ends) /\ Apart(AgentEvents)
  BY <1>0 DEF Kept, Apart
<1>4. /\ run' \in [id : Nat, pending : BOOLEAN, due : BOOLEAN]
      /\ run'.id = 0 /\ ~run'.due
      /\ count' \in [posts : Nat, asr : Nat, run : Nat, dead : Nat]
      /\ count'.dead = count.run /\ count'.run = count.run
      /\ count'.asr = count.asr /\ count.run \in Nat
  BY <1>0, <1>1 DEF Typed
<1>5. Typed'
  BY <1>0, <1>1, <1>2, <1>4 DEF Typed
<1>6. SoundInv'
  BY <1>0, <1>2, <1>3, SoundFrame DEF IInv
<1>7. RequestInv'
  BY <1>0, <1>2, <1>3, <1>4, RequestFrame DEF IInv
<1>8. AgentInv'
  <2>1. sm'.state # "thinking" /\ ~sm'.pending
    BY <1>0, <1>1, <1>2 DEF InOrder
  <2> QED
    BY <1>4, <2>1 DEF AgentInv, RunInv, OneOutcome, LiveAnswers
<1>9. OldNewsFirst'
  BY <1>0, <1>1, <1>2, <1>3, NewsFrame DEF IInv
<1> QED
  BY <1>2, <1>5, <1>6, <1>7, <1>8, <1>9 DEF IInv

LEMMA DoForgetKeeps ==
  ASSUME IInv, DoForget
  PROVE  IInv'
<1>0. /\ Doing("forget") /\ Done /\ Advance
      /\ run' = [run EXCEPT !.id = 0, !.pending = FALSE]
      /\ count' = [count EXCEPT !.dead = count.run]
      /\ UNCHANGED <<sm, queue, asr, player, fresh, lost, stray>>
  BY DEF DoForget
<1>1. Typed /\ InOrder
  BY DEF IInv
<1>2. /\ InOrder' /\ acts' \in Seq(Actions)
      /\ pc' \in {"take", "act", "poll", "agent", "idle"}
      /\ ToDo("forget")
      /\ \A m : m # "forget" => (ToDo(m)' <=> ToDo(m))
      /\ SilencedRunUnheard'
  BY <1>0, ActionFrame
<1>3. Kept /\ Apart({"speak_done"}) /\ Apart(Ends) /\ Apart(AgentEvents)
  BY <1>0 DEF Kept, Apart
<1>4. /\ run' \in [id : Nat, pending : BOOLEAN, due : BOOLEAN]
      /\ run'.id = 0 /\ run'.due = run.due
      /\ count' \in [posts : Nat, asr : Nat, run : Nat, dead : Nat]
      /\ count'.dead = count.run /\ count'.run = count.run
      /\ count'.asr = count.asr /\ count.run \in Nat
  BY <1>0, <1>1 DEF Typed
<1>5. Typed'
  BY <1>0, <1>1, <1>2, <1>4 DEF Typed
<1>6. SoundInv'
  BY <1>0, <1>2, <1>3, SoundFrame DEF IInv
<1>7. RequestInv'
  BY <1>0, <1>2, <1>3, <1>4, RequestFrame DEF IInv
<1>8. AgentInv'
  <2>1. sm'.state # "thinking" /\ ~sm'.pending
    BY <1>0, <1>1, <1>2 DEF InOrder
  <2>2. ~stray' /\ run'.due => ToDo("agent_cancel")'
    BY <1>0, <1>2, <1>4, <2>1 DEF IInv, AgentInv, RunInv
  <2> QED
    BY <1>4, <2>1, <2>2 DEF AgentInv, RunInv, OneOutcome, LiveAnswers
<1>9. OldNewsFirst'
  BY <1>0, <1>1, <1>2, <1>3, NewsFrame DEF IInv
<1> QED
  BY <1>2, <1>5, <1>6, <1>7, <1>8, <1>9 DEF IInv

\* What the agent does to the thread's view of its run: the step leaves the
\* rest alone and its invariants hold afterwards.
LEMMA RunFrame ==
  ASSUME IInv, UNCHANGED <<sm, asr, player, fresh, stray, count.asr>>,
         Typed', InOrder', AgentInv', SilencedRunUnheard',
         Apart({"speak_done"}), Apart(Ends),
         ToDo("start")' <=> ToDo("start"),
         ToDo("speak")' <=> ToDo("speak"),
         ToDo("asr_cancel")' <=> ToDo("asr_cancel"),
         ToDo("speak_cancel")' <=> ToDo("speak_cancel"),
         ~stray => sm.state # "listening"
  PROVE  IInv'
<1>1. SoundInv'
  BY SoundFrame DEF IInv
<1>2. RequestInv'
  BY RequestFrame DEF IInv
<1>3. OldNewsFirst'
  BY DEF OldNewsFirst
<1> QED
  BY <1>1, <1>2, <1>3 DEF IInv

\* Submitting, or being told to wait or no
Outcomes == {"accepted", "again", "busy", "agent_failed"}

LEMMA SubmitTyped ==
  ASSUME Typed, NEW outcome \in Outcomes, Submit(outcome)
  PROVE  /\ run' \in [id : Nat, pending : BOOLEAN, due : BOOLEAN]
         /\ count' \in [posts : Nat, asr : Nat, run : Nat, dead : Nat]
         /\ UNCHANGED <<count.asr, count.dead>>
         /\ queue' \in Seq(Events) /\ Len(queue') <= QueueCap
         /\ lost' \in BOOLEAN
         /\ Apart({"speak_done"}) /\ Apart(Ends)
         /\ \/ /\ Kept /\ run'.id = count.run + 1 /\ ~run'.due
               /\ count'.run = count.run + 1
            \/ Kept /\ run'.id = run.id /\ run'.due /\ count' = count
            \/ /\ run'.id = run.id /\ ~run'.due /\ count' = count
               /\ \E e \in Events : e.type \in {"busy", "agent_failed"}
                                    /\ Posted(e)
<1>1. /\ run \in [id : Nat, pending : BOOLEAN, due : BOOLEAN]
      /\ count \in [posts : Nat, asr : Nat, run : Nat, dead : Nat]
      /\ queue \in Seq(Events) /\ Len(queue) <= QueueCap /\ lost \in BOOLEAN
  BY DEF Typed
<1>2. CASE outcome = "accepted"
  <2>1. /\ run' = [id |-> count.run + 1, pending |-> FALSE, due |-> FALSE]
        /\ count' = [count EXCEPT !.run = count.run + 1] /\ Kept
    BY <1>2 DEF Submit, NoPost, Kept
  <2>2. count.run + 1 \in Nat
    BY <1>1
  <2>3. Apart({"speak_done"}) /\ Apart(Ends)
    BY <2>1 DEF Apart
  <2> QED
    BY <1>1, <2>1, <2>2, <2>3 DEF Kept
<1>3. CASE outcome = "again"
  <2>1. run' = [run EXCEPT !.due = TRUE] /\ count' = count /\ Kept
    BY <1>3 DEF Submit, NoPost, Kept
  <2>2. Apart({"speak_done"}) /\ Apart(Ends)
    BY <2>1 DEF Apart
  <2> QED
    BY <1>1, <2>1, <2>2 DEF Kept
<1>4. CASE outcome \in {"busy", "agent_failed"}
  <2> DEFINE e == Event(outcome, FALSE, 0)
  <2>1. run' = [run EXCEPT !.due = FALSE] /\ count' = count /\ Post(e)
    BY <1>4 DEF Submit, Refused
  <2>2. e \in Events /\ e.type = outcome
    BY <1>4, EventTyped DEF EventTypes, AgentEvents
  <2>3. Posted(e)
    BY <2>1, <2>2, PostPosts
  <2> HIDE DEF e
  <2>4. Apart({"speak_done"}) /\ Apart(Ends)
    BY <1>4, <2>2, <2>3 DEF Apart, Ends
  <2>5. /\ run' \in [id : Nat, pending : BOOLEAN, due : BOOLEAN]
        /\ run'.id = run.id /\ ~run'.due
    BY <1>1, <2>1
  <2>6. queue' \in Seq(Events) /\ Len(queue') <= QueueCap /\ lost' \in BOOLEAN
    BY <2>3 DEF Posted
  <2> QED
    BY <1>1, <1>4, <2>1, <2>2, <2>3, <2>4, <2>5, <2>6
<1> QED
  BY <1>2, <1>3, <1>4 DEF Outcomes

LEMMA SubmitKeeps ==
  ASSUME Typed, InOrder, AgentInv, NEW outcome \in Outcomes, Submit(outcome),
         UNCHANGED <<sm, stray>>, ~ToDo("submit")',
         ~stray => sm.state = "thinking" /\ run.id = 0 /\ ~NewsInQueue
  PROVE  AgentInv'
<1>1. /\ UNCHANGED count.dead
      /\ \/ /\ Kept /\ run'.id = count.run + 1 /\ ~run'.due
            /\ count'.run = count.run + 1
         \/ Kept /\ run'.id = run.id /\ run'.due /\ count' = count
         \/ /\ run'.id = run.id /\ ~run'.due /\ count' = count
            /\ \E e \in Events : e.type \in {"busy", "agent_failed"}
                                 /\ Posted(e)
  BY SubmitTyped
<1>2. /\ count.run \in Nat /\ count.dead \in Nat /\ run.id \in Nat
      /\ run.id <= count.run /\ count.dead <= count.run
      /\ run.id # 0 => run.id > count.dead
  BY DEF Typed, AgentInv, RunInv
<1>3. ~stray' => ~stray /\ sm'.state = "thinking" /\ ~sm'.pending
  BY DEF InOrder
<1>4. CASE /\ Kept /\ run'.id = count.run + 1 /\ ~run'.due
           /\ count'.run = count.run + 1
  <2>1. \A type : InQueue(type)' <=> InQueue(type)
    BY <1>4 DEF Kept, InQueue
  <2>2. NewsInQueue' <=> NewsInQueue
    BY <2>1 DEF NewsInQueue
  <2>3. run'.id # 0 /\ run'.id <= count'.run /\ count'.dead <= count'.run
        /\ run'.id > count'.dead
    BY <1>1, <1>2, <1>4
  <2>4. RunInv'
    BY <1>3, <1>4, <2>3 DEF RunInv
  <2>5. OneOutcome'
    BY <1>3, <1>4, <2>1, <2>2 DEF OneOutcome, NewsInQueue
  <2>6. LiveAnswers'
    BY <1>1, <1>3, <1>4 DEF AgentInv, LiveAnswers, Kept
  <2> QED
    BY <2>4, <2>5, <2>6 DEF AgentInv
<1>5. CASE Kept /\ run'.id = run.id /\ run'.due /\ count' = count
  <2>1. \A type : InQueue(type)' <=> InQueue(type)
    BY <1>5 DEF Kept, InQueue
  <2>2. NewsInQueue' <=> NewsInQueue
    BY <2>1 DEF NewsInQueue
  <2>3. RunInv'
    BY <1>2, <1>3, <1>5 DEF RunInv
  <2>4. OneOutcome'
    BY <1>3, <1>5, <2>1, <2>2 DEF OneOutcome, NewsInQueue
  <2>5. LiveAnswers'
    BY <1>1, <1>3, <1>5 DEF AgentInv, LiveAnswers, Kept
  <2> QED
    BY <2>3, <2>4, <2>5 DEF AgentInv
<1>6. ASSUME run'.id = run.id, ~run'.due, count' = count,
             NEW e \in Events, e.type \in {"busy", "agent_failed"}, Posted(e)
      PROVE  AgentInv'
  <2>1. InQueue("reply")' => InQueue("reply")
    BY <1>6, PostedIn
  <2>2. InQueue("pending")' => InQueue("pending")
    BY <1>6, PostedIn
  <2>3. ~lost' => NewsInQueue'
    BY <1>6, PostedIn DEF NewsInQueue
  <2>4. RunInv'
    BY <1>2, <1>3, <1>6, <2>3 DEF RunInv
  <2>5. OneOutcome'
    BY <1>3, <1>6, <2>1, <2>2 DEF OneOutcome, NewsInQueue
  <2>6. LiveAnswers'
    <3> SUFFICES ASSUME ~stray', NEW i \in DOMAIN queue',
                        queue'[i].type = "reply"
                 PROVE  queue'[i].of > count'.dead
      BY DEF LiveAnswers
    <3>1. i \in DOMAIN queue /\ queue'[i] = queue[i]
      BY <1>6, PostedEach
    <3> QED
      BY <1>1, <1>3, <3>1 DEF AgentInv, LiveAnswers
  <2> QED
    BY <2>4, <2>5, <2>6 DEF AgentInv
<1> QED
  BY <1>1, <1>4, <1>5, <1>6

LEMMA DoSubmitKeeps ==
  ASSUME IInv, NEW outcome \in Outcomes, DoSubmit(outcome)
  PROVE  IInv'
<1>0. /\ Doing("submit") /\ Done /\ Advance /\ Submit(outcome)
      /\ UNCHANGED <<sm, asr, player, fresh, stray>>
  BY DEF DoSubmit
<1>1. Typed /\ InOrder /\ AgentInv
  BY DEF IInv
<1>2. /\ InOrder' /\ acts' \in Seq(Actions)
      /\ pc' \in {"take", "act", "poll", "agent", "idle"}
      /\ ToDo("submit")
      /\ \A m : m # "submit" => (ToDo(m)' <=> ToDo(m))
      /\ \A m : ~ToDo(m)'
      /\ SilencedRunUnheard'
  BY <1>0, ActionFrame DEF Cancels
<1>3. /\ run' \in [id : Nat, pending : BOOLEAN, due : BOOLEAN]
      /\ count' \in [posts : Nat, asr : Nat, run : Nat, dead : Nat]
      /\ UNCHANGED count.asr
      /\ queue' \in Seq(Events) /\ Len(queue') <= QueueCap
      /\ lost' \in BOOLEAN
      /\ Apart({"speak_done"}) /\ Apart(Ends)
  BY <1>0, <1>1, SubmitTyped
<1>4. Typed'
  BY <1>0, <1>1, <1>2, <1>3 DEF Typed
<1>5. sm.state = "thinking"
  BY <1>1, <1>2 DEF InOrder
<1>6. ~stray => run.id = 0 /\ ~NewsInQueue
  BY <1>1, <1>2, <1>5 DEF AgentInv, OneOutcome
<1>7. AgentInv'
  BY <1>0, <1>1, <1>2, <1>5, <1>6, SubmitKeeps
<1> QED
  BY <1>0, <1>2, <1>3, <1>4, <1>5, <1>7, RunFrame

\* The agent is asked in the loop, where no action is left.
LEMMA AtAgent ==
  ASSUME IInv, pc = "agent", acts' = acts, sm' = sm, pc' = AfterAgent
  PROVE  /\ InOrder' /\ acts' \in Seq(Actions)
         /\ pc' \in {"take", "act", "poll", "agent", "idle"}
         /\ \A m : ToDo(m)' <=> ToDo(m)
         /\ \A m : ~ToDo(m)
         /\ SilencedRunUnheard'
<1>1. Typed /\ InOrder /\ acts = <<>>
  BY DEF IInv, InOrder
<1>2. Onwards
  BY <1>1, AfterAgentIn DEF Onwards
<1>3. InOrder' /\ \A m : ToDo(m)' <=> ToDo(m)
  BY <1>1, <1>2, OnwardsOrder
<1>4. \A m : ~ToDo(m)
  BY <1>1 DEF ToDo
<1>5. SilencedRunUnheard'
  BY <1>1 DEF SilencedRunUnheard
<1> QED
  BY <1>1, <1>2, <1>3, <1>4, <1>5 DEF Onwards, Typed

LEMMA AgentRetryKeeps ==
  ASSUME IInv, NEW outcome \in Outcomes, AgentRetry(outcome)
  PROVE  IInv'
<1>0. /\ pc = "agent" /\ run.due /\ Submit(outcome) /\ pc' = AfterAgent
      /\ UNCHANGED <<sm, acts, asr, player, fresh, stray>>
  BY DEF AgentRetry
<1>1. Typed /\ InOrder /\ AgentInv
  BY DEF IInv
<1>2. /\ InOrder' /\ acts' \in Seq(Actions)
      /\ pc' \in {"take", "act", "poll", "agent", "idle"}
      /\ \A m : ToDo(m)' <=> ToDo(m)
      /\ \A m : ~ToDo(m)
      /\ SilencedRunUnheard'
  BY <1>0, AtAgent
<1>3. /\ run' \in [id : Nat, pending : BOOLEAN, due : BOOLEAN]
      /\ count' \in [posts : Nat, asr : Nat, run : Nat, dead : Nat]
      /\ UNCHANGED count.asr
      /\ queue' \in Seq(Events) /\ Len(queue') <= QueueCap
      /\ lost' \in BOOLEAN
      /\ Apart({"speak_done"}) /\ Apart(Ends)
  BY <1>0, <1>1, SubmitTyped
<1>4. Typed'
  BY <1>0, <1>1, <1>2, <1>3 DEF Typed
<1>5. ~stray => sm.state = "thinking"
  BY <1>0, <1>1, <1>2 DEF AgentInv, RunInv
<1>6. ~stray => run.id = 0 /\ ~NewsInQueue
  BY <1>0, <1>1, <1>5 DEF AgentInv, OneOutcome
<1>7. AgentInv'
  BY <1>0, <1>1, <1>2, <1>5, <1>6, SubmitKeeps
<1> QED
  BY <1>0, <1>2, <1>3, <1>4, <1>5, <1>7, RunFrame

\* While a run is asked about somebody waits for it.
LEMMA AskedWanted ==
  ASSUME IInv, Asking
  PROVE  /\ pc = "agent" /\ run.id # 0
         /\ ~stray => sm.state = "thinking" \/ sm.pending
         /\ ~stray => sm.state # "listening"
<1>1. pc = "agent" /\ run.id # 0
  BY DEF Asking
<1>2. acts = <<>>
  BY <1>1 DEF IInv, InOrder
<1>3. \A m : ~ToDo(m)
  BY <1>2 DEF ToDo
<1>4. ~stray => sm.state = "thinking" \/ sm.pending
  BY <1>1, <1>3 DEF IInv, AgentInv, RunInv
<1> QED
  BY <1>1, <1>4 DEF IInv, InOrder

LEMMA AgentWaitsKeeps ==
  ASSUME IInv, AgentWaits
  PROVE  IInv'
<1> DEFINE e == Event("pending", TRUE, run.id)
<1>0. /\ Asking /\ run' = [run EXCEPT !.pending = TRUE]
      /\ Post(e) /\ pc' = AfterAgent
      /\ UNCHANGED <<sm, acts, asr, player, fresh, count, stray>>
  BY DEF AgentWaits
<1>1. Typed /\ InOrder /\ AgentInv
  BY DEF IInv
<1>2. /\ pc = "agent" /\ run.id # 0
      /\ ~stray => sm.state = "thinking" \/ sm.pending
      /\ ~stray => sm.state # "listening"
  BY <1>0, AskedWanted
<1>3. /\ InOrder' /\ acts' \in Seq(Actions)
      /\ pc' \in {"take", "act", "poll", "agent", "idle"}
      /\ \A m : ToDo(m)' <=> ToDo(m)
      /\ \A m : ~ToDo(m)
      /\ SilencedRunUnheard'
  BY <1>0, <1>2, AtAgent
<1>4. /\ run \in [id : Nat, pending : BOOLEAN, due : BOOLEAN]
      /\ run' \in [id : Nat, pending : BOOLEAN, due : BOOLEAN]
      /\ run'.id = run.id /\ run'.due = run.due
  BY <1>0, <1>1 DEF Typed
<1>5. e \in Events /\ e.type = "pending"
  <2>1. "pending" \in EventTypes
    BY DEF EventTypes, AgentEvents
  <2>2. run.id \in Nat
    BY <1>4
  <2> QED
    BY <2>1, <2>2, EventTyped
<1>6. Posted(e)
  BY <1>0, <1>1, <1>5, PostPosts
<1> HIDE DEF e
<1>7. Apart({"speak_done"}) /\ Apart(Ends)
  BY <1>5, <1>6 DEF Apart, Ends
<1>8. Typed'
  BY <1>0, <1>1, <1>3, <1>4, <1>6 DEF Typed, Posted
<1>9. ~run.due
  BY <1>0 DEF Asking
<1>10. /\ InQueue("reply")' => InQueue("reply")
       /\ InQueue("busy")' => InQueue("busy")
       /\ InQueue("agent_failed")' => InQueue("agent_failed")
       /\ ~lost' => ~lost
  BY <1>5, <1>6, PostedIn DEF Posted
<1>11. RunInv'
  BY <1>0, <1>1, <1>2, <1>3, <1>4, <1>9 DEF AgentInv, RunInv
<1>12. OneOutcome'
  BY <1>0, <1>1, <1>2, <1>3, <1>4, <1>9, <1>10 DEF AgentInv, OneOutcome
<1>13. LiveAnswers'
  <2> SUFFICES ASSUME ~stray', (sm.state = "thinking" \/ sm.pending)',
                      NEW i \in DOMAIN queue', queue'[i].type = "reply"
               PROVE  queue'[i].of > count'.dead
    BY DEF LiveAnswers
  <2>1. i \in DOMAIN queue /\ queue'[i] = queue[i]
    BY <1>5, <1>6, PostedEach
  <2> QED
    BY <1>0, <1>1, <2>1 DEF AgentInv, LiveAnswers
<1>14. AgentInv'
  BY <1>11, <1>12, <1>13 DEF AgentInv
<1> QED
  BY <1>0, <1>2, <1>3, <1>7, <1>8, <1>14, RunFrame

LEMMA AgentEndedKeeps ==
  ASSUME IInv, NEW good \in BOOLEAN, AgentEnded(good)
  PROVE  IInv'
<1> DEFINE e == Event("reply", good, run.id)
<1>0. /\ Asking /\ run' = [run EXCEPT !.id = 0, !.pending = FALSE]
      /\ Post(e) /\ pc' = AfterAgent
      /\ UNCHANGED <<sm, acts, asr, player, fresh, count, stray>>
  BY DEF AgentEnded
<1>1. Typed /\ InOrder /\ AgentInv
  BY DEF IInv
<1>2. /\ pc = "agent" /\ run.id # 0
      /\ ~stray => sm.state = "thinking" \/ sm.pending
      /\ ~stray => sm.state # "listening"
  BY <1>0, AskedWanted
<1>3. /\ InOrder' /\ acts' \in Seq(Actions)
      /\ pc' \in {"take", "act", "poll", "agent", "idle"}
      /\ \A m : ToDo(m)' <=> ToDo(m)
      /\ \A m : ~ToDo(m)
      /\ SilencedRunUnheard'
  BY <1>0, <1>2, AtAgent
<1>4. /\ run \in [id : Nat, pending : BOOLEAN, due : BOOLEAN]
      /\ run' \in [id : Nat, pending : BOOLEAN, due : BOOLEAN]
      /\ run'.id = 0 /\ run'.due = run.due
      /\ count.run \in Nat /\ count.dead \in Nat
  BY <1>0, <1>1 DEF Typed
<1>5. e \in Events /\ e.type = "reply" /\ e.of = run.id
  <2>1. "reply" \in EventTypes
    BY DEF EventTypes, AgentEvents
  <2>2. run.id \in Nat
    BY <1>4
  <2> QED
    BY <2>1, <2>2, EventTyped
<1>6. Posted(e)
  BY <1>0, <1>1, <1>5, PostPosts
<1>7. ~run.due /\ run.id > count.dead /\ count.dead <= count.run
  BY <1>0, <1>1, <1>2 DEF Asking, AgentInv, RunInv
<1> HIDE DEF e
<1>8. Apart({"speak_done"}) /\ Apart(Ends)
  BY <1>5, <1>6 DEF Apart, Ends
<1>9. Typed'
  BY <1>0, <1>1, <1>3, <1>4, <1>6 DEF Typed, Posted
<1>10. /\ InQueue("busy")' => InQueue("busy")
       /\ InQueue("agent_failed")' => InQueue("agent_failed")
       /\ ~lost' => InQueue("reply")' /\ ~lost
  BY <1>5, <1>6, PostedIn DEF Posted
<1>11. RunInv'
  BY <1>0, <1>3, <1>4, <1>7, <1>10 DEF RunInv, NewsInQueue
<1>12. OneOutcome'
  BY <1>0, <1>1, <1>2, <1>3, <1>4, <1>7, <1>10 DEF AgentInv, OneOutcome
<1>13. LiveAnswers'
  <2> SUFFICES ASSUME ~stray', (sm.state = "thinking" \/ sm.pending)',
                      NEW i \in DOMAIN queue', queue'[i].type = "reply"
               PROVE  queue'[i].of > count'.dead
    BY DEF LiveAnswers
  <2>1. CASE i \in DOMAIN queue /\ queue'[i] = queue[i]
    BY <1>0, <1>1, <2>1 DEF AgentInv, LiveAnswers
  <2>2. CASE queue'[i] = e
    BY <1>0, <1>5, <1>7, <2>2
  <2> QED
    BY <1>5, <1>6, <2>1, <2>2, PostedEach
<1>14. AgentInv'
  BY <1>11, <1>12, <1>13 DEF AgentInv
<1> QED
  BY <1>0, <1>2, <1>3, <1>8, <1>9, <1>14, RunFrame

(***************************************************************************)
(* What the machine orders                                                 *)
(***************************************************************************)
Machines == [state : States, started : BOOLEAN, endWanted : BOOLEAN,
             endSent : BOOLEAN, pending : BOOLEAN]

\* The list orders actions of exactly these names.
Orders(q, names) == \A m : (\E i \in DOMAIN q : q[i].act = m) <=> m \in names

Shaped(q) ==
  /\ q \in Seq(Actions) /\ Len(q) <= 3
  /\ \A i \in DOMAIN q :
       /\ q[i].act \notin Cancels => i = Len(q)
       /\ q[i].of # 0 => Len(q) = 1 /\ q[i].act = "speak"

\* Nothing but cancellations
Calling(q) ==
  /\ q \in Seq(Actions)
  /\ \A i \in DOMAIN q : q[i].act \in Cancels /\ q[i].of = 0

Lands(state, pending, names) ==
  /\ sm' \in Machines /\ sm'.state = state /\ sm'.pending = pending
  /\ Shaped(acts') /\ Orders(acts', names)

Mute == \A i \in DOMAIN acts' : acts'[i].of = 0

LEMMA OrdersToDo ==
  ASSUME NEW names, Orders(acts', names)
  PROVE  \A m : ToDo(m)' <=> m \in names
BY DEF Orders, ToDo

LEMMA EmptyList ==
  /\ Shaped(<<>>) /\ Calling(<<>>) /\ Orders(<<>>, {})
  /\ \A i \in DOMAIN <<>> : <<>>[i].of = 0
<1>1. <<>> \in Seq(Actions) /\ Len(<<>>) = 0 /\ DOMAIN <<>> = {}
  OBVIOUS
<1>2. \A i \in DOMAIN <<>> : FALSE
  BY <1>1
<1> QED
  BY <1>1, <1>2 DEF Shaped, Calling, Orders

LEMMA OneList ==
  ASSUME NEW a \in Actions, a.of # 0 => a.act = "speak"
  PROVE  /\ Shaped(<<a>>) /\ Orders(<<a>>, {a.act}) /\ Len(<<a>>) = 1
         /\ \A i \in DOMAIN <<a>> : <<a>>[i] = a
         /\ a.act \in Cancels /\ a.of = 0 => Calling(<<a>>)
<1>1. <<a>> \in Seq(Actions) /\ Len(<<a>>) = 1 /\ DOMAIN <<a>> = {1} /\ <<a>>[1] = a
  OBVIOUS
<1> QED
  BY <1>1 DEF Shaped, Calling, Orders

LEMMA CatList ==
  ASSUME NEW p \in Seq(Actions), NEW q \in Seq(Actions)
  PROVE  /\ p \o q \in Seq(Actions) /\ Len(p \o q) = Len(p) + Len(q)
         /\ \A i \in DOMAIN (p \o q) :
              \/ i \in DOMAIN p /\ (p \o q)[i] = p[i]
              \/ /\ i \in Nat /\ i - Len(p) \in DOMAIN q
                 /\ (p \o q)[i] = q[i - Len(p)]
         /\ \A i \in DOMAIN p : i \in DOMAIN (p \o q) /\ (p \o q)[i] = p[i]
         /\ \A i \in DOMAIN q : i \in Nat /\ Len(p) + i \in DOMAIN (p \o q)
                                /\ (p \o q)[Len(p) + i] = q[i]
OBVIOUS

LEMMA CatOrders ==
  ASSUME NEW p \in Seq(Actions), NEW q \in Seq(Actions),
         NEW P, NEW Q, Orders(p, P), Orders(q, Q)
  PROVE  Orders(p \o q, P \cup Q)
<1>1. ASSUME NEW m, \E i \in DOMAIN (p \o q) : (p \o q)[i].act = m
      PROVE  m \in P \cup Q
  <2> PICK i \in DOMAIN (p \o q) : (p \o q)[i].act = m
    BY <1>1
  <2>1. CASE i \in DOMAIN p /\ (p \o q)[i] = p[i]
    BY <2>1 DEF Orders
  <2>2. CASE i - Len(p) \in DOMAIN q /\ (p \o q)[i] = q[i - Len(p)]
    BY <2>2 DEF Orders
  <2> QED
    BY <2>1, <2>2, CatList
<1>2. ASSUME NEW m \in P PROVE \E i \in DOMAIN (p \o q) : (p \o q)[i].act = m
  <2> PICK i \in DOMAIN p : p[i].act = m
    BY DEF Orders
  <2> i \in DOMAIN (p \o q) /\ (p \o q)[i] = p[i]
    BY CatList
  <2> QED
    OBVIOUS
<1>3. ASSUME NEW m \in Q PROVE \E i \in DOMAIN (p \o q) : (p \o q)[i].act = m
  <2> PICK i \in DOMAIN q : q[i].act = m
    BY DEF Orders
  <2> Len(p) + i \in DOMAIN (p \o q) /\ (p \o q)[Len(p) + i] = q[i]
    BY CatList
  <2> QED
    OBVIOUS
<1>4. \A m : (\E i \in DOMAIN (p \o q) : (p \o q)[i].act = m) => m \in P \cup Q
  BY <1>1
<1>5. \A m : m \in P \cup Q => \E i \in DOMAIN (p \o q) : (p \o q)[i].act = m
  BY <1>2, <1>3
<1> QED
  BY <1>4, <1>5 DEF Orders

\* Cancellations, then something of no run
LEMMA CallingThen ==
  ASSUME NEW p, Calling(p), NEW q, Shaped(q), Len(p) + Len(q) <= 3,
         \A i \in DOMAIN q : q[i].of = 0
  PROVE  /\ Shaped(p \o q) /\ Len(p \o q) = Len(p) + Len(q)
         /\ \A i \in DOMAIN (p \o q) : (p \o q)[i].of = 0
<1>1. p \in Seq(Actions) /\ q \in Seq(Actions)
  BY DEF Calling, Shaped
<1>2. /\ p \o q \in Seq(Actions) /\ Len(p \o q) = Len(p) + Len(q)
      /\ Len(p) \in Nat /\ Len(q) \in Nat
  BY <1>1, CatList
<1>3. Len(p \o q) <= 3
  BY <1>2
<1>4. ASSUME NEW i \in DOMAIN (p \o q)
      PROVE  /\ (p \o q)[i].act \notin Cancels => i = Len(p \o q)
             /\ (p \o q)[i].of = 0
  <2>1. CASE i \in DOMAIN p /\ (p \o q)[i] = p[i]
    BY <2>1 DEF Calling
  <2>2. CASE /\ i \in Nat /\ i - Len(p) \in DOMAIN q
             /\ (p \o q)[i] = q[i - Len(p)]
    BY <1>2, <2>2 DEF Shaped
  <2> QED
    BY <1>1, <2>1, <2>2, CatList
<1> QED
  BY <1>2, <1>3, <1>4 DEF Shaped

LEMMA CallingBoth ==
  ASSUME NEW p, Calling(p), NEW q, Calling(q)
  PROVE  Calling(p \o q) /\ Len(p \o q) = Len(p) + Len(q)
<1>1. p \in Seq(Actions) /\ q \in Seq(Actions)
  BY DEF Calling
<1>2. p \o q \in Seq(Actions) /\ Len(p \o q) = Len(p) + Len(q)
  BY <1>1, CatList
<1>3. ASSUME NEW i \in DOMAIN (p \o q)
      PROVE  (p \o q)[i].act \in Cancels /\ (p \o q)[i].of = 0
  <2>1. CASE i \in DOMAIN p /\ (p \o q)[i] = p[i]
    BY <2>1 DEF Calling
  <2>2. CASE i - Len(p) \in DOMAIN q /\ (p \o q)[i] = q[i - Len(p)]
    BY <2>2 DEF Calling
  <2> QED
    BY <1>1, <2>1, <2>2, CatList
<1> QED
  BY <1>2, <1>3 DEF Calling

\* What a state has in flight, and the approval that is waited for
AbandonOf ==
  {name \in {"asr_cancel", "agent_cancel", "speak_cancel"} :
     \/ name = "asr_cancel" /\ sm.state = "listening"
     \/ name = "agent_cancel" /\ sm.state = "thinking"
     \/ name = "speak_cancel" /\ sm.state = "speaking"}

ForgetOf == {name \in {"forget"} : sm.pending}

LEMMA ActIs ==
  ASSUME NEW name \in {"asr_cancel", "agent_cancel", "speak_cancel", "forget",
                       "start", "end", "submit", "speak"},
         NEW arg \in {"", "chime", "attach", "loaded", "cue", "reply",
                      "approval", "text"}
  PROVE  /\ Act(name, arg) \in Actions /\ Act(name, arg).act = name
         /\ Act(name, arg).of = 0
BY DEF Act, Actions, Cancels

LEMMA CancelList ==
  ASSUME NEW name \in Cancels
  PROVE  /\ Calling(<<Act(name, "")>>) /\ Shaped(<<Act(name, "")>>)
         /\ Orders(<<Act(name, "")>>, {name})
         /\ Len(<<Act(name, "")>>) = 1
<1> DEFINE a == Act(name, "")
<1>1. a \in Actions /\ a.act = name /\ a.of = 0
  <2>1. name \in {"asr_cancel", "agent_cancel", "speak_cancel", "forget",
                  "start", "end", "submit", "speak"}
    BY DEF Cancels
  <2> QED
    BY <2>1, ActIs
<1> HIDE DEF a
<1>2. Len(<<a>>) = 1
  OBVIOUS
<1>3. Calling(<<a>>) /\ Shaped(<<a>>) /\ Orders(<<a>>, {name})
  BY <1>1, OneList
<1> QED
  BY <1>2, <1>3 DEF a

LEMMA AbandonList ==
  ASSUME Typed
  PROVE  Calling(Abandon) /\ Len(Abandon) <= 1 /\ Orders(Abandon, AbandonOf)
<1>1. sm.state \in States
  BY DEF Typed
<1>2. CASE sm.state = "listening"
  <2> DEFINE q == <<Act("asr_cancel", "")>>
  <2>1. Abandon = q /\ AbandonOf = {"asr_cancel"}
    BY <1>2 DEF Abandon, AbandonOf
  <2>2. "asr_cancel" \in Cancels
    BY DEF Cancels
  <2>3. Calling(q) /\ Shaped(q) /\ Orders(q, {"asr_cancel"}) /\ Len(q) = 1
    BY <2>2, CancelList
  <2> HIDE DEF q
  <2> QED
    BY <2>1, <2>3
<1>3. CASE sm.state = "thinking"
  <2> DEFINE q == <<Act("agent_cancel", "")>>
  <2>1. Abandon = q /\ AbandonOf = {"agent_cancel"}
    BY <1>3 DEF Abandon, AbandonOf
  <2>2. "agent_cancel" \in Cancels
    BY DEF Cancels
  <2>3. Calling(q) /\ Shaped(q) /\ Orders(q, {"agent_cancel"}) /\ Len(q) = 1
    BY <2>2, CancelList
  <2> HIDE DEF q
  <2> QED
    BY <2>1, <2>3
<1>4. CASE sm.state = "speaking"
  <2> DEFINE q == <<Act("speak_cancel", "")>>
  <2>1. Abandon = q /\ AbandonOf = {"speak_cancel"}
    BY <1>4 DEF Abandon, AbandonOf
  <2>2. "speak_cancel" \in Cancels
    BY DEF Cancels
  <2>3. Calling(q) /\ Shaped(q) /\ Orders(q, {"speak_cancel"}) /\ Len(q) = 1
    BY <2>2, CancelList
  <2> HIDE DEF q
  <2> QED
    BY <2>1, <2>3
<1>5. CASE sm.state \in {"off", "idle"}
  <2>1. Abandon = <<>> /\ AbandonOf = {} /\ Len(<<>>) = 0
    BY <1>5 DEF Abandon, AbandonOf
  <2> QED
    BY <2>1, EmptyList
<1> QED
  BY <1>1, <1>2, <1>3, <1>4, <1>5 DEF States

LEMMA ForgetList ==
  ASSUME Typed
  PROVE  /\ Calling(Forget) /\ Len(Forget) <= 1 /\ Orders(Forget, ForgetOf)
         /\ Shaped(Forget) /\ \A i \in DOMAIN Forget : Forget[i].of = 0
<1>1. sm.pending \in BOOLEAN
  BY DEF Typed
<1>2. CASE sm.pending
  <2> DEFINE q == <<Act("forget", "")>>
  <2>1. Forget = q /\ ForgetOf = {"forget"}
    BY <1>2 DEF Forget, ForgetOf
  <2>2. "forget" \in Cancels
    BY DEF Cancels
  <2>3. Calling(q) /\ Shaped(q) /\ Orders(q, {"forget"}) /\ Len(q) = 1
    BY <2>2, CancelList
  <2> HIDE DEF q
  <2> QED
    BY <2>1, <2>3 DEF Calling
<1>3. CASE ~sm.pending
  <2>1. Forget = <<>> /\ ForgetOf = {} /\ Len(<<>>) = 0
    BY <1>3 DEF Forget, ForgetOf
  <2> QED
    BY <2>1, EmptyList
<1> QED
  BY <1>1, <1>2, <1>3

\* The states the handlers enter
LEMMA EnterIs ==
  ASSUME NEW s \in Machines, NEW state \in States
  PROVE  /\ Enter(s, state) \in Machines
         /\ Enter(s, state).state = state
         /\ Enter(s, state).pending = s.pending
BY DEF Enter, Machines

LEMMA UnfollowIs ==
  ASSUME NEW s \in Machines
  PROVE  /\ Unfollow(s) \in Machines /\ Unfollow(s).state = s.state
         /\ Unfollow(s).pending = FALSE
BY DEF Unfollow, Machines

LEMMA StepNothing ==
  ASSUME NEW s \in Machines, Step(s, <<>>)
  PROVE  Lands(s.state, s.pending, {}) /\ Mute
BY EmptyList DEF Step, Lands, Mute

LEMMA StepOne ==
  ASSUME NEW s \in Machines, NEW a \in Actions, a.of # 0 => a.act = "speak",
         Step(s, <<a>>)
  PROVE  /\ Lands(s.state, s.pending, {a.act})
         /\ \A i \in DOMAIN acts' : acts'[i].of = a.of
BY OneList DEF Step, Lands

LEMMA TwoList ==
  ASSUME NEW name \in Cancels, NEW a \in Actions, a.of = 0
  PROVE  /\ Shaped(<<Act(name, "")>> \o <<a>>)
         /\ Orders(<<Act(name, "")>> \o <<a>>, {name, a.act})
         /\ \A i \in DOMAIN (<<Act(name, "")>> \o <<a>>) :
              (<<Act(name, "")>> \o <<a>>)[i].of = 0
<1> DEFINE p == <<Act(name, "")>>
           q == <<a>>
<1>1. Calling(p) /\ Orders(p, {name}) /\ Len(p) = 1 /\ p \in Seq(Actions)
  BY CancelList DEF Calling
<1>2. /\ Shaped(q) /\ Orders(q, {a.act}) /\ Len(q) = 1 /\ q \in Seq(Actions)
      /\ \A i \in DOMAIN q : q[i].of = 0
  <2>1. /\ Shaped(q) /\ Orders(q, {a.act}) /\ Len(q) = 1
        /\ \A i \in DOMAIN q : q[i] = a
    BY OneList
  <2> HIDE DEF q
  <2> QED
    BY <2>1 DEF Shaped
<1> HIDE DEF p, q
<1>3. Shaped(p \o q) /\ \A i \in DOMAIN (p \o q) : (p \o q)[i].of = 0
  <2>1. Len(p) + Len(q) <= 3
    BY <1>1, <1>2
  <2> QED
    BY <1>1, <1>2, <2>1, CallingThen
<1>4. Orders(p \o q, {name} \cup {a.act})
  BY <1>1, <1>2, CatOrders
<1>5. {name} \cup {a.act} = {name, a.act}
  OBVIOUS
<1> QED
  BY <1>3, <1>4, <1>5 DEF p, q

LEMMA StepTwo ==
  ASSUME NEW s \in Machines, NEW name \in Cancels, NEW a \in Actions,
         a.of = 0, Step(s, <<Act(name, "")>> \o <<a>>)
  PROVE  Lands(s.state, s.pending, {name, a.act}) /\ Mute
BY TwoList DEF Step, Lands, Mute

\* Stopping what is in flight, and the approval
LEMMA StepAbandon ==
  ASSUME Typed, NEW s \in Machines, Step(s, Abandon \o Forget)
  PROVE  Lands(s.state, s.pending, AbandonOf \cup ForgetOf) /\ Mute
<1>1. Calling(Abandon) /\ Len(Abandon) <= 1 /\ Orders(Abandon, AbandonOf)
  BY AbandonList
<1>2. /\ Calling(Forget) /\ Len(Forget) <= 1 /\ Orders(Forget, ForgetOf)
      /\ Shaped(Forget) /\ \A i \in DOMAIN Forget : Forget[i].of = 0
  BY ForgetList
<1>3. /\ Abandon \in Seq(Actions) /\ Forget \in Seq(Actions)
      /\ Len(Abandon) \in Nat /\ Len(Forget) \in Nat
  BY <1>1, <1>2 DEF Calling
<1>4. Shaped(Abandon \o Forget)
      /\ \A i \in DOMAIN (Abandon \o Forget) : (Abandon \o Forget)[i].of = 0
  BY <1>1, <1>2, <1>3, CallingThen
<1>5. Orders(Abandon \o Forget, AbandonOf \cup ForgetOf)
  BY <1>1, <1>2, <1>3, CatOrders
<1> QED
  BY <1>4, <1>5 DEF Step, Lands, Mute

\* ... and beginning to listen
LEMMA ListenLands ==
  ASSUME Typed, NEW first, Calling(first), Len(first) <= 1,
         NEW names, Orders(first, names), NEW type, Listen(first, type)
  PROVE  /\ Lands("listening", FALSE, names \cup ForgetOf \cup {"start"})
         /\ Mute
<1> DEFINE arg == IF type = "wake" THEN "chime" ELSE "attach"
           a == Act("start", arg)
           p == first \o Forget
           q == <<a>>
           s == Enter(Unfollow(sm), "listening")
<1>1. a \in Actions /\ a.act = "start" /\ a.of = 0
  <2>1. arg \in {"", "chime", "attach", "loaded", "cue", "reply", "approval",
                 "text"}
    OBVIOUS
  <2>2. "start" \in {"asr_cancel", "agent_cancel", "speak_cancel", "forget",
                     "start", "end", "submit", "speak"}
    OBVIOUS
  <2> HIDE DEF arg
  <2> QED
    BY <2>1, <2>2, ActIs
<1>2. s \in Machines /\ s.state = "listening" /\ s.pending = FALSE
  <2>1. sm \in Machines /\ "listening" \in States
    BY DEF Typed, Machines, States
  <2>2. Unfollow(sm) \in Machines /\ Unfollow(sm).pending = FALSE
    BY <2>1, UnfollowIs
  <2> QED
    BY <2>1, <2>2, EnterIs
<1>3. sm' = s /\ acts' = p \o q
  BY DEF Listen, Step
<1> HIDE DEF a, s
<1>4. /\ Calling(Forget) /\ Len(Forget) <= 1 /\ Orders(Forget, ForgetOf)
  BY ForgetList
<1>5. /\ first \in Seq(Actions) /\ Forget \in Seq(Actions)
      /\ Len(first) \in Nat /\ Len(Forget) \in Nat
  BY <1>4 DEF Calling
<1>6. /\ Calling(p) /\ Len(p) <= 2 /\ Len(p) \in Nat /\ p \in Seq(Actions)
      /\ Orders(p, names \cup ForgetOf)
  <2>1. Calling(p) /\ Len(p) = Len(first) + Len(Forget)
    BY <1>4, CallingBoth
  <2>2. Orders(p, names \cup ForgetOf)
    BY <1>4, <1>5, CatOrders
  <2> QED
    BY <1>4, <1>5, <2>1, <2>2 DEF Calling
<1> HIDE DEF p
<1>7. /\ Shaped(q) /\ Orders(q, {"start"}) /\ Len(q) = 1 /\ q \in Seq(Actions)
      /\ \A i \in DOMAIN q : q[i].of = 0
  <2>1. Shaped(q) /\ Orders(q, {"start"}) /\ \A i \in DOMAIN q : q[i] = a
    BY <1>1, OneList
  <2>2. Len(q) = 1 /\ q \in Seq(Actions)
    BY <1>1
  <2> HIDE DEF q
  <2> QED
    BY <1>1, <2>1, <2>2
<1> HIDE DEF q
<1>8. Shaped(p \o q) /\ \A i \in DOMAIN (p \o q) : (p \o q)[i].of = 0
  <2>1. Len(p) + Len(q) <= 3
    BY <1>6, <1>7
  <2> QED
    BY <1>6, <1>7, <2>1, CallingThen
<1>9. Orders(p \o q, (names \cup ForgetOf) \cup {"start"})
  BY <1>6, <1>7, CatOrders
<1> QED
  BY <1>2, <1>3, <1>8, <1>9 DEF Lands, Mute

LEMMA SpeakLands ==
  ASSUME NEW s \in Machines, NEW what \in {"cue", "reply", "approval", "text"},
         NEW of \in Nat, Speak(s, <<>>, what, of)
  PROVE  /\ Lands("speaking", s.pending, {"speak"})
         /\ \A i \in DOMAIN acts' : acts'[i].of = of
<1> DEFINE a == [Act("speak", what) EXCEPT !.of = of]
           m == Enter(s, "speaking")
<1>1. a \in Actions /\ a.act = "speak" /\ a.of = of
  BY DEF Act, Actions, Cancels
<1>2. sm' = m /\ acts' = <<>> \o <<a>>
  BY DEF Speak, Step
<1>3. m \in Machines /\ m.state = "speaking" /\ m.pending = s.pending
  BY EnterIs DEF States
<1> HIDE DEF a, m
<1>4. <<>> \o <<a>> = <<a>>
  BY <1>1
<1>5. Shaped(<<a>>) /\ Orders(<<a>>, {"speak"})
      /\ \A i \in DOMAIN <<a>> : <<a>>[i] = a
  BY <1>1, OneList
<1> QED
  BY <1>1, <1>2, <1>3, <1>4, <1>5 DEF Lands

LEMMA SpeakAfter ==
  ASSUME NEW s \in Machines, NEW name \in Cancels,
         Speak(s, <<Act(name, "")>>, "cue", 0)
  PROVE  Lands("speaking", s.pending, {name, "speak"}) /\ Mute
<1> DEFINE a == [Act("speak", "cue") EXCEPT !.of = 0]
           m == Enter(s, "speaking")
<1>1. a \in Actions /\ a.act = "speak" /\ a.of = 0
  BY DEF Act, Actions, Cancels
<1>2. Step(m, <<Act(name, "")>> \o <<a>>)
  BY DEF Speak
<1>3. m \in Machines /\ m.state = "speaking" /\ m.pending = s.pending
  BY EnterIs DEF States
<1> HIDE DEF a, m
<1> QED
  BY <1>1, <1>2, <1>3, StepTwo

LEMMA RestLands ==
  ASSUME NEW s \in Machines, Rest(s, <<>>)
  PROVE  Lands("idle", s.pending, {}) /\ Mute
<1>1. /\ Enter(s, "idle") \in Machines /\ Enter(s, "idle").state = "idle"
      /\ Enter(s, "idle").pending = s.pending
  BY EnterIs DEF States
<1>2. Step(Enter(s, "idle"), <<>>)
  BY DEF Rest
<1> QED
  BY <1>1, <1>2, StepNothing

LEMMA RestAfter ==
  ASSUME NEW s \in Machines, NEW name \in Cancels, Rest(s, <<Act(name, "")>>)
  PROVE  Lands("idle", s.pending, {name}) /\ Mute
<1>1. /\ Enter(s, "idle") \in Machines /\ Enter(s, "idle").state = "idle"
      /\ Enter(s, "idle").pending = s.pending
  BY EnterIs DEF States
<1>2. sm' = Enter(s, "idle") /\ acts' = <<Act(name, "")>>
  BY DEF Rest, Step
<1> DEFINE q == <<Act(name, "")>>
<1>3. Shaped(q) /\ Calling(q) /\ Orders(q, {name})
  BY CancelList
<1> HIDE DEF q
<1>4. acts' = q
  BY <1>2 DEF q
<1> QED
  BY <1>1, <1>2, <1>3, <1>4 DEF Lands, Mute, Calling

LEMMA EndLands ==
  ASSUME NEW s \in Machines, End(s)
  PROVE  /\ Lands(s.state, s.pending, {}) \/ Lands(s.state, s.pending, {"end"})
         /\ Mute
<1>1. CASE Step(s, <<>>)
  BY <1>1, StepNothing
<1>2. CASE Step([s EXCEPT !.endWanted = TRUE], <<>>)
  <2> DEFINE m == [s EXCEPT !.endWanted = TRUE]
  <2>1. m \in Machines /\ m.state = s.state /\ m.pending = s.pending
    BY DEF Machines
  <2>2. Step(m, <<>>)
    BY <1>2
  <2> HIDE DEF m
  <2> QED
    BY <2>1, <2>2, StepNothing
<1>3. CASE Step([s EXCEPT !.endSent = TRUE], <<Act("end", "")>>)
  <2> DEFINE m == [s EXCEPT !.endSent = TRUE]
             a == Act("end", "")
  <2>1. m \in Machines /\ m.state = s.state /\ m.pending = s.pending
    BY DEF Machines
  <2>2. a \in Actions /\ a.act = "end" /\ a.of = 0
    BY ActIs
  <2>3. Step(m, <<a>>)
    BY <1>3
  <2> HIDE DEF m, a
  <2>4. /\ Lands(m.state, m.pending, {a.act})
        /\ \A i \in DOMAIN acts' : acts'[i].of = a.of
    BY <2>1, <2>2, <2>3, StepOne
  <2> QED
    BY <2>1, <2>2, <2>4 DEF Mute
<1> QED
  BY <1>1, <1>2, <1>3 DEF End

(***************************************************************************)
(* What the machine does with an event: the state it lands in and what it  *)
(* orders.                                                                 *)
(***************************************************************************)

\* It stays, and leaves alone what the state waits for.
Stays(e) ==
  /\ Lands(sm.state, sm.pending, {}) \/ Lands(sm.state, sm.pending, {"end"})
  /\ sm.state = "thinking" => e.type \notin AgentEvents
  /\ sm.state = "listening" => e.type \notin Ends \cup {"link_lost"}
  /\ sm.state \in {"idle", "speaking"} => e.type \notin {"reply", "agent_failed"}
  /\ sm.state = "speaking" /\ e.type = "speak_done" => e.of # player.job

\* It does not wait for the approval any more.
Unfollows(e) ==
  /\ sm.state \in {"idle", "speaking"} /\ e.type \in {"reply", "agent_failed"}
  /\ Lands(sm.state, FALSE, {})

\* The turn is given up, or nothing was in flight.
Quits ==
  \/ Lands("off", FALSE, AbandonOf \cup ForgetOf)
  \/ Lands("idle", FALSE, AbandonOf \cup ForgetOf)

Listens ==
  /\ sm.state \in {"idle", "thinking", "speaking"}
  /\ Lands("listening", FALSE, AbandonOf \cup ForgetOf \cup {"start"})

Heard(e) ==
  /\ sm.state = "listening"
  /\ \/ e.type \in Ends /\ Lands("speaking", sm.pending, {"speak"})
     \/ Lands("speaking", sm.pending, {"asr_cancel", "speak"})
     \/ e.type = "finished" /\ Lands("thinking", sm.pending, {"submit"})
     \/ e.type = "link_lost" /\ Lands("idle", sm.pending, {})

Thought(e) ==
  /\ sm.state = "thinking"
  /\ \/ /\ e.type \in {"reply", "busy", "agent_failed"}
        /\ Lands("speaking", sm.pending, {"speak"})
     \/ e.type = "pending" /\ Lands("speaking", TRUE, {"speak"})
     \/ Lands("speaking", sm.pending, {"agent_cancel", "speak"})

Spoke(e) ==
  /\ sm.state = "speaking"
  /\ \/ e.type = "speak_done" /\ Lands("idle", sm.pending, {})
     \/ /\ e.type \in {"link_lost", "tick"}
        /\ Lands("idle", sm.pending, {"speak_cancel"})

Asked(e) ==
  /\ sm.state = "idle"
  /\ \/ e.type = "say" /\ Lands("speaking", sm.pending, {"speak"})
     \/ /\ e.type = "reply" /\ sm.pending
        /\ Lands("speaking", FALSE, {"speak"})

\* What is spoken of a run is the answer the event brings.
Answers(e) ==
  \A i \in DOMAIN acts' : acts'[i].of # 0 =>
    /\ e.type = "reply" /\ acts'[i].of = e.of
    /\ sm.state = "thinking" \/ sm.pending

Outcome(e) ==
  /\ \/ Stays(e) \/ Unfollows(e) \/ Quits \/ Listens
     \/ Heard(e) \/ Thought(e) \/ Spoke(e) \/ Asked(e)
  /\ Answers(e)

LEMMA MuteAnswers ==
  ASSUME Mute, NEW e
  PROVE  Answers(e)
BY DEF Mute, Answers

LEMMA MachineTyped ==
  ASSUME Typed
  PROVE  sm \in Machines /\ sm.state \in States /\ sm.pending \in BOOLEAN
BY DEF Typed, Machines

LEMMA IgnoreLands ==
  ASSUME Typed, Ignore
  PROVE  Lands(sm.state, sm.pending, {}) /\ Mute
BY MachineTyped, StepNothing DEF Ignore

LEMMA StepForget ==
  ASSUME Typed, NEW s \in Machines, Step(s, Forget)
  PROVE  Lands(s.state, s.pending, ForgetOf) /\ Mute
<1>1. /\ Orders(Forget, ForgetOf) /\ Shaped(Forget)
      /\ \A i \in DOMAIN Forget : Forget[i].of = 0
  BY ForgetList
<1>2. sm' = s /\ acts' = Forget
  BY DEF Step
<1> QED
  BY <1>1, <1>2 DEF Lands, Mute

LEMMA UnfollowStep ==
  ASSUME Typed, Step(Unfollow(sm), <<>>)
  PROVE  Lands(sm.state, FALSE, {}) /\ Mute
<1>1. /\ Unfollow(sm) \in Machines /\ Unfollow(sm).state = sm.state
      /\ Unfollow(sm).pending = FALSE
  BY MachineTyped, UnfollowIs
<1> QED
  BY <1>1, StepNothing

LEMMA CommonOutcome ==
  ASSUME Typed, InOrder, NEW e, Common(e)
  PROVE  Outcome(e)
<1>1. sm \in Machines /\ sm.state \in States /\ sm.pending \in BOOLEAN
  BY MachineTyped
<1>2. /\ Unfollow(sm) \in Machines /\ Unfollow(sm).state = sm.state
      /\ Unfollow(sm).pending = FALSE
  BY <1>1, UnfollowIs
<1>3. CASE e.type = "disable"
           /\ Step(Enter(Unfollow(sm), "off"), Abandon \o Forget)
  <2> DEFINE s == Enter(Unfollow(sm), "off")
  <2>1. s \in Machines /\ s.state = "off" /\ s.pending = FALSE
    BY <1>2, EnterIs DEF States
  <2>2. Step(s, Abandon \o Forget)
    BY <1>3
  <2> HIDE DEF s
  <2>3. Lands("off", FALSE, AbandonOf \cup ForgetOf) /\ Mute
    BY <2>1, <2>2, StepAbandon
  <2> QED
    BY <2>3, MuteAnswers DEF Outcome, Quits
<1>4. CASE sm.state = "off" /\ Step(Enter(sm, "idle"), <<>>)
  <2> DEFINE s == Enter(sm, "idle")
  <2>1. s \in Machines /\ s.state = "idle" /\ s.pending = sm.pending
    BY <1>1, EnterIs DEF States
  <2>2. Step(s, <<>>)
    BY <1>4
  <2>3. sm.pending = FALSE
    BY <1>1, <1>4 DEF InOrder
  <2> HIDE DEF s
  <2>4. Lands("idle", FALSE, {}) /\ Mute
    BY <2>1, <2>2, <2>3, StepNothing
  <2>5. AbandonOf \cup ForgetOf = {}
    BY <1>4, <2>3 DEF AbandonOf, ForgetOf
  <2> QED
    BY <2>4, <2>5, MuteAnswers DEF Outcome, Quits
<1>5. CASE e.type = "enable" /\ Ignore
  <2>1. Lands(sm.state, sm.pending, {}) /\ Mute
    BY <1>5, IgnoreLands
  <2>2. Stays(e)
    BY <1>5, <2>1 DEF Stays, AgentEvents, Ends
  <2> QED
    BY <2>1, <2>2, MuteAnswers DEF Outcome
<1>6. CASE sm.state = "idle" /\ Step(Unfollow(sm), Forget)
  <2>1. Lands("idle", FALSE, ForgetOf) /\ Mute
    <3> DEFINE s == Unfollow(sm)
    <3>1. s \in Machines /\ s.state = "idle" /\ s.pending = FALSE /\ Step(s, Forget)
      BY <1>2, <1>6
    <3> HIDE DEF s
    <3> QED
      BY <3>1, StepForget
  <2>2. AbandonOf \cup ForgetOf = ForgetOf
    BY <1>6 DEF AbandonOf
  <2> QED
    BY <2>1, <2>2, MuteAnswers DEF Outcome, Quits
<1>7. CASE Rest(Unfollow(sm), Abandon \o Forget)
  <2> DEFINE s == Enter(Unfollow(sm), "idle")
  <2>1. s \in Machines /\ s.state = "idle" /\ s.pending = FALSE
    BY <1>2, EnterIs DEF States
  <2>2. Step(s, Abandon \o Forget)
    BY <1>7 DEF Rest
  <2> HIDE DEF s
  <2>3. Lands("idle", FALSE, AbandonOf \cup ForgetOf) /\ Mute
    BY <2>1, <2>2, StepAbandon
  <2> QED
    BY <2>3, MuteAnswers DEF Outcome, Quits
<1> QED
  BY <1>3, <1>4, <1>5, <1>6, <1>7 DEF Common

\* The lists the handlers put before what they begin
LEMMA FirstNone == Calling(<<>>) /\ Len(<<>>) <= 1 /\ Orders(<<>>, {})
<1>1. Len(<<>>) = 0
  OBVIOUS
<1> QED
  BY <1>1, EmptyList

LEMMA FirstCancel ==
  ASSUME NEW name \in Cancels
  PROVE  /\ Calling(<<Act(name, "")>>) /\ Len(<<Act(name, "")>>) <= 1
         /\ Orders(<<Act(name, "")>>, {name})
<1> DEFINE q == <<Act(name, "")>>
<1>1. Calling(q) /\ Len(q) = 1 /\ Orders(q, {name})
  BY CancelList
<1> HIDE DEF q
<1>2. Calling(q) /\ Len(q) <= 1 /\ Orders(q, {name})
  BY <1>1
<1> QED
  BY <1>2 DEF q

LEMMA SayCue ==
  ASSUME NEW s \in Machines, Speak(s, <<>>, "cue", 0)
  PROVE  Lands("speaking", s.pending, {"speak"}) /\ Mute
BY SpeakLands DEF Mute

LEMMA IdleOutcome ==
  ASSUME Typed, InOrder, NEW e, e.of \in Nat, NEW due \in BOOLEAN,
         sm.state = "idle", Idle(e, due)
  PROVE  Outcome(e)
<1>1. sm \in Machines /\ sm.state \in States /\ sm.pending \in BOOLEAN
  BY MachineTyped
<1>2. /\ Unfollow(sm) \in Machines /\ Unfollow(sm).state = sm.state
      /\ Unfollow(sm).pending = FALSE
  BY <1>1, UnfollowIs
<1>3. AbandonOf = {}
  BY DEF AbandonOf
<1>4. CASE Listen(<<>>, e.type)
  <2>1. Lands("listening", FALSE, {} \cup ForgetOf \cup {"start"}) /\ Mute
    BY <1>4, FirstNone, ListenLands
  <2> QED
    BY <1>3, <2>1, MuteAnswers DEF Outcome, Listens
<1>5. CASE e.type = "say" /\ Speak(sm, <<>>, "text", 0)
  <2>1. /\ Lands("speaking", sm.pending, {"speak"})
        /\ Mute
    BY <1>1, <1>5, SpeakLands DEF Mute
  <2> QED
    BY <1>5, <2>1, MuteAnswers DEF Outcome, Asked
<1>6. CASE /\ e.type = "reply" /\ AnswerAwaited
           /\ Speak(Unfollow(sm), <<>>, "reply", e.of)
  <2>1. /\ Lands("speaking", FALSE, {"speak"})
        /\ \A i \in DOMAIN acts' : acts'[i].of = e.of
    <3> DEFINE s == Unfollow(sm)
    <3>1. s \in Machines /\ s.pending = FALSE /\ Speak(s, <<>>, "reply", e.of)
      BY <1>2, <1>6
    <3> HIDE DEF s
    <3> QED
      BY <3>1, SpeakLands
  <2>2. Answers(e)
    BY <1>6, <2>1 DEF Answers, AnswerAwaited
  <2> QED
    BY <1>6, <2>1, <2>2 DEF Outcome, Asked, AnswerAwaited
<1>7. CASE e.type \in {"reply", "agent_failed"} /\ Step(Unfollow(sm), <<>>)
  <2>1. Lands(sm.state, FALSE, {}) /\ Mute
    BY <1>7, UnfollowStep
  <2> QED
    BY <1>7, <2>1, MuteAnswers DEF Outcome, Unfollows
<1>8. CASE Step(Unfollow(sm), Forget)
  <2>1. Lands("idle", FALSE, ForgetOf) /\ Mute
    <3> DEFINE s == Unfollow(sm)
    <3>1. s \in Machines /\ s.state = "idle" /\ s.pending = FALSE /\ Step(s, Forget)
      BY <1>2, <1>8
    <3> HIDE DEF s
    <3> QED
      BY <3>1, StepForget
  <2>2. AbandonOf \cup ForgetOf = ForgetOf
    BY <1>3
  <2> QED
    BY <2>1, <2>2, MuteAnswers DEF Outcome, Quits
<1>9. CASE e.type \notin {"reply", "agent_failed"} /\ Ignore
  <2>1. Lands(sm.state, sm.pending, {}) /\ Mute
    BY <1>9, IgnoreLands
  <2>2. Stays(e)
    BY <1>9, <2>1 DEF Stays
  <2> QED
    BY <2>1, <2>2, MuteAnswers DEF Outcome
<1> QED
  BY <1>4, <1>5, <1>6, <1>7, <1>8, <1>9 DEF Idle, NotYet

LEMMA ListeningOutcome ==
  ASSUME Typed, InOrder, NEW e, NEW due \in BOOLEAN,
         sm.state = "listening", Listening(e, due)
  PROVE  Outcome(e)
<1>1. sm \in Machines /\ sm.state \in States /\ sm.pending \in BOOLEAN
  BY MachineTyped
<1>2. ASSUME Lands(sm.state, sm.pending, {}) \/ Lands(sm.state, sm.pending, {"end"}),
             Mute, e.type \notin {"failed", "finished", "link_lost"}
      PROVE  Outcome(e)
  <2>1. Stays(e)
    BY <1>2 DEF Stays, Ends
  <2> QED
    BY <1>2, <2>1, MuteAnswers DEF Outcome
<1>3. CASE e.type = "started"
           /\ LET s == [sm EXCEPT !.started = TRUE]
              IN IF sm.endWanted THEN End(s) ELSE Step(s, <<>>)
  <2> DEFINE s == [sm EXCEPT !.started = TRUE]
  <2>1. s \in Machines /\ s.state = sm.state /\ s.pending = sm.pending
    BY <1>1 DEF Machines
  <2>2. End(s) \/ Step(s, <<>>)
    BY <1>3
  <2> HIDE DEF s
  <2>3. /\ Lands(s.state, s.pending, {}) \/ Lands(s.state, s.pending, {"end"})
        /\ Mute
    BY <2>1, <2>2, EndLands, StepNothing
  <2> QED
    BY <1>2, <1>3, <2>1, <2>3
<1>4. CASE e.type \in {"failed", "finished"} /\ Speak(sm, <<>>, "cue", 0)
  <2>1. Lands("speaking", sm.pending, {"speak"}) /\ Mute
    BY <1>1, <1>4, SayCue
  <2> QED
    BY <1>4, <2>1, MuteAnswers DEF Outcome, Heard, Ends
<1>5. CASE e.type \in {"endpoint", "tick"} /\ End(sm)
  <2>1. /\ Lands(sm.state, sm.pending, {}) \/ Lands(sm.state, sm.pending, {"end"})
        /\ Mute
    BY <1>1, <1>5, EndLands
  <2> QED
    BY <1>2, <1>5, <2>1
<1>6. CASE e.type \notin {"failed", "finished", "link_lost"} /\ Ignore
  <2>1. Lands(sm.state, sm.pending, {}) /\ Mute
    BY <1>6, IgnoreLands
  <2> QED
    BY <1>2, <1>6, <2>1
<1>7. CASE e.type = "finished"
           /\ Step(Enter(sm, "thinking"), <<Act("submit", "")>>)
  <2> DEFINE s == Enter(sm, "thinking")
             a == Act("submit", "")
  <2>1. s \in Machines /\ s.state = "thinking" /\ s.pending = sm.pending
    BY <1>1, EnterIs DEF States
  <2>2. a \in Actions /\ a.act = "submit" /\ a.of = 0
    BY ActIs
  <2>3. Step(s, <<a>>)
    BY <1>7
  <2> HIDE DEF s, a
  <2>4. /\ Lands(s.state, s.pending, {a.act})
        /\ \A i \in DOMAIN acts' : acts'[i].of = a.of
    BY <2>1, <2>2, <2>3, StepOne
  <2>5. Lands("thinking", sm.pending, {"submit"}) /\ Mute
    BY <2>1, <2>2, <2>4 DEF Mute
  <2> QED
    BY <1>7, <2>5, MuteAnswers DEF Outcome, Heard
<1>8. CASE Speak(sm, <<Act("asr_cancel", "")>>, "cue", 0)
  <2>1. "asr_cancel" \in Cancels
    BY DEF Cancels
  <2>2. Lands("speaking", sm.pending, {"asr_cancel", "speak"}) /\ Mute
    BY <1>1, <1>8, <2>1, SpeakAfter
  <2> QED
    BY <2>2, MuteAnswers DEF Outcome, Heard
<1>9. CASE e.type = "link_lost" /\ Rest(sm, <<>>)
  <2>1. Lands("idle", sm.pending, {}) /\ Mute
    BY <1>1, <1>9, RestLands
  <2> QED
    BY <1>9, <2>1, MuteAnswers DEF Outcome, Heard
<1> QED
  BY <1>3, <1>4, <1>5, <1>6, <1>7, <1>8, <1>9
  DEF Listening, Expired, NotYet

LEMMA ThinkingOutcome ==
  ASSUME Typed, InOrder, NEW e, e.of \in Nat, NEW due \in BOOLEAN,
         sm.state = "thinking", Thinking(e, due)
  PROVE  Outcome(e)
<1>1. sm \in Machines /\ sm.state \in States /\ sm.pending \in BOOLEAN
  BY MachineTyped
<1>2. AbandonOf = {"agent_cancel"} /\ "agent_cancel" \in Cancels
  BY DEF AbandonOf, Cancels
<1>3. CASE e.type = "reply" /\ Speak(sm, <<>>, "reply", e.of)
  <2>1. /\ Lands("speaking", sm.pending, {"speak"})
        /\ \A i \in DOMAIN acts' : acts'[i].of = e.of
    BY <1>1, <1>3, SpeakLands
  <2>2. Answers(e)
    BY <1>3, <2>1 DEF Answers
  <2> QED
    BY <1>3, <2>1, <2>2 DEF Outcome, Thought
<1>4. CASE e.type \in {"reply", "busy", "agent_failed"}
           /\ Speak(sm, <<>>, "cue", 0)
  <2>1. Lands("speaking", sm.pending, {"speak"}) /\ Mute
    BY <1>1, <1>4, SayCue
  <2> QED
    BY <1>4, <2>1, MuteAnswers DEF Outcome, Thought
<1>5. CASE e.type = "pending"
           /\ Speak([sm EXCEPT !.pending = TRUE], <<>>, "approval", 0)
  <2> DEFINE s == [sm EXCEPT !.pending = TRUE]
  <2>1. s \in Machines /\ s.pending = TRUE
    BY <1>1 DEF Machines
  <2>2. Speak(s, <<>>, "approval", 0)
    BY <1>5
  <2> HIDE DEF s
  <2>3. Lands("speaking", TRUE, {"speak"}) /\ Mute
    BY <2>1, <2>2, SpeakLands DEF Mute
  <2> QED
    BY <1>5, <2>3, MuteAnswers DEF Outcome, Thought
<1>6. CASE Speak(sm, <<Act("agent_cancel", "")>>, "cue", 0)
  <2>1. Lands("speaking", sm.pending, {"agent_cancel", "speak"}) /\ Mute
    BY <1>1, <1>2, <1>6, SpeakAfter
  <2> QED
    BY <2>1, MuteAnswers DEF Outcome, Thought
<1>7. CASE Listen(<<Act("agent_cancel", "")>>, e.type)
  <2> DEFINE first == <<Act("agent_cancel", "")>>
  <2>1. Calling(first) /\ Len(first) <= 1 /\ Orders(first, {"agent_cancel"})
    BY <1>2, FirstCancel
  <2>2. Listen(first, e.type)
    BY <1>7
  <2> HIDE DEF first
  <2>3. Lands("listening", FALSE, {"agent_cancel"} \cup ForgetOf \cup {"start"})
        /\ Mute
    BY <2>1, <2>2, ListenLands
  <2> QED
    BY <1>2, <2>3, MuteAnswers DEF Outcome, Listens
<1>8. CASE e.type \notin AgentEvents /\ Ignore
  <2>1. Lands(sm.state, sm.pending, {}) /\ Mute
    BY <1>8, IgnoreLands
  <2>2. Stays(e)
    BY <1>8, <2>1 DEF Stays
  <2> QED
    BY <2>1, <2>2, MuteAnswers DEF Outcome
<1> QED
  BY <1>3, <1>4, <1>5, <1>6, <1>7, <1>8
  DEF Thinking, Expired, NotYet, AgentEvents

LEMMA SpeakingOutcome ==
  ASSUME Typed, InOrder, NEW e, NEW due \in BOOLEAN,
         sm.state = "speaking", Speaking(e, due)
  PROVE  Outcome(e)
<1>1. sm \in Machines /\ sm.state \in States /\ sm.pending \in BOOLEAN
  BY MachineTyped
<1>2. AbandonOf = {"speak_cancel"} /\ "speak_cancel" \in Cancels
  BY DEF AbandonOf, Cancels
<1>3. CASE e.type = "speak_done" /\ Rest(sm, <<>>)
  <2>1. Lands("idle", sm.pending, {}) /\ Mute
    BY <1>1, <1>3, RestLands
  <2> QED
    BY <1>3, <2>1, MuteAnswers DEF Outcome, Spoke
<1>4. CASE Listen(<<Act("speak_cancel", "")>>, e.type)
  <2> DEFINE first == <<Act("speak_cancel", "")>>
  <2>1. Calling(first) /\ Len(first) <= 1 /\ Orders(first, {"speak_cancel"})
    BY <1>2, FirstCancel
  <2>2. Listen(first, e.type)
    BY <1>4
  <2> HIDE DEF first
  <2>3. Lands("listening", FALSE, {"speak_cancel"} \cup ForgetOf \cup {"start"})
        /\ Mute
    BY <2>1, <2>2, ListenLands
  <2> QED
    BY <1>2, <2>3, MuteAnswers DEF Outcome, Listens
<1>5. CASE /\ e.type \in {"link_lost", "tick"}
           /\ Rest(sm, <<Act("speak_cancel", "")>>)
  <2>1. Lands("idle", sm.pending, {"speak_cancel"}) /\ Mute
    BY <1>1, <1>2, <1>5, RestAfter
  <2> QED
    BY <1>5, <2>1, MuteAnswers DEF Outcome, Spoke
<1>6. CASE e.type \in {"reply", "agent_failed"} /\ Step(Unfollow(sm), <<>>)
  <2>1. Lands(sm.state, FALSE, {}) /\ Mute
    BY <1>6, UnfollowStep
  <2> QED
    BY <1>6, <2>1, MuteAnswers DEF Outcome, Unfollows
<1>7. CASE e.type \notin {"reply", "agent_failed", "speak_done"} /\ Ignore
  <2>1. Lands(sm.state, sm.pending, {}) /\ Mute
    BY <1>7, IgnoreLands
  <2>2. Stays(e)
    BY <1>7, <2>1 DEF Stays
  <2> QED
    BY <2>1, <2>2, MuteAnswers DEF Outcome
<1> QED
  BY <1>3, <1>4, <1>5, <1>6, <1>7 DEF Speaking, Expired, NotYet

LEMMA MachineOutcome ==
  ASSUME Typed, InOrder, NEW e, e.of \in Nat, NEW due \in BOOLEAN,
         Machine(e, due)
  PROVE  Outcome(e)
<1>1. CASE Common(e)
  BY <1>1, CommonOutcome
<1>2. CASE sm.state = "idle" /\ Idle(e, due)
  BY <1>2, IdleOutcome
<1>3. CASE sm.state = "listening" /\ Listening(e, due)
  BY <1>3, ListeningOutcome
<1>4. CASE sm.state = "thinking" /\ Thinking(e, due)
  BY <1>4, ThinkingOutcome
<1>5. CASE sm.state = "speaking" /\ Speaking(e, due)
  BY <1>5, SpeakingOutcome
<1>6. CASE sm.state = "off" /\ Ignore
  <2>1. Lands(sm.state, sm.pending, {}) /\ Mute
    BY <1>6, IgnoreLands
  <2>2. Stays(e)
    BY <1>6, <2>1 DEF Stays
  <2> QED
    BY <2>1, <2>2, MuteAnswers DEF Outcome
<1> QED
  BY <1>1, <1>2, <1>3, <1>4, <1>5, <1>6 DEF Machine

(***************************************************************************)
(* Taking an event, or a tick                                              *)
(***************************************************************************)

\* The event at the head of the queue is gone, if there was one.
Consumed(e) ==
  /\ queue' \in Seq(Events) /\ Len(queue') <= QueueCap /\ lost' = lost
  /\ \A i \in DOMAIN queue' :
       i \in Nat /\ i + 1 \in DOMAIN queue /\ queue'[i] = queue[i + 1]
  /\ \A i \in DOMAIN queue :
       i = 1 \/ (i - 1 \in DOMAIN queue' /\ queue'[i - 1] = queue[i])
  /\ 1 \in DOMAIN queue => queue[1] = e
  /\ e.type # "tick" => 1 \in DOMAIN queue

LEMMA TailEvents ==
  ASSUME NEW q \in Seq(Events), q # <<>>
  PROVE  /\ Tail(q) \in Seq(Events) /\ Len(Tail(q)) = Len(q) - 1
         /\ Len(q) \in Nat
         /\ 1 \in DOMAIN q /\ Head(q) = q[1] /\ Head(q) \in Events
         /\ \A i \in DOMAIN Tail(q) : i \in Nat /\ i + 1 \in DOMAIN q /\ Tail(q)[i] = q[i + 1]
         /\ \A i \in DOMAIN q : i = 1 \/
              (i - 1 \in DOMAIN Tail(q) /\ Tail(q)[i - 1] = q[i])
OBVIOUS

LEMMA TakenConsumed ==
  ASSUME Typed, queue # <<>>, queue' = Tail(queue), lost' = lost
  PROVE  Consumed(Head(queue)) /\ Head(queue) \in Events
<1>1. queue \in Seq(Events) /\ Len(queue) <= QueueCap /\ QueueCap \in Nat
  BY VoiceConstants DEF Typed
<1>2. /\ queue' \in Seq(Events) /\ Len(queue') = Len(queue) - 1
      /\ Len(queue) \in Nat
      /\ 1 \in DOMAIN queue /\ Head(queue) = queue[1] /\ Head(queue) \in Events
      /\ \A i \in DOMAIN queue' : i \in Nat /\ i + 1 \in DOMAIN queue /\ queue'[i] = queue[i + 1]
      /\ \A i \in DOMAIN queue : i = 1 \/
           (i - 1 \in DOMAIN queue' /\ queue'[i - 1] = queue[i])
  BY <1>1, TailEvents
<1>3. Len(queue') <= QueueCap
  BY <1>1, <1>2
<1> QED
  BY <1>2, <1>3 DEF Consumed

LEMMA ConsumedIn ==
  ASSUME NEW e, Consumed(e), NEW type
  PROVE  /\ InQueue(type)' => InQueue(type)
         /\ InQueue(type) => InQueue(type)' \/ type = e.type
<1>1. ASSUME InQueue(type)' PROVE InQueue(type)
  BY <1>1 DEF InQueue, Consumed
<1>2. ASSUME InQueue(type) PROVE InQueue(type)' \/ type = e.type
  <2> PICK i \in DOMAIN queue : queue[i].type = type
    BY <1>2 DEF InQueue
  <2>1. CASE i = 1
    BY <2>1 DEF Consumed
  <2>2. CASE i - 1 \in DOMAIN queue' /\ queue'[i - 1] = queue[i]
    BY <2>2 DEF InQueue
  <2> QED
    BY <2>1, <2>2 DEF Consumed
<1> QED
  BY <1>1, <1>2

LEMMA ConsumedKinds ==
  ASSUME NEW e, Consumed(e)
  PROVE  /\ \A type : InQueue(type)' => InQueue(type)
         /\ \A type : InQueue(type) => InQueue(type)' \/ type = e.type
         /\ \A i \in DOMAIN queue' : \E j \in DOMAIN queue : queue[j] = queue'[i]
         /\ e.type # "tick" => InQueue(e.type)
         /\ e.type # "tick" => \E j \in DOMAIN queue : queue[j] = e
<1>1. \A type : InQueue(type)' => InQueue(type)
  BY ConsumedIn
<1>2. \A type : InQueue(type) => InQueue(type)' \/ type = e.type
  BY ConsumedIn
<1>3. \A i \in DOMAIN queue' : \E j \in DOMAIN queue : queue[j] = queue'[i]
  BY DEF Consumed
<1>4. e.type # "tick" => \E j \in DOMAIN queue : queue[j] = e
  BY DEF Consumed
<1>5. e.type # "tick" => InQueue(e.type)
  BY <1>4 DEF InQueue
<1> QED
  BY <1>1, <1>2, <1>3, <1>4, <1>5

\* The next state of the machine and what is to be done in it
Moves(state, pending, start, speak, submit, asr_cancel, agent_cancel,
      speak_cancel, forget) ==
  /\ sm'.state = state /\ sm'.pending = pending
  /\ ToDo("start")' <=> start
  /\ ToDo("speak")' <=> speak
  /\ ToDo("submit")' <=> submit
  /\ ToDo("asr_cancel")' <=> asr_cancel
  /\ ToDo("agent_cancel")' <=> agent_cancel
  /\ ToDo("speak_cancel")' <=> speak_cancel
  /\ ToDo("forget")' <=> forget

LEMMA LandsMoves ==
  ASSUME NEW state, NEW pending, NEW names, Lands(state, pending, names)
  PROVE  /\ sm' \in Machines /\ Shaped(acts')
         /\ Moves(state, pending, "start" \in names, "speak" \in names,
                  "submit" \in names, "asr_cancel" \in names,
                  "agent_cancel" \in names, "speak_cancel" \in names,
                  "forget" \in names)
<1>1. /\ sm' \in Machines /\ sm'.state = state /\ sm'.pending = pending
      /\ Shaped(acts') /\ Orders(acts', names)
  BY DEF Lands
<1>2. \A m : ToDo(m)' <=> m \in names
  BY <1>1, OrdersToDo
<1> QED
  BY <1>1, <1>2 DEF Moves

LEMMA LandsAlone ==
  ASSUME NEW state, NEW names, Lands(state, FALSE, names)
  PROVE  /\ sm' \in Machines /\ Shaped(acts')
         /\ Moves(state, FALSE, "start" \in names, "speak" \in names,
                  "submit" \in names, "asr_cancel" \in names,
                  "agent_cancel" \in names, "speak_cancel" \in names,
                  "forget" \in names)
<1>1. /\ sm' \in Machines /\ sm'.state = state /\ sm'.pending = FALSE
      /\ Shaped(acts') /\ Orders(acts', names)
  BY DEF Lands
<1>2. \A m : ToDo(m)' <=> m \in names
  BY <1>1, OrdersToDo
<1> QED
  BY <1>1, <1>2 DEF Moves

LEMMA LandsPending ==
  ASSUME NEW state, NEW names, Lands(state, TRUE, names)
  PROVE  /\ sm' \in Machines /\ Shaped(acts')
         /\ Moves(state, TRUE, "start" \in names, "speak" \in names,
                  "submit" \in names, "asr_cancel" \in names,
                  "agent_cancel" \in names, "speak_cancel" \in names,
                  "forget" \in names)
<1>1. /\ sm' \in Machines /\ sm'.state = state /\ sm'.pending = TRUE
      /\ Shaped(acts') /\ Orders(acts', names)
  BY DEF Lands
<1>2. \A m : ToDo(m)' <=> m \in names
  BY <1>1, OrdersToDo
<1> QED
  BY <1>1, <1>2 DEF Moves

Flow(e) ==
  \/ /\ Moves(sm.state, sm.pending, FALSE, FALSE, FALSE, FALSE, FALSE, FALSE,
              FALSE)
     /\ sm.state = "thinking" => e.type \notin AgentEvents
     /\ sm.state = "listening" => e.type \notin Ends \cup {"link_lost"}
     /\ sm.state \in {"idle", "speaking"}
          => e.type \notin {"reply", "agent_failed"}
     /\ sm.state = "speaking" /\ e.type = "speak_done" => e.of # player.job
  \/ /\ sm.state \in {"idle", "speaking"} /\ e.type \in {"reply", "agent_failed"}
     /\ Moves(sm.state, FALSE, FALSE, FALSE, FALSE, FALSE, FALSE, FALSE, FALSE)
  \/ \E state \in {"off", "idle"} :
       Moves(state, FALSE, FALSE, FALSE, FALSE, sm.state = "listening",
             sm.state = "thinking", sm.state = "speaking", sm.pending)
  \/ /\ sm.state \in {"idle", "thinking", "speaking"}
     /\ Moves("listening", FALSE, TRUE, FALSE, FALSE, FALSE,
              sm.state = "thinking", sm.state = "speaking", sm.pending)
  \/ /\ sm.state = "listening"
     /\ \/ e.type \in Ends /\ Moves("speaking", sm.pending, FALSE, TRUE, FALSE,
                                    FALSE, FALSE, FALSE, FALSE)
        \/ Moves("speaking", sm.pending, FALSE, TRUE, FALSE, TRUE, FALSE,
                 FALSE, FALSE)
        \/ e.type = "finished" /\ Moves("thinking", sm.pending, FALSE, FALSE,
                                        TRUE, FALSE, FALSE, FALSE, FALSE)
        \/ e.type = "link_lost" /\ Moves("idle", sm.pending, FALSE, FALSE,
                                         FALSE, FALSE, FALSE, FALSE, FALSE)
  \/ /\ sm.state = "thinking"
     /\ \/ /\ e.type \in {"reply", "busy", "agent_failed"}
           /\ Moves("speaking", sm.pending, FALSE, TRUE, FALSE, FALSE, FALSE,
                    FALSE, FALSE)
        \/ e.type = "pending" /\ Moves("speaking", TRUE, FALSE, TRUE, FALSE,
                                       FALSE, FALSE, FALSE, FALSE)
        \/ Moves("speaking", sm.pending, FALSE, TRUE, FALSE, FALSE, TRUE,
                 FALSE, FALSE)
  \/ /\ sm.state = "speaking"
     /\ \/ e.type = "speak_done" /\ Moves("idle", sm.pending, FALSE, FALSE,
                                          FALSE, FALSE, FALSE, FALSE, FALSE)
        \/ /\ e.type \in {"link_lost", "tick"}
           /\ Moves("idle", sm.pending, FALSE, FALSE, FALSE, FALSE, FALSE,
                    TRUE, FALSE)
  \/ /\ sm.state = "idle"
     /\ \/ e.type = "say" /\ Moves("speaking", sm.pending, FALSE, TRUE, FALSE,
                                   FALSE, FALSE, FALSE, FALSE)
        \/ /\ e.type = "reply" /\ sm.pending
           /\ Moves("speaking", FALSE, FALSE, TRUE, FALSE, FALSE, FALSE,
                    FALSE, FALSE)

LEMMA OutcomeFlow ==
  ASSUME NEW e, Outcome(e)
  PROVE  Flow(e) /\ sm' \in Machines /\ Shaped(acts')
<1>1. CASE Stays(e)
  <2>1. /\ sm' \in Machines /\ Shaped(acts')
        /\ Moves(sm.state, sm.pending, FALSE, FALSE, FALSE, FALSE, FALSE,
                 FALSE, FALSE)
    <3>1. CASE Lands(sm.state, sm.pending, {})
      BY <3>1, LandsMoves DEF Moves
    <3>2. CASE Lands(sm.state, sm.pending, {"end"})
      BY <3>2, LandsMoves DEF Moves
    <3> QED
      BY <1>1, <3>1, <3>2 DEF Stays
  <2> QED
    BY <1>1, <2>1 DEF Stays, Flow
<1>2. CASE Unfollows(e)
  <2>1. /\ sm' \in Machines /\ Shaped(acts')
        /\ Moves(sm.state, FALSE, FALSE, FALSE, FALSE, FALSE, FALSE, FALSE,
                 FALSE)
    <3>1. Lands(sm.state, FALSE, {})
      BY <1>2 DEF Unfollows
    <3>2. /\ sm' \in Machines /\ Shaped(acts')
          /\ Moves(sm.state, FALSE, "start" \in {}, "speak" \in {},
                   "submit" \in {}, "asr_cancel" \in {},
                   "agent_cancel" \in {}, "speak_cancel" \in {},
                   "forget" \in {})
      BY <3>1, LandsAlone, Zenon
    <3> QED
      BY <3>2 DEF Moves
  <2> QED
    BY <1>2, <2>1 DEF Unfollows, Flow
<1>3. CASE Quits
  <2>1. PICK state \in {"off", "idle"} :
          Lands(state, FALSE, AbandonOf \cup ForgetOf)
    BY <1>3 DEF Quits
  <2>2. /\ sm' \in Machines /\ Shaped(acts')
        /\ Moves(state, FALSE, FALSE, FALSE, FALSE, sm.state = "listening",
                 sm.state = "thinking", sm.state = "speaking", sm.pending)
    <3>1. /\ sm' \in Machines /\ Shaped(acts')
          /\ Moves(state, FALSE, "start" \in (AbandonOf \cup ForgetOf),
                   "speak" \in (AbandonOf \cup ForgetOf),
                   "submit" \in (AbandonOf \cup ForgetOf),
                   "asr_cancel" \in (AbandonOf \cup ForgetOf),
                   "agent_cancel" \in (AbandonOf \cup ForgetOf),
                   "speak_cancel" \in (AbandonOf \cup ForgetOf),
                   "forget" \in (AbandonOf \cup ForgetOf))
      BY <2>1, LandsAlone, Zenon
    <3> QED
      BY <3>1 DEF Moves, AbandonOf, ForgetOf
  <2> QED
    BY <2>2 DEF Flow
<1>4. CASE Listens
  <2>1. /\ sm' \in Machines /\ Shaped(acts')
        /\ Moves("listening", FALSE, TRUE, FALSE, FALSE, FALSE,
                 sm.state = "thinking", sm.state = "speaking", sm.pending)
    <3>1. /\ sm' \in Machines /\ Shaped(acts')
          /\ Moves("listening", FALSE, "start" \in (AbandonOf \cup ForgetOf \cup {"start"}),
                   "speak" \in (AbandonOf \cup ForgetOf \cup {"start"}),
                   "submit" \in (AbandonOf \cup ForgetOf \cup {"start"}),
                   "asr_cancel" \in (AbandonOf \cup ForgetOf \cup {"start"}),
                   "agent_cancel" \in (AbandonOf \cup ForgetOf \cup {"start"}),
                   "speak_cancel" \in (AbandonOf \cup ForgetOf \cup {"start"}),
                   "forget" \in (AbandonOf \cup ForgetOf \cup {"start"}))
      BY <1>4, LandsAlone, Zenon DEF Listens
    <3> QED
      BY <1>4, <3>1 DEF Moves, AbandonOf, ForgetOf, Listens
  <2> QED
    BY <1>4, <2>1 DEF Flow, Listens
<1>5. CASE Heard(e)
  BY <1>5, LandsMoves DEF Moves, Heard, Flow
<1>6. CASE Thought(e)
  <2>1. CASE e.type = "pending" /\ Lands("speaking", TRUE, {"speak"})
    <3>1. /\ sm' \in Machines /\ Shaped(acts')
          /\ Moves("speaking", TRUE, "start" \in {"speak"},
                   "speak" \in {"speak"},
                   "submit" \in {"speak"},
                   "asr_cancel" \in {"speak"},
                   "agent_cancel" \in {"speak"},
                   "speak_cancel" \in {"speak"},
                   "forget" \in {"speak"})
      BY <2>1, LandsPending, Zenon
    <3> QED
      BY <1>6, <2>1, <3>1 DEF Moves, Thought, Flow
  <2>2. CASE e.type \in {"reply", "busy", "agent_failed"}
             /\ Lands("speaking", sm.pending, {"speak"})
    <3>1. /\ sm' \in Machines /\ Shaped(acts')
          /\ Moves("speaking", sm.pending, "start" \in {"speak"},
                   "speak" \in {"speak"},
                   "submit" \in {"speak"},
                   "asr_cancel" \in {"speak"},
                   "agent_cancel" \in {"speak"},
                   "speak_cancel" \in {"speak"},
                   "forget" \in {"speak"})
      BY <2>2, LandsMoves, Zenon
    <3> QED
      BY <1>6, <2>2, <3>1 DEF Moves, Thought, Flow
  <2>3. CASE Lands("speaking", sm.pending, {"agent_cancel", "speak"})
    <3>1. /\ sm' \in Machines /\ Shaped(acts')
          /\ Moves("speaking", sm.pending, "start" \in {"agent_cancel", "speak"},
                   "speak" \in {"agent_cancel", "speak"},
                   "submit" \in {"agent_cancel", "speak"},
                   "asr_cancel" \in {"agent_cancel", "speak"},
                   "agent_cancel" \in {"agent_cancel", "speak"},
                   "speak_cancel" \in {"agent_cancel", "speak"},
                   "forget" \in {"agent_cancel", "speak"})
      BY <2>3, LandsMoves, Zenon
    <3> QED
      BY <1>6, <2>3, <3>1 DEF Moves, Thought, Flow
  <2> QED
    BY <1>6, <2>1, <2>2, <2>3 DEF Thought
<1>7. CASE Spoke(e)
  BY <1>7, LandsMoves DEF Moves, Spoke, Flow
<1>8. CASE Asked(e)
  <2>1. CASE e.type = "reply" /\ sm.pending /\ Lands("speaking", FALSE, {"speak"})
    <3>1. /\ sm' \in Machines /\ Shaped(acts')
          /\ Moves("speaking", FALSE, "start" \in {"speak"},
                   "speak" \in {"speak"},
                   "submit" \in {"speak"},
                   "asr_cancel" \in {"speak"},
                   "agent_cancel" \in {"speak"},
                   "speak_cancel" \in {"speak"},
                   "forget" \in {"speak"})
      BY <2>1, LandsAlone, Zenon
    <3> QED
      BY <1>8, <2>1, <3>1 DEF Moves, Asked, Flow
  <2>2. CASE e.type = "say" /\ Lands("speaking", sm.pending, {"speak"})
    <3>1. /\ sm' \in Machines /\ Shaped(acts')
          /\ Moves("speaking", sm.pending, "start" \in {"speak"},
                   "speak" \in {"speak"},
                   "submit" \in {"speak"},
                   "asr_cancel" \in {"speak"},
                   "agent_cancel" \in {"speak"},
                   "speak_cancel" \in {"speak"},
                   "forget" \in {"speak"})
      BY <2>2, LandsMoves, Zenon
    <3> QED
      BY <1>8, <2>2, <3>1 DEF Moves, Asked, Flow
  <2> QED
    BY <1>8, <2>1, <2>2 DEF Asked
<1> QED
  BY <1>1, <1>2, <1>3, <1>4, <1>5, <1>6, <1>7, <1>8 DEF Outcome

\* What the turn thread takes to be said and done when it takes an event: the
\* one before is dealt with, and of SPEAK_DONE only the newest job's counts.
Stepped(e) ==
  /\ pc = "take" /\ Consumed(e) /\ Flow(e) /\ Answers(e)
  /\ sm' \in Machines /\ Shaped(acts')
  /\ pc' \in {"take", "act", "poll", "agent", "idle"}
  /\ pc' # "act" => acts' = <<>>
  /\ UNCHANGED <<run, player, fresh, count>>
  /\ asr' \in [open : BOOLEAN, silent : BOOLEAN, cloud : BOOLEAN,
               pcm : BOOLEAN, req : Nat]
  /\ asr'.req = asr.req
  /\ asr' = asr \/ asr'.open = FALSE
  /\ e.type # "link_lost" => asr' = asr
  /\ e.type = "link_lost" /\ ~asr.cloud => asr'.open = FALSE
  /\ stray' \in BOOLEAN
  /\ ~stray' => ~stray /\ (sm.state = "listening" => ~Astray(e))
  /\ sm.state = "speaking" /\ e.type = "speak_done" /\ sm'.state # "speaking"
       => e.of = player.job

\* When the thread takes an event nothing is half done.
LEMMA NothingToDo ==
  ASSUME IInv, pc = "take"
  PROVE  acts = <<>> /\ \A m : ~ToDo(m)
<1>1. acts = <<>>
  BY DEF IInv, InOrder
<1> QED
  BY <1>1 DEF ToDo

LEMMA SteppedOrder ==
  ASSUME IInv, NEW e, Stepped(e)
  PROVE  InOrder' /\ SilencedRunUnheard' /\ Typed'
<1>0. Typed /\ InOrder /\ acts = <<>> /\ \A m : ~ToDo(m)
  BY NothingToDo DEF IInv, Stepped
<1>1. (\A i \in DOMAIN acts :
          /\ acts[i].act \notin Cancels => i = Len(acts)
          /\ acts[i].of # 0 => Len(acts) = 1 /\ acts[i].act = "speak")'
  BY DEF Stepped, Shaped
<1>2. (Len(acts) <= 3 /\ (pc # "act" => acts = <<>>))'
  BY DEF Stepped, Shaped
<1>3. Flow(e)
  BY DEF Stepped
<1>4. sm.pending => sm.state \in {"idle", "speaking"}
  BY <1>0 DEF InOrder
<1>5. sm'.pending => sm'.state \in {"idle", "speaking"}
  BY <1>3, <1>4 DEF Flow, Moves
<1>6. (/\ ToDo("start") => sm.state = "listening"
       /\ ToDo("submit") => sm.state = "thinking"
       /\ ToDo("speak") => sm.state = "speaking")'
  BY <1>3 DEF Flow, Moves
<1>7. (/\ ToDo("asr_cancel") => sm.state # "listening"
       /\ ToDo("agent_cancel") \/ ToDo("forget")
            => sm.state # "thinking" /\ ~sm.pending)'
  BY <1>3, <1>4 DEF Flow, Moves
<1>8. InOrder'
  BY <1>1, <1>2, <1>5, <1>6, <1>7 DEF InOrder
<1>9. Typed'
  <2>1. /\ queue' \in Seq(Events) /\ Len(queue') <= QueueCap /\ lost' = lost
        /\ sm' \in Machines /\ acts' \in Seq(Actions)
    BY DEF Stepped, Consumed, Shaped
  <2> QED
    BY <1>0, <2>1 DEF Typed, Stepped, Machines
<1>10. SilencedRunUnheard'
  <2> SUFFICES ASSUME NEW i \in DOMAIN acts', acts'[i].of # 0, ~stray'
               PROVE  acts'[i].of > count'.dead
    BY DEF SilencedRunUnheard
  <2>1. /\ e.type = "reply" /\ acts'[i].of = e.of
        /\ sm.state = "thinking" \/ sm.pending
    BY DEF Stepped, Answers
  <2>2. ~stray /\ count' = count
    BY DEF Stepped
  <2>3. PICK j \in DOMAIN queue : queue[j] = e
    BY <2>1, ConsumedKinds DEF Stepped
  <2>4. e.of > count.dead
    BY <2>1, <2>2, <2>3 DEF IInv, AgentInv, LiveAnswers
  <2> QED
    BY <2>1, <2>2, <2>4
<1> QED
  BY <1>8, <1>9, <1>10

LEMMA SteppedSound ==
  ASSUME IInv, NEW e, Stepped(e)
  PROVE  SoundInv'
<1>0. /\ Typed /\ SoundInv /\ \A m : ~ToDo(m)
  BY NothingToDo DEF IInv, Stepped
<1>1. Flow(e) /\ Consumed(e) /\ player' = player
  BY DEF Stepped
<1>2. (player.served <= player.job /\ player.dropped <= player.job)'
  BY <1>0, <1>1 DEF SoundInv
<1>3. (\A i \in DOMAIN queue : queue[i].type = "speak_done" =>
          /\ queue[i].of <= player.served
          /\ player.playing => queue[i].of < player.served)'
  BY <1>0, <1>1 DEF SoundInv, Consumed
<1>4. (sm.state = "speaking" /\ ~lost => ToDo("speak") \/ Voice)'
  <2> SUFFICES ASSUME sm'.state = "speaking", ~lost', ~ToDo("speak")'
               PROVE  Voice'
    OBVIOUS
  <2>1. sm.state = "speaking" /\ (e.type = "speak_done" => e.of # player.job)
    BY <1>1 DEF Flow, Moves
  <2>2. Voice
    BY <1>0, <1>1, <2>1 DEF SoundInv, Consumed
  <2>3. CASE player.job # player.served \/ player.playing
    BY <1>1, <2>3 DEF Voice
  <2>4. CASE \E i \in DOMAIN queue : queue[i].type = "speak_done"
                                     /\ queue[i].of = player.job
    <3> PICK i \in DOMAIN queue : /\ queue[i].type = "speak_done"
                                  /\ queue[i].of = player.job
      BY <2>4
    <3>1. i - 1 \in DOMAIN queue' /\ queue'[i - 1] = queue[i]
      BY <1>1, <2>1 DEF Consumed
    <3> QED
      BY <1>1, <3>1 DEF Voice
  <2> QED
    BY <2>2, <2>3, <2>4 DEF Voice
<1>5. (sm.state # "speaking" => ToDo("speak_cancel") \/ Silence)'
  <2> SUFFICES ASSUME sm'.state # "speaking", ~ToDo("speak_cancel")'
               PROVE  Silence'
    OBVIOUS
  <2>1. sm.state # "speaking" \/ e.type = "speak_done"
    BY <1>1 DEF Flow, Moves
  <2>2. CASE sm.state # "speaking"
    BY <1>0, <1>1, <2>2 DEF SoundInv, Silence
  <2>3. CASE sm.state = "speaking" /\ e.type = "speak_done"
    <3>1. e.of = player.job
      BY <2>3 DEF Stepped
    <3>2. PICK i \in DOMAIN queue : queue[i] = e
      BY <1>1, <2>3, ConsumedKinds
    <3>3. /\ player.job <= player.served
          /\ player.playing => player.job < player.served
      BY <1>0, <2>3, <3>1, <3>2 DEF SoundInv
    <3>4. player.served <= player.job /\ player.job \in Nat /\ player.served \in Nat
      BY <1>0 DEF SoundInv, Typed
    <3> QED
      BY <1>1, <3>3, <3>4 DEF Silence
  <2> QED
    BY <2>1, <2>2, <2>3
<1> QED
  BY <1>2, <1>3, <1>4, <1>5 DEF SoundInv

LEMMA SteppedRequest ==
  ASSUME IInv, NEW e, Stepped(e)
  PROVE  RequestInv'
<1>0. /\ Typed /\ RequestInv /\ \A m : ~ToDo(m)
  BY NothingToDo DEF IInv, Stepped
<1>1. /\ Flow(e) /\ Consumed(e) /\ count' = count /\ asr'.req = asr.req
      /\ asr' = asr \/ asr'.open = FALSE
      /\ e.type # "link_lost" => asr' = asr
      /\ e.type = "link_lost" /\ ~asr.cloud => asr'.open = FALSE
  BY DEF Stepped
<1>2. (asr.req <= count.asr)'
  BY <1>0, <1>1 DEF RequestInv
<1>3. (\A i \in DOMAIN queue : queue[i].type \in Ends
                                 => queue[i].of <= count.asr)'
  BY <1>0, <1>1 DEF RequestInv, Consumed
<1>4. (sm.state = "listening" /\ ~lost =>
          \/ ToDo("start") \/ (asr.open /\ ~asr.silent)
          \/ InQueue("failed") \/ InQueue("finished"))'
  <2> SUFFICES ASSUME sm'.state = "listening", ~lost', ~ToDo("start")'
               PROVE  (\/ asr.open /\ ~asr.silent
                       \/ InQueue("failed") \/ InQueue("finished"))'
    OBVIOUS
  <2>1. sm.state = "listening" /\ e.type \notin {"failed", "finished", "link_lost"}
    BY <1>1 DEF Flow, Moves, Ends
  <2>2. (asr.open /\ ~asr.silent) \/ InQueue("failed") \/ InQueue("finished")
    BY <1>0, <1>1, <2>1 DEF RequestInv, Consumed
  <2>3. /\ InQueue("failed") => InQueue("failed")'
        /\ InQueue("finished") => InQueue("finished")'
    BY <1>1, <2>1, ConsumedIn
  <2> QED
    BY <1>1, <2>1, <2>2, <2>3
<1>5. (~stray /\ asr.open /\ ~asr.silent =>
          /\ \/ sm.state = "listening" /\ ~ToDo("start")
             \/ ToDo("asr_cancel")
          /\ \A i \in DOMAIN queue : queue[i].type \in Ends
                                       => queue[i].of # asr.req)'
  <2> SUFFICES ASSUME ~stray', asr'.open, ~asr'.silent
               PROVE  (/\ \/ sm.state = "listening" /\ ~ToDo("start")
                          \/ ToDo("asr_cancel")
                       /\ \A i \in DOMAIN queue : queue[i].type \in Ends
                                                    => queue[i].of # asr.req)'
    OBVIOUS
  <2>1. ~stray /\ (sm.state = "listening" => ~Astray(e))
    BY DEF Stepped
  <2>2. asr' = asr
    BY <1>1
  <2>3. sm.state = "listening" /\ \A i \in DOMAIN queue : queue[i].type \in Ends
                                       => queue[i].of # asr.req
    BY <1>0, <2>1, <2>2 DEF RequestInv
  <2>4. e.type \in Ends => e.of = asr.req
    BY <2>1, <2>3 DEF Astray, AsrEvents, Ends
  <2>5. e.type \notin Ends
    <3>1. ASSUME e.type \in Ends PROVE \E j \in DOMAIN queue : queue[j] = e
      BY <1>1, <3>1, ConsumedKinds DEF Ends
    <3> QED
      BY <2>3, <2>4, <3>1
  <2>6. e.type # "link_lost"
    <3>1. ASSUME e.type = "link_lost" PROVE asr.cloud \/ asr'.open = FALSE
      BY <1>1, <3>1
    <3> QED
      BY <2>1, <2>2, <2>3, <3>1 DEF Astray
  <2>7. (\/ sm.state = "listening" /\ ~ToDo("start")
         \/ ToDo("asr_cancel"))'
    BY <1>1, <2>3, <2>5, <2>6 DEF Flow, Moves, Ends
  <2>8. (\A i \in DOMAIN queue : queue[i].type \in Ends
                                   => queue[i].of # asr.req)'
    BY <1>1, <2>2, <2>3 DEF Consumed
  <2> QED
    BY <2>7, <2>8
<1> QED
  BY <1>2, <1>3, <1>4, <1>5 DEF RequestInv

LEMMA SteppedRun ==
  ASSUME IInv, NEW e, Stepped(e)
  PROVE  RunInv'
<1>0. /\ Typed /\ InOrder /\ RunInv /\ OneOutcome /\ \A m : ~ToDo(m)
  BY NothingToDo DEF IInv, AgentInv, Stepped
<1>1. /\ Flow(e) /\ Consumed(e) /\ UNCHANGED <<run, count>> /\ lost' = lost
      /\ ~stray' => ~stray
  BY DEF Stepped, Consumed
<1>2. /\ InQueue("reply") => InQueue("reply")' \/ e.type = "reply"
      /\ InQueue("pending") => InQueue("pending")' \/ e.type = "pending"
      /\ InQueue("busy") => InQueue("busy")' \/ e.type = "busy"
      /\ InQueue("agent_failed") => InQueue("agent_failed")' \/ e.type = "agent_failed"
  BY <1>1, ConsumedIn
<1>3. (run.id <= count.run /\ count.dead <= count.run
       /\ (run.id # 0 => run.id > count.dead))'
  BY <1>0, <1>1 DEF RunInv
<1>4. (sm.state = "thinking" /\ ~lost =>
          ToDo("submit") \/ run.id # 0 \/ run.due \/ NewsInQueue)'
  <2> SUFFICES ASSUME sm'.state = "thinking", ~lost', ~ToDo("submit")'
               PROVE  (run.id # 0 \/ run.due \/ NewsInQueue)'
    OBVIOUS
  <2>1. sm.state = "thinking" /\ e.type \notin AgentEvents
    BY <1>1 DEF Flow, Moves
  <2>2. run.id # 0 \/ run.due \/ NewsInQueue
    BY <1>0, <1>1, <2>1 DEF RunInv
  <2>3. NewsInQueue => NewsInQueue'
    BY <1>2, <2>1 DEF NewsInQueue, AgentEvents
  <2> QED
    BY <1>1, <2>2, <2>3
<1>5. (sm.pending /\ ~lost /\ ~stray => run.id # 0 \/ InQueue("reply"))'
  <2> SUFFICES ASSUME sm'.pending, ~lost', ~stray'
               PROVE  (run.id # 0 \/ InQueue("reply"))'
    OBVIOUS
  <2>1. \/ sm.pending /\ e.type # "reply"
        \/ sm.state = "thinking" /\ e.type = "pending"
    BY <1>0, <1>1 DEF InOrder, Flow, Moves
  <2>2. CASE sm.pending /\ e.type # "reply"
    BY <1>0, <1>1, <1>2, <2>2 DEF RunInv
  <2>3. CASE sm.state = "thinking" /\ e.type = "pending"
    <3>1. InQueue("pending")
      BY <1>1, <2>3, ConsumedKinds
    <3> QED
      BY <1>0, <1>1, <1>2, <2>3, <3>1 DEF OneOutcome
  <2> QED
    BY <2>1, <2>2, <2>3
<1>6. (~stray /\ run.id # 0 =>
          \/ sm.state = "thinking" \/ sm.pending
          \/ ToDo("agent_cancel") \/ ToDo("forget"))'
  <2> SUFFICES ASSUME ~stray', run'.id # 0
               PROVE  (\/ sm.state = "thinking" \/ sm.pending
                       \/ ToDo("agent_cancel") \/ ToDo("forget"))'
    OBVIOUS
  <2>1. sm.state = "thinking" \/ sm.pending
    BY <1>0, <1>1 DEF RunInv
  <2>2. sm.state = "thinking" => e.type \notin {"reply", "busy", "agent_failed"}
    <3>1. ASSUME sm.state = "thinking", e.type \in {"reply", "busy", "agent_failed"}
          PROVE  FALSE
      <4>1. InQueue(e.type)
        BY <1>1, <3>1, ConsumedKinds
      <4> QED
        BY <1>0, <1>1, <3>1, <4>1 DEF OneOutcome
    <3> QED
      BY <3>1
  <2>3. sm.pending => e.type \notin {"reply", "agent_failed"}
    <3>1. ASSUME sm.pending, e.type \in {"reply", "agent_failed"}
          PROVE  FALSE
      <4>1. InQueue(e.type)
        BY <1>1, <3>1, ConsumedKinds
      <4> QED
        BY <1>0, <1>1, <3>1, <4>1 DEF OneOutcome
    <3> QED
      BY <3>1
  <2> QED
    BY <1>1, <2>1, <2>2, <2>3 DEF Flow, Moves
<1>7. (~stray /\ run.due => sm.state = "thinking" \/ ToDo("agent_cancel"))'
  <2> SUFFICES ASSUME ~stray', run'.due
               PROVE  (sm.state = "thinking" \/ ToDo("agent_cancel"))'
    OBVIOUS
  <2>1. sm.state = "thinking"
    BY <1>0, <1>1 DEF RunInv
  <2>2. e.type \notin AgentEvents
    <3>1. ASSUME e.type \in AgentEvents PROVE FALSE
      <4>1. InQueue(e.type)
        BY <1>1, <3>1, ConsumedKinds DEF AgentEvents
      <4>2. NewsInQueue
        BY <3>1, <4>1 DEF NewsInQueue, AgentEvents
      <4> QED
        BY <1>0, <1>1, <2>1, <4>2 DEF OneOutcome
    <3> QED
      BY <3>1
  <2> QED
    BY <1>1, <2>1, <2>2 DEF Flow, Moves, AgentEvents
<1> QED
  BY <1>3, <1>4, <1>5, <1>6, <1>7 DEF RunInv

\* The transcript a run is submitted for finds nothing of an earlier run in
\* the queue.
LEMMA TranscriptFindsNoNews ==
  ASSUME IInv, NEW e, Stepped(e), ~stray', sm.state = "listening",
         e.type = "finished"
  PROVE  run.id = 0 /\ ~NewsInQueue
<1>0. /\ Typed /\ InOrder /\ RunInv /\ OldNewsFirst /\ \A m : ~ToDo(m)
  BY NothingToDo DEF IInv, AgentInv, Stepped
<1>1. Consumed(e) /\ ~stray /\ ~Astray(e)
  BY DEF Stepped
<1>2. run.id = 0
  BY <1>0, <1>1 DEF RunInv, InOrder
<1>3. e.of = asr.req
  BY <1>1 DEF Astray, AsrEvents
<1>4. 1 \in DOMAIN queue /\ queue[1] = e
  BY <1>1 DEF Consumed
<1>5. \A j \in DOMAIN queue : j \in Nat /\ ~(j < 1)
  <2>1. queue \in Seq(Events)
    BY <1>0 DEF Typed
  <2> QED
    BY <2>1
<1>6. \A j \in DOMAIN queue : queue[j].type \notin AgentEvents
  BY <1>0, <1>1, <1>3, <1>4, <1>5 DEF OldNewsFirst
<1>7. ~NewsInQueue
  BY <1>6 DEF NewsInQueue, InQueue, AgentEvents
<1> QED
  BY <1>2, <1>7

LEMMA SteppedOutcomes ==
  ASSUME IInv, NEW e, Stepped(e)
  PROVE  OneOutcome' /\ LiveAnswers'
<1>0. /\ Typed /\ InOrder /\ OneOutcome /\ LiveAnswers /\ \A m : ~ToDo(m)
  BY NothingToDo DEF IInv, AgentInv, Stepped
<1>1. /\ Flow(e) /\ Consumed(e) /\ UNCHANGED <<run, count>> /\ lost' = lost
      /\ ~stray' => ~stray
  BY DEF Stepped, Consumed
<1>2. /\ InQueue("reply") => InQueue("reply")' \/ e.type = "reply"
      /\ InQueue("pending") => InQueue("pending")' \/ e.type = "pending"
  BY <1>1, ConsumedIn
<1>3. /\ InQueue("reply")' => InQueue("reply")
      /\ InQueue("pending")' => InQueue("pending")
      /\ InQueue("busy")' => InQueue("busy")
      /\ InQueue("agent_failed")' => InQueue("agent_failed")
  BY <1>1, ConsumedIn
<1>4. NewsInQueue' => NewsInQueue
  BY <1>3 DEF NewsInQueue
<1>5. sm.pending => sm.state \in {"idle", "speaking"}
  BY <1>0 DEF InOrder
<1>6. (~stray /\ sm.state = "thinking" =>
          /\ ToDo("submit") \/ run.due => run.id = 0 /\ ~NewsInQueue
          /\ run.id # 0 \/ InQueue("pending") \/ InQueue("reply")
               => ~InQueue("busy") /\ ~InQueue("agent_failed")
          /\ run.id # 0 => ~InQueue("reply")
          /\ InQueue("pending") /\ ~lost => run.id # 0 \/ InQueue("reply"))'
  <2> SUFFICES ASSUME ~stray', sm'.state = "thinking"
               PROVE  (/\ ToDo("submit") \/ run.due => run.id = 0 /\ ~NewsInQueue
                       /\ run.id # 0 \/ InQueue("pending") \/ InQueue("reply")
                            => ~InQueue("busy") /\ ~InQueue("agent_failed")
                       /\ run.id # 0 => ~InQueue("reply")
                       /\ InQueue("pending") /\ ~lost
                            => run.id # 0 \/ InQueue("reply"))'
    OBVIOUS
  <2>1. \/ sm.state = "thinking" /\ e.type \notin AgentEvents /\ ~ToDo("submit")'
        \/ sm.state = "listening" /\ e.type = "finished"
    BY <1>1, <1>5 DEF Flow, Moves
  <2>2. CASE sm.state = "thinking" /\ e.type \notin AgentEvents /\ ~ToDo("submit")'
    BY <1>0, <1>1, <1>2, <1>3, <1>4, <2>2 DEF OneOutcome, AgentEvents
  <2>3. CASE sm.state = "listening" /\ e.type = "finished"
    <3>1. run.id = 0 /\ ~NewsInQueue
      BY <2>3, TranscriptFindsNoNews
    <3>2. ~NewsInQueue'
      BY <3>1, <1>4
    <3> QED
      BY <1>1, <3>1, <3>2 DEF NewsInQueue
  <2> QED
    BY <2>1, <2>2, <2>3
<1>7. (~stray /\ sm.pending =>
          /\ ~InQueue("agent_failed")
          /\ run.id # 0 => ~InQueue("reply"))'
  <2> SUFFICES ASSUME ~stray', sm'.pending
               PROVE  (/\ ~InQueue("agent_failed")
                       /\ run.id # 0 => ~InQueue("reply"))'
    OBVIOUS
  <2>1. \/ sm.pending
        \/ sm.state = "thinking" /\ e.type = "pending"
    BY <1>1 DEF Flow, Moves
  <2>2. CASE sm.pending
    BY <1>0, <1>1, <1>3, <2>2 DEF OneOutcome
  <2>3. CASE sm.state = "thinking" /\ e.type = "pending"
    <3>1. InQueue("pending")
      BY <1>1, <2>3, ConsumedKinds
    <3> QED
      BY <1>0, <1>1, <1>3, <2>3, <3>1 DEF OneOutcome
  <2> QED
    BY <2>1, <2>2, <2>3
<1>8. LiveAnswers'
  <2> SUFFICES ASSUME ~stray', sm'.state = "thinking" \/ sm'.pending,
                      NEW i \in DOMAIN queue', queue'[i].type = "reply"
               PROVE  queue'[i].of > count'.dead
    BY DEF LiveAnswers
  <2>1. PICK j \in DOMAIN queue : queue[j] = queue'[i]
    BY <1>1, ConsumedKinds
  <2>2. \/ sm.state = "thinking" \/ sm.pending
        \/ sm.state = "listening" /\ e.type = "finished"
    BY <1>1 DEF Flow, Moves
  <2>3. CASE sm.state = "thinking" \/ sm.pending
    BY <1>0, <1>1, <2>1, <2>3 DEF LiveAnswers
  <2>4. CASE sm.state = "listening" /\ e.type = "finished"
    <3>1. ~NewsInQueue
      BY <2>4, TranscriptFindsNoNews
    <3> QED
      BY <2>1, <3>1 DEF NewsInQueue, InQueue
  <2> QED
    BY <2>2, <2>3, <2>4
<1> QED
  BY <1>6, <1>7, <1>8 DEF OneOutcome

LEMMA SteppedNews ==
  ASSUME IInv, NEW e, Stepped(e)
  PROVE  OldNewsFirst'
<1>0. /\ Typed /\ OldNewsFirst /\ \A m : ~ToDo(m)
  BY NothingToDo DEF IInv, Stepped
<1>1. /\ Flow(e) /\ Consumed(e) /\ asr'.req = asr.req
      /\ ~stray' => ~stray
  BY DEF Stepped
<1> SUFFICES ASSUME (~stray /\ sm.state = "listening" /\ ~ToDo("start"))',
                    NEW i \in DOMAIN queue', NEW j \in DOMAIN queue',
                    (queue[i].type = "finished" /\ queue[i].of = asr.req)',
                    (queue[j].type \in AgentEvents)'
             PROVE  j < i
  BY DEF OldNewsFirst
<1>2. sm.state = "listening"
  BY <1>1 DEF Flow, Moves
<1>3. /\ i \in Nat /\ i + 1 \in DOMAIN queue /\ queue'[i] = queue[i + 1]
      /\ j \in Nat /\ j + 1 \in DOMAIN queue /\ queue'[j] = queue[j + 1]
  BY <1>1 DEF Consumed
<1>4. j + 1 < i + 1
  BY <1>0, <1>1, <1>2, <1>3 DEF OldNewsFirst, Stepped
<1> QED
  BY <1>3, <1>4

\* The invariant holds on when an event is taken.
LEMMA SteppedKeeps ==
  ASSUME IInv, NEW e, Stepped(e)
  PROVE  IInv'
BY SteppedOrder, SteppedSound, SteppedRequest, SteppedRun, SteppedOutcomes,
   SteppedNews DEF IInv, AgentInv

\* The event at the head is given to the machine; a report of the player is
\* then one of the newest job.
LEMMA TakeKeeps ==
  ASSUME IInv, Take
  PROVE  IInv'
<1> DEFINE e == Head(queue)
<1>0. /\ pc = "take" /\ queue # <<>> /\ ~Stale(e) /\ queue' = Tail(queue)
      /\ asr' = IF e.type = "link_lost" /\ ~asr.cloud
                THEN [asr EXCEPT !.open = FALSE] ELSE asr
      /\ stray' = (stray \/ (sm.state = "listening" /\ Astray(e)))
      /\ UNCHANGED <<run, player, fresh, count, lost>> /\ Advance
  BY DEF Take
<1>1. PICK due \in BOOLEAN : Machine(e, due)
  BY DEF Take
<1>2. Typed /\ InOrder
  BY DEF IInv
<1>3. Consumed(e) /\ e \in Events
  BY <1>0, <1>2, TakenConsumed
<1> HIDE DEF e
<1>4. Outcome(e)
  <2>1. e.of \in Nat
    BY <1>3 DEF Events
  <2> QED
    BY <1>1, <1>2, <2>1, MachineOutcome
<1>5. Flow(e) /\ sm' \in Machines /\ Shaped(acts')
  BY <1>4, OutcomeFlow
<1>6. Answers(e)
  BY <1>4 DEF Outcome
<1>7. /\ asr' \in [open : BOOLEAN, silent : BOOLEAN, cloud : BOOLEAN,
                   pcm : BOOLEAN, req : Nat]
      /\ asr'.req = asr.req
      /\ asr' = asr \/ asr'.open = FALSE
      /\ e.type # "link_lost" => asr' = asr
      /\ e.type = "link_lost" /\ ~asr.cloud => asr'.open = FALSE
  <2>1. asr \in [open : BOOLEAN, silent : BOOLEAN, cloud : BOOLEAN,
                 pcm : BOOLEAN, req : Nat]
    BY <1>2 DEF Typed
  <2>2. CASE e.type = "link_lost" /\ ~asr.cloud
    <3>1. asr' = [asr EXCEPT !.open = FALSE]
      BY <1>0, <2>2
    <3> QED
      BY <2>1, <2>2, <3>1
  <2>3. CASE ~(e.type = "link_lost" /\ ~asr.cloud)
    <3>1. asr' = asr
      BY <1>0, <2>3
    <3> QED
      BY <2>1, <2>3, <3>1
  <2> QED
    BY <2>2, <2>3
<1>8. e.type = "speak_done" => e.of = player.job
  BY <1>0 DEF Stale
<1>9. /\ pc' \in {"take", "act", "poll", "agent", "idle"}
      /\ pc' # "act" => acts' = <<>>
  BY <1>0, AdvancePlace
<1>10. /\ stray' \in BOOLEAN
       /\ ~stray' => ~stray /\ (sm.state = "listening" => ~Astray(e))
  BY <1>0
<1>11. Stepped(e)
  BY <1>0, <1>3, <1>5, <1>6, <1>7, <1>8, <1>9, <1>10 DEF Stepped
<1> QED
  BY <1>11, SteppedKeeps

\* A tick takes nothing from the queue, which is empty.
LEMMA TickKeeps ==
  ASSUME IInv, NEW due \in BOOLEAN, Tick(due)
  PROVE  IInv'
<1> DEFINE e == Event("tick", TRUE, 0)
<1>0. /\ pc = "take" /\ queue = <<>> /\ Machine(e, due)
      /\ UNCHANGED <<queue, asr, run, player, fresh, count, lost, stray>>
      /\ Advance
  BY DEF Tick
<1>1. e.type = "tick" /\ e.of = 0
  BY DEF Event
<1>2. Typed /\ InOrder
  BY DEF IInv
<1> HIDE DEF e
<1>3. Consumed(e)
  BY <1>0, <1>1, <1>2 DEF Consumed, Typed
<1>4. Outcome(e)
  BY <1>0, <1>1, <1>2, MachineOutcome
<1>5. Flow(e) /\ sm' \in Machines /\ Shaped(acts')
  BY <1>4, OutcomeFlow
<1>6. Answers(e)
  BY <1>4 DEF Outcome
<1>7. /\ asr' \in [open : BOOLEAN, silent : BOOLEAN, cloud : BOOLEAN,
                   pcm : BOOLEAN, req : Nat]
      /\ asr' = asr /\ stray' = stray /\ stray \in BOOLEAN
  BY <1>0, <1>2 DEF Typed
<1>8. ~Astray(e)
  BY <1>1 DEF Astray, AsrEvents
<1>9. /\ pc' \in {"take", "act", "poll", "agent", "idle"}
      /\ pc' # "act" => acts' = <<>>
  BY <1>0, AdvancePlace
<1>10. Stepped(e)
  BY <1>0, <1>1, <1>3, <1>5, <1>6, <1>7, <1>8, <1>9 DEF Stepped
<1> QED
  BY <1>10, SteppedKeeps

\* A report of a job that was replaced is not shown to the machine.
LEMMA TakeStaleKeeps ==
  ASSUME IInv, TakeStale
  PROVE  IInv'
<1> DEFINE e == Head(queue)
<1>0. /\ pc = "take" /\ queue # <<>> /\ Stale(e) /\ queue' = Tail(queue)
      /\ UNCHANGED <<sm, pc, acts, asr, run, player, fresh, count, lost,
                     stray>>
  BY DEF TakeStale
<1>2. Typed /\ InOrder
  BY DEF IInv
<1>3. Consumed(e)
  BY <1>0, <1>2, TakenConsumed
<1> HIDE DEF e
<1>4. e.type = "speak_done" /\ e.of # player.job
  BY <1>0 DEF Stale
<1>5. acts' = <<>> /\ \A m : ~ToDo(m)'
  <2>1. acts' = <<>>
    BY <1>0, NothingToDo
  <2> QED
    BY <2>1 DEF ToDo
<1>6. Flow(e)
  <2>1. Moves(sm.state, sm.pending, FALSE, FALSE, FALSE, FALSE, FALSE, FALSE,
              FALSE)
    BY <1>0, <1>5 DEF Moves
  <2> QED
    BY <1>4, <2>1 DEF Flow, AgentEvents, Ends
<1>7. Answers(e) /\ sm' \in Machines /\ Shaped(acts')
  <2>1. Answers(e)
    BY <1>5 DEF Answers
  <2>2. Shaped(acts')
    BY <1>5, FirstNone DEF Shaped
  <2>3. sm' \in Machines
    BY <1>0, <1>2, MachineTyped
  <2> QED
    BY <2>1, <2>2, <2>3
<1>8. /\ asr' \in [open : BOOLEAN, silent : BOOLEAN, cloud : BOOLEAN,
                   pcm : BOOLEAN, req : Nat]
      /\ asr' = asr /\ stray' = stray /\ stray \in BOOLEAN
  BY <1>0, <1>2 DEF Typed
<1>9. ~Astray(e)
  BY <1>4 DEF Astray, AsrEvents
<1>10. pc' = "take"
  BY <1>0
<1>11. Stepped(e)
  BY <1>0, <1>3, <1>4, <1>5, <1>6, <1>7, <1>8, <1>9, <1>10 DEF Stepped
<1> QED
  BY <1>11, SteppedKeeps

(***************************************************************************)
(* The specification                                                       *)
(***************************************************************************)

LEMMA InitInv ==
  ASSUME Init
  PROVE  IInv
<1> DEFINE e == Event("enable", TRUE, 0)
<1>1. e \in Events /\ e.type = "enable"
  <2>1. "enable" \in EventTypes
    BY DEF EventTypes
  <2> QED
    BY <2>1, EventTyped
<1>2. /\ queue = <<e>> /\ acts = <<>> /\ pc = "take"
      /\ sm.state = "off" /\ sm.pending = FALSE
      /\ asr.open = FALSE /\ asr.req = 0
      /\ run = [id |-> 0, pending |-> FALSE, due |-> FALSE]
      /\ player = [job |-> 0, sentence |-> FALSE, served |-> 0,
                   cur |-> FALSE, dropped |-> 0, playing |-> FALSE]
      /\ count = [posts |-> 0, asr |-> 0, run |-> 0, dead |-> 0]
      /\ lost = FALSE /\ stray = FALSE /\ fresh = FALSE
  BY DEF Init
<1>3. /\ sm \in [state : States, started : BOOLEAN, endWanted : BOOLEAN,
                 endSent : BOOLEAN, pending : BOOLEAN]
      /\ asr \in [open : BOOLEAN, silent : BOOLEAN, cloud : BOOLEAN,
                  pcm : BOOLEAN, req : Nat]
  BY DEF Init, States
<1> HIDE DEF e
<1>4. queue \in Seq(Events) /\ Len(queue) <= QueueCap
  BY <1>1, <1>2, VoiceConstants
<1>5. Typed
  <2>1. /\ run \in [id : Nat, pending : BOOLEAN, due : BOOLEAN]
        /\ count \in [posts : Nat, asr : Nat, run : Nat, dead : Nat]
    BY <1>2
  <2>2. player \in [job : Nat, sentence : BOOLEAN, served : Nat,
                    cur : BOOLEAN, dropped : Nat, playing : BOOLEAN]
    BY <1>2
  <2>3. acts \in Seq(Actions) /\ pc \in {"take", "act", "poll", "agent", "idle"}
        /\ fresh \in BOOLEAN /\ lost \in BOOLEAN /\ stray \in BOOLEAN
    <3>1. <<>> \in Seq(Actions)
      OBVIOUS
    <3> QED
      BY <1>2, <3>1
  <2> QED
    BY <1>3, <1>4, <2>1, <2>2, <2>3 DEF Typed
<1>6. \A m : ~ToDo(m)
  BY <1>2 DEF ToDo
<1>7. InOrder
  BY <1>2, <1>6 DEF InOrder
<1>8. \A i \in DOMAIN queue : queue[i].type = "enable"
  BY <1>1, <1>2
<1>9. SoundInv
  BY <1>2, <1>8 DEF SoundInv, Silence
<1>10. RequestInv
  BY <1>2, <1>8 DEF RequestInv, Ends
<1>11. ~NewsInQueue /\ ~InQueue("reply") /\ ~InQueue("agent_failed")
       /\ ~InQueue("pending") /\ ~InQueue("busy")
  BY <1>8 DEF NewsInQueue, InQueue
<1>12. RunInv
  BY <1>2, <1>11 DEF RunInv
<1>13. OneOutcome /\ LiveAnswers
  BY <1>2, <1>11 DEF OneOutcome, LiveAnswers
<1>14. OldNewsFirst
  BY <1>2 DEF OldNewsFirst
<1>15. SilencedRunUnheard
  BY <1>2 DEF SilencedRunUnheard
<1> QED
  BY <1>5, <1>7, <1>9, <1>10, <1>12, <1>13, <1>14, <1>15 DEF IInv, AgentInv

LEMMA DoActKeeps ==
  ASSUME IInv, DoAct
  PROVE  IInv'
<1>1. CASE DoChime \/ DoWaitCue
  BY <1>1, DoChimeKeeps, DoWaitCueKeeps
<1>2. CASE DoAsrCancel \/ DoAgentCancel \/ DoForget
  BY <1>2, DoAsrCancelKeeps, DoAgentCancelKeeps, DoForgetKeeps
<1>3. CASE DoSpeak \/ DoSpeakCancel
  BY <1>3, DoSpeakKeeps, DoSpeakCancelKeeps
<1>4. ASSUME NEW ok \in BOOLEAN, DoEnd(ok) PROVE IInv'
  BY <1>4, DoEndKeeps
<1>5. ASSUME NEW ok \in BOOLEAN, NEW cloud \in BOOLEAN, DoStart(cloud, ok)
      PROVE  IInv'
  BY <1>5, DoStartKeeps
<1>6. ASSUME NEW outcome \in {"accepted", "again", "busy", "agent_failed"},
             DoSubmit(outcome)
      PROVE  IInv'
  BY <1>6, DoSubmitKeeps DEF Outcomes
<1> QED
  BY <1>1, <1>2, <1>3, <1>4, <1>5, <1>6 DEF DoAct

LEMMA AgentNewsKeeps ==
  ASSUME IInv, AgentNews
  PROVE  IInv'
<1>1. CASE AgentWaits
  BY <1>1, AgentWaitsKeeps
<1>2. ASSUME NEW good \in BOOLEAN, AgentEnded(good) PROVE IInv'
  BY <1>2, AgentEndedKeeps
<1>3. ASSUME NEW outcome \in {"accepted", "again", "busy", "agent_failed"},
             AgentRetry(outcome)
      PROVE  IInv'
  BY <1>3, AgentRetryKeeps DEF Outcomes
<1> QED
  BY <1>1, <1>2, <1>3 DEF AgentNews

LEMMA TurnThreadKeeps ==
  ASSUME IInv, TurnThread
  PROVE  IInv'
<1>1. CASE TakeStale \/ Take
  BY <1>1, TakeStaleKeeps, TakeKeeps
<1>2. ASSUME NEW due \in BOOLEAN, Tick(due) PROVE IInv'
  BY <1>2, TickKeeps
<1>3. CASE DoAct
  BY <1>3, DoActKeeps
<1>4. ASSUME NEW good \in BOOLEAN, WireClosed(good) \/ CloudPoll(good)
      PROVE  IInv'
  BY <1>4, PollKeeps
<1>5. CASE WireEndpoint
  BY <1>5, WireEndpointKeeps
<1>6. CASE PollDone \/ AgentQuiet
  BY <1>6, PassesKeep
<1>7. CASE AgentNews
  BY <1>7, AgentNewsKeeps
<1>8. CASE Housekeeping
  BY <1>8, HousekeepingKeeps
<1> QED
  BY <1>1, <1>2, <1>3, <1>4, <1>5, <1>6, <1>7, <1>8 DEF TurnThread

LEMMA NextKeeps ==
  ASSUME IInv, [Next]_vars
  PROVE  IInv'
<1>1. CASE TurnThread
  BY <1>1, TurnThreadKeeps
<1>2. CASE PlayStart \/ PlayEnd
  BY <1>2, PlayStartKeeps, PlayEndKeeps
<1>3. ASSUME NEW type \in Outside, Request(type) PROVE IInv'
  BY <1>3, RequestKeeps
<1>4. CASE Restarted
  BY <1>4, RestartedKeeps
<1>5. CASE UNCHANGED vars
  BY <1>5, StutterKeeps
<1> QED
  BY <1>1, <1>2, <1>3, <1>4, <1>5 DEF Next, Player

LEMMA InvariantCorrect == Spec => []IInv
<1>1. Init => IInv
  BY InitInv
<1>2. IInv /\ [Next]_vars => IInv'
  BY NextKeeps
<1> QED
  BY <1>1, <1>2, PTL DEF Spec

LEMMA TypedTypes ==
  ASSUME IInv
  PROVE  TypeInv
<1>1. Len(acts) <= 3 /\ Len(acts) \in Nat
  BY DEF IInv, InOrder, Typed
<1>2. /\ sm.state \in {"off", "idle", "listening", "thinking", "speaking"}
      /\ Len(queue) <= QueueCap
      /\ pc \in {"take", "act", "poll", "agent", "idle"}
      /\ asr.open \in BOOLEAN /\ asr.silent \in BOOLEAN
  BY DEF IInv, Typed, States
<1> QED
  BY <1>1, <1>2 DEF TypeInv

\* A queue that holds an event of a type holds it for the properties, too.
LEMMA QueuedTypes ==
  /\ InQueue("failed") \/ InQueue("finished") => Queued({"failed", "finished"})
  /\ NewsInQueue => Queued({"reply", "pending", "busy", "agent_failed"})
  /\ InQueue("reply") => Queued({"reply"})
BY DEF InQueue, NewsInQueue, Queued

LEMMA WaitedFor ==
  ASSUME IInv
  PROVE  WaitedForComes
<1>1. Settled => \A m : ~ToDo(m)
  BY NothingToDo DEF Settled
<1>2. SpeakingHasVoice
  BY <1>1 DEF SpeakingHasVoice, IInv, SoundInv, Voice
<1>3. ListeningHasRequest
  BY <1>1, QueuedTypes DEF ListeningHasRequest, IInv, RequestInv
<1>4. ThinkingHasRun
  BY <1>1, QueuedTypes DEF ThinkingHasRun, IInv, AgentInv, RunInv
<1>5. PendingFollowed
  BY <1>1, QueuedTypes DEF PendingFollowed, IInv, AgentInv, RunInv
<1> QED
  BY <1>2, <1>3, <1>4, <1>5, TypedTypes DEF WaitedForComes

LEMMA Unwanted ==
  ASSUME IInv
  PROVE  CalledOff
<1>1. Settled => \A m : ~ToDo(m)
  BY NothingToDo DEF Settled
<1>2. RunWanted
  BY <1>1 DEF RunWanted, IInv, AgentInv, RunInv
<1>3. RequestWanted
  BY <1>1 DEF RequestWanted, IInv, RequestInv
<1>4. Quiet
  BY <1>1 DEF Quiet, IInv, SoundInv, Silence
<1> QED
  BY <1>2, <1>3, <1>4 DEF CalledOff

\* A turn never waits for nothing: whenever the thread is between two events,
\* the machine in SPEAKING has a job still to be reported, in LISTENING a
\* request that may still speak or its outcome queued, in THINKING a run, a due
\* submission or the run's outcome, and a pending approval has the run it is
\* about, unless an event was lost to a full queue or a result of another
\* request was taken for the turn's own (ny_voice_sm_step, ny_voice_task).
THEOREM WaitedForComesCorrect == Spec => []WaitedForComes
<1>1. IInv => WaitedForComes
  BY WaitedFor
<1> QED
  BY <1>1, InvariantCorrect, PTL

\* Barge-in, cancel, disable, a deadline and a lost link leave nothing running
\* that no state waits for: between two events a followed run, an open request
\* that speaks and a reply being played or about to be belong to the state
\* (ny_voice_sm_abandon, ny_voice_sm_listen, ny_voice_turn_act).
THEOREM CalledOffCorrect == Spec => []CalledOff
<1>1. IInv => CalledOff
  BY Unwanted
<1> QED
  BY <1>1, InvariantCorrect, PTL

\* The answer of a run that was cancelled or forgotten is never handed to the
\* player, although the thread may have queued its REPLY before the event that
\* called it off was taken (ny_voice_turn_agent_poll, ny_voice_sm_idle).
THEOREM SilencedRunUnheardCorrect == Spec => []SilencedRunUnheard
<1>1. IInv => SilencedRunUnheard
  BY DEF IInv
<1> QED
  BY <1>1, InvariantCorrect, PTL
==============================================================================
