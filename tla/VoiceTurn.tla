------------------------------ MODULE VoiceTurn ------------------------------
(***************************************************************************)
(* A spoken turn: the state machine of ny_voice_sm.c and the threads of    *)
(* ny_voice.c it lives in.  The turn thread takes an event from a bounded  *)
(* queue (or a tick when it is empty), steps the machine, carries out the  *)
(* actions the step returned one after the other, then looks at the        *)
(* recogniser and at the agent's run, whose results it posts to its own    *)
(* queue.  The panel, the wake word pump and the player post to that queue *)
(* at any point in between, so an event is acted upon in a state that may  *)
(* have moved on since it was posted.                                      *)
(*                                                                         *)
(* Requests and runs are numbered; ASR_* and AGENT_* events carry the      *)
(* number here and not in the code, which is what "stray" is about.        *)
(***************************************************************************)
EXTENDS Naturals, Sequences

CONSTANTS QueueCap,   \* NY_VOICE_EVENTS
          MaxPosts,   \* bound: events from outside, endpoints included
          CloudModes  \* values ny_mimo_asr_enabled() may answer

ASSUME VoiceConstants ==
    /\ QueueCap \in Nat \ {0}
    /\ MaxPosts \in Nat
    /\ CloudModes \subseteq BOOLEAN

VARIABLES
    sm,      \* the machine: state, started, endWanted, endSent, pending
    queue,   \* g_voice.events
    pc,      \* where the turn thread is in its loop
    acts,    \* the actions of the last step still to be carried out
    asr,     \* the recognition request: open, silent, cloud, pcm, req
    run,     \* the agent run followed: id (0: none), pending, due
    player,  \* newest job, the one being played, the one dropped
    fresh,   \* the compute generation changed and the thread has not seen it
    count,   \* numbers given out: posts, asr requests, agent runs; dead:
             \* the last run when one was cancelled or forgotten
    lost,    \* an event found the queue full
    stray    \* an ASR result of an earlier request was taken for the present
             \* one, or a cloud request outlived its turn

vars == <<sm, queue, pc, acts, asr, run, player, fresh, count, lost,
          stray>>

-----------------------------------------------------------------------------
(* The queue.                                                              *)

Event(type, good, of) == [type |-> type, good |-> good, of |-> of]

HasRoom == Len(queue) < QueueCap

\* ny_voice_post: a full queue drops the event.
Post(e) ==
    /\ queue' = IF HasRoom THEN Append(queue, e) ELSE queue
    /\ lost'  = (lost \/ ~HasRoom)

NoPost == UNCHANGED <<queue, lost>>

Queued(types) == \E i \in DOMAIN queue : queue[i].type \in types

-----------------------------------------------------------------------------
(* The machine: each handler gives the next machine and the actions.       *)

Act(name, arg) == [act |-> name, arg |-> arg, of |-> 0]

Enter(s, state) ==
    [s EXCEPT !.state = state, !.started = FALSE, !.endWanted = FALSE,
              !.endSent = FALSE]

KeepFollowing(s) == s
Unfollow(s) == [s EXCEPT !.pending = FALSE]

Forget == IF sm.pending THEN <<Act("forget", "")>> ELSE <<>>

Step(s, as) == sm' = s /\ acts' = as

Ignore == Step(sm, <<>>)

\* ny_voice_sm_listen after the actions `first'
Listen(first, type) ==
    Step(Enter(Unfollow(sm), "listening"),
         first \o Forget \o
         <<Act("start", IF type = "wake" THEN "chime" ELSE "attach")>>)

\* ny_voice_sm_speak
Speak(s, first, what, of) ==
    Step(Enter(s, "speaking"),
         first \o <<[Act("speak", what) EXCEPT !.of = of]>>)

Rest(s, first) == Step(Enter(s, "idle"), first)

\* ny_voice_sm_abandon: stop what the state has in flight
\* A definition with a faulty form before it is one a run shows its property
\* to depend on.
AbandonNoRequest ==
    CASE sm.state = "thinking"  -> <<Act("agent_cancel", "")>>
      [] sm.state = "speaking"  -> <<Act("speak_cancel", "")>>
      [] OTHER                  -> <<>>

Abandon ==
    CASE sm.state = "listening" -> <<Act("asr_cancel", "")>>
      [] sm.state = "thinking"  -> <<Act("agent_cancel", "")>>
      [] sm.state = "speaking"  -> <<Act("speak_cancel", "")>>
      [] OTHER                  -> <<>>

\* ny_voice_sm_end: END names a request, it waits until there is one
End(s) ==
    \/ s.endSent /\ Step(s, <<>>)
    \/ ~s.endSent /\ ~s.started /\ Step([s EXCEPT !.endWanted = TRUE], <<>>)
    \/ ~s.endSent /\ s.started
       /\ Step([s EXCEPT !.endSent = TRUE], <<Act("end", "")>>)

\* DISABLE, ENABLE and CANCEL mean the same in every state.
Common(e) ==
    \/ /\ e.type = "disable"
       /\ Step(Enter(Unfollow(sm), "off"),
               Abandon \o Forget)
    \/ /\ e.type = "enable"
       /\ IF sm.state = "off" THEN Step(Enter(sm, "idle"), <<>>) ELSE Ignore
    \/ /\ e.type = "cancel" /\ sm.state # "off"
       /\ IF sm.state = "idle" THEN Step(Unfollow(sm), Forget)
          ELSE Rest(Unfollow(sm), Abandon \o Forget)

\* `due' says that the deadline the state asks about has passed.
Expired(e, due) == e.type = "tick" /\ due

NotYet(e, due) == e.type = "tick" /\ ~Expired(e, due) /\ Ignore

\* ny_voice_sm_listening
Listening(e, due) ==
    \/ /\ e.type = "started"
       /\ LET s == [sm EXCEPT !.started = TRUE]
          IN IF sm.endWanted THEN End(s) ELSE Step(s, <<>>)
    \/ e.type = "failed" /\ Speak(sm, <<>>, "cue", 0)
    \/ e.type = "endpoint" /\ (IF due THEN End(sm) ELSE Ignore)
    \/ e.type = "finished" /\ ~e.good /\ Speak(sm, <<>>, "cue", 0)
    \/ e.type = "finished" /\ e.good
       /\ Step(Enter(sm, "thinking"), <<Act("submit", "")>>)
    \/ /\ Expired(e, due)
       /\ IF sm.started /\ ~sm.endSent THEN End(sm)
          ELSE Speak(sm, <<Act("asr_cancel", "")>>, "cue", 0)
    \/ NotYet(e, due)
    \/ e.type = "link_lost" /\ Rest(sm, <<>>)
    \/ e.type \notin {"started", "failed", "endpoint", "finished", "tick",
                      "link_lost"} /\ Ignore

Thinking(e, due) ==
    \/ e.type = "reply" /\ e.good /\ Speak(sm, <<>>, "reply", e.of)
    \/ e.type = "reply" /\ ~e.good /\ Speak(sm, <<>>, "cue", 0)
    \/ e.type = "pending"
       /\ Speak([sm EXCEPT !.pending = TRUE], <<>>, "approval", 0)
    \/ e.type \in {"busy", "agent_failed"} /\ Speak(sm, <<>>, "cue", 0)
    \/ Expired(e, due)
       /\ Speak(sm, <<Act("agent_cancel", "")>>, "cue", 0)
    \/ NotYet(e, due)
    \/ e.type \in {"wake", "listen"}
       /\ Listen(<<Act("agent_cancel", "")>>, e.type)
    \/ e.type \notin {"reply", "pending", "busy", "agent_failed", "tick",
                      "wake", "listen"} /\ Ignore

Speaking(e, due) ==
    \/ e.type = "speak_done" /\ Rest(sm, <<>>)
    \/ e.type \in {"wake", "listen"}
       /\ Listen(<<Act("speak_cancel", "")>>, e.type)
    \/ (e.type = "link_lost" \/ Expired(e, due))
       /\ Rest(sm, <<Act("speak_cancel", "")>>)
    \/ e.type \in {"reply", "agent_failed"} /\ Step(Unfollow(sm), <<>>)
    \/ NotYet(e, due)
    \/ e.type \notin {"speak_done", "wake", "listen", "link_lost", "tick",
                      "reply", "agent_failed"} /\ Ignore

\* The owner decided on the panel: only then is an answer spoken unasked.
AnswerAnyRun == TRUE
AnswerAwaited == sm.pending

Idle(e, due) ==
    \/ e.type \in {"wake", "listen"} /\ Listen(<<>>, e.type)
    \/ e.type = "say" /\ Speak(sm, <<>>, "text", 0)
    \/ e.type = "reply" /\ AnswerAwaited /\ e.good
       /\ Speak(Unfollow(sm), <<>>, "reply", e.of)
    \/ e.type = "reply" /\ ~(AnswerAwaited /\ e.good) /\ Step(Unfollow(sm), <<>>)
    \/ e.type = "agent_failed" /\ Step(Unfollow(sm), <<>>)
    \/ Expired(e, due) /\ Step(Unfollow(sm), Forget)
    \/ NotYet(e, due)
    \/ e.type \notin {"wake", "listen", "say", "reply", "agent_failed",
                      "tick"} /\ Ignore

\* ny_voice_sm_step
Machine(e, due) ==
    \/ Common(e)
    \/ /\ e.type \notin {"disable", "enable"}
       /\ e.type # "cancel" \/ sm.state = "off"
       /\ \/ sm.state = "idle" /\ Idle(e, due)
          \/ sm.state = "listening" /\ Listening(e, due)
          \/ sm.state = "thinking" /\ Thinking(e, due)
          \/ sm.state = "speaking" /\ Speaking(e, due)
          \/ sm.state = "off" /\ Ignore

-----------------------------------------------------------------------------
(* The turn thread's loop.                                                 *)

\* ny_voice_turn_agent_poll is called at all
Following == sm.state = "thinking" \/ sm.pending \/ run.due

AfterAgent == IF fresh THEN "idle" ELSE "take"

AfterPoll == IF Following THEN "agent" ELSE AfterAgent

\* The loop goes on with the next thing that has something to do.
Advance ==
    pc' = CASE acts' # <<>> -> "act"
            [] acts' = <<>> /\ asr'.open -> "poll"
            [] OTHER        -> AfterPoll'

AsrEvents == {"started", "failed", "endpoint", "finished"}

\* Playback that was already replaced reports in late.
Stale(e) == e.type = "speak_done" /\ e.of # player.job

\* The machine cannot tell that this is not about the request it waits for,
\* or takes a request of the cloud for one that died with the link.
Astray(e) ==
    \/ e.type \in AsrEvents /\ e.of # asr.req
    \/ e.type = "link_lost" /\ asr.cloud /\ asr.open

TakeStale ==
    /\ pc = "take" /\ queue # <<>> /\ Stale(Head(queue))
    /\ queue' = Tail(queue)
    /\ UNCHANGED <<sm, pc, acts, asr, run, player, fresh, count, lost,
                   stray>>

Take ==
    /\ pc = "take" /\ queue # <<>> /\ ~Stale(Head(queue))
    /\ queue' = Tail(queue)
    /\ LET e == Head(queue)
       IN /\ \E due \in BOOLEAN : Machine(e, due)
          /\ asr' = IF e.type = "link_lost" /\ ~asr.cloud
                    THEN [asr EXCEPT !.open = FALSE] ELSE asr
          /\ stray' = (stray \/ (sm.state = "listening" /\ Astray(e)))
    /\ UNCHANGED <<run, player, fresh, count, lost>>
    /\ Advance

\* ny_voice_take timed out: 50 ms without an event
Tick(due) ==
    /\ pc = "take" /\ queue = <<>>
    /\ Machine(Event("tick", TRUE, 0), due)
    /\ UNCHANGED <<queue, asr, run, player, fresh, count, lost, stray>>
    /\ Advance

Doing(name) == pc = "act" /\ acts # <<>> /\ Head(acts).act = name

Done == acts' = Tail(acts)

\* The action at the head becomes its own continuation.
Continue(arg) == acts' = [acts EXCEPT ![1].arg = arg]

\* ny_voice_turn_say: the player's next job replaces the one before
Say(sentence) ==
    player' = [player EXCEPT !.job = @ + 1, !.sentence = sentence]

\* A result of the recogniser ends the request.
Finish(good) == Post(Event("finished", good, asr.req))

\* The listening chime of a wake word, before the request attaches
DoChime ==
    /\ Doing("start") /\ Head(acts).arg = "chime"
    /\ Say(FALSE) /\ Continue("attach")
    /\ UNCHANGED <<sm, queue, asr, run, fresh, count, lost, stray>>
    /\ Advance

\* The daemon has no model yet: "please wait", then one more attempt
DoWaitCue ==
    /\ Doing("start") /\ Head(acts).arg = "attach"
    /\ FALSE \in CloudModes
    /\ Say(FALSE) /\ Continue("loaded")
    /\ UNCHANGED <<sm, queue, asr, run, fresh, count, lost, stray>>
    /\ Advance

\* The daemon took the request: it is heard again.
WireOpenedMute(req) ==
    [asr EXCEPT !.open = TRUE, !.cloud = FALSE, !.req = req]
WireOpened(req) ==
    [asr EXCEPT !.open = TRUE, !.silent = FALSE, !.cloud = FALSE, !.req = req]

\* ny_voice_turn_asr_start: the outcome is an event like any other
DoStart(cloud, ok) ==
    /\ Doing("start") /\ Head(acts).arg \in {"attach", "loaded"}
    /\ cloud \in CloudModes /\ (cloud => Head(acts).arg = "attach")
    /\ LET req == count.asr + 1
       IN /\ count' = [count EXCEPT !.asr = req]
          /\ asr' = IF cloud
                    THEN [open |-> ok, silent |-> FALSE, cloud |-> TRUE,
                          pcm |-> ok, req |-> req]
                    ELSE IF ok THEN WireOpened(req)
                    ELSE [asr EXCEPT !.cloud = FALSE, !.req = req]
          /\ Post(Event(IF ok THEN "started" ELSE "failed", ok, req))
    /\ Done
    /\ UNCHANGED <<sm, run, player, fresh, stray>>
    /\ Advance

\* ny_voice_turn_cloud_end: hand the recording over, or there is none
CloudEnd(submitted) ==
    /\ asr.cloud /\ asr.open /\ asr.pcm
    /\ asr' = [asr EXCEPT !.pcm = FALSE, !.open = submitted]
    /\ IF submitted THEN NoPost ELSE Finish(FALSE)

\* ny_voice_turn_cloud_poll after the hand-over: the transcript or an error
CloudResult(good) ==
    /\ asr.cloud /\ asr.open /\ ~asr.pcm
    /\ asr' = [asr EXCEPT !.open = FALSE] /\ Finish(good)

DoEnd(sent) ==
    /\ Doing("end") /\ Done
    /\ \/ CloudEnd(sent)
       \/ CloudResult(sent)
       \/ asr.cloud /\ (asr.pcm => ~asr.open) /\ UNCHANGED asr /\ NoPost
       \/ ~asr.cloud /\ asr.open /\ sent /\ UNCHANGED asr /\ NoPost
       \/ /\ ~asr.cloud /\ ~(asr.open /\ sent)
          /\ asr' = [asr EXCEPT !.open = FALSE] /\ Finish(FALSE)
    /\ UNCHANGED <<sm, run, player, fresh, count, stray>>
    /\ Advance

\* A cancelled request still finishes: it is only marked as no news.
DoAsrCancel ==
    /\ Doing("asr_cancel") /\ Done
    /\ asr' = IF asr.cloud THEN [asr EXCEPT !.open = FALSE, !.pcm = FALSE]
              ELSE IF asr.open THEN [asr EXCEPT !.silent = TRUE] ELSE asr
    /\ UNCHANGED <<sm, queue, run, player, fresh, count, lost,
                   stray>>
    /\ Advance

\* A refusal is an event like any other.
Refused(outcome) == Post(Event(outcome, FALSE, 0))

\* ny_voice_turn_submit: a run, a retry while the agent is busy, or a refusal
Submit(outcome) ==
    \/ /\ outcome = "accepted"
       /\ run' = [id |-> count.run + 1, pending |-> FALSE, due |-> FALSE]
       /\ count' = [count EXCEPT !.run = @ + 1] /\ NoPost
    \/ /\ outcome = "again"
       /\ run' = [run EXCEPT !.due = TRUE] /\ NoPost /\ UNCHANGED count
    \/ /\ outcome \in {"busy", "agent_failed"}
       /\ run' = [run EXCEPT !.due = FALSE] /\ UNCHANGED count
       /\ Refused(outcome)

DoSubmit(outcome) ==
    /\ Doing("submit") /\ Done /\ Submit(outcome)
    /\ UNCHANGED <<sm, asr, player, fresh, stray>>
    /\ Advance

DoAgentCancel ==
    /\ Doing("agent_cancel") /\ Done
    /\ run' = [run EXCEPT !.id = 0, !.due = FALSE]
    /\ count' = [count EXCEPT !.dead = count.run]
    /\ UNCHANGED <<sm, queue, asr, player, fresh, lost, stray>>
    /\ Advance

DoForget ==
    /\ Doing("forget") /\ Done
    /\ run' = [run EXCEPT !.id = 0, !.pending = FALSE]
    /\ count' = [count EXCEPT !.dead = count.run]
    /\ UNCHANGED <<sm, queue, asr, player, fresh, lost, stray>>
    /\ Advance

DoSpeak ==
    /\ Doing("speak") /\ Done /\ Say(TRUE)
    /\ UNCHANGED <<sm, queue, asr, run, fresh, count, lost, stray>>
    /\ Advance

\* The wait for the player that follows has a timeout and no other effect.
DoSpeakCancel ==
    /\ Doing("speak_cancel") /\ Done
    /\ player' = [player EXCEPT !.dropped = player.job]
    /\ UNCHANGED <<sm, queue, asr, run, fresh, count, lost, stray>>
    /\ Advance

-----------------------------------------------------------------------------
(* What the thread looks at after a step.                                  *)

\* ny_voice_turn_asr_poll: a cancelled request closes without a word
WireClosed(good) ==
    /\ pc = "poll" /\ ~asr.cloud /\ asr.open
    /\ asr' = [asr EXCEPT !.open = FALSE]
    /\ IF asr.silent THEN NoPost ELSE Finish(good)
    /\ pc' = AfterPoll
    /\ UNCHANGED <<sm, acts, run, player, fresh, count, stray>>

WireEndpoint ==
    /\ pc = "poll" /\ ~asr.cloud /\ asr.open /\ count.posts < MaxPosts
    /\ count' = [count EXCEPT !.posts = @ + 1]
    /\ IF asr.silent THEN NoPost ELSE Post(Event("endpoint", TRUE, asr.req))
    /\ UNCHANGED <<sm, pc, acts, asr, run, player, fresh, stray>>

CloudPoll(good) ==
    /\ pc = "poll" /\ (CloudEnd(good) \/ CloudResult(good)) /\ pc' = AfterPoll
    /\ UNCHANGED <<sm, acts, run, player, fresh, count, stray>>

PollDone ==
    /\ pc = "poll" /\ pc' = AfterPoll
    /\ UNCHANGED <<sm, queue, acts, asr, run, player, fresh, count, lost,
                   stray>>

AgentRetry(outcome) ==
    /\ pc = "agent" /\ Following /\ run.due /\ Submit(outcome) /\ pc' = AfterAgent
    /\ UNCHANGED <<sm, acts, asr, player, fresh, stray>>

Asking == pc = "agent" /\ Following /\ ~run.due /\ run.id # 0

AgentWaits ==
    /\ Asking /\ ~run.pending
    /\ run' = [run EXCEPT !.pending = TRUE]
    /\ Post(Event("pending", TRUE, run.id)) /\ pc' = AfterAgent
    /\ UNCHANGED <<sm, acts, asr, player, fresh, count, stray>>

AgentEnded(good) ==
    /\ Asking
    /\ run' = [run EXCEPT !.id = 0, !.pending = FALSE]
    /\ Post(Event("reply", good, run.id)) /\ pc' = AfterAgent
    /\ UNCHANGED <<sm, acts, asr, player, fresh, count, stray>>

\* Not yet due, the store was busy, or the run still works
AgentQuiet ==
    /\ pc = "agent" /\ pc' = AfterAgent
    /\ UNCHANGED <<sm, queue, acts, asr, run, player, fresh, count, lost,
                   stray>>

\* ny_voice_turn_idle: a compute domain that restarted is news once
Housekeeping ==
    /\ pc = "idle" /\ pc' = "take" /\ fresh' = FALSE
    /\ IF fresh THEN Post(Event("link_lost", FALSE, 0)) ELSE NoPost
    /\ UNCHANGED <<sm, acts, asr, run, player, count, stray>>

-----------------------------------------------------------------------------
(* The player.                                                             *)

\* Only the newest job is played.
PlayStart ==
    /\ ~player.playing /\ player.job # player.served
    /\ player' = [player EXCEPT !.playing = TRUE, !.served = player.job,
                                !.cur = player.sentence]
    /\ UNCHANGED <<sm, queue, pc, acts, asr, run, fresh, count, lost,
                   stray>>

\* Played to the end, failed, or cancelled
PlayEnd ==
    /\ player.playing
    /\ player' = [player EXCEPT !.playing = FALSE]
    /\ Post(Event("speak_done", TRUE, player.served))
    /\ UNCHANGED <<sm, pc, acts, asr, run, fresh, count, stray>>

-----------------------------------------------------------------------------
(* Everybody else.                                                         *)

Outside == {"wake", "listen", "cancel", "say", "enable", "disable",
            "link_lost"}

\* voice.* requests and the wake word pump (which asks nothing); what a
\* request asks of the mirror of the state it asks when it posts
Accepted(type) ==
    CASE type \in {"listen", "cancel"} -> sm.state # "off"
      [] type = "say"                          -> sm.state = "idle"
      [] OTHER                                 -> TRUE

Request(type) ==
    /\ count.posts < MaxPosts /\ Accepted(type)
    /\ count' = [count EXCEPT !.posts = @ + 1]
    /\ Post(Event(type, TRUE, 0))
    /\ UNCHANGED <<sm, pc, acts, asr, run, player, fresh, stray>>

\* The compute domain restarts; the pump posts its own LINK_LOST.
Restarted ==
    /\ count.posts < MaxPosts /\ ~fresh
    /\ count' = [count EXCEPT !.posts = @ + 1]
    /\ fresh' = TRUE
    /\ UNCHANGED <<sm, queue, pc, acts, asr, run, player, lost, stray>>

-----------------------------------------------------------------------------
Init ==
    /\ sm = [state |-> "off", started |-> FALSE, endWanted |-> FALSE,
             endSent |-> FALSE, pending |-> FALSE]
    /\ queue = <<Event("enable", TRUE, 0)>>
    /\ pc = "take" /\ acts = <<>>
    /\ asr = [open |-> FALSE, silent |-> FALSE, cloud |-> FALSE,
              pcm |-> FALSE, req |-> 0]
    /\ run = [id |-> 0, pending |-> FALSE, due |-> FALSE]
    /\ player = [job |-> 0, sentence |-> FALSE, served |-> 0,
                 cur |-> FALSE, dropped |-> 0, playing |-> FALSE]
    /\ fresh = FALSE
    /\ count = [posts |-> 0, asr |-> 0, run |-> 0, dead |-> 0]
    /\ lost = FALSE /\ stray = FALSE

DoAct ==
    \/ DoChime \/ DoWaitCue \/ DoAsrCancel \/ DoAgentCancel \/ DoForget
    \/ DoSpeak \/ DoSpeakCancel
    \/ \E ok \in BOOLEAN : DoEnd(ok) \/ \E cloud \in BOOLEAN :
                                            DoStart(cloud, ok)
    \/ \E outcome \in {"accepted", "again", "busy", "agent_failed"} :
           DoSubmit(outcome)

AgentNews ==
    \/ AgentWaits
    \/ \E good \in BOOLEAN : AgentEnded(good)
    \/ \E outcome \in {"accepted", "again", "busy", "agent_failed"} :
           AgentRetry(outcome)

TurnThread ==
    \/ TakeStale \/ Take \/ (\E due \in BOOLEAN : Tick(due))
    \/ DoAct
    \/ (\E good \in BOOLEAN : WireClosed(good) \/ CloudPoll(good))
    \/ WireEndpoint \/ PollDone
    \/ AgentNews \/ AgentQuiet \/ Housekeeping

Player == PlayStart \/ PlayEnd

Next ==
    \/ TurnThread
    \/ Player
    \/ \E type \in Outside : Request(type)
    \/ Restarted

Spec == Init /\ [][Next]_vars

\* Each thread keeps running; time passes, so a state that is only ticked at
\* meets its deadline.
FairSpec ==
    /\ Spec
    /\ WF_vars(TurnThread) /\ WF_vars(Player)
    /\ SF_vars(Tick(TRUE))

-----------------------------------------------------------------------------
(* Properties.                                                             *)

\* Between two events nothing the machine ordered is half done.
Settled == pc = "take"

\* The state is one of the five, and neither the queue of events nor the list
\* of a step's actions outgrows its array.
TypeInv ==
    /\ sm.state \in {"off", "idle", "listening", "thinking", "speaking"}
    /\ Len(queue) <= QueueCap /\ Len(acts) <= 6
    /\ pc \in {"take", "act", "poll", "agent", "idle"}
    /\ asr.open \in BOOLEAN /\ asr.silent \in BOOLEAN

\* The machine is in SPEAKING only while the newest job is still to be played,
\* is being played, or has its SPEAK_DONE in the queue: a report of an older
\* job that is dropped as late is never the one the machine waits for.
SpeakingHasVoice ==
    Settled /\ sm.state = "speaking" /\ ~lost =>
        \/ player.job # player.served
        \/ player.playing
        \/ \E i \in DOMAIN queue : queue[i].type = "speak_done"
                                   /\ queue[i].of = player.job

\* The other way round, a sentence is heard only in SPEAKING: in every other
\* state the job of a reply that plays or waits has been cancelled.
Quiet ==
    Settled /\ sm.state # "speaking" =>
        /\ player.playing /\ player.cur => player.dropped >= player.served
        /\ player.job # player.served /\ player.sentence
             => player.dropped = player.job

\* In LISTENING there is a request that may still speak, or its outcome is in
\* the queue, although the cancelled request before it answers late and the
\* link may have been lost in between.
ListeningHasRequest ==
    Settled /\ sm.state = "listening" /\ ~lost /\ ~stray =>
        (asr.open /\ ~asr.silent) \/ Queued({"failed", "finished"})

\* In THINKING a run is followed, a submission is due again, or the answer is
\* in the queue.
ThinkingHasRun ==
    Settled /\ sm.state = "thinking" /\ ~lost =>
        run.id # 0 \/ run.due
        \/ Queued({"reply", "pending", "busy", "agent_failed"})

\* The run whose approval the machine waits for across turns is the one the
\* thread still asks the agent about.  (A turn begun by the result of another
\* request can take the "pending" of a cancelled run for its own.)
PendingFollowed ==
    Settled /\ sm.pending /\ ~lost /\ ~stray =>
        run.id # 0 \/ Queued({"reply"})

\* No run is followed that no state of the machine waits for: barge-in,
\* CANCEL and DISABLE cancel it or forget it on every path.
RunWanted ==
    Settled /\ run.id # 0 /\ ~stray =>
        sm.state = "thinking" \/ sm.pending

\* Nothing listens on after the turn: an open request of the daemon is either
\* the one of LISTENING or silenced.
RequestWanted ==
    Settled /\ asr.open /\ ~asr.silent /\ ~asr.cloud /\ ~stray =>
        sm.state = "listening"

\* The answer of a run that was cancelled or forgotten is never spoken, though
\* its REPLY may have been in the queue already.
SilencedRunUnheard ==
    \A i \in DOMAIN acts : acts[i].of # 0 /\ ~stray => acts[i].of > count.dead

\* Each state that waits has what it waits for, in a queue that did not lose
\* it: late reports, cancelled requests and a lost link take nothing from the
\* turn that follows them.
WaitedForComes ==
    /\ TypeInv
    /\ SpeakingHasVoice /\ ListeningHasRequest /\ ThinkingHasRun
    /\ PendingFollowed

\* What no state waits for any more was called off, in each of the three
\* places: the run in the agent, the request at the recogniser, the sentence.
CalledOff == RunWanted /\ RequestWanted /\ Quiet

\* Every turn comes to an end: whatever is lost, late or silent, the deadlines
\* of the states bring the machine back to IDLE or OFF.
TurnEnds == sm.state \in {"listening", "thinking", "speaking"} ~>
                sm.state \in {"off", "idle"}

\* The machine does not wait for an approval for ever.
PendingEnds == sm.pending ~> ~sm.pending

\* Nothing that the machine waits for, in a turn or across turns, is waited for
\* without an end.
WaitsEnd == TurnEnds /\ PendingEnds

-----------------------------------------------------------------------------
(* The inductive invariant: what the properties say of a settled state, said *)
(* of every state with the actions still to be carried out, and the order in  *)
(* which events stand in the queue.                                           *)

States == {"off", "idle", "listening", "thinking", "speaking"}
Cancels == {"asr_cancel", "agent_cancel", "speak_cancel", "forget"}
AgentEvents == {"reply", "pending", "busy", "agent_failed"}
Ends == {"failed", "finished"}

EventTypes ==
    AsrEvents \cup AgentEvents \cup {"speak_done"} \cup
    {"wake", "listen", "cancel", "say", "enable", "disable", "link_lost"}

Events == [type : EventTypes, good : BOOLEAN, of : Nat]

Actions ==
    [act : Cancels \cup {"start", "end", "submit", "speak"},
     arg : {"", "chime", "attach", "loaded", "cue", "reply", "approval",
            "text"},
     of : Nat]

Typed ==
    /\ sm \in [state : States, started : BOOLEAN, endWanted : BOOLEAN,
               endSent : BOOLEAN, pending : BOOLEAN]
    /\ queue \in Seq(Events) /\ Len(queue) <= QueueCap
    /\ pc \in {"take", "act", "poll", "agent", "idle"}
    /\ acts \in Seq(Actions)
    /\ asr \in [open : BOOLEAN, silent : BOOLEAN, cloud : BOOLEAN,
                pcm : BOOLEAN, req : Nat]
    /\ run \in [id : Nat, pending : BOOLEAN, due : BOOLEAN]
    /\ player \in [job : Nat, sentence : BOOLEAN, served : Nat,
                   cur : BOOLEAN, dropped : Nat, playing : BOOLEAN]
    /\ fresh \in BOOLEAN /\ lost \in BOOLEAN /\ stray \in BOOLEAN
    /\ count \in [posts : Nat, asr : Nat, run : Nat, dead : Nat]

\* The step still orders an action of this name.
ToDo(name) == \E i \in DOMAIN acts : acts[i].act = name

\* Cancellations come first, a step begins one thing at most, and what it
\* begins belongs to the state it entered.
InOrder ==
    /\ pc # "act" => acts = <<>>
    /\ Len(acts) <= 3
    /\ \A i \in DOMAIN acts :
          /\ acts[i].act \notin Cancels => i = Len(acts)
          /\ acts[i].of # 0 => Len(acts) = 1 /\ acts[i].act = "speak"
    /\ ToDo("start") => sm.state = "listening"
    /\ ToDo("submit") => sm.state = "thinking"
    /\ ToDo("speak") => sm.state = "speaking"
    /\ ToDo("asr_cancel") => sm.state # "listening"
    /\ ToDo("agent_cancel") \/ ToDo("forget")
         => sm.state # "thinking" /\ ~sm.pending
    /\ sm.pending => sm.state \in {"idle", "speaking"}

InQueue(type) == \E i \in DOMAIN queue : queue[i].type = type

\* The newest job is still to come, is played, or was reported.
Voice ==
    \/ player.job # player.served
    \/ player.playing
    \/ \E i \in DOMAIN queue : queue[i].type = "speak_done"
                               /\ queue[i].of = player.job

Silence ==
    /\ player.playing /\ player.cur => player.dropped >= player.served
    /\ player.job # player.served /\ player.sentence
         => player.dropped = player.job

\* What is said: a job is reported once it is over, and the state that speaks
\* has a job, the others none.
SoundInv ==
    /\ player.served <= player.job /\ player.dropped <= player.job
    /\ \A i \in DOMAIN queue : queue[i].type = "speak_done" =>
          /\ queue[i].of <= player.served
          /\ player.playing => queue[i].of < player.served
    /\ sm.state = "speaking" /\ ~lost => ToDo("speak") \/ Voice
    /\ sm.state # "speaking" => ToDo("speak_cancel") \/ Silence

\* What is listened to: LISTENING has a request or its outcome; a request that
\* speaks outside LISTENING, or before its successor starts, is about to be
\* cancelled; one whose outcome is in the queue speaks no more.
RequestInv ==
    /\ asr.req <= count.asr
    /\ \A i \in DOMAIN queue : queue[i].type \in Ends
                                 => queue[i].of <= count.asr
    /\ sm.state = "listening" /\ ~lost =>
          \/ ToDo("start") \/ (asr.open /\ ~asr.silent)
          \/ InQueue("failed") \/ InQueue("finished")
    /\ ~stray /\ asr.open /\ ~asr.silent =>
          /\ \/ sm.state = "listening" /\ ~ToDo("start")
             \/ ToDo("asr_cancel")
          /\ \A i \in DOMAIN queue : queue[i].type \in Ends
                                       => queue[i].of # asr.req

NewsInQueue ==
    InQueue("reply") \/ InQueue("pending") \/ InQueue("busy")
    \/ InQueue("agent_failed")

\* The run: a state that waits for one has one or its outcome; a run or a
\* retry nobody waits for is about to be called off.
RunInv ==
    /\ run.id <= count.run /\ count.dead <= count.run
    /\ run.id # 0 => run.id > count.dead
    /\ sm.state = "thinking" /\ ~lost =>
          ToDo("submit") \/ run.id # 0 \/ run.due \/ NewsInQueue
    /\ sm.pending /\ ~lost /\ ~stray => run.id # 0 \/ InQueue("reply")
    /\ ~stray /\ run.id # 0 =>
          \/ sm.state = "thinking" \/ sm.pending
          \/ ToDo("agent_cancel") \/ ToDo("forget")
    /\ ~stray /\ run.due => sm.state = "thinking" \/ ToDo("agent_cancel")

\* Of the run of THINKING the queue holds one outcome at most, and none while
\* the run is not over; the same across turns, for the run whose approval is
\* waited for.
OneOutcome ==
    /\ ~stray /\ sm.state = "thinking" =>
          /\ ToDo("submit") \/ run.due => run.id = 0 /\ ~NewsInQueue
          /\ run.id # 0 \/ InQueue("pending") \/ InQueue("reply")
               => ~InQueue("busy") /\ ~InQueue("agent_failed")
          /\ run.id # 0 => ~InQueue("reply")
          /\ InQueue("pending") /\ ~lost => run.id # 0 \/ InQueue("reply")
    /\ ~stray /\ sm.pending =>
          /\ ~InQueue("agent_failed")
          /\ run.id # 0 => ~InQueue("reply")

\* An answer the machine would speak is of no run that was called off.
LiveAnswers ==
    ~stray /\ (sm.state = "thinking" \/ sm.pending) =>
        \A i \in DOMAIN queue : queue[i].type = "reply"
                                  => queue[i].of > count.dead

\* What an earlier run has left in the queue stands before the transcript the
\* next one is submitted for.
OldNewsFirst ==
    ~stray /\ sm.state = "listening" /\ ~ToDo("start") =>
        \A i, j \in DOMAIN queue :
            /\ queue[i].type = "finished" /\ queue[i].of = asr.req
            /\ queue[j].type \in AgentEvents
            => j < i

AgentInv == RunInv /\ OneOutcome /\ LiveAnswers

IInv ==
    /\ Typed /\ InOrder
    /\ SoundInv /\ RequestInv /\ AgentInv /\ OldNewsFirst
    /\ SilencedRunUnheard
=============================================================================
