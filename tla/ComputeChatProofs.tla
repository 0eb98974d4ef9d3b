--------------------------- MODULE ComputeChatProofs ---------------------------
(***************************************************************************)
(* What holds of ComputeChat for every number of calls and faults, every   *)
(* set of models, size of request, answer and port.                        *)
(***************************************************************************)
EXTENDS ComputeChat, SequenceTheorems, TLAPS

(***************************************************************************)
(* Types                                                                   *)
(***************************************************************************)
Names == Models \cup {None}
Ids == Nat \X Nat
Words == {"none", "ok", "busy", "invalid", "not_ready", "too_long", "cancelled",
          "timeout", "reset", "io", "proto"}
Args == Nat \cup Names \cup Words
Kinds == {"request", "response", "event"}
Ops == {"none", "load", "unload", "chat", "cancel", "ready", "result", "finish"}
Frames == [kind : Kinds, op : Ops, id : Ids, arg : Args]

LlmType ==
  [state : {"unloaded", "loading", "ready", "busy", "error"},
   chatting : BOOLEAN, cancel : BOOLEAN]
LoaderType ==
  [pc : {"none", "pending", "start", "calling", "refused", "ended"},
   k : Nat, name : Names]
CallType ==
  [kind : {"none", "chat", "load", "unload"},
   pc : {"idle", "begin", "send", "await", "accepted", "watch", "collect", "close",
         "settle"},
   op : Ops, id : Ids, name : Names, gen : Args, part : 1..Parts,
   retried : BOOLEAN, told : BOOLEAN, late : BOOLEAN,
   got : Seq(Ids \X Args), out : Args]
PortType == [id : Ids, queue : Seq(Frames)]
LoadType ==
  [pc : {"idle", "work", "answer"}, id : Ids, name : Names, status : Words]
RunType ==
  [pc : {"idle", "start", "run", "decided", "answered", "over"}, id : Ids,
   status : Words]
DaemonType ==
  [gen : Nat, session : BOOLEAN, loaded : Names, load : LoadType, body : Seq(Ids),
   run : RunType, running : BOOLEAN, active : Ids, cancel : BOOLEAN]

ShapeInv ==
  /\ generation \in Args /\ llm \in LlmType /\ loader \in LoaderType
  /\ call \in CallType
  /\ port \in PortType /\ Len(port.queue) <= PortDepth
  /\ up \in Seq(Frames) /\ down \in Seq(Frames)
  /\ daemon \in DaemonType /\ Len(daemon.body) < Parts
  /\ calls \in Nat /\ called \in BOOLEAN

(***************************************************************************)
(* Queues of frames                                                        *)
(***************************************************************************)
LEMMA Added ==
  ASSUME NEW q \in Seq(Frames), NEW f \in Frames
  PROVE  /\ Append(q, f) \in Seq(Frames)
         /\ Len(Append(q, f)) = Len(q) + 1
         /\ \A i \in DOMAIN Append(q, f) :
              \/ i \in DOMAIN q /\ Append(q, f)[i] = q[i]
              \/ i = Len(q) + 1 /\ Append(q, f)[i] = f
         /\ \A i \in DOMAIN q : i \in DOMAIN Append(q, f) /\ Append(q, f)[i] = q[i]
         /\ Len(q) + 1 \in DOMAIN Append(q, f) /\ Append(q, f)[Len(q) + 1] = f
         /\ Len(q) + 1 \notin DOMAIN q
OBVIOUS

LEMMA Taken ==
  ASSUME NEW q \in Seq(Frames), q # <<>>
  PROVE  /\ Head(q) \in Frames /\ Tail(q) \in Seq(Frames)
         /\ Len(Tail(q)) = Len(q) - 1
         /\ 1 \in DOMAIN q /\ Head(q) = q[1]
         /\ \A i \in DOMAIN Tail(q) :
              i \in Nat /\ i + 1 # 1 /\ i + 1 \in DOMAIN q /\ Tail(q)[i] = q[i + 1]
OBVIOUS

LEMMA OfNone == \A k : Of(<<>>, k) = {}
BY DEF Of

LEMMA OfAdded ==
  ASSUME NEW q \in Seq(Frames), NEW f \in Frames, NEW k
  PROVE  Of(Append(q, f), k) =
           IF Call(f.id) = k THEN Of(q, k) \cup {Len(q) + 1} ELSE Of(q, k)
BY Added DEF Of

\* What is left of a queue after its first frame was taken, and all of it when
\* that was the only frame of its call.
LEMMA OfTaken ==
  ASSUME NEW q \in Seq(Frames), q # <<>>, NEW k
  PROVE  /\ \A i \in Of(Tail(q), k) : i + 1 \in Of(q, k) /\ i + 1 # 1
         /\ Of(q, k) = {} => Of(Tail(q), k) = {}
         /\ Single(Of(q, k)) => Single(Of(Tail(q), k))
         /\ Call(q[1].id) = k => 1 \in Of(q, k)
         /\ Call(q[1].id) = k /\ Single(Of(q, k)) => Of(Tail(q), k) = {}
<1>1. \A i \in Of(Tail(q), k) : i \in Nat /\ i + 1 \in Of(q, k) /\ i + 1 # 1
  BY Taken DEF Of
<1>2. Call(q[1].id) = k => 1 \in Of(q, k)
  BY Taken DEF Of
<1>3. Single(Of(q, k)) => Single(Of(Tail(q), k))
  <2> SUFFICES ASSUME Single(Of(q, k)), NEW a \in Of(Tail(q), k), NEW b \in Of(Tail(q), k)
               PROVE  a = b
    BY DEF Single
  <2>1. a + 1 = b + 1 /\ a \in Nat /\ b \in Nat
    BY <1>1 DEF Single
  <2> QED
    BY <2>1
<1> QED
  BY <1>1, <1>2, <1>3 DEF Single

\* A queue of which the end was lost
LEMMA Cut ==
  ASSUME NEW q \in Seq(Frames), NEW n \in 0..Len(q)
  PROVE  /\ SubSeq(q, 1, n) \in Seq(Frames)
         /\ \A i \in DOMAIN SubSeq(q, 1, n) : i \in DOMAIN q /\ SubSeq(q, 1, n)[i] = q[i]
         /\ \A k : Of(SubSeq(q, 1, n), k) \subseteq Of(q, k)
<1>1. /\ SubSeq(q, 1, n) \in Seq(Frames)
      /\ \A i \in DOMAIN SubSeq(q, 1, n) : i \in DOMAIN q /\ SubSeq(q, 1, n)[i] = q[i]
  OBVIOUS
<1> QED
  BY <1>1 DEF Of

LEMMA Joined ==
  ASSUME NEW q \in Seq(Frames), NEW r \in Seq(Frames)
  PROVE  /\ q \o r \in Seq(Frames)
         /\ \A i \in DOMAIN (q \o r) :
              \/ i \in DOMAIN q /\ (q \o r)[i] = q[i]
              \/ i - Len(q) \in DOMAIN r /\ (q \o r)[i] = r[i - Len(q)]
         /\ \A k : (\A i \in DOMAIN r : Call(r[i].id) # k) => Of(q \o r, k) = Of(q, k)
<1>1. /\ q \o r \in Seq(Frames)
      /\ \A i \in DOMAIN (q \o r) :
           \/ i \in DOMAIN q /\ (q \o r)[i] = q[i]
           \/ i - Len(q) \in DOMAIN r /\ (q \o r)[i] = r[i - Len(q)]
  OBVIOUS
<1>2. \A i \in DOMAIN q : i \in DOMAIN (q \o r) /\ (q \o r)[i] = q[i]
  OBVIOUS
<1> QED
  BY <1>1, <1>2 DEF Of

(***************************************************************************)
(* Every step keeps the types                                              *)
(***************************************************************************)
LEMMA FrameIs ==
  ASSUME NEW kind \in Kinds, NEW op \in Ops, NEW id \in Ids, NEW arg \in Args
  PROVE  /\ Frame(kind, op, id, arg) \in Frames
         /\ Frame(kind, op, id, arg).kind = kind /\ Frame(kind, op, id, arg).op = op
         /\ Frame(kind, op, id, arg).id = id /\ Frame(kind, op, id, arg).arg = arg
BY DEF Frame, Frames

LEMMA NoneTypes ==
  /\ NoId \in Ids /\ NoPort \in PortType /\ NoCall \in CallType
  /\ NoLoad \in LoadType /\ NoRun \in RunType
  /\ \A gen \in Nat : Daemon(gen) \in DaemonType /\ Len(Daemon(gen).body) < Parts
  /\ \A kind \in {"chat", "load", "unload"}, k \in Nat, name \in Names :
       Begun(kind, k, name) \in CallType
<1>1. NoId \in Ids /\ None \in Names
  BY DEF NoId, Ids, Names
<1>2. NoPort \in PortType
  BY <1>1 DEF NoPort, PortType
<1>3. NoCall \in CallType
  BY <1>1, ComputeAssumption DEF NoCall, CallType, Args, Ops, Words
<1>4. NoLoad \in LoadType /\ NoRun \in RunType
  BY <1>1 DEF NoLoad, LoadType, NoRun, RunType, Words
<1>5. \A gen \in Nat : Daemon(gen) \in DaemonType /\ Len(Daemon(gen).body) < Parts
  BY <1>1, <1>4, ComputeAssumption DEF Daemon, DaemonType
<1>6. \A kind \in {"chat", "load", "unload"}, k \in Nat, name \in Names :
        Begun(kind, k, name) \in CallType
  <2> SUFFICES ASSUME NEW kind \in {"chat", "load", "unload"}, NEW k \in Nat,
                      NEW name \in Names
               PROVE  Begun(kind, k, name) \in CallType
    OBVIOUS
  <2>1. kind \in Ops /\ <<k, 1>> \in Ids
    BY DEF Ops, Ids
  <2> QED
    BY <1>3, <2>1 DEF Begun, CallType
<1> QED
  BY <1>1, <1>2, <1>3, <1>4, <1>5, <1>6

LEMMA ShapeInit == Init => ShapeInv
<1> SUFFICES ASSUME Init PROVE ShapeInv
  OBVIOUS
<1>1. Frame("event", "ready", NoId, 1) \in Frames
  BY NoneTypes, FrameIs DEF Args, Kinds, Ops
<1>2. /\ port \in PortType /\ Len(port.queue) <= PortDepth
      /\ daemon \in DaemonType /\ Len(daemon.body) < Parts
      /\ call \in CallType /\ llm \in LlmType
  BY NoneTypes, ComputeAssumption DEF Init, NoPort, LlmType
<1>3. generation \in Args /\ loader \in LoaderType
  BY DEF Init, Args, LoaderType, Names
<1> QED
  <2>1. <<Frame("event", "ready", NoId, 1)>> \in Seq(Frames)
    BY <1>1
  <2> QED
    <3>1. down \in Seq(Frames) /\ up \in Seq(Frames)
      BY <2>1 DEF Init
    <3>2. calls \in Nat /\ called \in BOOLEAN
      BY DEF Init
    <3> QED
      BY <1>2, <1>3, <3>1, <3>2 DEF ShapeInv

\* What a request returned leaves the call a call.
LEMMA ReturnedTypes ==
  ASSUME ShapeInv, NEW status \in Args, Returned(status)
  PROVE  call' \in CallType /\ llm' \in LlmType
<1>0. call \in CallType /\ llm \in LlmType /\ call.part \in 1..Parts
  BY DEF ShapeInv, CallType
<1>1. ASSUME NEW out \in Args, NEW heard, Over(out, heard) PROVE call' \in CallType
  BY <1>0, <1>1 DEF Over, CallType
<1>2. ASSUME NEW op \in Ops, Request(op) PROVE call' \in CallType
  <2>1. <<Call(call.id), call.id[2] + 1>> \in Ids /\ 1 \in 1..Parts
    BY <1>0, ComputeAssumption DEF CallType, Ids, Call
  <2> QED
    BY <1>0, <1>2, <2>1 DEF Request, CallType
<1>3. ASSUME ChatReturned(status) PROVE call' \in CallType /\ llm' \in LlmType
  <2>1. CASE status = "ok" /\ call.part < Parts
    <3>1. call.part + 1 \in 1..Parts
      BY <1>0, <2>1, ComputeAssumption
    <3> QED
      BY <1>0, <1>3, <2>1, <3>1 DEF ChatReturned, CallType
  <2>2. CASE status = "ok" /\ ~(call.part < Parts)
    BY <1>0, <1>3, <2>2 DEF ChatReturned, Goto, CallType
  <2>3. CASE status # "ok" /\ Retries(status)
    BY <1>0, <1>2, <1>3, <2>3 DEF ChatReturned, Ops
  <2>4. CASE status # "ok" /\ ~Retries(status)
    BY <1>0, <1>1, <1>3, <2>4 DEF ChatReturned
  <2> QED
    BY <2>1, <2>2, <2>3, <2>4
<1>4. ASSUME LoadReturned(status) PROVE call' \in CallType /\ llm' \in LlmType
  <2>1. llm' \in LlmType
    BY <1>0, <1>4 DEF LoadReturned, Show, LlmType
  <2>2. CASE status = "ok" /\ call.kind = "chat"
    <3> DEFINE id == <<Call(call.id), call.id[2] + 1>>
    <3>1. id \in Ids /\ 1 \in 1..Parts
      BY <1>0, ComputeAssumption DEF CallType, Ids, Call
    <3>2. call' = [call EXCEPT !.op = "chat", !.pc = "begin", !.part = 1,
                               !.retried = TRUE, !.id = id]
      BY <1>4, <2>2 DEF LoadReturned
    <3>3. "chat" \in Ops
      BY DEF Ops
    <3> HIDE DEF id
    <3> QED
      BY <1>0, <2>1, <3>1, <3>2, <3>3 DEF CallType
  <2>3. CASE ~(status = "ok" /\ call.kind = "chat")
    BY <1>1, <1>4, <2>1, <2>3 DEF LoadReturned
  <2> QED
    BY <2>2, <2>3
<1>5. CASE call.op = "chat"
  BY <1>3, <1>5 DEF Returned
<1>6. CASE call.op = "load"
  BY <1>4, <1>6 DEF Returned
<1>7. CASE call.op \notin {"chat", "load"}
  <2>1. PICK out \in Args : Over(out, status \notin Unheard) /\ UNCHANGED llm
    BY <1>7 DEF Returned, Args, Words
  <2> QED
    BY <1>0, <1>1, <2>1
<1> QED
  BY <1>5, <1>6, <1>7

\* What a request leaves of the rest
LEMMA ShapeClient ==
  ASSUME ShapeInv,
         \/ Receive \/ StartLoader \/ Chat \/ Unload \/ Load \/ LoaderEnds \/ Cancel
         \/ \E name \in Models : AskLoad(name)
  PROVE  ShapeInv'
<1>0. /\ llm \in LlmType /\ loader \in LoaderType /\ call \in CallType
      /\ port \in PortType /\ down \in Seq(Frames) /\ calls \in Nat
      /\ \A k \in Nat : k + 1 \in Nat
  BY DEF ShapeInv
<1>1. ASSUME Receive PROVE ShapeInv'
  <2> DEFINE f == Head(down)
  <2>1. f \in Frames /\ down' \in Seq(Frames)
    BY <1>0, <1>1, Taken DEF Receive
  <2>2. generation' \in Args /\ llm' \in LlmType
    <3>1. f.arg \in Args
      BY <2>1 DEF Frames
    <3>2. llm' \in LlmType
      BY <1>0, <1>1 DEF Receive, Adopt, LlmType
    <3> QED
      BY <1>1, <3>1, <3>2 DEF ShapeInv, Receive, Adopt
  <2>3. port' \in PortType /\ Len(port'.queue) <= PortDepth
    <3>1. CASE port' = port
      BY <3>1 DEF ShapeInv
    <3>2. CASE port' = [port EXCEPT !.queue = Append(@, f)] /\ Len(port.queue) < PortDepth
      <4>1. port.queue \in Seq(Frames)
        BY <1>0 DEF PortType
      <4>2. Append(port.queue, f) \in Seq(Frames)
            /\ Len(Append(port.queue, f)) = Len(port.queue) + 1
        BY <2>1, <4>1, Added
      <4>3. port' \in PortType /\ port'.queue = Append(port.queue, f)
        BY <1>0, <3>2, <4>2 DEF PortType
      <4> QED
        BY <3>2, <4>1, <4>2, <4>3, ComputeAssumption
    <3> QED
      BY <1>1, <3>1, <3>2 DEF Receive, Delivered
  <2> QED
    BY <1>1, <2>1, <2>2, <2>3 DEF Receive, ShapeInv, history
<1>2. ASSUME StartLoader PROVE ShapeInv'
  <2>1. loader' \in LoaderType /\ llm' \in LlmType
    BY <1>0, <1>2 DEF StartLoader, Show, LoaderType, LlmType
  <2> QED
    BY <1>2, <2>1 DEF StartLoader, ShapeInv, history
<1>3. ASSUME Chat PROVE ShapeInv'
  <2>1. calls' \in Nat /\ Default \in Names
    BY <1>0, <1>3, ComputeAssumption DEF Chat, Names
  <2>2. call' \in CallType
    BY <1>3, <2>1, NoneTypes DEF Chat
  <2>3. llm' \in LlmType
    BY <1>0, <1>3 DEF Chat, LlmType
  <2> QED
    BY <1>3, <2>1, <2>2, <2>3 DEF Chat, ShapeInv, history
<1>4. ASSUME Unload PROVE ShapeInv'
  <2>1. calls' \in Nat /\ None \in Names
    BY <1>0, <1>4 DEF Unload, Names
  <2>2. call' \in CallType
    BY <1>4, <2>1, NoneTypes DEF Unload
  <2> QED
    BY <1>4, <2>1, <2>2 DEF Unload, ShapeInv, history
<1>5. ASSUME Load PROVE ShapeInv'
  <2>1. loader' \in LoaderType /\ loader.k \in Nat /\ loader.name \in Names
    BY <1>0, <1>5 DEF Load, LoaderType
  <2>2. call' \in CallType
    BY <1>0, <1>5, <2>1, NoneTypes DEF Load
  <2> QED
    BY <1>5, <2>1, <2>2 DEF Load, ShapeInv, history
<1>6. ASSUME LoaderEnds PROVE ShapeInv'
  <2>1. loader' \in LoaderType /\ llm' \in LlmType
    BY <1>0, <1>6 DEF LoaderEnds, Report, Show, LoaderType, LlmType
  <2> QED
    BY <1>6, <2>1 DEF LoaderEnds, ShapeInv, history
<1>7. ASSUME Cancel PROVE ShapeInv'
  <2>1. llm' \in LlmType
    BY <1>0, <1>7 DEF Cancel, LlmType
  <2> QED
    BY <1>7, <2>1 DEF Cancel, ShapeInv, history
<1>8. ASSUME NEW name \in Models, AskLoad(name) PROVE ShapeInv'
  <2>1. calls' \in Nat /\ llm' \in LlmType
    BY <1>0, <1>8 DEF AskLoad, Show, LlmType
  <2>2. loader' \in LoaderType
    BY <1>8, <2>1 DEF AskLoad, LoaderType, Names
  <2> QED
    BY <1>8, <2>1, <2>2 DEF AskLoad, ShapeInv, history
<1> QED
  BY <1>1, <1>2, <1>3, <1>4, <1>5, <1>6, <1>7, <1>8

LEMMA OverTypes ==
  ASSUME call \in CallType, NEW out \in Args, NEW heard, Over(out, heard)
  PROVE  call' \in CallType
BY DEF Over, CallType

LEMMA GotoTypes ==
  ASSUME call \in CallType,
         NEW pc \in {"await", "accepted", "watch", "collect", "settle"}, Goto(pc)
  PROVE  call' \in CallType
BY DEF Goto, CallType

LEMMA SentTypes ==
  ASSUME ShapeInv, NEW op \in Ops, NEW arg \in Args
  PROVE  /\ Frame("request", op, call.id, arg) \in Frames
         /\ Append(up, Frame("request", op, call.id, arg)) \in Seq(Frames)
<1>1. call.id \in Ids /\ up \in Seq(Frames)
  BY DEF ShapeInv, CallType
<1>2. "request" \in Kinds
  BY DEF Kinds
<1> QED
  BY <1>1, <1>2, FrameIs, Added

LEMMA ShapeCall ==
  ASSUME ShapeInv, CallStep
  PROVE  ShapeInv'
<1>0. /\ llm \in LlmType /\ loader \in LoaderType /\ call \in CallType
      /\ port \in PortType /\ port.queue \in Seq(Frames) /\ call.id \in Ids
      /\ up \in Seq(Frames) /\ generation \in Args
      /\ Len(port.queue) <= PortDepth
  BY DEF ShapeInv, CallType, PortType
<1>1. ASSUME Begin PROVE ShapeInv'
  <2>1. call' \in CallType /\ llm' \in LlmType
    BY <1>0, <1>1 DEF Begin, Show, CallType, LlmType
  <2> QED
    BY <1>1, <2>1 DEF Begin, ShapeInv, history
<1>2. ASSUME Send PROVE ShapeInv'
  <2>1. port' \in PortType /\ port'.queue = port.queue
    BY <1>0, <1>2 DEF Send, PortType
  <2>2. "io" \in Args
    BY DEF Args, Words
  <2>3. CASE Returned("io") /\ UNCHANGED up
    BY <1>0, <1>2, <2>1, <2>2, <2>3, ReturnedTypes DEF Send, ShapeInv
  <2> DEFINE arg == IF call.op = "chat" THEN call.part ELSE call.name
  <2>4. call.op \in Ops /\ arg \in Args
    BY <1>0, ComputeAssumption DEF CallType, Args
  <2> HIDE DEF arg
  <2>5. Append(up, Frame("request", call.op, call.id, arg)) \in Seq(Frames)
    BY <2>4, SentTypes
  <2>6. CASE /\ up' = Append(up, Frame("request", call.op, call.id, arg))
             /\ Goto("await") /\ UNCHANGED llm
    <3>1. call' \in CallType
      BY <1>0, <2>6, GotoTypes
    <3> QED
      BY <1>0, <1>2, <2>1, <2>5, <2>6, <3>1 DEF Send, ShapeInv
  <2> QED
    BY <1>2, <2>3, <2>6 DEF Send, arg
<1>3. ASSUME port.queue # <<>>, port' = [port EXCEPT !.queue = Tail(@)]
      PROVE  port' \in PortType /\ Len(port'.queue) <= PortDepth
  <2>1. Tail(port.queue) \in Seq(Frames) /\ Len(Tail(port.queue)) = Len(port.queue) - 1
    BY <1>0, <1>3, Taken
  <2>2. port' \in PortType /\ port'.queue = Tail(port.queue)
    BY <1>0, <1>3, <2>1 DEF PortType
  <2> QED
    BY <1>0, <2>1, <2>2, ComputeAssumption
<1>4. ASSUME TakeAnswer PROVE ShapeInv'
  <2> DEFINE f == Head(port.queue)
  <2>1. f.arg \in Args
    BY <1>0, <1>4, Taken DEF TakeAnswer, Frames
  <2>2. call' \in CallType /\ llm' \in LlmType
    <3>1. CASE Returned(f.arg)
      BY <2>1, <3>1, ReturnedTypes
    <3>2. CASE UNCHANGED <<llm, call>>
      BY <1>0, <3>2
    <3> QED
      BY <1>4, <3>1, <3>2 DEF TakeAnswer
  <2> QED
    BY <1>3, <1>4, <2>2 DEF TakeAnswer, ShapeInv
<1>5. ASSUME NoAnswer PROVE ShapeInv'
  <2>1. PICK status \in {"reset", "timeout"} : Returned(status)
    BY <1>5 DEF NoAnswer
  <2>2. status \in Args
    BY DEF Args, Words
  <2> QED
    BY <1>5, <2>1, <2>2, ReturnedTypes DEF NoAnswer, ShapeInv
<1>6. ASSUME Accepted PROVE ShapeInv'
  <2>1. llm' \in LlmType
    BY <1>0, <1>6 DEF Accepted, Show, LlmType
  <2>2. call' \in CallType
    BY <1>0, <1>6, GotoTypes DEF Accepted
  <2> QED
    BY <1>6, <2>1, <2>2 DEF Accepted, ShapeInv, history
<1>7. ASSUME Watch PROVE ShapeInv'
  <2>1. call' \in CallType
    BY <1>0, <1>7 DEF Watch, CallType
  <2> QED
    BY <1>7, <2>1 DEF Watch, ShapeInv, history
<1>8. ASSUME Forward \/ UNCHANGED up PROVE up' \in Seq(Frames)
  <2>1. "cancel" \in Ops /\ None \in Args
    BY DEF Ops, Args, Names
  <2> QED
    BY <1>0, <1>8, <2>1, SentTypes DEF Forward
<1>9. ASSUME Tell PROVE ShapeInv'
  <2>1. call' \in CallType
    <3>1. call' = [call EXCEPT !.told = TRUE]
      BY <1>9 DEF Tell
    <3> QED
      BY <1>0, <3>1 DEF CallType
  <2> QED
    BY <1>8, <1>9, <2>1 DEF Tell, ShapeInv, history
<1>10. ASSUME Expire PROVE ShapeInv'
  <2>1. "timeout" \in Args
    BY DEF Args, Words
  <2>2. CASE Ends
    BY <1>0, <1>10, <2>1, <2>2, OverTypes DEF Expire, ShapeInv
  <2>3. CASE ~Ends
    <3>1. call' \in CallType
      <4>1. call' = [call EXCEPT !.late = TRUE, !.told = TRUE]
        BY <1>10, <2>3 DEF Expire
      <4> QED
        BY <1>0, <4>1 DEF CallType
    <3>2. up' \in Seq(Frames)
      BY <1>8, <1>10, <2>3 DEF Expire
    <3> QED
      BY <1>10, <3>1, <3>2 DEF Expire, ShapeInv
  <2> QED
    BY <2>2, <2>3
<1>11. ASSUME Take PROVE ShapeInv'
  <2> DEFINE f == Head(port.queue)
  <2>1. f \in Frames /\ f.id \in Ids /\ f.arg \in Args
    BY <1>0, <1>11, Taken DEF Take, Frames
  <2>2. call' \in CallType
    <3>1. CASE call' = [call EXCEPT !.got = Append(@, <<f.id, f.arg>>)]
      <4> DEFINE piece == <<f.id, f.arg>>
      <4>1. call.got \in Seq(Ids \X Args) /\ piece \in Ids \X Args
        BY <1>0, <2>1 DEF CallType
      <4>2. call' = [call EXCEPT !.got = Append(call.got, piece)]
        BY <3>1
      <4> HIDE DEF piece
      <4>3. Append(call.got, piece) \in Seq(Ids \X Args)
        BY <4>1
      <4> QED
        BY <1>0, <4>2, <4>3 DEF CallType
    <3>2. CASE Over("proto", FALSE)
      BY <1>0, <3>2, OverTypes DEF Args, Words
    <3>3. CASE Over(Finished(f.arg), TRUE)
      <4>1. Finished(f.arg) \in Args
        BY <2>1 DEF Finished, Args, Words
      <4> QED
        BY <1>0, <3>3, <4>1, OverTypes
    <3>4. CASE UNCHANGED call
      BY <1>0, <3>4
    <3> QED
      BY <1>11, <3>1, <3>2, <3>3, <3>4 DEF Take, Collected
  <2> QED
    BY <1>3, <1>11, <2>2 DEF Take, ShapeInv
<1>12. ASSUME Reset PROVE ShapeInv'
  <2>1. "reset" \in Args
    BY DEF Args, Words
  <2> QED
    BY <1>0, <1>12, <2>1, OverTypes DEF Reset, ShapeInv
<1>13. ASSUME Close PROVE ShapeInv'
  <2>1. call' \in CallType /\ llm' \in LlmType
    BY <1>0, <1>13, GotoTypes DEF Close, LlmType
  <2>2. port' \in PortType /\ Len(port'.queue) <= PortDepth
    BY <1>13, NoneTypes, ComputeAssumption DEF Close, NoPort
  <2> QED
    BY <1>13, <2>1, <2>2 DEF Close, ShapeInv, history
<1>14. ASSUME Settle PROVE ShapeInv'
  <2>1. llm' \in LlmType
    <3>1. llm' = llm \/ \E out : llm' = [llm EXCEPT !.state = Shown(out)]
                     \/ llm' = [llm EXCEPT !.state = "unloaded"]
      BY <1>14 DEF Settle, Show
    <3>2. \A out : Shown(out) \in {"unloaded", "loading", "ready", "busy", "error"}
      BY <1>0 DEF Shown, LlmType
    <3> QED
      BY <1>0, <3>1, <3>2 DEF LlmType
  <2>2. loader' \in LoaderType
    BY <1>0, <1>14 DEF Settle, LoaderType
  <2> QED
    BY <1>14, <2>1, <2>2, NoneTypes DEF Settle, ShapeInv
<1> QED
  BY <1>1, <1>2, <1>4, <1>5, <1>6, <1>7, <1>9, <1>10, <1>11, <1>12, <1>13, <1>14
  DEF CallStep

\* An answer of the daemon
LEMMA ReplyTypes ==
  ASSUME ShapeInv, NEW f \in Frames, NEW status \in Words, Reply(f, status)
  PROVE  /\ down' \in Seq(Frames)
         /\ down' = Append(down, Frame("response", f.op, f.id, status))
         /\ Frame("response", f.op, f.id, status) \in Frames
<1>1. f.op \in Ops /\ f.id \in Ids /\ status \in Args /\ "response" \in Kinds
  BY DEF Frames, Args, Kinds
<1>2. Frame("response", f.op, f.id, status) \in Frames
  BY <1>1, FrameIs
<1> QED
  BY <1>2, Added DEF ShapeInv, Reply

LEMMA ShapeDispatch ==
  ASSUME ShapeInv, AskInv, Dispatch
  PROVE  ShapeInv'
<1> DEFINE f == Head(up)
<1>0. /\ daemon \in DaemonType /\ Len(daemon.body) < Parts
      /\ down \in Seq(Frames) /\ daemon.body \in Seq(Ids)
      /\ called \in BOOLEAN
  BY DEF ShapeInv, DaemonType
<1>1. f \in Frames /\ f.id \in Ids /\ up' \in Seq(Frames) /\ f = up[1] /\ 1 \in DOMAIN up
  BY Taken DEF Dispatch, ShapeInv, Frames
<1>2. /\ UNCHANGED <<generation, llm, loader, call, port, calls>>
      /\ f.op = "load" => BeginLoad(f)
      /\ f.op = "unload" => DaemonUnload(f)
      /\ f.op = "chat" => BeginChat(f)
      /\ f.op = "cancel" => DaemonCancel(f)
      /\ f.op # "cancel" => UNCHANGED called
      /\ f.op \in {"load", "unload", "chat", "cancel"}
  BY <1>1 DEF Dispatch, client, AskInv
<1> HIDE DEF f
<1>3. down' \in Seq(Frames)
  <2>1. \/ UNCHANGED down
        \/ \E status \in {"busy", "ok", "invalid", "not_ready"} : Reply(f, status)
    BY <1>2 DEF BeginLoad, DaemonUnload, BeginChat, DaemonCancel
  <2> QED
    BY <1>0, <1>1, <2>1, ReplyTypes DEF Words
<1>4. called' \in BOOLEAN
  BY <1>0, <1>2 DEF DaemonCancel
<1>5. daemon' \in DaemonType /\ Len(daemon'.body) < Parts
  <2>1. CASE f.op = "load"
    <3>1. f.arg \in Names
      BY <1>1, <2>1 DEF AskInv, Names
    <3> DEFINE load == [NoLoad EXCEPT !.pc = "work", !.id = f.id, !.name = f.arg]
    <3>2. load \in LoadType
      BY <1>1, <3>1, NoneTypes DEF LoadType
    <3>3. daemon' = daemon \/ daemon' = [daemon EXCEPT !.load = load]
      BY <1>2, <2>1 DEF BeginLoad
    <3> HIDE DEF load
    <3> QED
      BY <1>0, <3>2, <3>3 DEF DaemonType
  <2>2. CASE f.op = "unload"
    <3>1. daemon' = daemon \/ daemon' = [daemon EXCEPT !.loaded = None]
      BY <1>2, <2>2 DEF DaemonUnload
    <3> QED
      BY <1>0, <3>1 DEF DaemonType, Names
  <2>3. CASE f.op = "chat"
    <3>1. CASE daemon' = daemon
      BY <1>0, <3>1
    <3>2. CASE daemon' = [daemon EXCEPT !.body = <<>>]
      <4>1. <<>> \in Seq(Ids)
        OBVIOUS
      <4>2. daemon' \in DaemonType /\ daemon'.body = <<>>
        BY <1>0, <3>2, <4>1 DEF DaemonType
      <4> QED
        BY <4>2, ComputeAssumption
    <3>3. CASE /\ Continues(f) /\ f.arg < Parts
               /\ daemon' = [daemon EXCEPT !.body = Append(@, f.id)]
      <4>1. /\ Append(daemon.body, f.id) \in Seq(Ids)
            /\ Len(Append(daemon.body, f.id)) = Len(daemon.body) + 1
        BY <1>0, <1>1
      <4>2. daemon' \in DaemonType /\ daemon'.body = Append(daemon.body, f.id)
        BY <1>0, <3>3, <4>1 DEF DaemonType
      <4> QED
        BY <3>3, <4>1, <4>2 DEF Continues
    <3> DEFINE run == [pc |-> "start", id |-> f.id, status |-> "none"]
    <3>4. CASE daemon' = [daemon EXCEPT !.body = <<>>, !.cancel = FALSE,
                            !.running = TRUE, !.active = f.id, !.run = run]
      <4>1. run \in RunType
        BY <1>1 DEF RunType, Words
      <4>2. <<>> \in Seq(Ids)
        OBVIOUS
      <4> HIDE DEF run
      <4>3. daemon' \in DaemonType /\ daemon'.body = <<>>
        BY <1>0, <1>1, <3>4, <4>1, <4>2 DEF DaemonType
      <4> QED
        BY <4>3, ComputeAssumption
    <3> QED
      BY <1>2, <2>3, <3>1, <3>2, <3>3, <3>4 DEF BeginChat, BodyTaken
  <2>4. CASE f.op = "cancel"
    <3>1. daemon' = daemon \/ daemon' = [daemon EXCEPT !.cancel = TRUE]
      BY <1>2, <2>4 DEF DaemonCancel
    <3> QED
      BY <1>0, <3>1 DEF DaemonType
  <2> QED
    BY <1>2, <2>1, <2>2, <2>3, <2>4
<1> QED
  BY <1>1, <1>2, <1>3, <1>4, <1>5 DEF ShapeInv

\* The pieces of the answer of a run
Answer(id) == [i \in 1..Pieces |-> Frame("event", "result", id, i)]

LEMMA AnswerIs ==
  ASSUME NEW id \in Ids
  PROVE  /\ Answer(id) \in Seq(Frames)
         /\ \A i \in DOMAIN Answer(id) :
              /\ Answer(id)[i].id = id
              /\ Answer(id)[i].kind = "event" /\ Answer(id)[i].op = "result"
<1>1. "event" \in Kinds /\ "result" \in Ops /\ 1..Pieces \subseteq Args
  BY ComputeAssumption DEF Kinds, Ops, Args
<1>2. \A i \in 1..Pieces :
        LET f == Frame("event", "result", id, i)
        IN f \in Frames /\ f.id = id /\ f.kind = "event" /\ f.op = "result"
  BY <1>1, FrameIs
<1>3. Answer(id) \in [1..Pieces -> Frames]
  BY <1>2 DEF Answer
<1>4. Answer(id) \in Seq(Frames)
  BY <1>3, IsASeq, ComputeAssumption
<1> QED
  BY <1>2, <1>4 DEF Answer

LEMMA ShapeDaemon ==
  ASSUME ShapeInv, DaemonWorks
  PROVE  ShapeInv'
<1>0. /\ daemon \in DaemonType /\ Len(daemon.body) < Parts
      /\ daemon.run \in RunType /\ daemon.load \in LoadType
      /\ daemon.run.id \in Ids /\ daemon.load.id \in Ids
      /\ daemon.run.status \in Words /\ daemon.load.status \in Words
      /\ daemon.load.name \in Names
      /\ down \in Seq(Frames)
  BY DEF ShapeInv, DaemonType, RunType, LoadType
<1>1. /\ UNCHANGED <<generation, llm, loader, call, port, up, calls, called>>
  BY DEF DaemonWorks, LoadEnds, LoadAnswers, RunStarts, RunEnds, RunAnswers,
         RunReleases, RunFinishes, DaemonStep, client, history
<1>2. daemon' \in DaemonType /\ daemon'.body = daemon.body
  <2>1. ASSUME NEW status \in {"ok", "not_ready"}, LoadEnds(status)
        PROVE  daemon' \in DaemonType /\ daemon'.body = daemon.body
    <3> DEFINE load == [daemon.load EXCEPT !.pc = "answer", !.status = status]
               loaded == IF status = "ok" THEN daemon.load.name ELSE daemon.loaded
               session == daemon.session \/ status # "not_ready"
    <3>1. load \in LoadType
      BY <1>0 DEF LoadType, Words
    <3>2. loaded \in Names /\ session \in BOOLEAN
      BY <1>0 DEF DaemonType
    <3>3. daemon' = [daemon EXCEPT !.load = load, !.session = session, !.loaded = loaded]
      BY <2>1 DEF LoadEnds
    <3> HIDE DEF load, loaded, session
    <3> QED
      BY <1>0, <3>1, <3>2, <3>3 DEF DaemonType
  <2>2. ASSUME LoadAnswers PROVE daemon' \in DaemonType /\ daemon'.body = daemon.body
    BY <1>0, <2>2, NoneTypes DEF LoadAnswers, DaemonType
  <2>3. ASSUME NEW run \in RunType, daemon' = [daemon EXCEPT !.run = run]
        PROVE  daemon' \in DaemonType /\ daemon'.body = daemon.body
    BY <1>0, <2>3 DEF DaemonType
  <2>4. \A status \in Words : Decided(status) \in RunType
    BY <1>0 DEF Decided, RunType
  <2>5. \A pc \in {"run", "answered", "over"} :
          [daemon.run EXCEPT !.pc = pc] \in RunType
    BY <1>0 DEF RunType
  <2>6. ASSUME RunStarts PROVE daemon' \in DaemonType /\ daemon'.body = daemon.body
    <3>1. \/ daemon' = [daemon EXCEPT !.run = Decided("too_long")]
          \/ daemon' = [daemon EXCEPT !.run = [daemon.run EXCEPT !.pc = "run"]]
      BY <1>0, <2>6 DEF RunStarts, DaemonType
    <3> QED
      BY <2>3, <2>4, <2>5, <3>1 DEF Words
  <2>7. ASSUME RunEnds PROVE daemon' \in DaemonType /\ daemon'.body = daemon.body
    BY <2>3, <2>4, <2>7 DEF RunEnds, Words
  <2>8. ASSUME RunAnswers PROVE daemon' \in DaemonType /\ daemon'.body = daemon.body
    <3> DEFINE run == [daemon.run EXCEPT !.pc = "answered"]
    <3>1. run \in RunType
      BY <2>5
    <3>2. daemon' = [daemon EXCEPT !.run = run, !.active = NoId]
      BY <1>0, <2>8 DEF RunAnswers, DaemonType
    <3> HIDE DEF run
    <3> QED
      BY <1>0, <3>1, <3>2, NoneTypes DEF DaemonType
  <2>9. ASSUME RunReleases PROVE daemon' \in DaemonType /\ daemon'.body = daemon.body
    <3> DEFINE run == [daemon.run EXCEPT !.pc = "over"]
    <3>1. run \in RunType
      BY <2>5
    <3>2. daemon' = [daemon EXCEPT !.run = run, !.running = FALSE]
      BY <1>0, <2>9 DEF RunReleases, DaemonType
    <3> HIDE DEF run
    <3> QED
      BY <1>0, <3>1, <3>2 DEF DaemonType
  <2>10. ASSUME RunFinishes PROVE daemon' \in DaemonType /\ daemon'.body = daemon.body
    BY <2>3, <2>10, NoneTypes DEF RunFinishes
  <2> QED
    BY <2>1, <2>2, <2>6, <2>7, <2>8, <2>9, <2>10 DEF DaemonWorks
<1>3. down' \in Seq(Frames)
  <2>1. ASSUME LoadAnswers PROVE down' \in Seq(Frames)
    <3>1. "response" \in Kinds /\ "load" \in Ops /\ daemon.load.status \in Args
      BY <1>0 DEF Kinds, Ops, Args
    <3> QED
      BY <1>0, <2>1, <3>1, FrameIs, Added DEF LoadAnswers
  <2>2. ASSUME RunFinishes PROVE down' \in Seq(Frames)
    <3>1. "event" \in Kinds /\ "finish" \in Ops /\ daemon.run.status \in Args
      BY <1>0 DEF Kinds, Ops, Args
    <3> QED
      BY <1>0, <2>2, <3>1, FrameIs, Added DEF RunFinishes
  <2>3. ASSUME RunAnswers PROVE down' \in Seq(Frames)
    <3>1. down' = down \o <<>> \/ down' = down \o Answer(daemon.run.id)
      BY <2>3 DEF RunAnswers, Answer
    <3>2. <<>> \in Seq(Frames)
      OBVIOUS
    <3>3. Answer(daemon.run.id) \in Seq(Frames)
      BY <1>0, AnswerIs
    <3> QED
      BY <1>0, <3>1, <3>2, <3>3, Joined
  <2> QED
    BY <1>0, <2>1, <2>2, <2>3
    DEF DaemonWorks, LoadEnds, RunStarts, RunEnds, RunReleases
<1> QED
  BY <1>0, <1>1, <1>2, <1>3 DEF ShapeInv

LEMMA ReadyIs ==
  ASSUME ShapeInv, daemon' = Daemon(daemon.gen + 1)
  PROVE  /\ Ready \in Frames /\ Ready.id = NoId /\ Ready.op = "ready"
         /\ daemon' \in DaemonType /\ Len(daemon'.body) < Parts
<1>1. daemon.gen + 1 \in Nat
  BY DEF ShapeInv, DaemonType
<1>2. daemon' \in DaemonType /\ Len(daemon'.body) < Parts
  BY <1>1, NoneTypes
<1>3. daemon'.gen \in Args /\ "event" \in Kinds /\ "ready" \in Ops
  BY <1>2 DEF DaemonType, Args, Kinds, Ops
<1> QED
  BY <1>2, <1>3, NoneTypes, FrameIs DEF Ready

LEMMA ShapeFault ==
  ASSUME ShapeInv, Restart \/ LinkLost
  PROVE  ShapeInv'
<1>0. down \in Seq(Frames) /\ <<>> \in Seq(Frames) /\ 0 \in Args
  BY DEF ShapeInv, Args
<1>1. CASE Restart
  <2>1. daemon' = Daemon(daemon.gen + 1)
    BY <1>1 DEF Restart
  <2>2. PICK n \in 0..Len(down) : down' = Append(SubSeq(down, 1, n), Ready)
    BY <1>1 DEF Restart
  <2>3. down' \in Seq(Frames)
    BY <1>0, <2>1, <2>2, ReadyIs, Cut, Added
  <2> QED
    BY <1>0, <1>1, <2>1, <2>3, ReadyIs DEF Restart, ShapeInv, client, history
<1>2. CASE LinkLost
  <2>1. daemon' = Daemon(daemon.gen + 1) /\ down' = <<Ready>>
    BY <1>2 DEF LinkLost
  <2>2. down' \in Seq(Frames)
    BY <2>1, ReadyIs
  <2> QED
    BY <1>0, <1>2, <2>1, <2>2, ReadyIs DEF LinkLost, ShapeInv, history
<1> QED
  BY <1>1, <1>2

(***************************************************************************)
(* Calls and what is under way for them                                    *)
(***************************************************************************)
ChatInv ==
  /\ NumberInv /\ AskInv /\ PortInv /\ AwaitInv /\ RunInv /\ CollectInv /\ CalledInv

LEMMA ChatInit == Init => ChatInv
<1> SUFFICES ASSUME Init PROVE ChatInv
  OBVIOUS
<1>1. /\ call = NoCall /\ port = NoPort /\ daemon = Daemon(1) /\ up = <<>>
      /\ down = <<Frame("event", "ready", NoId, 1)>>
      /\ loader.pc = "none" /\ calls = 0 /\ called = FALSE
      /\ ran = [k \in 1..MaxCalls |-> 0]
  BY DEF Init
<1>2. /\ port.queue = <<>> /\ call.kind = "none" /\ call.pc = "idle"
      /\ call.out = "none" /\ call.got = <<>>
      /\ daemon.load.pc = "idle" /\ daemon.run.pc = "idle" /\ daemon.active = NoId
  BY <1>1 DEF NoPort, NoCall, Daemon, NoLoad, NoRun
<1>3. \A i \in DOMAIN down : down[i].op = "ready" /\ down[i].id = NoId
  BY <1>1 DEF Frame
<1>4. NumberInv
  BY <1>1, <1>2, <1>3, ComputeAssumption DEF NumberInv
<1>5. AskInv /\ PortInv /\ AwaitInv
  BY <1>1, <1>2 DEF AskInv, PortInv, AwaitInv
<1>6. RunInv
  BY <1>1, <1>2, <1>3 DEF RunInv, IsEvent
<1>7. CollectInv /\ CalledInv
  BY <1>1, <1>2 DEF CollectInv, CalledInv
<1> QED
  BY <1>4, <1>5, <1>6, <1>7 DEF ChatInv

\* The next number is not known to any frame.
LEMMA NumberFree ==
  ASSUME ShapeInv, NumberInv, PortInv, calls < MaxCalls
  PROVE  Untouched(calls + 1) /\ calls + 1 \in Nat /\ calls + 1 # 0
<1>0. calls \in Nat /\ port.queue \in Seq(Frames) /\ MaxCalls \in Nat
  BY ComputeAssumption DEF ShapeInv, PortType
<1>1. Of(up, calls + 1) = {}
  BY <1>0 DEF Of, NumberInv
<1>2. Of(down, calls + 1) = {}
  BY <1>0 DEF Of, NumberInv, NoId, Call
<1>3. Of(port.queue, calls + 1) = {}
  <2>1. port.queue # <<>> => port.id = call.id /\ call.kind # "none"
    BY DEF PortInv, ShapeInv, CallType, NoPort
  <2>2. port.queue # <<>> => Call(port.id) \in 1..calls
    BY <2>1 DEF NumberInv
  <2> QED
    BY <1>0, <2>2 DEF Of, PortInv
<1>4. ~LoadOf(calls + 1)
  BY <1>0 DEF LoadOf, NumberInv
<1>5. ran[calls + 1] = 0
  BY <1>0 DEF NumberInv
<1> QED
  BY <1>0, <1>1, <1>2, <1>3, <1>4, <1>5 DEF Untouched

LEMMA ChatClient ==
  ASSUME ShapeInv, ChatInv,
         \/ StartLoader \/ Chat \/ Unload \/ Load \/ LoaderEnds \/ Cancel
         \/ \E name \in Models : AskLoad(name)
  PROVE  ChatInv'
<1>0. /\ UNCHANGED <<up, down, port, daemon, ran, called>>
      /\ calls \in Nat /\ MaxCalls \in Nat /\ call \in CallType /\ loader \in LoaderType
      /\ calls' = calls \/ (calls < MaxCalls /\ calls' = calls + 1)
  BY ComputeAssumption DEF ShapeInv, StartLoader, Chat, Unload, Load, LoaderEnds, Cancel, AskLoad,
         history
<1>1. RunInv'
  BY <1>0 DEF ChatInv, RunInv, RunOf
<1>2. \A k : Untouched(k) => Untouched(k)'
  BY <1>0 DEF Untouched, LoadOf
<1>3. /\ calls' \in 0..MaxCalls /\ ran' \in [1..MaxCalls -> {0, 1}]
      /\ \A k \in (calls' + 1)..MaxCalls : ran'[k] = 0
      /\ \A i \in DOMAIN up' : Call(up'[i].id) \in 1..calls'
      /\ \A i \in DOMAIN down' : IF down'[i].op = "ready" THEN down'[i].id = NoId
                                 ELSE Call(down'[i].id) \in 1..calls'
      /\ daemon'.load.pc # "idle" => Call(daemon'.load.id) \in 1..calls'
  BY <1>0 DEF ChatInv, NumberInv
<1>4. CASE UNCHANGED call
  <2>1. AskInv' /\ PortInv' /\ AwaitInv' /\ CollectInv' /\ CalledInv'
    BY <1>0, <1>4 DEF ChatInv, AskInv, PortInv, AwaitInv, CollectInv, CalledInv, Untouched, Alone,
        LoadOf, RunOf
  <2>2. call'.kind # "none" => Call(call'.id) \in 1..calls /\ Call(call'.id) \in 1..calls'
    BY <1>0, <1>4 DEF ChatInv, NumberInv
  <2>3. loader'.pc \in {"pending", "start"} =>
          /\ loader'.k \in 1..calls' /\ Untouched(loader.k)'
          /\ call'.kind # "none" => Call(call'.id) # loader'.k
    <3>1. CASE loader'.k = loader.k /\ loader.pc \in {"pending", "start"}
      BY <1>0, <1>2, <1>4, <3>1 DEF ChatInv, NumberInv
    <3>2. CASE loader'.k = calls + 1 /\ calls' = calls + 1 /\ calls < MaxCalls
      BY <1>0, <1>2, <2>2, <3>2, NumberFree DEF ChatInv
    <3>3. CASE loader'.pc \notin {"pending", "start"}
      BY <3>3
    <3> QED
      BY <1>0, <3>1, <3>2, <3>3
      DEF StartLoader, Chat, Unload, Load, LoaderEnds, Cancel, AskLoad, LoaderType
  <2> QED
    BY <1>1, <1>3, <2>1, <2>2, <2>3 DEF ChatInv, NumberInv
<1>5. CASE call' # call
  <2>1. PICK kind \in {"chat", "load", "unload"}, k \in Nat, name \in Names :
          /\ call' = Begun(kind, k, name) /\ call.kind = "none"
          /\ k \in 1..calls' /\ Untouched(k)
          /\ loader'.pc \in {"pending", "start"} =>
               loader' = loader /\ loader.k # k
    <3>1. CASE Chat
      BY <1>0, <3>1, NumberFree, ComputeAssumption
      DEF Chat, ChatInv, NumberInv, LoaderType, Names
    <3>2. CASE Unload
      BY <1>0, <3>2, NumberFree DEF Unload, ChatInv, NumberInv, LoaderType, Names
    <3>3. CASE Load
      BY <1>0, <1>5, <3>3 DEF Load, ChatInv, NumberInv, LoaderType
    <3> QED
      BY <1>5, <3>1, <3>2, <3>3 DEF StartLoader, LoaderEnds, Cancel, AskLoad
  <2>2. /\ call'.kind = kind /\ call'.op = kind /\ call'.pc = "begin"
        /\ Call(call'.id) = k /\ call'.out = "none" /\ call'.got = <<>>
    BY <2>1 DEF Begun, NoCall, Call
  <2>3. Untouched(k)'
    BY <1>2, <2>1
  <2>4. call.pc = "idle" /\ port' = NoPort /\ ~called
    BY <1>0, <2>1 DEF ChatInv, PortInv, CalledInv, ShapeInv
  <2>5. NumberInv'
    <3>1. ASSUME loader'.pc \in {"pending", "start"}
          PROVE  loader'.k \in 1..calls' /\ Untouched(loader.k)' /\ k # loader'.k
      BY <1>0, <1>2, <2>1, <3>1 DEF ChatInv, NumberInv
    <3> QED
      BY <1>3, <2>1, <2>2, <3>1 DEF NumberInv
  <2>6. AskInv'
    BY <1>0, <2>1, <2>2 DEF ChatInv, AskInv
  <2>7. PortInv'
    BY <2>1, <2>2, <2>3, <2>4 DEF PortInv, NoPort
  <2>8. AwaitInv' /\ CalledInv'
    BY <1>0, <2>2, <2>4 DEF AwaitInv, CalledInv
  <2>9. CollectInv'
    BY <2>2 DEF CollectInv
  <2> QED
    BY <1>1, <2>5, <2>6, <2>7, <2>8, <2>9 DEF ChatInv
<1> QED
  BY <1>4, <1>5

\* A request that is not answered ends the call.
LEMMA Unanswered ==
  ASSUME call \in CallType, NEW status \in {"timeout", "reset", "io"}, Returned(status)
  PROVE  /\ call' = [call EXCEPT !.pc = "close", !.out = status]
         /\ givenUp' = givenUp \cup {Call(call.id)}
BY DEF Returned, ChatReturned, LoadReturned, Retries, Over, Unheard

\* The call goes on, and nothing that is under way changes.
LEMMA ChatQuiet ==
  ASSUME ShapeInv, ChatInv, Begin \/ NoAnswer \/ Accepted \/ Watch \/ Reset
  PROVE  ChatInv'
<1>0. /\ UNCHANGED <<up, down, port, daemon, ran, called, calls, loader>>
      /\ call \in CallType /\ call.pc \in {"begin", "await", "accepted", "watch", "collect"}
  BY DEF ShapeInv, Begin, NoAnswer, Accepted, Watch, Reset, history
<1>1. /\ UNCHANGED <<call.kind, call.id, call.op, call.part, call.got>>
      /\ \/ call.pc = "begin" /\ call'.pc = "send" /\ UNCHANGED call.out
         \/ call.pc = "accepted" /\ call'.pc = "watch" /\ UNCHANGED call.out
         \/ call.pc = "watch" /\ call'.pc = "collect" /\ UNCHANGED call.out
         \/ call.pc \in {"await", "collect"} /\ call'.pc = "close" /\ call'.out # "ok"
  <2>1. CASE Begin
    BY <1>0, <2>1 DEF Begin, CallType
  <2>2. CASE NoAnswer
    <3>1. PICK status \in {"reset", "timeout"} : Returned(status)
      BY <2>2 DEF NoAnswer
    <3>2. call' = [call EXCEPT !.pc = "close", !.out = status]
      BY <1>0, <3>1, Unanswered
    <3> QED
      BY <1>0, <2>2, <3>2 DEF CallType, NoAnswer
  <2>3. CASE Accepted
    BY <1>0, <2>3 DEF Accepted, Goto, CallType
  <2>4. CASE Watch
    BY <1>0, <2>4 DEF Watch, CallType
  <2>5. CASE Reset
    BY <1>0, <2>5 DEF Reset, Over, CallType
  <2> QED
    BY <2>1, <2>2, <2>3, <2>4, <2>5
<1>2. call.kind # "none" /\ call'.kind # "none"
  BY <1>0, <1>1 DEF ChatInv, PortInv
<1>3. \A k : Untouched(k) => Untouched(k)'
  BY <1>0 DEF Untouched, LoadOf
<1>4. NumberInv'
  BY <1>0, <1>1, <1>3 DEF ChatInv, NumberInv
<1>5. AskInv'
  BY <1>0, <1>1, <1>2 DEF ChatInv, AskInv
<1>6. PortInv'
  <2>1. call'.pc = "send" => Untouched(Call(call.id))'
    BY <1>0, <1>1, <1>3 DEF ChatInv, PortInv
  <2> QED
    BY <1>0, <1>1, <1>2, <2>1 DEF ChatInv, PortInv
<1>7. AwaitInv' /\ RunInv'
  BY <1>0, <1>1 DEF ChatInv, AwaitInv, RunInv, RunOf
<1>8. CollectInv'
  BY <1>0, <1>1 DEF ChatInv, CollectInv, RunOf
<1>9. CalledInv'
  BY <1>0, <1>1 DEF ChatInv, CalledInv, RunOf
<1> QED
  BY <1>4, <1>5, <1>6, <1>7, <1>8, <1>9 DEF ChatInv

LEMMA ChatSettle ==
  ASSUME ShapeInv, ChatInv, Settle
  PROVE  ChatInv'
<1>0. /\ UNCHANGED <<up, down, port, daemon, ran, calls>>
      /\ call' = NoCall /\ called' = FALSE /\ call.pc = "settle" /\ port = NoPort
      /\ loader \in LoaderType /\ call.kind # "none"
  BY DEF ShapeInv, ChatInv, PortInv, Settle
<1>1. loader'.pc \in {"pending", "start"} => loader' = loader
  BY <1>0 DEF Settle, LoaderType
<1>2. \A k : Untouched(k) => Untouched(k)'
  BY <1>0 DEF Untouched, LoadOf
<1>3. /\ call'.kind = "none" /\ call'.pc = "idle" /\ call'.out = "none"
      /\ call'.got = <<>>
  BY <1>0 DEF NoCall
<1>4. NumberInv'
  BY <1>0, <1>1, <1>2, <1>3 DEF ChatInv, NumberInv
<1>5. AskInv' /\ PortInv' /\ AwaitInv'
  BY <1>0, <1>3 DEF ChatInv, AskInv, PortInv, AwaitInv, NoPort
<1>6. RunInv'
  BY <1>0 DEF ChatInv, RunInv, RunOf
<1>7. CollectInv' /\ CalledInv'
  BY <1>0, <1>3 DEF CollectInv, CalledInv
<1> QED
  BY <1>4, <1>5, <1>6, <1>7 DEF ChatInv

LEMMA ChatClose ==
  ASSUME ShapeInv, ChatInv, Close
  PROVE  ChatInv'
<1>0. /\ UNCHANGED <<up, down, daemon, ran, calls, loader, called>>
      /\ call.pc = "close" /\ port' = NoPort /\ call \in CallType
      /\ port'.queue = <<>>
  BY DEF ShapeInv, ChatInv, PortInv, Close, history, NoPort
<1>1. /\ UNCHANGED <<call.kind, call.id, call.op, call.got, call.out>>
      /\ call'.pc = "settle"
  BY <1>0 DEF Close, Goto, CallType
<1>2. call.kind # "none" /\ call'.kind # "none"
  BY <1>0, <1>1 DEF ChatInv, PortInv
<1>3. \A k : Untouched(k) => Untouched(k)'
  BY <1>0, OfNone DEF Untouched, LoadOf
<1>4. NumberInv'
  BY <1>0, <1>1, <1>3 DEF ChatInv, NumberInv
<1>5. AskInv' /\ PortInv' /\ AwaitInv'
  BY <1>0, <1>1, <1>2 DEF ChatInv, AskInv, PortInv, AwaitInv
<1>6. RunInv'
  BY <1>0 DEF ChatInv, RunInv, RunOf
<1>7. CollectInv'
  BY <1>0, <1>1 DEF ChatInv, CollectInv, RunOf
<1>8. CalledInv'
  BY <1>0, <1>1, OfNone DEF ChatInv, CalledInv, RunOf
<1> QED
  BY <1>4, <1>5, <1>6, <1>7, <1>8 DEF ChatInv

\* A request is sent: nothing else is under way for the call.
LEMMA ChatSend ==
  ASSUME ShapeInv, ChatInv, Send
  PROVE  ChatInv'
<1> DEFINE f == Frame("request", call.op, call.id,
                      IF call.op = "chat" THEN call.part ELSE call.name)
           k == Call(call.id)
<1>0. /\ UNCHANGED <<down, daemon, ran, calls, loader, called>>
      /\ call.pc = "send" /\ call \in CallType /\ port \in PortType
      /\ up \in Seq(Frames) /\ port.queue = <<>> /\ Untouched(k)
      /\ call.kind # "none" /\ k \in 1..calls /\ calls \in Nat
      /\ call.out = "none" /\ call.got = <<>> /\ ~called
  <2>1. call.kind # "none" /\ ran[k] = 0
    BY DEF Send, ChatInv, PortInv, Untouched
  <2> QED
    BY <2>1 DEF ShapeInv, ChatInv, NumberInv, PortInv, CollectInv, CalledInv, Send
<1>1. port'.id = call.id /\ port'.queue = <<>>
  BY <1>0 DEF Send, PortType
<1>2. f \in Frames /\ f.op = call.op /\ f.id = call.id
      /\ (call.op = "chat" => f.arg = call.part) /\ (call.op = "load" => f.arg \in Names)
  <2>1. call.op \in Ops /\ call.id \in Ids /\ "request" \in Kinds
        /\ (IF call.op = "chat" THEN call.part ELSE call.name) \in Args
    BY <1>0, ComputeAssumption DEF CallType, Args, Kinds
  <2> QED
    BY <1>0, <2>1, FrameIs DEF CallType
<1>3. \/ /\ UNCHANGED up
         /\ call' = [call EXCEPT !.pc = "close", !.out = "io"]
      \/ /\ up' = Append(up, f)
         /\ call' = [call EXCEPT !.pc = "await"]
  BY <1>0, Unanswered DEF Send, Goto
<1> HIDE DEF f
<1>4. /\ UNCHANGED <<call.kind, call.id, call.op, call.part, call.got>>
      /\ \/ UNCHANGED up /\ call'.pc = "close" /\ call'.out = "io"
         \/ up' = Append(up, f) /\ call'.pc = "await" /\ call'.out = "none"
  BY <1>0, <1>3 DEF CallType
<1>5. CASE UNCHANGED up /\ call'.pc = "close" /\ call'.out = "io"
  <2>1. \A j : Untouched(j) => Untouched(j)'
    BY <1>0, <1>1, <1>5 DEF Untouched, LoadOf
  <2>2. NumberInv'
    BY <1>0, <1>4, <1>5, <2>1 DEF ChatInv, NumberInv
  <2>3. AskInv' /\ PortInv' /\ AwaitInv'
    BY <1>0, <1>1, <1>4, <1>5 DEF ChatInv, AskInv, PortInv, AwaitInv
  <2>4. RunInv'
    BY <1>0, <1>1, <1>5 DEF ChatInv, RunInv, RunOf
  <2>5. CollectInv' /\ CalledInv'
    BY <1>0, <1>4, <1>5 DEF ChatInv, CollectInv, CalledInv
  <2> QED
    BY <2>2, <2>3, <2>4, <2>5 DEF ChatInv
<1>6. CASE up' = Append(up, f) /\ call'.pc = "await" /\ call'.out = "none"
  <2>1. \A j : Of(up', j) = IF j = k THEN Of(up, j) \cup {Len(up) + 1} ELSE Of(up, j)
    BY <1>0, <1>2, <1>6, OfAdded
  <2>2. /\ \A i \in DOMAIN up' : \/ i \in DOMAIN up /\ up'[i] = up[i]
                                 \/ i = Len(up) + 1 /\ up'[i] = f
        /\ Len(up) + 1 \notin DOMAIN up /\ Len(up) + 1 \in DOMAIN up'
    BY <1>0, <1>2, <1>6, Added
  <2>3. Of(up', k) = {Len(up) + 1} /\ up'[Len(up) + 1] = f
    BY <1>0, <2>1, <2>2 DEF Untouched
  <2>4. \A j : j # k /\ Untouched(j) => Untouched(j)'
    BY <1>0, <1>1, <2>1 DEF Untouched, LoadOf
  <2>5. NumberInv'
    <3>1. loader.pc \in {"pending", "start"} => loader.k # k /\ Untouched(loader.k)'
      BY <1>0, <2>4 DEF ChatInv, NumberInv
    <3> QED
      BY <1>0, <1>2, <1>4, <2>2, <3>1 DEF ChatInv, NumberInv
  <2>6. AskInv'
    <3>1. call.op \in {"load", "unload", "chat"}
      BY <1>0 DEF ChatInv, AskInv, CallType
    <3> QED
      BY <1>0, <1>2, <1>4, <2>2, <3>1 DEF ChatInv, AskInv, Names
  <2>7. PortInv'
    BY <1>0, <1>1, <1>4, <1>6 DEF PortInv
  <2>8. AwaitInv'
    <3>1. Single(Of(up', k)) /\ Single({})
      BY <2>3 DEF Single
    <3>2. Alone(k)'
      BY <1>0, <1>1, <1>4, <2>3, <3>1 DEF Alone, Untouched, LoadOf
    <3>3. ran'[k] = 0
      BY <1>0 DEF Untouched
    <3> QED
      BY <1>2, <1>4, <2>3, <3>2, <3>3 DEF AwaitInv
  <2>9. RunInv'
    <3>1. ASSUME NEW i \in DOMAIN up', up'[i].op = "chat"
          PROVE  /\ ran'[Call(up'[i].id)] = 0
                 /\ \A j \in Of(up', Call(up'[i].id)) : up'[j].op = "chat" => j = i
      <4>1. CASE Call(up'[i].id) = k
        BY <1>0, <2>2, <2>3, <3>1, <4>1 DEF Untouched, Of
      <4>2. CASE Call(up'[i].id) # k
        <5>1. i \in DOMAIN up /\ up'[i] = up[i]
          BY <1>2, <2>2, <4>2
        <5>2. Of(up', Call(up'[i].id)) = Of(up, Call(up[i].id))
          BY <2>1, <4>2, <5>1
        <5>3. \A j \in Of(up, Call(up[i].id)) : up'[j] = up[j]
          BY <2>2, <5>2 DEF Of
        <5> QED
          BY <1>0, <3>1, <5>1, <5>2, <5>3 DEF ChatInv, RunInv
      <4> QED
        BY <4>1, <4>2
    <3> QED
      BY <1>0, <1>1, <3>1 DEF ChatInv, RunInv, RunOf
  <2>10. CollectInv' /\ CalledInv'
    BY <1>0, <1>4, <1>6 DEF ChatInv, CollectInv, CalledInv
  <2> QED
    BY <2>5, <2>6, <2>7, <2>8, <2>9, <2>10 DEF ChatInv
<1> QED
  BY <1>4, <1>5, <1>6

\* Where a call goes on after a request has returned
LEMMA ReturnedTo ==
  ASSUME call \in CallType, AskInv, call.kind # "none", NEW status, Returned(status)
  PROVE  /\ UNCHANGED <<call.kind, call.got>> /\ Call(call'.id) = Call(call.id)
         /\ \/ /\ call'.pc = "begin" /\ UNCHANGED call.out
               /\ call.kind = "chat" /\ call'.op \in {"chat", "load"}
            \/ /\ call'.pc = "accepted" /\ UNCHANGED <<call.out, call.id, call.op>>
            \/ /\ call'.pc = "close" /\ UNCHANGED <<call.id, call.op>>
               /\ call.kind = "chat" => call'.out # "ok"
         /\ call.op = "chat" /\ call.part = Parts /\ status = "ok"
              => call'.pc = "accepted"
<1>0. /\ call.kind = "chat" => call.op \in {"chat", "load"}
      /\ call.op = "chat" => call.kind = "chat"
      /\ call.op \notin {"chat", "load"} => call.kind # "chat"
      /\ call.part \in 1..Parts /\ Parts \in Nat
  BY ComputeAssumption DEF AskInv, CallType
<1>1. Call(<<Call(call.id), call.id[2] + 1>>) = Call(call.id)
  BY DEF Call
<1> DEFINE id == <<Call(call.id), call.id[2] + 1>>
<1>2. \/ call.op = "chat" /\ status = "ok" /\ call.part < Parts
         /\ call' = [call EXCEPT !.pc = "begin", !.part = @ + 1]
      \/ call.op = "chat" /\ status = "ok" /\ ~(call.part < Parts)
         /\ call' = [call EXCEPT !.pc = "accepted"]
      \/ call.op = "chat" /\ status # "ok"
         /\ call' = [call EXCEPT !.op = "load", !.pc = "begin", !.part = 1, !.id = id]
      \/ call.op = "load" /\ call.kind = "chat"
         /\ call' = [call EXCEPT !.op = "chat", !.pc = "begin", !.part = 1,
                                 !.retried = TRUE, !.id = id]
      \/ \E out : /\ call' = [call EXCEPT !.pc = "close", !.out = out]
                  /\ call.kind = "chat" => out # "ok"
                  /\ call.op = "chat" => status # "ok"
  BY <1>0 DEF Returned, ChatReturned, LoadReturned, Request, Over, Goto
<1>3. Call(id) = Call(call.id)
  BY <1>1
<1> HIDE DEF id
<1> QED
  <2>1. CASE /\ call.op = "chat" /\ status = "ok" /\ call.part < Parts
             /\ call' = [call EXCEPT !.pc = "begin", !.part = @ + 1]
    BY <1>0, <2>1 DEF CallType
  <2>2. CASE /\ call.op = "chat" /\ status = "ok" /\ ~(call.part < Parts)
             /\ call' = [call EXCEPT !.pc = "accepted"]
    BY <1>0, <2>2 DEF CallType
  <2>3. CASE /\ call.op = "chat" /\ status # "ok"
             /\ call' = [call EXCEPT !.op = "load", !.pc = "begin", !.part = 1,
                                     !.id = id]
    BY <1>0, <1>3, <2>3 DEF CallType
  <2>4. CASE /\ call.op = "load" /\ call.kind = "chat"
             /\ call' = [call EXCEPT !.op = "chat", !.pc = "begin", !.part = 1,
                                     !.retried = TRUE, !.id = id]
    BY <1>0, <1>3, <2>4 DEF CallType
  <2>5. ASSUME NEW out, call' = [call EXCEPT !.pc = "close", !.out = out],
               call.kind = "chat" => out # "ok", call.op = "chat" => status # "ok"
        PROVE  /\ UNCHANGED <<call.kind, call.got, call.id, call.op>>
               /\ call'.pc = "close" /\ call'.out = out
    BY <2>5 DEF CallType
  <2> QED
    BY <1>2, <2>1, <2>2, <2>3, <2>4, <2>5

\* No end of call k in a queue says that it ran through.
FinishNotOk(frames, k) ==
  \A i \in Of(frames, k) : frames[i].op = "finish" => frames[i].arg # "ok"

\* A frame of the port is taken.
LEMMA PortTaken ==
  ASSUME ShapeInv, ChatInv, call.pc \in {"await", "collect"}, port.queue # <<>>,
         port' = [port EXCEPT !.queue = Tail(@)],
         UNCHANGED <<up, down, daemon, ran, calls>>
  PROVE  /\ port.queue \in Seq(Frames) /\ Head(port.queue) = port.queue[1]
         /\ 1 \in Of(port.queue, Call(call.id)) /\ 1 \in DOMAIN port.queue
         /\ Head(port.queue).id = call.id
         /\ port'.id = port.id /\ port'.queue = Tail(port.queue)
         /\ \A i \in DOMAIN port'.queue :
              /\ i \in Nat /\ i + 1 \in DOMAIN port.queue
              /\ port'.queue[i] = port.queue[i + 1] /\ port'.queue[i].id = call.id
         /\ \A k : Untouched(k) => Untouched(k)'
         /\ \A k : FinishNotOk(port.queue, k) => FinishNotOk(port'.queue, k)
         /\ RunInv'
<1>0. port \in PortType /\ port.queue \in Seq(Frames) /\ port.id = call.id
  BY DEF ShapeInv, PortType, ChatInv, PortInv
<1>1. port'.id = port.id /\ port'.queue = Tail(port.queue)
  BY <1>0 DEF PortType
<1>2. \A i \in DOMAIN port.queue : port.queue[i].id = call.id
  BY <1>0 DEF ChatInv, PortInv
<1>3. /\ Head(port.queue) = port.queue[1] /\ 1 \in DOMAIN port.queue
      /\ \A i \in DOMAIN port'.queue :
           /\ i \in Nat /\ i + 1 \in DOMAIN port.queue
           /\ port'.queue[i] = port.queue[i + 1]
  BY <1>0, <1>1, Taken
<1>4. 1 \in Of(port.queue, Call(call.id))
  BY <1>2, <1>3 DEF Of
<1>5. \A k : Untouched(k) => Untouched(k)'
  <2>1. \A k : Of(port.queue, k) = {} => Of(port'.queue, k) = {}
    BY <1>0, <1>1, OfTaken
  <2> QED
    BY <2>1 DEF Untouched, LoadOf
<1>6. RunInv'
  <2>1. \A i \in DOMAIN port'.queue : IsEvent(port'.queue[i]) =>
          /\ ran'[Call(port'.queue[i].id)] = 1
          /\ port'.queue[i].op = "finish" => ~RunOf(Call(port'.queue[i].id))
    BY <1>3 DEF ChatInv, RunInv
  <2> QED
    BY <2>1 DEF ChatInv, RunInv, RunOf
<1>7. ASSUME NEW k, FinishNotOk(port.queue, k) PROVE FinishNotOk(port'.queue, k)
  <2>1. \A i \in Of(port'.queue, k) :
          i + 1 \in Of(port.queue, k) /\ port'.queue[i] = port.queue[i + 1]
    BY <1>3 DEF Of
  <2> QED
    BY <1>7, <2>1 DEF FinishNotOk
<1> QED
  BY <1>0, <1>1, <1>2, <1>3, <1>4, <1>5, <1>6, <1>7

LEMMA ChatTakeAnswer ==
  ASSUME ShapeInv, ChatInv, TakeAnswer
  PROVE  ChatInv'
<1> DEFINE f == Head(port.queue)
<1>0. /\ UNCHANGED <<up, down, daemon, calls, ran, called, loader>>
      /\ port' = [port EXCEPT !.queue = Tail(@)]
      /\ call.pc = "await" /\ port.queue # <<>> /\ call \in CallType
      /\ call.kind # "none" /\ AskInv /\ call.out = "none" /\ call.got = <<>>
      /\ port.id = call.id
      /\ Call(call.id) \in 1..calls /\ calls \in Nat
      /\ ran[Call(call.id)] \in {0, 1}
  <2>1. call.kind # "none" /\ Call(call.id) \in 1..calls
    BY DEF TakeAnswer, ChatInv, PortInv, NumberInv
  <2>2. calls \in 0..MaxCalls /\ ran \in [1..MaxCalls -> {0, 1}] /\ MaxCalls \in Nat
    BY ComputeAssumption DEF ChatInv, NumberInv
  <2> QED
    BY <2>1, <2>2 DEF TakeAnswer, ShapeInv, ChatInv, PortInv, CollectInv
<1>1. /\ port.queue \in Seq(Frames) /\ f = port.queue[1]
      /\ 1 \in Of(port.queue, Call(call.id)) /\ f.id = call.id
      /\ port'.id = call.id /\ port'.queue = Tail(port.queue)
      /\ \A i \in DOMAIN port'.queue :
           /\ i \in Nat /\ i + 1 \in DOMAIN port.queue
           /\ port'.queue[i] = port.queue[i + 1] /\ port'.queue[i].id = call.id
      /\ \A k : Untouched(k) => Untouched(k)'
      /\ \A k : FinishNotOk(port.queue, k) => FinishNotOk(port'.queue, k)
      /\ RunInv'
  BY <1>0, PortTaken
<1> HIDE DEF f
<1>2. CASE UNCHANGED call
  <2>1. NumberInv'
    BY <1>0, <1>1, <1>2 DEF ChatInv, NumberInv
  <2>2. AskInv' /\ PortInv' /\ CollectInv'
    BY <1>0, <1>1, <1>2 DEF ChatInv, AskInv, PortInv, CollectInv, RunOf
  <2>3. AwaitInv'
    <3> DEFINE k == Call(call.id)
    <3>1. ASSUME ran[k] = 0 PROVE Alone(k)'
      <4>1. Alone(k)
        BY <1>0, <3>1 DEF ChatInv, AwaitInv
      <4>2. /\ Of(port.queue, k) = {} => Of(port'.queue, k) = {}
            /\ Single(Of(port.queue, k)) => Single(Of(port'.queue, k))
        BY <1>0, <1>1, OfTaken
      <4> QED
        BY <1>0, <1>2, <4>1, <4>2 DEF Alone, LoadOf
    <3>2. ASSUME ran[k] # 0
          PROVE  \A i \in Of(port'.queue, k) :
                   port'.queue[i].kind = "response" /\ port'.queue[i].op = "chat"
                     => port'.queue[i].arg = "ok"
      <4>1. \A i \in Of(port'.queue, k) : i + 1 \in Of(port.queue, k)
                                          /\ port'.queue[i] = port.queue[i + 1]
        BY <1>1 DEF Of
      <4> QED
        BY <1>0, <3>2, <4>1 DEF ChatInv, AwaitInv
    <3> QED
      BY <1>0, <1>2, <3>1, <3>2 DEF ChatInv, AwaitInv
  <2>4. CalledInv'
    BY <1>0, <1>1, <1>2 DEF ChatInv, CalledInv, RunOf, FinishNotOk
  <2> QED
    BY <1>1, <2>1, <2>2, <2>3, <2>4 DEF ChatInv
<1>3. CASE f.kind = "response" /\ f.op = call.op /\ Returned(f.arg)
  <2>1. /\ UNCHANGED <<call.kind, call.got>> /\ Call(call'.id) = Call(call.id)
        /\ \/ /\ call'.pc = "begin" /\ UNCHANGED call.out
              /\ call.kind = "chat" /\ call'.op \in {"chat", "load"}
           \/ /\ call'.pc = "accepted" /\ UNCHANGED <<call.out, call.id, call.op>>
           \/ /\ call'.pc = "close" /\ UNCHANGED <<call.id, call.op>>
              /\ call.kind = "chat" => call'.out # "ok"
        /\ call.op = "chat" /\ call.part = Parts /\ f.arg = "ok"
             => call'.pc = "accepted"
    BY <1>0, <1>3, ReturnedTo
  <2>2. call'.pc = "begin" => Untouched(Call(call.id))' /\ port'.queue = <<>>
    <3> SUFFICES ASSUME call'.pc = "begin"
                 PROVE  Untouched(Call(call.id))' /\ port'.queue = <<>>
      OBVIOUS
    <3>1. PICK k : k = Call(call.id)
      OBVIOUS
    <3>2. ran[k] = 0
      <4>1. CASE ran[k] # 0
        <5>1. call.op = "chat" /\ call.part = Parts /\ f.arg = "ok"
          BY <1>0, <1>1, <1>3, <3>1, <4>1 DEF ChatInv, AwaitInv
        <5> QED
          BY <2>1, <5>1
      <4> QED
        BY <4>1
    <3>3. Alone(k)
      BY <1>0, <3>1, <3>2 DEF ChatInv, AwaitInv
    <3>4. Of(up, k) = {} /\ Of(down, k) = {} /\ ~LoadOf(k)
      BY <1>1, <3>1, <3>3 DEF Alone
    <3>5. Of(port'.queue, k) = {}
      BY <1>0, <1>1, <3>1, <3>3, OfTaken DEF Alone
    <3>6. Untouched(k)'
      BY <1>0, <3>2, <3>4, <3>5 DEF Untouched, LoadOf
    <3>7. port'.queue = <<>>
      <4>1. DOMAIN port'.queue = {}
        BY <1>1, <3>1, <3>5 DEF Of
      <4>2. port'.queue \in Seq(Frames)
        BY <1>0, <1>1, Taken
      <4> QED
        BY <4>1, <4>2, Taken
    <3>8. k = Call(call'.id)
      BY <2>1, <3>1
    <3> QED
      BY <3>6, <3>7, <3>8
  <2>3. NumberInv'
    BY <1>0, <1>1, <2>1 DEF ChatInv, NumberInv
  <2>4. AskInv'
    <3>1. call'.kind = call.kind
      BY <2>1
    <3> QED
      BY <1>0, <2>1, <3>1 DEF AskInv
  <2>5. PortInv'
    <3>1. \A i \in DOMAIN port'.queue : port'.queue[i].id = port'.id
      BY <1>1
    <3> QED
      BY <1>0, <1>1, <2>1, <2>2, <3>1 DEF PortInv
  <2>6. AwaitInv'
    BY <2>1 DEF AwaitInv
  <2>7. CollectInv'
    <3>1. call'.got = <<>> /\ call'.kind = call.kind
      BY <1>0, <2>1
    <3> QED
      BY <1>0, <2>1, <3>1 DEF CollectInv
  <2>8. CalledInv'
    <3>1. call.kind = "chat" => call'.out # "ok"
      BY <1>0, <2>1
    <3> QED
      BY <1>0, <1>1, <2>1, <3>1 DEF ChatInv, CalledInv, RunOf, FinishNotOk
  <2> QED
    BY <1>1, <2>3, <2>4, <2>5, <2>6, <2>7, <2>8 DEF ChatInv
<1> QED
  BY <1>2, <1>3 DEF TakeAnswer, f

\* A frame of the answer is collected.
LEMMA ChatTake ==
  ASSUME ShapeInv, ChatInv, Take
  PROVE  ChatInv'
<1> DEFINE f == Head(port.queue)
           k == Call(call.id)
<1>0. /\ UNCHANGED <<up, down, daemon, calls, ran, called, loader>>
      /\ port' = [port EXCEPT !.queue = Tail(@)]
      /\ call.pc = "collect" /\ port.queue # <<>> /\ call \in CallType
      /\ call.kind # "none" /\ call.out = "none"
      /\ port.id = call.id /\ call.got \in Seq(Ids \X Args)
  BY DEF Take, ChatInv, PortInv, CollectInv, ShapeInv, CallType
<1>1. /\ port.queue \in Seq(Frames) /\ f = port.queue[1]
      /\ 1 \in Of(port.queue, k) /\ 1 \in DOMAIN port.queue /\ f.id = call.id
      /\ port'.id = call.id /\ port'.queue = Tail(port.queue)
      /\ \A i \in DOMAIN port'.queue :
           /\ i \in Nat /\ i + 1 \in DOMAIN port.queue
           /\ port'.queue[i] = port.queue[i + 1] /\ port'.queue[i].id = call.id
      /\ \A j : Untouched(j) => Untouched(j)'
      /\ \A j : FinishNotOk(port.queue, j) => FinishNotOk(port'.queue, j)
      /\ RunInv'
  BY <1>0, PortTaken
<1>2. Collected(f)
  BY DEF Take
<1>a. f.arg \in Args
  BY <1>0, <1>1, Taken DEF Frames
<1>3. f.op = "finish" => /\ ran[k] = 1 /\ ~RunOf(k)
                         /\ called => f.arg # "ok"
  BY <1>1 DEF ChatInv, RunInv, IsEvent, CalledInv
<1> HIDE DEF f
<1>4. /\ UNCHANGED <<call.kind, call.id, call.op, call.part>>
      /\ \/ /\ f.arg = Len(call.got) + 1 /\ call'.got = Append(call.got, <<f.id, f.arg>>)
            /\ UNCHANGED <<call.pc, call.out>>
         \/ call'.pc = "close" /\ UNCHANGED call.got /\ call'.out # "ok"
         \/ /\ call'.pc = "close" /\ UNCHANGED call.got /\ f.op = "finish"
            /\ Len(call.got) = Pieces /\ f.arg = "ok"
         \/ UNCHANGED <<call.pc, call.out, call.got>>
  <2>1. CASE f.op = "result" /\ Follows(f.arg)
    BY <1>0, <1>2, <2>1 DEF Collected, Follows, CallType
  <2>2. CASE f.op = "result" /\ ~Follows(f.arg)
    BY <1>0, <1>2, <2>2 DEF Collected, Over, CallType
  <2>3. CASE f.op = "finish"
    <3>1. call' = [call EXCEPT !.pc = "close", !.out = Finished(f.arg)]
      BY <1>2, <2>3 DEF Collected, Over
    <3>2. Finished(f.arg) = "ok" => f.arg = "ok" /\ Len(call.got) = Pieces
      BY DEF Finished
    <3>3. /\ UNCHANGED <<call.kind, call.id, call.op, call.part, call.got>>
          /\ call'.pc = "close" /\ call'.out = Finished(f.arg)
      BY <1>0, <3>1 DEF CallType
    <3> QED
      BY <2>3, <3>2, <3>3
  <2>4. CASE f.op \notin {"result", "finish"}
    BY <1>2, <2>4 DEF Collected
  <2> QED
    BY <2>1, <2>2, <2>3, <2>4
<1>5. call'.pc \in {"collect", "close"} /\ call'.kind # "none"
  BY <1>0, <1>4
<1>6. NumberInv'
  BY <1>0, <1>1, <1>4 DEF ChatInv, NumberInv
<1>7. AskInv' /\ PortInv' /\ AwaitInv'
  BY <1>0, <1>1, <1>4, <1>5 DEF ChatInv, AskInv, PortInv, AwaitInv
<1>8. CollectInv'
  <2>1. call'.got = [i \in 1..Len(call'.got) |-> <<call'.id, i>>]
    <3>1. CASE call'.got = call.got
      BY <1>4, <3>1 DEF ChatInv, CollectInv
    <3>2. CASE f.arg = Len(call.got) + 1 /\ call'.got = Append(call.got, <<f.id, f.arg>>)
      <4> DEFINE n == Len(call.got)
      <4>1. n \in Nat /\ call.got = [i \in 1..n |-> <<call.id, i>>]
        BY <1>0 DEF ChatInv, CollectInv
      <4>2. f.arg = n + 1 /\ f.id = call.id
        BY <1>1, <3>2
      <4>3. <<f.id, f.arg>> \in Ids \X Args
        BY <1>0, <1>a, <4>2 DEF CallType
      <4>4. Len(call'.got) = n + 1 /\ DOMAIN call'.got = 1..(n + 1)
            /\ call'.got \in Seq(Ids \X Args)
            /\ \A i \in 1..(n + 1) :
                 call'.got[i] = IF i = n + 1 THEN <<f.id, f.arg>> ELSE call.got[i]
        BY <1>0, <3>2, <4>3
      <4>5. ASSUME NEW i \in 1..(n + 1) PROVE call'.got[i] = <<call.id, i>>
        <5>1. CASE i = n + 1
          BY <4>2, <4>4, <5>1
        <5>2. CASE i # n + 1
          <6>1. i \in 1..n
            BY <4>1, <5>2
          <6> QED
            BY <4>1, <4>4, <5>2, <6>1
        <5> QED
          BY <5>1, <5>2
      <4>6. call'.got = [i \in DOMAIN call'.got |-> call'.got[i]]
        <5>1. call'.got \in [1..Len(call'.got) -> Ids \X Args]
          BY <4>4
        <5> QED
          BY <5>1
      <4>7. call'.got = [i \in 1..(n + 1) |-> <<call.id, i>>]
        BY <4>4, <4>5, <4>6
      <4> QED
        BY <1>4, <4>4, <4>7
    <3> QED
      BY <1>4, <3>1, <3>2
  <2>2. call'.kind = "chat" /\ call'.out = "ok" =>
          Len(call'.got) = Pieces /\ ran[k] = 1 /\ ~RunOf(k)
    BY <1>0, <1>3, <1>4
  <2>3. ~RunOf(k) => ~RunOf(k)'
    BY <1>0, <1>4 DEF RunOf
  <2> QED
    BY <1>0, <1>4, <1>5, <2>1, <2>2, <2>3 DEF CollectInv
<1>9. CalledInv'
  <2>1. called /\ call.kind = "chat" => call'.out # "ok"
    BY <1>0, <1>3, <1>4
  <2> QED
    BY <1>0, <1>1, <1>4, <2>1 DEF ChatInv, CalledInv, RunOf, FinishNotOk
<1> QED
  BY <1>1, <1>6, <1>7, <1>8, <1>9 DEF ChatInv

\* The cancel is forwarded, or time passes.
LEMMA ChatForward ==
  ASSUME ShapeInv, ChatInv, Tell \/ Expire
  PROVE  ChatInv'
<1> DEFINE f == Frame("request", "cancel", call.id, None)
           k == Call(call.id)
<1>0. /\ UNCHANGED <<down, port, daemon, ran, calls, loader, called>>
      /\ call.pc = "collect" /\ call \in CallType /\ up \in Seq(Frames)
      /\ call.kind # "none" /\ call.out = "none" /\ port.id = call.id
      /\ k \in 1..calls /\ calls \in Nat
  <2>1. call.kind # "none"
    BY DEF Tell, Expire, ChatInv, PortInv
  <2> QED
    BY <2>1 DEF Tell, Expire, ChatInv, NumberInv, PortInv, CollectInv, ShapeInv, history
<1>1. f \in Frames /\ f.op = "cancel" /\ f.id = call.id
  <2>1. call.id \in Ids /\ "request" \in Kinds /\ "cancel" \in Ops /\ None \in Args
    BY <1>0 DEF CallType, Kinds, Ops, Args, Names
  <2> QED
    BY <2>1, FrameIs
<1>2. /\ UNCHANGED <<call.kind, call.id, call.op, call.part, call.got>>
      /\ \/ call'.pc = "collect" /\ call'.out = "none"
         \/ call'.pc = "close" /\ call'.out = "timeout"
  <2>1. CASE Tell
    BY <1>0, <2>1 DEF Tell, CallType
  <2>2. CASE Expire
    BY <1>0, <2>2 DEF Expire, Over, CallType
  <2> QED
    BY <2>1, <2>2
<1>3. up' = up \/ up' = Append(up, f)
  BY DEF Tell, Expire, Forward
<1> HIDE DEF f
<1>4. /\ \A i \in DOMAIN up' : \/ i \in DOMAIN up /\ up'[i] = up[i]
                               \/ up'[i] = f
      /\ \A j : j # k => Of(up', j) = Of(up, j)
  <2>1. CASE up' = up
    BY <2>1
  <2>2. CASE up' = Append(up, f)
    <3>1. \A j : j # k => Of(up', j) = Of(up, j)
      BY <1>0, <1>1, <2>2, OfAdded
    <3> QED
      BY <1>0, <1>1, <2>2, <3>1, Added
  <2> QED
    BY <1>3, <2>1, <2>2
<1>5. \A j : j # k /\ Untouched(j) => Untouched(j)'
  BY <1>0, <1>4 DEF Untouched, LoadOf
<1>6. NumberInv'
  <2>1. loader.pc \in {"pending", "start"} => loader.k # k /\ Untouched(loader.k)'
    BY <1>0, <1>5 DEF ChatInv, NumberInv
  <2> QED
    BY <1>0, <1>1, <1>2, <1>4, <2>1 DEF ChatInv, NumberInv
<1>7. AskInv' /\ PortInv' /\ AwaitInv'
  BY <1>0, <1>1, <1>2, <1>4 DEF ChatInv, AskInv, PortInv, AwaitInv
<1>8. RunInv'
  <2>1. ASSUME NEW i \in DOMAIN up', up'[i].op = "chat"
        PROVE  /\ ran'[Call(up'[i].id)] = 0
               /\ \A j \in Of(up', Call(up'[i].id)) : up'[j].op = "chat" => j = i
    <3>1. i \in DOMAIN up /\ up'[i] = up[i]
      BY <1>1, <1>4, <2>1
    <3>2. ASSUME NEW j \in Of(up', Call(up'[i].id)), up'[j].op = "chat"
          PROVE  j \in Of(up, Call(up[i].id)) /\ up[j].op = "chat"
      BY <1>1, <1>4, <3>1, <3>2 DEF Of
    <3> QED
      BY <1>0, <2>1, <3>1, <3>2 DEF ChatInv, RunInv
  <2> QED
    BY <1>0, <2>1 DEF ChatInv, RunInv, RunOf
<1>9. CollectInv' /\ CalledInv'
  BY <1>0, <1>2 DEF ChatInv, CollectInv, CalledInv, RunOf
<1> QED
  BY <1>6, <1>7, <1>8, <1>9 DEF ChatInv

\* No answer to a chat request of call k says anything but that it went well.
ChatAnswersOk(frames, k) ==
  \A i \in Of(frames, k) :
    frames[i].kind = "response" /\ frames[i].op = "chat" => frames[i].arg = "ok"

LEMMA FactsTaken ==
  ASSUME NEW q \in Seq(Frames), q # <<>>, NEW k
  PROVE  /\ FinishNotOk(q, k) => FinishNotOk(Tail(q), k)
         /\ ChatAnswersOk(q, k) => ChatAnswersOk(Tail(q), k)
<1>1. \A i \in Of(Tail(q), k) : i + 1 \in Of(q, k) /\ Tail(q)[i] = q[i + 1]
  BY Taken DEF Of
<1> QED
  BY <1>1 DEF FinishNotOk, ChatAnswersOk

LEMMA FactsAdded ==
  ASSUME NEW q \in Seq(Frames), NEW f \in Frames, NEW k
  PROVE  /\ FinishNotOk(q, k) /\ (Call(f.id) = k /\ f.op = "finish" => f.arg # "ok")
              => FinishNotOk(Append(q, f), k)
         /\ ChatAnswersOk(q, k)
              /\ (Call(f.id) = k /\ f.kind = "response" /\ f.op = "chat" => f.arg = "ok")
              => ChatAnswersOk(Append(q, f), k)
<1>1. \A i \in Of(Append(q, f), k) :
        \/ i \in Of(q, k) /\ Append(q, f)[i] = q[i]
        \/ Append(q, f)[i] = f /\ Call(f.id) = k
  BY Added DEF Of
<1> QED
  BY <1>1 DEF FinishNotOk, ChatAnswersOk

\* A frame arrives: it goes from one queue to the other, or is dropped.
LEMMA ChatReceive ==
  ASSUME ShapeInv, ChatInv, Receive
  PROVE  ChatInv'
<1> DEFINE f == Head(down)
<1>0. /\ UNCHANGED <<loader, call, up, daemon, calls, ran, called>>
      /\ down \in Seq(Frames) /\ down # <<>> /\ down' = Tail(down)
      /\ port \in PortType /\ port.queue \in Seq(Frames) /\ calls \in Nat
  BY DEF Receive, ShapeInv, PortType, history
<1>1. /\ f \in Frames /\ f = down[1] /\ 1 \in DOMAIN down
      /\ 1 \in Of(down, Call(f.id))
      /\ IF f.op = "ready" THEN f.id = NoId ELSE Call(f.id) \in 1..calls
  <2>1. f \in Frames /\ f = down[1] /\ 1 \in DOMAIN down
    BY <1>0, Taken
  <2> QED
    BY <2>1 DEF Of, ChatInv, NumberInv
<1>2. \/ port' = port
      \/ /\ port' = [port EXCEPT !.queue = Append(@, f)]
         /\ f.op # "ready" /\ port.id = f.id
  BY DEF Receive, Delivered
<1> HIDE DEF f
<1>3. \/ port' = port
      \/ /\ port'.queue = Append(port.queue, f) /\ port'.id = port.id
         /\ f.op # "ready" /\ port.id = f.id
  BY <1>0, <1>2 DEF PortType
<1>4. /\ \A i \in DOMAIN down' :
           i \in Nat /\ i + 1 \in DOMAIN down /\ down'[i] = down[i + 1]
      /\ \A i \in DOMAIN port'.queue :
           \/ i \in DOMAIN port.queue /\ port'.queue[i] = port.queue[i]
           \/ port'.queue[i] = f /\ f.op # "ready" /\ port'.id = f.id
  BY <1>0, <1>1, <1>3, Taken, Added
<1>5. \A k : /\ Of(down, k) = {} => Of(down', k) = {}
             /\ Single(Of(down, k)) => Single(Of(down', k))
             /\ Call(f.id) = k /\ Single(Of(down, k)) => Of(down', k) = {}
  BY <1>0, <1>1, OfTaken
<1>6. \A k : \/ Of(port'.queue, k) = Of(port.queue, k)
             \/ /\ Call(f.id) = k
                /\ Of(port'.queue, k) = Of(port.queue, k) \cup {Len(port.queue) + 1}
  <2>1. CASE port' = port
    BY <2>1
  <2>2. CASE port'.queue = Append(port.queue, f)
    <3> SUFFICES ASSUME NEW k
                 PROVE  Of(port'.queue, k) = IF Call(f.id) = k
                          THEN Of(port.queue, k) \cup {Len(port.queue) + 1}
                          ELSE Of(port.queue, k)
      OBVIOUS
    <3>1. port.queue \in Seq(Frames) /\ f \in Frames
      BY <1>0, <1>1
    <3>2. Of(Append(port.queue, f), k) = IF Call(f.id) = k
            THEN Of(port.queue, k) \cup {Len(port.queue) + 1} ELSE Of(port.queue, k)
      BY <3>1, OfAdded
    <3> QED
      BY <2>2, <3>2
  <2> QED
    BY <1>3, <2>1, <2>2
<1>7. \A k : Untouched(k) => Untouched(k)'
  <2> SUFFICES ASSUME NEW k, Untouched(k) PROVE Untouched(k)'
    OBVIOUS
  <2>1. Call(f.id) # k
    BY <1>1 DEF Untouched
  <2> QED
    BY <1>0, <1>5, <1>6, <2>1 DEF Untouched, LoadOf
<1>8. NumberInv' /\ AskInv'
  BY <1>0, <1>4, <1>7 DEF ChatInv, NumberInv, AskInv
<1>9. PortInv'
  <2>1. call.pc \in {"idle", "settle", "begin", "send"} => port' = port
    <3> SUFFICES ASSUME call.pc \in {"idle", "settle", "begin", "send"},
                        f.op # "ready", port.id = f.id
                 PROVE  FALSE
      BY <1>3
    <3>1. Call(f.id) # 0
      BY <1>0, <1>1
    <3>2. port.id # NoId
      BY <3>1 DEF NoId, Call
    <3>3. Call(f.id) = Call(call.id) /\ Untouched(Call(call.id))
      BY <3>2 DEF ChatInv, PortInv, NoPort
    <3> QED
      BY <1>1, <3>3 DEF Untouched
  <2>2. \A i \in DOMAIN port'.queue : port'.queue[i].id = port'.id
    BY <1>3, <1>4 DEF ChatInv, PortInv
  <2>3. call'.pc \in {"begin", "send"} => Untouched(Call(call.id))'
    BY <1>0, <1>7 DEF ChatInv, PortInv
  <2> QED
    BY <1>0, <1>3, <2>1, <2>2, <2>3 DEF ChatInv, PortInv
<1>10. AwaitInv'
  <2> SUFFICES ASSUME call.pc = "await" PROVE AwaitInv'
    BY <1>0 DEF AwaitInv
  <2>1. PICK k : k = Call(call.id)
    OBVIOUS
  <2>2. ASSUME ran[k] = 0 PROVE Alone(k)'
    <3>1. Alone(k)
      BY <2>1, <2>2 DEF ChatInv, AwaitInv
    <3>2. CASE Call(f.id) = k
      <4>1. /\ Of(up, k) = {} /\ Of(port.queue, k) = {} /\ ~LoadOf(k)
            /\ Of(down', k) = {}
        BY <1>1, <1>5, <3>1, <3>2 DEF Alone
      <4>2. Single(Of(port'.queue, k)) /\ Single({})
        BY <1>6, <4>1 DEF Single
      <4> QED
        BY <1>0, <4>1, <4>2 DEF Alone, LoadOf
    <3>3. CASE Call(f.id) # k
      BY <1>0, <1>5, <1>6, <3>1, <3>3 DEF Alone, LoadOf
    <3> QED
      BY <3>2, <3>3
  <2>3. ASSUME ran[k] # 0 PROVE ChatAnswersOk(down', k) /\ ChatAnswersOk(port'.queue, k)
    <3>1. ChatAnswersOk(down, k) /\ ChatAnswersOk(port.queue, k)
      BY <2>1, <2>3 DEF ChatInv, AwaitInv, ChatAnswersOk
    <3>2. Call(f.id) = k /\ f.kind = "response" /\ f.op = "chat" => f.arg = "ok"
      BY <1>1, <3>1 DEF ChatAnswersOk
    <3> QED
      BY <1>0, <1>1, <1>3, <3>1, <3>2, FactsTaken, FactsAdded
  <2>4. call' = call /\ up' = up /\ ran' = ran /\ k = Call(call'.id)
    BY <1>0, <2>1
  <2> QED
    BY <2>1, <2>2, <2>3, <2>4 DEF ChatInv, AwaitInv, ChatAnswersOk
<1>11. RunInv'
  <2>1. ASSUME NEW i \in DOMAIN port'.queue, IsEvent(port'.queue[i])
        PROVE  /\ ran[Call(port'.queue[i].id)] = 1
               /\ port'.queue[i].op = "finish" => ~RunOf(Call(port'.queue[i].id))
    BY <1>1, <1>4, <2>1 DEF ChatInv, RunInv
  <2>2. ASSUME NEW i \in DOMAIN down', IsEvent(down'[i])
        PROVE  /\ ran[Call(down'[i].id)] = 1
               /\ down'[i].op = "finish" => ~RunOf(Call(down'[i].id))
    BY <1>4, <2>2 DEF ChatInv, RunInv
  <2> QED
    BY <1>0, <2>1, <2>2 DEF ChatInv, RunInv, RunOf
<1>12. CollectInv'
  BY <1>0 DEF ChatInv, CollectInv, RunOf
<1>13. CalledInv'
  <2> SUFFICES ASSUME called PROVE CalledInv'
    BY <1>0 DEF CalledInv
  <2>1. PICK k : k = Call(call.id)
    OBVIOUS
  <2>2. FinishNotOk(down, k) /\ FinishNotOk(port.queue, k)
    BY <2>1 DEF ChatInv, CalledInv, FinishNotOk
  <2>3. Call(f.id) = k /\ f.op = "finish" => f.arg # "ok"
    BY <1>1, <2>2 DEF FinishNotOk
  <2>4. FinishNotOk(down', k) /\ FinishNotOk(port'.queue, k)
    BY <1>0, <1>1, <1>3, <2>2, <2>3, FactsTaken, FactsAdded
  <2> QED
    BY <1>0, <2>1, <2>4 DEF ChatInv, CalledInv, RunOf, FinishNotOk
<1> QED
  BY <1>8, <1>9, <1>10, <1>11, <1>12, <1>13 DEF ChatInv

(***************************************************************************)
(* The daemon                                                              *)
(***************************************************************************)
\* What the client has does not depend on what the daemon does for others.
LEMMA Served ==
  ASSUME ShapeInv, ChatInv, UNCHANGED <<call, port, loader, calls>>,
         \A k \in 1..calls : Untouched(k) => Untouched(k)',
         ran' \in [1..MaxCalls -> {0, 1}],
         \A k \in (calls + 1)..MaxCalls : ran'[k] = 0,
         \A i \in DOMAIN up' : \E j \in DOMAIN up : up'[i] = up[j],
         \A i \in DOMAIN down' : IF down'[i].op = "ready" THEN down'[i].id = NoId
                                 ELSE Call(down'[i].id) \in 1..calls,
         daemon'.load.pc # "idle" => Call(daemon'.load.id) \in 1..calls
  PROVE  NumberInv' /\ AskInv' /\ PortInv'
<1>1. NumberInv'
  <2>1. loader'.pc \in {"pending", "start"} => Untouched(loader.k)'
    BY DEF ChatInv, NumberInv
  <2>2. \A i \in DOMAIN up' : Call(up'[i].id) \in 1..calls
    BY DEF ChatInv, NumberInv
  <2> QED
    BY <2>1, <2>2 DEF ChatInv, NumberInv
<1>2. AskInv'
  BY DEF ChatInv, AskInv
<1>3. PortInv'
  <2>1. call'.pc \in {"begin", "send"} => Untouched(Call(call.id))'
    BY DEF ChatInv, NumberInv, PortInv
  <2> QED
    BY <2>1 DEF ChatInv, PortInv
<1> QED
  BY <1>1, <1>2, <1>3

\* A frame is served: it is answered, or begins a load or the run of a call that
\* had none.
LEMMA ChatDispatch ==
  ASSUME ShapeInv, ChatInv, Dispatch
  PROVE  ChatInv'
<1> DEFINE f == Head(up)
           n == Call(f.id)
<1>0. /\ UNCHANGED <<call, port, loader, calls>>
      /\ up \in Seq(Frames) /\ up # <<>> /\ up' = Tail(up)
      /\ down \in Seq(Frames) /\ daemon \in DaemonType
      /\ calls \in 0..MaxCalls /\ MaxCalls \in Nat
      /\ ran \in [1..MaxCalls -> {0, 1}] /\ \A k \in (calls + 1)..MaxCalls : ran[k] = 0
  BY ComputeAssumption DEF Dispatch, ShapeInv, ChatInv, NumberInv, client
<1>1. /\ f \in Frames /\ f = up[1] /\ 1 \in DOMAIN up /\ 1 \in Of(up, n)
      /\ n \in 1..calls /\ f.op \in {"load", "unload", "chat", "cancel"}
      /\ \A i \in DOMAIN up' :
           i \in Nat /\ i + 1 # 1 /\ i + 1 \in DOMAIN up /\ up'[i] = up[i + 1]
  <2>1. /\ f \in Frames /\ f = up[1] /\ 1 \in DOMAIN up
        /\ \A i \in DOMAIN up' :
             i \in Nat /\ i + 1 # 1 /\ i + 1 \in DOMAIN up /\ up'[i] = up[i + 1]
    BY <1>0, Taken
  <2> QED
    BY <2>1 DEF Of, ChatInv, NumberInv, AskInv
<1>2. \A k : /\ Of(up, k) = {} => Of(up', k) = {}
             /\ Single(Of(up, k)) => Single(Of(up', k))
             /\ n = k /\ Single(Of(up, k)) => Of(up', k) = {}
  BY <1>0, <1>1, OfTaken
<1>a. n = Call(f.id)
  OBVIOUS
<1> DEFINE r(status) == Frame("response", f.op, f.id, status)
           Replies(status) == down' = Append(down, r(status))
           Keeps == daemon'.load = daemon.load /\ ran' = ran
           Stays == daemon'.run = daemon.run /\ daemon'.active = daemon.active
           Told == /\ f.op = "cancel" /\ daemon.active = f.id /\ daemon'.cancel
                   /\ called' = (called \/ (f.id = call.id
                                    /\ daemon.run.pc \in {"start", "run"}))
           Quiet == daemon'.cancel = daemon.cancel /\ called' = called
           Starts == /\ f.op = "load" /\ daemon.load.pc = "idle" /\ Stays /\ Quiet
                     /\ daemon'.load.pc = "work" /\ daemon'.load.id = f.id
                     /\ down' = down /\ ran' = ran
           Runs == /\ f.op = "chat" /\ ~(f.arg < Parts) /\ daemon.run.pc = "idle"
                   /\ daemon'.run.pc = "start" /\ daemon'.run.id = f.id
                   /\ daemon'.active = f.id /\ daemon'.load = daemon.load
                   /\ Replies("ok") /\ called' = called
                   /\ ran' = [ran EXCEPT ![n] = @ + 1]
<1>3. \/ (\E status \in Words : Replies(status)) /\ Keeps /\ Stays /\ (Told \/ Quiet)
      \/ Starts
      \/ Runs
  <2>1. CASE f.op = "load"
    <3>1. BeginLoad(f) /\ UNCHANGED <<ran, called>>
      BY <2>1 DEF Dispatch
    <3>2. \/ \E status \in {"busy", "ok"} : Reply(f, status) /\ UNCHANGED daemon
          \/ /\ daemon.load.pc = "idle" /\ UNCHANGED down
             /\ daemon' = [daemon EXCEPT !.load = [NoLoad EXCEPT
                             !.pc = "work", !.id = f.id, !.name = f.arg]]
      BY <3>1 DEF BeginLoad
    <3>3. CASE \E status \in {"busy", "ok"} : Reply(f, status) /\ UNCHANGED daemon
      BY <3>1, <3>3 DEF Reply, Words
    <3>4. CASE /\ daemon.load.pc = "idle" /\ UNCHANGED down
               /\ daemon' = [daemon EXCEPT !.load = [NoLoad EXCEPT
                               !.pc = "work", !.id = f.id, !.name = f.arg]]
      BY <1>0, <2>1, <3>1, <3>4 DEF DaemonType, NoLoad
    <3> QED
      BY <3>2, <3>3, <3>4
  <2>2. CASE f.op = "unload"
    <3>1. DaemonUnload(f) /\ UNCHANGED <<ran, called>>
      BY <2>2 DEF Dispatch
    <3>2. /\ \E status \in {"busy", "invalid", "ok"} : Reply(f, status)
          /\ daemon' = daemon \/ daemon' = [daemon EXCEPT !.loaded = None]
      BY <3>1 DEF DaemonUnload
    <3> QED
      BY <1>0, <3>1, <3>2 DEF Reply, Words, DaemonType
  <2>3. CASE f.op = "chat"
    <3>1. BeginChat(f) /\ UNCHANGED called
      BY <2>3 DEF Dispatch
    <3>2. \/ /\ \E status \in {"busy", "not_ready", "invalid", "ok"} : Reply(f, status)
             /\ ran' = ran
             /\ \/ daemon' = daemon
                \/ daemon' = [daemon EXCEPT !.body = <<>>]
                \/ daemon' = [daemon EXCEPT !.body = Append(@, f.id)]
          \/ /\ ~(f.arg < Parts) /\ daemon.run.pc = "idle" /\ Reply(f, "ok")
             /\ daemon' = [daemon EXCEPT !.body = BodyTaken(@), !.cancel = FALSE,
                             !.running = TRUE, !.active = f.id,
                             !.run = [pc |-> "start", id |-> f.id, status |-> "none"]]
             /\ ran' = [ran EXCEPT ![n] = @ + 1]
      BY <3>1 DEF BeginChat
    <3>3. CASE /\ \E status \in {"busy", "not_ready", "invalid", "ok"} : Reply(f, status)
               /\ ran' = ran
               /\ \/ daemon' = daemon
                  \/ daemon' = [daemon EXCEPT !.body = <<>>]
                  \/ daemon' = [daemon EXCEPT !.body = Append(@, f.id)]
      <4>1. Stays /\ daemon'.load = daemon.load /\ daemon'.cancel = daemon.cancel
        BY <1>0, <3>3 DEF DaemonType
      <4> QED
        BY <3>1, <3>3, <4>1 DEF Reply, Words
    <3>4. CASE /\ ~(f.arg < Parts) /\ daemon.run.pc = "idle" /\ Reply(f, "ok")
               /\ daemon' = [daemon EXCEPT !.body = BodyTaken(@), !.cancel = FALSE,
                               !.running = TRUE, !.active = f.id,
                               !.run = [pc |-> "start", id |-> f.id,
                                        status |-> "none"]]
               /\ ran' = [ran EXCEPT ![n] = @ + 1]
      <4>1. /\ daemon'.run.pc = "start" /\ daemon'.run.id = f.id
            /\ daemon'.active = f.id /\ daemon'.load = daemon.load
        BY <1>0, <3>4 DEF DaemonType
      <4> QED
        BY <2>3, <3>1, <3>4, <4>1 DEF Reply
    <3> QED
      BY <3>2, <3>3, <3>4
  <2>4. CASE f.op = "cancel"
    <3>1. DaemonCancel(f) /\ UNCHANGED ran
      BY <2>4 DEF Dispatch
    <3>2. \/ Reply(f, "invalid") /\ daemon' = daemon /\ called' = called
          \/ /\ Reply(f, "ok") /\ daemon.active = f.id
             /\ daemon' = [daemon EXCEPT !.cancel = TRUE]
             /\ called' = (called \/ (f.id = call.id
                              /\ daemon.run.pc \in {"start", "run"}))
      BY <3>1 DEF DaemonCancel
    <3>3. CASE Reply(f, "invalid") /\ daemon' = daemon /\ called' = called
      BY <3>1, <3>3 DEF Reply, Words
    <3>4. CASE /\ Reply(f, "ok") /\ daemon.active = f.id
               /\ daemon' = [daemon EXCEPT !.cancel = TRUE]
               /\ called' = (called \/ (f.id = call.id
                                /\ daemon.run.pc \in {"start", "run"}))
      <4>1. Stays /\ daemon'.load = daemon.load /\ daemon'.cancel
        BY <1>0, <3>4 DEF DaemonType
      <4> QED
        BY <2>4, <3>1, <3>4, <4>1 DEF Reply, Words
    <3> QED
      BY <3>2, <3>3, <3>4
  <2>5. f.op = "load" \/ f.op = "unload" \/ f.op = "chat" \/ f.op = "cancel"
    BY <1>1
  <2> QED
    BY <2>1, <2>2, <2>3, <2>4, <2>5

<1>4. \A status \in Words :
        /\ r(status) \in Frames /\ r(status).kind = "response"
        /\ r(status).op = f.op /\ r(status).id = f.id /\ r(status).arg = status
  <2>1. f.op \in Ops /\ f.id \in Ids /\ "response" \in Kinds /\ Words \subseteq Args
    BY <1>1 DEF Frames, Kinds, Args
  <2> QED
    BY <2>1, FrameIs
<1> HIDE DEF r, f, n
<1>5. down' = down \/ \E status \in Words : Replies(status)
  BY <1>3 DEF Words
<1>6. /\ \A k : k # n => Of(down', k) = Of(down, k)
      /\ \A k : Of(down, k) = {} => Single(Of(down', k))
      /\ \A i \in DOMAIN down' :
           \/ i \in DOMAIN down /\ down'[i] = down[i]
           \/ down'[i].id = f.id /\ down'[i].op = f.op /\ down'[i].kind = "response"
      /\ \A k : FinishNotOk(down, k) => FinishNotOk(down', k)
  <2>1. CASE down' = down
    BY <2>1 DEF Single
  <2>2. ASSUME NEW status \in Words, Replies(status)
        PROVE  /\ \A k : k # n => Of(down', k) = Of(down, k)
               /\ \A k : Of(down, k) = {} => Single(Of(down', k))
               /\ \A i \in DOMAIN down' :
                    \/ i \in DOMAIN down /\ down'[i] = down[i]
                    \/ /\ down'[i].id = f.id /\ down'[i].op = f.op
                       /\ down'[i].kind = "response"
               /\ \A k : FinishNotOk(down, k) => FinishNotOk(down', k)
    <3>1. /\ r(status) \in Frames /\ r(status).kind = "response"
          /\ r(status).op = f.op /\ r(status).id = f.id
      BY <1>4, <2>2
    <3>2. \A k : Of(down', k) = IF n = k THEN Of(down, k) \cup {Len(down) + 1}
                                ELSE Of(down, k)
      BY <1>0, <1>a, <2>2, <3>1, OfAdded
    <3>3. \A k : FinishNotOk(down, k) => FinishNotOk(down', k)
      BY <1>0, <1>1, <2>2, <3>1, FactsAdded
    <3>4. \A i \in DOMAIN down' :
            \/ i \in DOMAIN down /\ down'[i] = down[i]
            \/ down'[i] = r(status)
      BY <1>0, <2>2, <3>1, Added
    <3>5. \A k : Of(down, k) = {} => Single(Of(down', k))
      BY <3>2 DEF Single
    <3> QED
      BY <3>1, <3>2, <3>3, <3>4, <3>5
  <2> QED
    BY <1>5, <2>1, <2>2
<1>7. /\ \A k : k # n => ran'[k] = ran[k]
      /\ Runs => ran[n] = 0 /\ ran'[n] = 1
      /\ ran' \in [1..MaxCalls -> {0, 1}]
  <2>1. Runs => ran[n] = 0 /\ n \in 1..MaxCalls
    BY <1>a, <1>0, <1>1 DEF ChatInv, RunInv
  <2>2. CASE Runs
    BY <1>0, <2>1, <2>2
  <2>3. CASE ran' = ran
    <3>1. ~Runs
      BY <1>0, <2>1, <2>3
    <3> QED
      BY <1>0, <2>3, <3>1
  <2> QED
    BY <1>3, <2>2, <2>3
<1>8. /\ \A k : k # n /\ LoadOf(k)' => LoadOf(k)
      /\ ~Starts => daemon'.load = daemon.load
      /\ \A k : ~Starts /\ LoadOf(k)' => LoadOf(k)
  BY <1>a, <1>3 DEF LoadOf
<1>9. \A k : Untouched(k) => k # n /\ Untouched(k)'
  <2> SUFFICES ASSUME NEW k, Untouched(k) PROVE k # n /\ Untouched(k)'
    OBVIOUS
  <2>1. k # n
    BY <1>1 DEF Untouched
  <2> QED
    BY <1>0, <1>2, <1>6, <1>7, <1>8, <2>1 DEF Untouched
<1>10. NumberInv' /\ AskInv' /\ PortInv'
  <2>1. \A i \in DOMAIN up' : \E j \in DOMAIN up : up'[i] = up[j]
    BY <1>1
  <2>2. \A i \in DOMAIN down' : IF down'[i].op = "ready" THEN down'[i].id = NoId
                                ELSE Call(down'[i].id) \in 1..calls
    BY <1>1, <1>6 DEF ChatInv, NumberInv
  <2>3. daemon'.load.pc # "idle" => Call(daemon'.load.id) \in 1..calls
    BY <1>1, <1>8 DEF ChatInv, NumberInv
  <2>4. \A k \in (calls + 1)..MaxCalls : ran'[k] = 0
    <3>1. \A k \in (calls + 1)..MaxCalls : k # n
      BY <1>0, <1>1
    <3> QED
      BY <1>0, <1>7, <3>1
  <2> QED
    BY <1>0, <1>7, <1>9, <2>1, <2>2, <2>3, <2>4, Served
<1>11. AwaitInv'
  <2> SUFFICES ASSUME call.pc = "await" PROVE AwaitInv'
    BY <1>0 DEF AwaitInv
  <2>1. PICK k : k = Call(call.id)
    OBVIOUS
  <2>2. \A i \in Of(up', k) : up'[i].op = call.op /\ (call.op = "chat" => up'[i].arg = call.part)
    <3>1. \A i \in Of(up', k) : i + 1 \in Of(up, k) /\ up'[i] = up[i + 1]
      BY <1>1 DEF Of
    <3> QED
      BY <2>1, <3>1 DEF ChatInv, AwaitInv
  <2>3. ASSUME ran'[k] = 0 PROVE Alone(k)'
    <3>1. ~(Runs /\ k = n) /\ ran[k] = 0
      <4>1. ran[k] # 0 => ran'[k] # 0
        <5>1. CASE Runs
          BY <1>7, <5>1
        <5>2. CASE ~Runs
          BY <1>3, <5>2
        <5> QED
          BY <5>1, <5>2
      <4> QED
        BY <1>7, <2>3, <4>1
    <3>2. Alone(k)
      BY <2>1, <3>1 DEF ChatInv, AwaitInv
    <3>3. CASE k # n
      BY <1>0, <1>2, <1>6, <1>8, <3>2, <3>3 DEF Alone
    <3>4. CASE k = n
      <4>1. /\ Of(down, k) = {} /\ Of(port.queue, k) = {} /\ ~LoadOf(k)
            /\ Of(up', k) = {}
        BY <1>1, <1>2, <3>2, <3>4 DEF Alone
      <4>2. Single(Of(down', k)) /\ Single({})
        BY <1>6, <4>1 DEF Single
      <4>3. Starts => down' = down
        OBVIOUS
      <4> QED
        BY <1>0, <1>8, <4>1, <4>2, <4>3 DEF Alone
    <3> QED
      BY <3>3, <3>4
  <2>4. ASSUME ran'[k] # 0
        PROVE  /\ call.op = "chat" /\ call.part = Parts
               /\ ChatAnswersOk(down', k) /\ ChatAnswersOk(port.queue, k)
    <3>1. CASE ran[k] # 0
      <4>1. /\ call.op = "chat" /\ call.part = Parts
            /\ ChatAnswersOk(down, k) /\ ChatAnswersOk(port.queue, k)
        BY <2>1, <3>1 DEF ChatInv, AwaitInv, ChatAnswersOk
      <4>2. k # n
        <5> SUFFICES ASSUME k = n PROVE FALSE
          OBVIOUS
        <5>1. f.op = "chat"
          BY <1>1, <2>1, <4>1 DEF ChatInv, AwaitInv
        <5> QED
          BY <1>a, <1>1, <3>1, <5>1 DEF ChatInv, RunInv
      <4>3. ChatAnswersOk(down', k)
        BY <1>a, <1>6, <4>1, <4>2 DEF ChatAnswersOk, Of
      <4> QED
        BY <4>1, <4>3
    <3>2. CASE ran[k] = 0
      <4>1. Runs /\ k = n
        BY <1>3, <1>7, <2>4, <3>2
      <4>2. Alone(k)
        BY <2>1, <3>2 DEF ChatInv, AwaitInv
      <4>3. Of(down, k) = {} /\ Of(port.queue, k) = {}
        BY <1>1, <4>1, <4>2 DEF Alone
      <4>4. call.op = "chat" /\ f.arg = call.part
        BY <1>1, <2>1, <4>1 DEF ChatInv, AwaitInv
      <4>5. call.part = Parts
        <5>1. call.part \in 1..Parts /\ Parts \in Nat
          BY ComputeAssumption DEF ShapeInv, CallType
        <5> QED
          BY <4>1, <4>4, <5>1
      <4>6. ChatAnswersOk(port.queue, k) /\ ChatAnswersOk(down, k)
        BY <4>3 DEF ChatAnswersOk
      <4>7. ChatAnswersOk(down', k)
        <5>1. "ok" \in Words
          BY DEF Words
        <5>2. r("ok") \in Frames /\ r("ok").arg = "ok" /\ down' = Append(down, r("ok"))
          BY <1>4, <4>1, <5>1
        <5> QED
          BY <1>0, <4>6, <5>2, FactsAdded
      <4> QED
        BY <4>4, <4>5, <4>6, <4>7
    <3> QED
      BY <3>1, <3>2
  <2>5. call' = call /\ port' = port
    BY <1>0
  <2> QED
    BY <2>1, <2>2, <2>3, <2>4, <2>5 DEF AwaitInv, ChatAnswersOk
<1>12. \A k : ran[k] = 1 /\ ~RunOf(k) => ran'[k] = 1 /\ ~RunOf(k)'
  <2> SUFFICES ASSUME NEW k, ran[k] = 1, ~RunOf(k) PROVE ran'[k] = 1 /\ ~RunOf(k)'
    OBVIOUS
  <2>1. CASE Runs
    BY <1>a, <1>7, <2>1 DEF RunOf
  <2>2. CASE ~Runs
    BY <1>3, <2>2 DEF RunOf
  <2> QED
    BY <2>1, <2>2
<1>13. \A k : ran[k] = 1 => ran'[k] = 1
  BY <1>3, <1>7
<1>14. RunInv'
  <2>1. /\ daemon'.run.pc # "idle" =>
             Call(daemon'.run.id) \in 1..calls' /\ ran'[Call(daemon'.run.id)] = 1
        /\ daemon'.active = IF daemon'.run.pc \in {"start", "run", "decided"}
                            THEN daemon'.run.id ELSE NoId
    <3>1. CASE Runs
      BY <1>a, <1>0, <1>1, <1>7, <3>1
    <3>2. CASE Stays /\ ~Runs
      BY <1>0, <1>13, <3>2 DEF ChatInv, RunInv
    <3> QED
      BY <1>3, <3>1, <3>2
  <2>2. ASSUME NEW i \in DOMAIN up', up'[i].op = "chat"
        PROVE  /\ ran'[Call(up'[i].id)] = 0
               /\ \A j \in Of(up', Call(up'[i].id)) : up'[j].op = "chat" => j = i
    <3>1. /\ i + 1 \in DOMAIN up /\ up'[i] = up[i + 1] /\ i \in Nat /\ i + 1 # 1
      BY <1>1
    <3>2. /\ ran[Call(up'[i].id)] = 0
          /\ \A j \in Of(up, Call(up'[i].id)) : up[j].op = "chat" => j = i + 1
      BY <2>2, <3>1 DEF ChatInv, RunInv
    <3>3. ASSUME NEW j \in Of(up', Call(up'[i].id)), up'[j].op = "chat" PROVE j = i
      <4>1. j \in Nat /\ j + 1 \in Of(up, Call(up'[i].id)) /\ up'[j] = up[j + 1]
        BY <1>1 DEF Of
      <4> QED
        BY <3>1, <3>2, <3>3, <4>1
    <3>4. Runs => Call(up'[i].id) # n
      BY <1>1, <3>1, <3>2
    <3> QED
      BY <1>3, <1>7, <3>2, <3>3, <3>4
  <2>3. ASSUME NEW i \in DOMAIN down', IsEvent(down'[i])
        PROVE  /\ ran'[Call(down'[i].id)] = 1
               /\ down'[i].op = "finish" => ~RunOf(Call(down[i].id))'
    <3>1. i \in DOMAIN down /\ down'[i] = down[i]
      BY <1>1, <1>6, <2>3 DEF IsEvent
    <3>2. PICK k : k = Call(down[i].id)
      OBVIOUS
    <3>3. ran[k] = 1 /\ (down[i].op = "finish" => ~RunOf(k))
      BY <2>3, <3>1, <3>2 DEF ChatInv, RunInv
    <3> QED
      BY <1>12, <1>13, <3>1, <3>2, <3>3
  <2>4. ASSUME NEW i \in DOMAIN port.queue, IsEvent(port.queue[i])
        PROVE  /\ ran'[Call(port.queue[i].id)] = 1
               /\ port.queue[i].op = "finish" => ~RunOf(Call(port.queue[i].id))'
    <3>1. PICK k : k = Call(port.queue[i].id)
      OBVIOUS
    <3>2. ran[k] = 1 /\ (port.queue[i].op = "finish" => ~RunOf(k))
      BY <2>4, <3>1 DEF ChatInv, RunInv
    <3>3. k = Call(port'.queue[i].id)
      BY <1>0, <3>1
    <3> QED
      BY <1>12, <1>13, <3>1, <3>2, <3>3
  <2> QED
    BY <1>0, <2>1, <2>2, <2>3, <2>4 DEF RunInv
<1>15. CollectInv'
  <2>1. PICK k : k = Call(call.id)
    OBVIOUS
  <2>2. k = Call(call'.id)
    BY <1>0, <2>1
  <2>3. call.kind = "chat" /\ call.out = "ok" => ran'[k] = 1 /\ ~RunOf(k)'
    BY <1>12, <2>1 DEF ChatInv, CollectInv
  <2> QED
    BY <1>0, <2>1, <2>2, <2>3 DEF ChatInv, CollectInv
<1>16. CalledInv'
  <2> SUFFICES ASSUME called' PROVE CalledInv'
    BY DEF CalledInv
  <2>1. PICK k : k = Call(call.id)
    OBVIOUS
  <2>2. CASE called
    <3>1. /\ call.kind # "none" /\ ran[k] = 1
          /\ call.kind = "chat" => call.out # "ok"
          /\ RunOf(k) => IF daemon.run.pc \in {"start", "run"} THEN daemon.cancel
                         ELSE daemon.run.status # "ok"
          /\ FinishNotOk(down, k) /\ FinishNotOk(port.queue, k)
      BY <2>1, <2>2 DEF ChatInv, CalledInv, FinishNotOk
    <3>2. RunOf(k)' => IF daemon'.run.pc \in {"start", "run"} THEN daemon'.cancel
                       ELSE daemon'.run.status # "ok"
      <4>1. CASE Runs
        BY <1>a, <1>7, <3>1, <4>1 DEF RunOf
      <4>2. CASE ~Runs
        BY <1>3, <3>1, <4>2 DEF RunOf
      <4> QED
        BY <4>1, <4>2
    <3>3. ran'[k] = 1 /\ FinishNotOk(down', k) /\ k = Call(call'.id)
      BY <1>0, <1>6, <1>13, <2>1, <3>1
    <3> QED
      BY <1>0, <3>1, <3>2, <3>3 DEF CalledInv, FinishNotOk, RunOf
  <2>3. CASE ~called
    <3>1. /\ Stays /\ ran' = ran /\ f.op = "cancel" /\ daemon'.cancel
          /\ daemon.active = f.id /\ f.id = call.id /\ daemon.run.pc \in {"start", "run"}
      BY <1>3, <2>3
    <3>2. RunOf(k) /\ ran[k] = 1
      BY <2>1, <3>1 DEF RunOf, ChatInv, RunInv
    <3>3. call.kind # "none"
      BY <1>a, <1>1, <3>1 DEF ChatInv, AskInv, NoCall, NoId, Call
    <3>4. call.kind = "chat" => call.out # "ok"
      BY <2>1, <3>2 DEF ChatInv, CollectInv
    <3>5. FinishNotOk(port.queue, k)
      BY <3>2 DEF ChatInv, RunInv, IsEvent, FinishNotOk, Of
    <3>6. FinishNotOk(down', k)
      <4>1. FinishNotOk(down, k)
        BY <3>2 DEF ChatInv, RunInv, IsEvent, FinishNotOk, Of
      <4> QED
        BY <1>6, <4>1
    <3>7. k = Call(call'.id)
      BY <1>0, <2>1
    <3> QED
      BY <1>0, <3>1, <3>2, <3>3, <3>4, <3>5, <3>6, <3>7
      DEF CalledInv, FinishNotOk, RunOf
  <2> QED
    BY <2>2, <2>3
<1> QED
  BY <1>10, <1>11, <1>14, <1>15, <1>16 DEF ChatInv

\* A run of call k that is not to end well
RunCancelled(k) ==
  RunOf(k) => IF daemon.run.pc \in {"start", "run"} THEN daemon.cancel
              ELSE daemon.run.status # "ok"

\* What a step of the daemon that reads no frame must keep
LEMMA ChatServed ==
  ASSUME ShapeInv, ChatInv, UNCHANGED <<call, port, loader, calls, ran, called>>,
         up' = up \/ up' = <<>>,
         \A i \in DOMAIN down' : IF down'[i].op = "ready" THEN down'[i].id = NoId
                                 ELSE Call(down'[i].id) \in 1..calls,
         daemon'.load.pc # "idle" => Call(daemon'.load.id) \in 1..calls,
         \A k \in 1..calls :
           /\ Untouched(k) => Untouched(k)'
           /\ ran[k] = 0 /\ Alone(k) => Alone(k)'
           /\ ChatAnswersOk(down, k) => ChatAnswersOk(down', k)
           /\ ran[k] = 1 /\ ~RunOf(k) => ~RunOf(k)'
           /\ RunCancelled(k) /\ FinishNotOk(down, k)
                => RunCancelled(k)' /\ FinishNotOk(down', k),
         RunInv'
  PROVE  ChatInv'
<1>0. /\ \A i \in DOMAIN up' : up' = up
      /\ ran \in [1..MaxCalls -> {0, 1}]
      /\ \A k \in (calls + 1)..MaxCalls : ran[k] = 0
      /\ call.kind # "none" => Call(call.id) \in 1..calls
      /\ call.kind = "none" <=> call.pc = "idle"
  BY DEF ChatInv, NumberInv, PortInv
<1>1. NumberInv' /\ AskInv' /\ PortInv'
  <2>1. \A i \in DOMAIN up' : \E j \in DOMAIN up : up'[i] = up[j]
    BY <1>0
  <2> QED
    BY <1>0, <2>1, Served
<1>2. AwaitInv'
  <2> SUFFICES ASSUME call.pc = "await" PROVE AwaitInv'
    BY DEF AwaitInv
  <2>1. PICK k : k = Call(call.id)
    OBVIOUS
  <2>2. k \in 1..calls
    BY <1>0, <2>1
  <2>3. \A i \in Of(up', k) :
          up'[i].op = call.op /\ (call.op = "chat" => up'[i].arg = call.part)
    BY <1>0, <2>1 DEF ChatInv, AwaitInv, Of
  <2>4. ASSUME ran[k] = 0 PROVE Alone(k)'
    BY <2>1, <2>2, <2>4 DEF ChatInv, AwaitInv
  <2>5. ASSUME ran[k] # 0
        PROVE  /\ call.op = "chat" /\ call.part = Parts
               /\ ChatAnswersOk(down', k) /\ ChatAnswersOk(port.queue, k)
    <3>1. /\ call.op = "chat" /\ call.part = Parts
          /\ ChatAnswersOk(down, k) /\ ChatAnswersOk(port.queue, k)
      BY <2>1, <2>5 DEF ChatInv, AwaitInv, ChatAnswersOk
    <3> QED
      BY <2>2, <3>1
  <2>6. call' = call /\ port' = port /\ ran' = ran
    OBVIOUS
  <2> QED
    BY <2>1, <2>3, <2>4, <2>5, <2>6 DEF AwaitInv, ChatAnswersOk
<1>3. CollectInv'
  <2>1. PICK k : k = Call(call.id)
    OBVIOUS
  <2>2. k = Call(call'.id)
    BY <2>1
  <2>3. call.kind = "chat" /\ call.out = "ok" => ran[k] = 1 /\ ~RunOf(k)'
    BY <1>0, <2>1 DEF ChatInv, CollectInv
  <2> QED
    BY <2>1, <2>2, <2>3 DEF ChatInv, CollectInv
<1>4. CalledInv'
  <2> SUFFICES ASSUME called PROVE CalledInv'
    BY DEF CalledInv
  <2>1. PICK k : k = Call(call.id)
    OBVIOUS
  <2>2. /\ call.kind # "none" /\ ran[k] = 1
        /\ call.kind = "chat" => call.out # "ok"
        /\ RunCancelled(k) /\ FinishNotOk(down, k) /\ FinishNotOk(port.queue, k)
    BY <2>1 DEF ChatInv, CalledInv, FinishNotOk, RunCancelled
  <2>3. RunCancelled(k)' /\ FinishNotOk(down', k) /\ k = Call(call'.id)
    BY <1>0, <2>1, <2>2
  <2> QED
    BY <2>2, <2>3 DEF CalledInv, FinishNotOk, RunCancelled, RunOf
<1> QED
  BY <1>1, <1>2, <1>3, <1>4 DEF ChatInv

\* A load ends, or is answered: nothing of a run changes.
LEMMA ChatLoad ==
  ASSUME ShapeInv, ChatInv,
         LoadAnswers \/ \E status \in {"ok", "not_ready"} : LoadEnds(status)
  PROVE  ChatInv'
<1>0. /\ UNCHANGED <<call, port, loader, calls, ran, called, up>>
      /\ down \in Seq(Frames) /\ daemon \in DaemonType
      /\ daemon.load.id \in Ids /\ daemon.load.status \in Words
      /\ daemon.load \in LoadType
  BY DEF LoadEnds, LoadAnswers, DaemonStep, client, history, ShapeInv, DaemonType, LoadType
<1> DEFINE n == Call(daemon.load.id)
           r == Frame("response", "load", daemon.load.id, daemon.load.status)
<1>1. /\ UNCHANGED <<daemon.run, daemon.active, daemon.cancel>>
      /\ \/ /\ down' = down /\ daemon.load.pc # "idle"
            /\ daemon'.load.pc = "answer" /\ daemon'.load.id = daemon.load.id
         \/ /\ down' = Append(down, r) /\ daemon.load.pc # "idle"
            /\ daemon'.load.pc = "idle"
  <2>1. CASE LoadAnswers
    BY <1>0, <2>1 DEF LoadAnswers, DaemonType, NoLoad
  <2>2. ASSUME NEW status \in {"ok", "not_ready"}, LoadEnds(status)
        PROVE  /\ UNCHANGED <<daemon.run, daemon.active, daemon.cancel>>
               /\ down' = down /\ daemon.load.pc # "idle"
               /\ daemon'.load.pc = "answer" /\ daemon'.load.id = daemon.load.id
    <3> DEFINE load == [daemon.load EXCEPT !.pc = "answer", !.status = status]
    <3>1. load.pc = "answer" /\ load.id = daemon.load.id
      BY <1>0 DEF LoadType
    <3>2. /\ daemon'.load = load /\ down' = down /\ daemon.load.pc = "work"
          /\ UNCHANGED <<daemon.run, daemon.active, daemon.cancel>>
      BY <1>0, <2>2 DEF LoadEnds, DaemonType
    <3> HIDE DEF load
    <3> QED
      BY <3>1, <3>2
  <2> QED
    BY <2>1, <2>2
<1>2. /\ r \in Frames /\ r.kind = "response" /\ r.op = "load"
      /\ r.id = daemon.load.id
  <2>1. "response" \in Kinds /\ "load" \in Ops /\ daemon.load.status \in Args
    BY <1>0 DEF Kinds, Ops, Args
  <2> QED
    BY <1>0, <2>1, FrameIs
<1>3. n \in 1..calls
  BY <1>1 DEF ChatInv, NumberInv
<1>a. n = Call(r.id) /\ n = Call(daemon.load.id)
  BY <1>2
<1> HIDE DEF r, n
<1>4. /\ \A k : k # n => Of(down', k) = Of(down, k)
      /\ \A k : Of(down, k) = {} => Single(Of(down', k))
      /\ \A k : ~LoadOf(k) => Of(down', k) = Of(down, k)
      /\ \A i \in DOMAIN down' :
           \/ i \in DOMAIN down /\ down'[i] = down[i]
           \/ down'[i] = r
      /\ \A k : FinishNotOk(down, k) => FinishNotOk(down', k)
      /\ \A k : ChatAnswersOk(down, k) => ChatAnswersOk(down', k)
  <2>1. CASE down' = down
    BY <2>1 DEF Single
  <2>2. CASE down' = Append(down, r)
    <3>1. \A k : Of(down', k) = IF n = k THEN Of(down, k) \cup {Len(down) + 1}
                                ELSE Of(down, k)
      BY <1>0, <1>2, <1>a, <2>2, OfAdded
    <3>2. /\ \A k : FinishNotOk(down, k) => FinishNotOk(down', k)
          /\ \A k : ChatAnswersOk(down, k) => ChatAnswersOk(down', k)
      BY <1>0, <1>2, <2>2, FactsAdded
    <3>3. \A i \in DOMAIN down' :
            \/ i \in DOMAIN down /\ down'[i] = down[i]
            \/ down'[i] = r
      BY <1>0, <1>2, <2>2, Added
    <3>4. \A k : ~LoadOf(k) => k # n
      BY <1>1, <1>a DEF LoadOf
    <3> QED
      BY <3>1, <3>2, <3>3, <3>4 DEF Single
  <2> QED
    BY <1>1, <2>1, <2>2
<1>5. \A k : LoadOf(k)' => LoadOf(k) /\ k = n /\ down' = down
  BY <1>1, <1>a DEF LoadOf
<1>6. \A k : Untouched(k) => Untouched(k)'
  BY <1>0, <1>4, <1>5 DEF Untouched
<1>7. ASSUME NEW k, Alone(k) PROVE Alone(k)'
  <2>1. CASE LoadOf(k)
    <3>1. Of(up, k) = {} /\ Of(down, k) = {} /\ Of(port.queue, k) = {} /\ k = n
      BY <1>7, <1>a, <2>1 DEF Alone, LoadOf
    <3>2. Single(Of(down', k)) /\ Single({})
      BY <1>4, <3>1 DEF Single
    <3> QED
      BY <1>0, <1>5, <3>1, <3>2 DEF Alone
  <2>2. CASE ~LoadOf(k)
    <3>1. Of(down', k) = Of(down, k) /\ ~LoadOf(k)'
      BY <1>4, <1>5, <2>2
    <3> QED
      BY <1>0, <1>7, <3>1 DEF Alone
  <2> QED
    BY <2>1, <2>2
<1>8. RunInv'
  <2>1. ASSUME NEW i \in DOMAIN down', IsEvent(down'[i])
        PROVE  i \in DOMAIN down /\ down'[i] = down[i]
    BY <1>2, <1>4, <2>1 DEF IsEvent
  <2> QED
    BY <1>0, <1>1, <2>1 DEF ChatInv, RunInv, RunOf
<1>9. \A i \in DOMAIN down' : IF down'[i].op = "ready" THEN down'[i].id = NoId
                              ELSE Call(down'[i].id) \in 1..calls
  BY <1>2, <1>3, <1>a, <1>4 DEF ChatInv, NumberInv
<1>10. daemon'.load.pc # "idle" => Call(daemon'.load.id) \in 1..calls
  BY <1>1, <1>3, <1>a
<1>11. \A k : (RunOf(k) <=> RunOf(k)') /\ (RunCancelled(k) => RunCancelled(k)')
  BY <1>1 DEF RunOf, RunCancelled
<1>12. \A k \in 1..calls :
         /\ Untouched(k) => Untouched(k)'
         /\ ran[k] = 0 /\ Alone(k) => Alone(k)'
         /\ ChatAnswersOk(down, k) => ChatAnswersOk(down', k)
         /\ ran[k] = 1 /\ ~RunOf(k) => ~RunOf(k)'
         /\ RunCancelled(k) /\ FinishNotOk(down, k)
              => RunCancelled(k)' /\ FinishNotOk(down', k)
  <2> SUFFICES ASSUME NEW k \in 1..calls
               PROVE  /\ Untouched(k) => Untouched(k)'
                      /\ ran[k] = 0 /\ Alone(k) => Alone(k)'
                      /\ ChatAnswersOk(down, k) => ChatAnswersOk(down', k)
                      /\ ran[k] = 1 /\ ~RunOf(k) => ~RunOf(k)'
                      /\ RunCancelled(k) /\ FinishNotOk(down, k)
                           => RunCancelled(k)' /\ FinishNotOk(down', k)
    OBVIOUS
  <2>1. /\ Untouched(k) => Untouched(k)'
        /\ ran[k] = 0 /\ Alone(k) => Alone(k)'
    BY <1>6, <1>7
  <2>2. /\ ~RunOf(k) => ~RunOf(k)'
        /\ RunCancelled(k) => RunCancelled(k)'
    BY <1>11
  <2>3. /\ ChatAnswersOk(down, k) => ChatAnswersOk(down', k)
        /\ FinishNotOk(down, k) => FinishNotOk(down', k)
    BY <1>4
  <2> QED
    BY <2>1, <2>2, <2>3
<1> QED
  BY <1>0, <1>8, <1>9, <1>10, <1>12, ChatServed

\* A run begins or ends, and then is over: no frame is sent.
LEMMA ChatRun ==
  ASSUME ShapeInv, ChatInv, RunStarts \/ RunEnds \/ RunReleases
  PROVE  ChatInv'
<1>0. /\ UNCHANGED <<call, port, loader, calls, ran, called, up, down>>
      /\ daemon \in DaemonType /\ daemon.run \in RunType
  BY DEF RunStarts, RunEnds, RunReleases, DaemonStep, client, history, ShapeInv,
         DaemonType
<1>1. /\ UNCHANGED <<daemon.load, daemon.run.id, daemon.active, daemon.cancel>>
      /\ \/ /\ daemon.run.pc = "start" /\ daemon'.run.pc = "decided"
            /\ daemon'.run.status = "too_long"
         \/ daemon.run.pc = "start" /\ daemon'.run.pc = "run"
         \/ /\ daemon.run.pc = "run" /\ daemon'.run.pc = "decided"
            /\ daemon'.run.status = IF daemon.cancel THEN "cancelled" ELSE "ok"
         \/ /\ daemon.run.pc = "answered" /\ daemon'.run.pc = "over"
            /\ daemon'.run.status = daemon.run.status
  <2>0. \A status : /\ Decided(status).pc = "decided" /\ Decided(status).id = daemon.run.id
                    /\ Decided(status).status = status
    BY <1>0 DEF Decided, RunType
  <2>1. ASSUME NEW run, daemon' = [daemon EXCEPT !.run = run]
        PROVE  /\ UNCHANGED <<daemon.load, daemon.active, daemon.cancel>>
               /\ daemon'.run = run
    BY <1>0, <2>1 DEF DaemonType
  <2> DEFINE Going(pc) == [daemon.run EXCEPT !.pc = pc]
  <2>2. \A pc : /\ Going(pc).pc = pc /\ Going(pc).id = daemon.run.id
               /\ Going(pc).status = daemon.run.status
    BY <1>0 DEF RunType
  <2>3. \/ /\ daemon.run.pc = "start"
           /\ \/ daemon' = [daemon EXCEPT !.run = Decided("too_long")]
              \/ daemon' = [daemon EXCEPT !.run = Going("run")]
        \/ /\ daemon.run.pc = "run"
           /\ daemon' = [daemon EXCEPT !.run =
                          Decided(IF daemon.cancel THEN "cancelled" ELSE "ok")]
        \/ /\ daemon.run.pc = "answered"
           /\ daemon' = [daemon EXCEPT !.run = Going("over"), !.running = FALSE]
    BY <1>0 DEF RunStarts, RunEnds, RunReleases, DaemonType
  <2> HIDE DEF Going
  <2>5. \E run : /\ daemon'.run = run
                 /\ UNCHANGED <<daemon.load, daemon.active, daemon.cancel>>
                 /\ \/ daemon.run.pc = "start"
                       /\ (run = Decided("too_long") \/ run = Going("run"))
                    \/ daemon.run.pc = "run"
                       /\ run = Decided(IF daemon.cancel THEN "cancelled" ELSE "ok")
                    \/ daemon.run.pc = "answered" /\ run = Going("over")
    <3>1. CASE /\ daemon.run.pc = "start"
               /\ daemon' = [daemon EXCEPT !.run = Decided("too_long")]
      BY <2>1, <3>1
    <3>2. CASE /\ daemon.run.pc = "start"
               /\ daemon' = [daemon EXCEPT !.run = Going("run")]
      BY <2>1, <3>2
    <3>3. CASE /\ daemon.run.pc = "run"
               /\ daemon' = [daemon EXCEPT !.run =
                              Decided(IF daemon.cancel THEN "cancelled" ELSE "ok")]
      BY <2>1, <3>3
    <3>4. CASE /\ daemon.run.pc = "answered"
               /\ daemon' = [daemon EXCEPT !.run = Going("over"), !.running = FALSE]
      <4>1. /\ UNCHANGED <<daemon.load, daemon.active, daemon.cancel>>
            /\ daemon'.run = Going("over")
        BY <1>0, <3>4 DEF DaemonType
      <4> QED
        BY <3>4, <4>1
    <3> QED
      BY <2>3, <3>1, <3>2, <3>3, <3>4
  <2> QED
    BY <2>0, <2>2, <2>5
<1>2. daemon.run.pc # "idle" /\ daemon'.run.pc # "idle"
  BY <1>1
<1>3. \A k : (RunOf(k) <=> RunOf(k)') /\ (RunCancelled(k) => RunCancelled(k)')
  BY <1>1, <1>2 DEF RunOf, RunCancelled
<1>4. ASSUME NEW k, Alone(k) PROVE Alone(k)'
  BY <1>0, <1>1, <1>4 DEF Alone, LoadOf
<1>8. ASSUME NEW k, Untouched(k) PROVE Untouched(k)'
  BY <1>0, <1>1, <1>8 DEF Untouched, LoadOf
<1>5. RunInv'
  <2>1. daemon'.active = IF daemon'.run.pc \in {"start", "run", "decided"}
                         THEN daemon'.run.id ELSE NoId
    BY <1>1 DEF ChatInv, RunInv
  <2> QED
    BY <1>0, <1>1, <1>2, <1>3, <2>1 DEF ChatInv, RunInv
<1>6. /\ \A i \in DOMAIN down' : IF down'[i].op = "ready" THEN down'[i].id = NoId
                                 ELSE Call(down'[i].id) \in 1..calls
      /\ daemon'.load.pc # "idle" => Call(daemon'.load.id) \in 1..calls
  BY <1>0, <1>1 DEF ChatInv, NumberInv
<1>7. \A k \in 1..calls :
         /\ Untouched(k) => Untouched(k)'
         /\ ran[k] = 0 /\ Alone(k) => Alone(k)'
         /\ ChatAnswersOk(down, k) => ChatAnswersOk(down', k)
         /\ ran[k] = 1 /\ ~RunOf(k) => ~RunOf(k)'
         /\ RunCancelled(k) /\ FinishNotOk(down, k)
              => RunCancelled(k)' /\ FinishNotOk(down', k)
  <2> SUFFICES ASSUME NEW k \in 1..calls
               PROVE  /\ Untouched(k) => Untouched(k)'
                      /\ ran[k] = 0 /\ Alone(k) => Alone(k)'
                      /\ ChatAnswersOk(down, k) => ChatAnswersOk(down', k)
                      /\ ran[k] = 1 /\ ~RunOf(k) => ~RunOf(k)'
                      /\ RunCancelled(k) /\ FinishNotOk(down, k)
                           => RunCancelled(k)' /\ FinishNotOk(down', k)
    OBVIOUS
  <2>1. /\ Untouched(k) => Untouched(k)'
        /\ ran[k] = 0 /\ Alone(k) => Alone(k)'
    BY <1>4, <1>8
  <2>2. /\ ~RunOf(k) => ~RunOf(k)'
        /\ RunCancelled(k) => RunCancelled(k)'
    BY <1>3
  <2>3. /\ ChatAnswersOk(down, k) => ChatAnswersOk(down', k)
        /\ FinishNotOk(down, k) => FinishNotOk(down', k)
    BY <1>0
  <2> QED
    BY <2>1, <2>2, <2>3
<1> QED
  BY <1>0, <1>5, <1>6, <1>7, ChatServed

\* A run sends its answer, or its end: frames of a call that was run.
LEMMA ChatSends ==
  ASSUME ShapeInv, ChatInv, RunAnswers \/ RunFinishes
  PROVE  ChatInv'
<1> DEFINE n == Call(daemon.run.id)
           g == Frame("event", "finish", daemon.run.id, daemon.run.status)
<1>0. /\ UNCHANGED <<call, port, loader, calls, ran, called, up, daemon.load>>
      /\ down \in Seq(Frames) /\ daemon \in DaemonType /\ daemon.run \in RunType
      /\ daemon.run.id \in Ids /\ daemon.run.status \in Words
  <2>1. /\ UNCHANGED <<call, port, loader, calls, ran, called, up>>
        /\ down \in Seq(Frames) /\ daemon \in DaemonType /\ daemon.run \in RunType
        /\ daemon.run.id \in Ids /\ daemon.run.status \in Words
    BY DEF RunAnswers, RunFinishes, DaemonStep, client, history, ShapeInv, DaemonType,
           RunType
  <2> QED
    BY <2>1 DEF RunAnswers, RunFinishes, DaemonType
<1>1. daemon.run.pc # "idle"
  BY DEF RunAnswers, RunFinishes
<1>2. n \in 1..calls /\ ran[n] = 1
  BY <1>1 DEF ChatInv, RunInv
<1>3. /\ g \in Frames /\ g.kind = "event" /\ g.op = "finish"
      /\ g.id = daemon.run.id /\ g.arg = daemon.run.status
  <2>1. "event" \in Kinds /\ "finish" \in Ops /\ daemon.run.status \in Args
    BY <1>0 DEF Kinds, Ops, Args
  <2> QED
    BY <1>0, <2>1, FrameIs
<1>4. PICK r \in Seq(Frames) :
        /\ \A i \in DOMAIN r :
             /\ r[i].id = daemon.run.id /\ r[i].kind = "event"
             /\ \/ r[i].op = "result"
                \/ r[i].op = "finish" /\ r[i].arg = daemon.run.status /\ RunFinishes
        /\ down' = down \o r
  <2>1. CASE RunAnswers
    <3>1. down' = down \o <<>> \/ down' = down \o Answer(daemon.run.id)
      BY <2>1 DEF RunAnswers, Answer
    <3>2. <<>> \in Seq(Frames) /\ DOMAIN <<>> = {}
      OBVIOUS
    <3> QED
      BY <1>0, <3>1, <3>2, AnswerIs
  <2>2. CASE RunFinishes
    <3>1. down' = Append(down, g)
      BY <2>2 DEF RunFinishes
    <3> HIDE DEF g
    <3>2. Append(down, g) = down \o <<g>>
      BY <1>0, <1>3
    <3>3. <<g>> \in Seq(Frames) /\ \A i \in DOMAIN <<g>> : <<g>>[i] = g
      BY <1>3
    <3> QED
      BY <1>3, <2>2, <3>1, <3>2, <3>3
  <2> QED
    BY <2>1, <2>2
<1>a. n = Call(daemon.run.id)
  OBVIOUS
<1>5. \/ /\ daemon.run.pc = "decided" /\ daemon'.run.pc = "answered"
         /\ daemon'.run.id = daemon.run.id /\ daemon'.run.status = daemon.run.status
         /\ daemon'.active = NoId /\ ~RunFinishes
      \/ /\ daemon.run.pc = "over" /\ daemon'.run.pc = "idle"
         /\ daemon'.active = daemon.active /\ RunFinishes
  <2>1. CASE RunAnswers
    <3> DEFINE run == [daemon.run EXCEPT !.pc = "answered"]
    <3>1. /\ run.pc = "answered" /\ run.id = daemon.run.id
          /\ run.status = daemon.run.status
      BY <1>0 DEF RunType
    <3>2. daemon' = [daemon EXCEPT !.run = run, !.active = NoId]
      BY <1>0, <2>1 DEF RunAnswers, DaemonType
    <3>3. daemon.run.pc = "decided" /\ ~RunFinishes
      BY <2>1 DEF RunAnswers, RunFinishes
    <3> HIDE DEF run
    <3>4. daemon'.run = run /\ daemon'.active = NoId
      BY <1>0, <3>2 DEF DaemonType
    <3> QED
      BY <3>1, <3>3, <3>4
  <2>2. CASE RunFinishes
    BY <1>0, <2>2 DEF RunFinishes, DaemonType, NoRun
  <2> QED
    BY <2>1, <2>2
<1> HIDE DEF n, g
<1>6. /\ \A i \in DOMAIN down' :
           \/ i \in DOMAIN down /\ down'[i] = down[i]
           \/ /\ down'[i].id = daemon.run.id /\ down'[i].kind = "event"
              /\ \/ down'[i].op = "result"
                 \/ /\ down'[i].op = "finish" /\ down'[i].arg = daemon.run.status
                    /\ RunFinishes
      /\ \A k : k # n => Of(down', k) = Of(down, k)
  <2>1. \A k : k # n => \A i \in DOMAIN r : Call(r[i].id) # k
    BY <1>4, <1>a
  <2>2. /\ \A i \in DOMAIN down' :
             \/ i \in DOMAIN down /\ down'[i] = down[i]
             \/ i - Len(down) \in DOMAIN r /\ down'[i] = r[i - Len(down)]
        /\ \A k : (\A i \in DOMAIN r : Call(r[i].id) # k) => Of(down', k) = Of(down, k)
    BY <1>0, <1>4, Joined
  <2> QED
    BY <1>4, <2>1, <2>2
<1>7. ASSUME NEW k, ran[k] = 0 PROVE Of(down', k) = Of(down, k) /\ LoadOf(k)' = LoadOf(k)
  BY <1>0, <1>2, <1>6, <1>7 DEF LoadOf
<1>8. \A k : ~RunOf(k) => ~RunOf(k)'
  BY <1>5 DEF RunOf
<1>9. RunInv'
  <2>1. /\ daemon'.run.pc # "idle" =>
             Call(daemon'.run.id) \in 1..calls' /\ ran'[Call(daemon'.run.id)] = 1
        /\ daemon'.active = IF daemon'.run.pc \in {"start", "run", "decided"}
                            THEN daemon'.run.id ELSE NoId
    BY <1>0, <1>2, <1>a, <1>5 DEF ChatInv, RunInv
  <2>2. ASSUME NEW i \in DOMAIN down', IsEvent(down'[i])
        PROVE  /\ ran[Call(down'[i].id)] = 1
               /\ down'[i].op = "finish" => ~RunOf(Call(down[i].id))'
    <3>0. PICK k : k = Call(down'[i].id)
      OBVIOUS
    <3>1. CASE i \in DOMAIN down /\ down'[i] = down[i]
      <4>1. ran[k] = 1 /\ (down[i].op = "finish" => ~RunOf(k))
        BY <2>2, <3>0, <3>1 DEF ChatInv, RunInv
      <4> QED
        BY <1>8, <3>0, <3>1, <4>1
    <3>2. CASE /\ down'[i].id = daemon.run.id
               /\ down'[i].op = "finish" => RunFinishes
      <4>1. ran[k] = 1
        BY <1>2, <1>a, <3>0, <3>2
      <4>2. RunFinishes => ~RunOf(k)'
        BY <1>5 DEF RunOf
      <4> QED
        BY <3>0, <3>2, <4>1, <4>2
    <3> QED
      BY <1>6, <3>1, <3>2
  <2>3. ASSUME NEW i \in DOMAIN port.queue, IsEvent(port.queue[i])
        PROVE  /\ ran[Call(port.queue[i].id)] = 1
               /\ port.queue[i].op = "finish" => ~RunOf(Call(port.queue[i].id))'
    <3>0. PICK k : k = Call(port.queue[i].id)
      OBVIOUS
    <3>1. ran[k] = 1 /\ (port.queue[i].op = "finish" => ~RunOf(k))
      BY <2>3, <3>0 DEF ChatInv, RunInv
    <3>2. k = Call(port'.queue[i].id)
      BY <1>0, <3>0
    <3> QED
      BY <1>8, <3>0, <3>1, <3>2
  <2> QED
    BY <1>0, <2>1, <2>2, <2>3 DEF ChatInv, RunInv
<1>10. /\ \A i \in DOMAIN down' : IF down'[i].op = "ready" THEN down'[i].id = NoId
                                  ELSE Call(down'[i].id) \in 1..calls
       /\ daemon'.load.pc # "idle" => Call(daemon'.load.id) \in 1..calls
  BY <1>0, <1>2, <1>a, <1>6 DEF ChatInv, NumberInv
<1>11. \A k \in 1..calls :
         /\ Untouched(k) => Untouched(k)'
         /\ ran[k] = 0 /\ Alone(k) => Alone(k)'
         /\ ChatAnswersOk(down, k) => ChatAnswersOk(down', k)
         /\ ran[k] = 1 /\ ~RunOf(k) => ~RunOf(k)'
         /\ RunCancelled(k) /\ FinishNotOk(down, k)
              => RunCancelled(k)' /\ FinishNotOk(down', k)
  <2> SUFFICES ASSUME NEW k \in 1..calls
               PROVE  /\ Untouched(k) => Untouched(k)'
                      /\ ran[k] = 0 /\ Alone(k) => Alone(k)'
                      /\ ChatAnswersOk(down, k) => ChatAnswersOk(down', k)
                      /\ ran[k] = 1 /\ ~RunOf(k) => ~RunOf(k)'
                      /\ RunCancelled(k) /\ FinishNotOk(down, k)
                           => RunCancelled(k)' /\ FinishNotOk(down', k)
    OBVIOUS
  <2>1. Untouched(k) => Untouched(k)'
    BY <1>0, <1>7 DEF Untouched
  <2>2. ran[k] = 0 /\ Alone(k) => Alone(k)'
    BY <1>0, <1>7 DEF Alone
  <2>3. ChatAnswersOk(down, k) => ChatAnswersOk(down', k)
    BY <1>6 DEF ChatAnswersOk, Of
  <2>4. ~RunOf(k) => ~RunOf(k)'
    BY <1>8
  <2>5. RunCancelled(k) => RunCancelled(k)'
    BY <1>5 DEF RunCancelled, RunOf
  <2>6. RunCancelled(k) /\ FinishNotOk(down, k) => FinishNotOk(down', k)
    <3>1. RunCancelled(k) /\ RunFinishes /\ k = n => daemon.run.status # "ok"
      BY <1>5, <1>a DEF RunCancelled, RunOf
    <3> QED
      BY <1>6, <1>a, <3>1 DEF FinishNotOk, Of
  <2> QED
    BY <2>1, <2>2, <2>3, <2>4, <2>5, <2>6
<1> QED
  BY <1>0, <1>9, <1>10, <1>11, ChatServed

\* The daemon is started again: no frame is new but the one that says so.
LEMMA ChatFault ==
  ASSUME ShapeInv, ChatInv, Restart \/ LinkLost
  PROVE  ChatInv'
<1>0. /\ UNCHANGED <<call, port, loader, calls, ran, called>>
      /\ up' = <<>> /\ daemon' = Daemon(daemon.gen + 1)
      /\ down \in Seq(Frames) /\ calls \in Nat
  BY DEF Restart, LinkLost, client, history, ShapeInv
<1>1. /\ daemon'.load.pc = "idle" /\ daemon'.run.pc = "idle"
      /\ daemon'.active = NoId
  BY <1>0 DEF Daemon, NoLoad, NoRun
<1>2. Ready \in Frames /\ Ready.id = NoId /\ Ready.op = "ready"
  BY <1>0, ReadyIs
<1>3. PICK q \in Seq(Frames) :
        /\ down' = Append(q, Ready)
        /\ \A i \in DOMAIN q : i \in DOMAIN down /\ q[i] = down[i]
        /\ \A k : Of(q, k) \subseteq Of(down, k)
  <2>1. CASE Restart
    <3>1. PICK n \in 0..Len(down) : down' = Append(SubSeq(down, 1, n), Ready)
      BY <2>1 DEF Restart
    <3> QED
      BY <1>0, <3>1, Cut
  <2>2. CASE LinkLost
    <3>1. down' = <<Ready>>
      BY <2>2 DEF LinkLost
    <3>2. <<Ready>> = Append(<<>>, Ready) /\ <<>> \in Seq(Frames) /\ DOMAIN <<>> = {}
      BY <1>2
    <3> QED
      BY <3>1, <3>2, OfNone
  <2> QED
    BY <2>1, <2>2
<1>4. \A i \in DOMAIN down' :
        \/ i \in DOMAIN down /\ down'[i] = down[i]
        \/ down'[i].id = NoId /\ down'[i].op = "ready"
  BY <1>2, <1>3, Added
<1>5. \A k \in 1..calls : Of(down', k) \subseteq Of(down, k)
  <2> SUFFICES ASSUME NEW k \in 1..calls PROVE Of(down', k) \subseteq Of(down, k)
    OBVIOUS
  <2>1. Call(NoId) # k
    BY <1>0 DEF NoId, Call
  <2>2. Of(down', k) = Of(q, k)
    BY <1>2, <1>3, <2>1, OfAdded
  <2> QED
    BY <1>3, <2>2
<1>6. \A k : ~LoadOf(k)' /\ ~RunOf(k)' /\ RunCancelled(k)' /\ Of(up', k) = {}
  BY <1>0, <1>1, OfNone DEF LoadOf, RunOf, RunCancelled
<1>7. RunInv'
  <2>1. ASSUME NEW i \in DOMAIN down', IsEvent(down'[i])
        PROVE  i \in DOMAIN down /\ down'[i] = down[i]
    BY <1>4, <2>1 DEF IsEvent
  <2>2. \A i \in DOMAIN up' : FALSE
    BY <1>0
  <2> QED
    BY <1>0, <1>1, <1>6, <2>1, <2>2 DEF ChatInv, RunInv
<1>8. \A i \in DOMAIN down' : IF down'[i].op = "ready" THEN down'[i].id = NoId
                              ELSE Call(down'[i].id) \in 1..calls
  BY <1>4 DEF ChatInv, NumberInv
<1>9. \A k \in 1..calls :
         /\ Untouched(k) => Untouched(k)'
         /\ ran[k] = 0 /\ Alone(k) => Alone(k)'
         /\ ChatAnswersOk(down, k) => ChatAnswersOk(down', k)
         /\ ran[k] = 1 /\ ~RunOf(k) => ~RunOf(k)'
         /\ RunCancelled(k) /\ FinishNotOk(down, k)
              => RunCancelled(k)' /\ FinishNotOk(down', k)
  <2> SUFFICES ASSUME NEW k \in 1..calls
               PROVE  /\ Untouched(k) => Untouched(k)'
                      /\ ran[k] = 0 /\ Alone(k) => Alone(k)'
                      /\ ChatAnswersOk(down, k) => ChatAnswersOk(down', k)
                      /\ ran[k] = 1 /\ ~RunOf(k) => ~RunOf(k)'
                      /\ RunCancelled(k) /\ FinishNotOk(down, k)
                           => RunCancelled(k)' /\ FinishNotOk(down', k)
    OBVIOUS
  <2>1. Of(down', k) \subseteq Of(down, k) /\ Of(up', k) = {} /\ ~LoadOf(k)'
    BY <1>5, <1>6
  <2>2. Untouched(k) => Untouched(k)'
    BY <1>0, <2>1 DEF Untouched
  <2>3. Alone(k) => Alone(k)'
    BY <1>0, <2>1 DEF Alone, Single
  <2>4. \A i \in Of(down', k) : i \in Of(down, k) /\ down'[i] = down[i]
    <3> SUFFICES ASSUME NEW i \in Of(down', k) PROVE i \in Of(down, k) /\ down'[i] = down[i]
      OBVIOUS
    <3>1. i \in DOMAIN down' /\ Call(down'[i].id) = k /\ k # 0
      BY <1>0 DEF Of
    <3>2. Call(NoId) = 0
      BY DEF Call, NoId
    <3> QED
      BY <1>4, <2>1, <3>1, <3>2
  <2>5. /\ ChatAnswersOk(down, k) => ChatAnswersOk(down', k)
        /\ FinishNotOk(down, k) => FinishNotOk(down', k)
    BY <2>4 DEF ChatAnswersOk, FinishNotOk
  <2>6. ~RunOf(k)' /\ RunCancelled(k)'
    BY <1>6
  <2> QED
    BY <2>2, <2>3, <2>5, <2>6
<1> QED
  BY <1>0, <1>1, <1>7, <1>8, <1>9, ChatServed

(***************************************************************************)
(* The theorems                                                            *)
(***************************************************************************)
LEMMA ChatStep ==
  ASSUME ShapeInv, ChatInv, [Next]_vars
  PROVE  ShapeInv' /\ ChatInv'
<1>1. CASE Receive
  BY <1>1, ShapeClient, ChatReceive
<1>2. CASE \/ StartLoader \/ Chat \/ Unload \/ Load \/ LoaderEnds \/ Cancel
           \/ \E name \in Models : AskLoad(name)
  BY <1>2, ShapeClient, ChatClient
<1>3. CASE CallStep
  <2>1. ShapeInv'
    BY <1>3, ShapeCall
  <2>2. ChatInv'
    BY <1>3, ChatQuiet, ChatSend, ChatTakeAnswer, ChatForward, ChatTake, ChatClose,
       ChatSettle
    DEF CallStep
  <2> QED
    BY <2>1, <2>2
<1>4. CASE Dispatch
  BY <1>4, ShapeDispatch, ChatDispatch DEF ChatInv
<1>5. CASE DaemonWorks
  <2>1. ShapeInv'
    BY <1>5, ShapeDaemon
  <2>2. ChatInv'
    BY <1>5, ChatLoad, ChatRun, ChatSends DEF DaemonWorks
  <2> QED
    BY <2>1, <2>2
<1>6. CASE Restart \/ LinkLost
  BY <1>6, ShapeFault, ChatFault
<1>7. CASE UNCHANGED vars
  <2>1. UNCHANGED <<generation, llm, loader, call, port, up, down, daemon, calls, ran,
                    called>>
    BY <1>7 DEF vars, client, history
  <2>2. ShapeInv'
    BY <2>1 DEF ShapeInv
  <2>3. NumberInv' /\ AskInv' /\ PortInv'
    BY <2>1 DEF ChatInv, NumberInv, AskInv, PortInv, Untouched, LoadOf
  <2>4. AwaitInv' /\ RunInv'
    BY <2>1 DEF ChatInv, AwaitInv, RunInv, Alone, LoadOf, RunOf
  <2>5. CollectInv' /\ CalledInv'
    BY <2>1 DEF ChatInv, CollectInv, CalledInv, RunOf
  <2> QED
    BY <2>2, <2>3, <2>4, <2>5 DEF ChatInv
<1> QED
  BY <1>1, <1>2, <1>3, <1>4, <1>5, <1>6, <1>7 DEF Next

LEMMA ChatCorrect == Spec => [](ShapeInv /\ ChatInv)
<1>1. Init => ShapeInv /\ ChatInv
  BY ShapeInit, ChatInit
<1>2. (ShapeInv /\ ChatInv) /\ [Next]_vars => (ShapeInv /\ ChatInv)'
  BY ChatStep
<1> QED
  BY <1>1, <1>2, PTL DEF Spec

\* A chat is run at most once however often its requests were answered late,
\* dropped, refused or repeated after a load, and a chat that returns an answer
\* returns the pieces of its own run, all of them and in their order
\* (ny_compute_chat, ny_compute_chat_collect, LlmService::ChatWorker).
THEOREM AnsweredOnceCorrect == Spec => []AnsweredOnce
<1>1. ShapeInv /\ ChatInv => AnsweredOnce
  <2> SUFFICES ASSUME ShapeInv, ChatInv PROVE AnsweredOnce
    OBVIOUS
  <2>1. TypeInv
    BY DEF ShapeInv, TypeInv, LlmType, CallType, PortType, DaemonType, Names
  <2>2. \A k \in 1..MaxCalls : ran[k] <= 1
    BY DEF ChatInv, NumberInv
  <2>3. ASSUME call.kind = "chat", call.out = "ok"
        PROVE  /\ call.got = [i \in 1..Pieces |-> <<call.id, i>>]
               /\ ran[Call(call.id)] = 1
    BY <2>3 DEF ChatInv, CollectInv
  <2> QED
    BY <2>1, <2>2, <2>3 DEF AnsweredOnce
<1> QED
  BY <1>1, ChatCorrect, PTL

\* A chat whose cancel the daemon took before its outcome was decided does not
\* return an answer, whatever else was on its way (ny_compute_chat_cancel,
\* LlmService::Cancel).
THEOREM CancelObeyedCorrect == Spec => []CancelObeyed
<1>1. ShapeInv /\ ChatInv => CancelObeyed
  BY DEF ChatInv, CalledInv, CancelObeyed
<1> QED
  BY <1>1, ChatCorrect, PTL

(***************************************************************************)
(* What is left of a call                                                  *)
(***************************************************************************)
\* What LeftInv says of the daemon does not become more when the daemon does
\* not, and of queues, when no answer to a chat comes into them.
LEMMA LeftKept ==
  ASSUME ShapeInv, ChatInv, LeftInv,
         UNCHANGED <<call, calls, loader, ran, givenUp>>,
         up' = up \/ up' = <<>>,
         daemon'.running <=> daemon'.run.pc \in {"start", "run", "decided", "answered"},
         daemon'.body = daemon.body \/ daemon'.body = <<>>,
         \A k : Left(k)' => Left(k),
         Loading' => Loading /\ daemon'.load.id = daemon.load.id,
         \A id, n : n \in Nat /\ Accepts(id, n) => Accepts(id, n)',
         \A i \in DOMAIN down' : Answers(down'[i]) =>
           \E j \in DOMAIN down : down[j] = down'[i],
         \A i \in DOMAIN port'.queue : Answers(port'.queue[i]) =>
           \/ \E j \in DOMAIN port.queue : port.queue[j] = port'.queue[i]
           \/ \E j \in DOMAIN down : down[j] = port'.queue[i]
  PROVE  LeftInv'
<1>0. /\ \A i \in DOMAIN up' : i \in DOMAIN up /\ up'[i] = up[i]
      /\ up = <<>> => up' = <<>>
      /\ \A k : Of(up', k) \subseteq Of(up, k)
      /\ call.part \in Nat /\ Parts \in Nat
  <2>1. CASE up' = up
    BY <2>1, ComputeAssumption DEF ShapeInv, CallType
  <2>2. CASE up' = <<>>
    <3>1. DOMAIN up' = {} /\ \A k : Of(up', k) = {}
      BY <2>2, OfNone
    <3> QED
      BY <2>2, <3>1, ComputeAssumption DEF ShapeInv, CallType
  <2> QED
    BY <2>1, <2>2
<1>1. \A k : BodyOf(k)' => BodyOf(k)
  <2>1. CASE daemon'.body = daemon.body
    BY <2>1 DEF BodyOf
  <2>2. CASE daemon'.body = <<>>
    <3>1. DOMAIN daemon'.body = {}
      BY <2>2
    <3> QED
      BY <3>1 DEF BodyOf
  <2> QED
    BY <2>1, <2>2
<1>2. OwnerInv'
  <2>1. \A i \in DOMAIN daemon'.body : Call(daemon'.body[i]) \in 1..calls
    <3>1. CASE daemon'.body = daemon.body
      BY <3>1 DEF LeftInv, OwnerInv
    <3>2. CASE daemon'.body = <<>>
      <4>1. DOMAIN daemon'.body = {}
        BY <3>2
      <4> QED
        BY <4>1
    <3> QED
      BY <3>1, <3>2
  <2>2. \A k \in 1..MaxCalls : Left(k)' => k \in givenUp \/ Current(k)
    BY DEF LeftInv, OwnerInv
  <2> QED
    BY <2>1, <2>2 DEF LeftInv, OwnerInv, Current
<1>3. AskedInv'
  <2>1. \A i, j \in DOMAIN up' :
          Asks(up'[i]) /\ Asks(up'[j]) /\ Call(up'[i].id) = Call(up'[j].id) => i = j
    BY <1>0 DEF LeftInv, AskedInv
  <2>2. \A i \in DOMAIN up' : Asks(up'[i]) =>
          /\ ran[Call(up'[i].id)] = 0
          /\ Call(up'[i].id) \in givenUp \/ Current(Call(up'[i].id))
    BY <1>0 DEF LeftInv, AskedInv
  <2>3. ASSUME NEW i \in DOMAIN up', Asks(up'[i]), up'[i].op = "chat", up'[i].arg # 1
        PROVE  i = 1 /\ up'[i].arg \in 2..Parts /\ Accepts(up[i].id, up[i].arg - 1)'
    <3>1. i = 1 /\ up[i].arg \in 2..Parts /\ Accepts(up[i].id, up[i].arg - 1)
          /\ up'[i] = up[i]
      BY <1>0, <2>3 DEF LeftInv, AskedInv
    <3>2. PICK id, n : id = up[i].id /\ n = up[i].arg - 1
      OBVIOUS
    <3>3. n \in Nat
      BY <1>0, <3>1, <3>2
    <3>4. Accepts(id, n)'
      BY <3>1, <3>2, <3>3
    <3>5. id = up'[i].id /\ n = up'[i].arg - 1
      BY <3>1, <3>2
    <3> QED
      BY <3>1, <3>2, <3>4, <3>5
  <2>4. \A k \in 1..MaxCalls : ran[k] = 1 =>
          ~BodyOf(k)' /\ ~(Loading' /\ Call(daemon'.load.id) = k)
    BY <1>1 DEF LeftInv, AskedInv
  <2> QED
    BY <2>1, <2>2, <2>3, <2>4 DEF AskedInv, Current
<1>4. OrderInv'
  <2> SUFFICES ASSUME call.kind # "none" PROVE OrderInv'
    BY DEF OrderInv
  <2>1. PICK k : k = Call(call.id)
    OBVIOUS
  <2>2. /\ \A i, j \in DOMAIN up : i < j /\ Call(up[i].id) = k => Call(up[j].id) = k
        /\ (\E i \in DOMAIN up : Call(up[i].id) # k) => ~Left(k)
    BY <2>1 DEF LeftInv, OrderInv
  <2>3. /\ \A i, j \in DOMAIN up' : i < j /\ Call(up'[i].id) = k => Call(up'[j].id) = k
        /\ (\E i \in DOMAIN up' : Call(up'[i].id) # k) => ~Left(k)'
    BY <1>0, <2>2
  <2>4. k = Call(call'.id)
    BY <2>1
  <2> QED
    BY <2>3, <2>4 DEF OrderInv
<1>5. BodyInv'
  <2>1. PICK k : k = Call(call.id)
    OBVIOUS
  <2>2. k = Call(call'.id)
    BY <2>1
  <2>3. \A n \in Nat : Accepts(call.id, n) => Accepts(call.id, n)'
    <3>1. PICK id : id = call.id
      OBVIOUS
    <3>2. \A n \in Nat : Accepts(id, n) => Accepts(id, n)'
      OBVIOUS
    <3>3. id = call'.id
      BY <3>1
    <3> QED
      BY <3>1, <3>2, <3>3
  <2>4. \A f : Says(f) => Says(f)'
    <3>1. call.part < Parts /\ up = <<>> /\ Accepts(call.id, call.part)
            => call'.part < Parts /\ up' = <<>> /\ Accepts(call.id, call.part)'
      BY <1>0, <2>3
    <3>2. ~BodyOf(Call(call.id)) => ~BodyOf(Call(call.id))'
      BY <1>1, <2>1, <2>2
    <3> QED
      BY <3>1, <3>2 DEF Says
  <2>5. ASSUME call.pc \in {"begin", "send"}
        PROVE  IF call.op = "chat" /\ call.part # 1
               THEN up' = <<>> /\ Accepts(call.id, call.part - 1)' ELSE ~BodyOf(k)'
    <3>1. CASE call.op = "chat" /\ call.part # 1
      <4>1. up = <<>> /\ Accepts(call.id, call.part - 1)
        BY <2>1, <2>5, <3>1 DEF LeftInv, BodyInv
      <4>2. PICK n \in Nat : n = call.part - 1
        BY <3>1, <1>0, ComputeAssumption DEF ShapeInv, CallType
      <4>3. Accepts(call.id, n)' /\ n = call'.part - 1
        BY <2>3, <4>1, <4>2
      <4> QED
        BY <1>0, <3>1, <4>1, <4>2, <4>3
    <3>2. CASE ~(call.op = "chat" /\ call.part # 1)
      BY <1>1, <2>1, <2>5, <3>2 DEF LeftInv, BodyInv
    <3> QED
      BY <3>1, <3>2
  <2>6. ASSUME call.pc = "await"
        PROVE  /\ \A i \in Of(up', k) : up'[i].id = call.id
               /\ call.op # "chat" => ~BodyOf(k)'
               /\ call.op = "chat" /\ ran[k] = 0 =>
                    /\ call.part = 1 /\ Of(up', k) # {} => ~BodyOf(k)'
                    /\ \A i \in Of(down', k) : Says(down[i])'
                    /\ \A i \in Of(port'.queue, k) : Says(port.queue[i])'
    <3>1. /\ \A i \in Of(up, k) : up[i].id = call.id
          /\ call.op # "chat" => ~BodyOf(k)
      BY <2>1, <2>6 DEF LeftInv, BodyInv
    <3>2. \A i \in Of(up', k) : up'[i].id = call.id
      BY <1>0, <3>1 DEF Of
    <3>3. ASSUME call.op = "chat", ran[k] = 0
          PROVE  /\ call.part = 1 /\ Of(up', k) # {} => ~BodyOf(k)'
                 /\ \A i \in Of(down', k) : Says(down[i])'
                 /\ \A i \in Of(port'.queue, k) : Says(port.queue[i])'
      <4>1. /\ call.part = 1 /\ Of(up, k) # {} => ~BodyOf(k)
            /\ \A i \in Of(down, k) : Says(down[i])
            /\ \A i \in Of(port.queue, k) : Says(port.queue[i])
        BY <2>1, <2>6, <3>3 DEF LeftInv, BodyInv
      <4>2. call.part = 1 /\ Of(up', k) # {} => ~BodyOf(k)'
        BY <1>0, <1>1, <4>1
      <4>3. \A f : ~Answers(f) => Says(f)'
        BY DEF Says, Answers
      <4>4. ASSUME NEW i \in Of(down', k) PROVE Says(down[i])'
        <5>1. PICK f : f = down'[i]
          OBVIOUS
        <5>2. Call(f.id) = k /\ i \in DOMAIN down'
          BY <5>1 DEF Of
        <5>3. Answers(f) => Says(f)
          BY <4>1, <5>1, <5>2 DEF Of
        <5>4. Says(f)'
          BY <2>4, <4>3, <5>3
        <5> QED
          BY <5>1, <5>4
      <4>5. ASSUME NEW i \in Of(port'.queue, k) PROVE Says(port.queue[i])'
        <5>1. PICK f : f = port'.queue[i]
          OBVIOUS
        <5>2. Call(f.id) = k /\ i \in DOMAIN port'.queue
          BY <5>1 DEF Of
        <5>3. Answers(f) => Says(f)
          BY <4>1, <5>1, <5>2 DEF Of
        <5>4. Says(f)'
          BY <2>4, <4>3, <5>3
        <5> QED
          BY <5>1, <5>4
      <4> QED
        BY <4>2, <4>4, <4>5
    <3> QED
      BY <1>1, <3>1, <3>2, <3>3
  <2>7. call.pc \in {"accepted", "watch", "collect"} => ran[k] = 1
    BY <2>1 DEF LeftInv, BodyInv
  <2>8. call.pc \in {"close", "settle"} /\ k \notin givenUp =>
          ~Left(k)' /\ \A i \in Of(up', k) : ~Asks(up'[i])
    <3>1. \A i \in Of(up', k) : i \in Of(up, k) /\ up'[i] = up[i]
      BY <1>0 DEF Of
    <3> QED
      BY <2>1, <3>1 DEF LeftInv, BodyInv
  <2> QED
    BY <2>1, <2>2, <2>5, <2>6, <2>7, <2>8 DEF BodyInv
<1> QED
  BY <1>2, <1>3, <1>4, <1>5 DEF LeftInv

\* A frame arrives.
LEMMA LeftReceive ==
  ASSUME ShapeInv, ChatInv, LeftInv, Receive
  PROVE  LeftInv'
<1> DEFINE f == Head(down)
<1>0. /\ UNCHANGED <<loader, call, up, daemon, calls, ran, givenUp>>
      /\ down \in Seq(Frames) /\ down # <<>> /\ down' = Tail(down)
      /\ port \in PortType /\ port.queue \in Seq(Frames)
  BY DEF Receive, ShapeInv, PortType, history
<1>1. /\ f \in Frames /\ f = down[1] /\ 1 \in DOMAIN down
      /\ \A i \in DOMAIN down' :
           i \in Nat /\ i + 1 \in DOMAIN down /\ down'[i] = down[i + 1]
  BY <1>0, Taken
<1>2. port' = port \/ port' = [port EXCEPT !.queue = Append(@, f)]
  BY DEF Receive, Delivered
<1> HIDE DEF f
<1>3. port'.queue = port.queue \/ port'.queue = Append(port.queue, f)
  BY <1>0, <1>2 DEF PortType
<1>4. ASSUME NEW i \in DOMAIN port'.queue
      PROVE  \/ \E j \in DOMAIN port.queue : port.queue[j] = port'.queue[i]
             \/ \E j \in DOMAIN down : down[j] = port'.queue[i]
  <2>1. \/ i \in DOMAIN port.queue /\ port'.queue[i] = port.queue[i]
        \/ port'.queue[i] = f
    BY <1>0, <1>1, <1>3, Added
  <2> QED
    BY <1>1, <2>1
<1>5. /\ \A k : Left(k)' => Left(k)
      /\ \A id, n : n \in Nat /\ Accepts(id, n) => Accepts(id, n)'
  BY <1>0 DEF Left, BodyOf, Loading, Accepts
<1>6. daemon.running <=> daemon.run.pc \in {"start", "run", "decided", "answered"}
  BY DEF LeftInv, OwnerInv
<1>7. \A i \in DOMAIN down' : \E j \in DOMAIN down : down[j] = down'[i]
  BY <1>1
<1>8. Loading' => Loading
  BY <1>0 DEF Loading
<1> QED
  BY <1>0, <1>4, <1>5, <1>6, <1>7, <1>8, LeftKept

\* The daemon loads or runs: what it has of a call becomes less, and it answers
\* no request for a chat.
LEMMA ThreadsDo ==
  ASSUME ShapeInv, LeftInv, DaemonWorks
  PROVE  /\ UNCHANGED <<call, port, loader, calls, ran, givenUp, up>>
         /\ daemon'.running <=> daemon'.run.pc \in {"start", "run", "decided", "answered"}
         /\ daemon'.body = daemon.body
         /\ daemon'.running => daemon.running /\ daemon'.run.id = daemon.run.id
         /\ Loading' => Loading /\ daemon'.load.id = daemon.load.id
         /\ ~Loading => daemon'.loaded = daemon.loaded
         /\ \A i \in DOMAIN down' : Answers(down'[i]) =>
              i \in DOMAIN down /\ down'[i] = down[i]
<1>0. /\ UNCHANGED <<call, port, loader, calls, ran, givenUp, up>>
      /\ down \in Seq(Frames) /\ daemon \in DaemonType
      /\ daemon.load \in LoadType /\ daemon.run \in RunType
      /\ daemon.running <=> daemon.run.pc \in {"start", "run", "decided", "answered"}
  BY DEF DaemonWorks, LoadEnds, LoadAnswers, RunStarts, RunEnds, RunAnswers,
         RunReleases, RunFinishes, DaemonStep, client, history, ShapeInv, DaemonType,
         LeftInv, OwnerInv
<1>1. daemon.run.id \in Ids /\ daemon.load.id \in Ids /\ daemon.run.status \in Words
  BY <1>0 DEF LoadType, RunType
<1> DEFINE Runs(pc) ==
             /\ daemon'.run.pc = pc /\ daemon'.run.id = daemon.run.id
             /\ UNCHANGED <<daemon.body, daemon.load, daemon.loaded>>
<1>2. \/ /\ Loading /\ daemon'.load.pc = "answer" /\ down' = down
         /\ UNCHANGED <<daemon.body, daemon.run, daemon.running>>
      \/ /\ ~Loading /\ daemon'.load.pc = "idle"
         /\ UNCHANGED <<daemon.body, daemon.run, daemon.running, daemon.loaded>>
         /\ \E s : down' = Append(down, Frame("response", "load", daemon.load.id, s))
                   /\ s \in Words
      \/ /\ daemon.run.pc \in {"start", "run"} /\ down' = down /\ UNCHANGED daemon.running
         /\ Runs("run") \/ Runs("decided")
      \/ /\ daemon.run.pc = "decided" /\ Runs("answered") /\ UNCHANGED daemon.running
         /\ down' = down \o IF daemon.run.status # "ok" THEN <<>>
                            ELSE Answer(daemon.run.id)
      \/ daemon.run.pc = "answered" /\ Runs("over") /\ ~daemon'.running /\ down' = down
      \/ /\ daemon.run.pc = "over" /\ daemon'.run.pc = "idle"
         /\ UNCHANGED <<daemon.body, daemon.load, daemon.loaded, daemon.running>>
         /\ down' = Append(down, Frame("event", "finish", daemon.run.id,
                                       daemon.run.status))
  <2>1. ASSUME NEW status \in {"ok", "not_ready"}, LoadEnds(status)
        PROVE  /\ Loading /\ daemon'.load.pc = "answer" /\ down' = down
               /\ UNCHANGED <<daemon.body, daemon.run, daemon.running>>
    BY <1>0, <2>1 DEF LoadEnds, DaemonType, LoadType, Loading
  <2>2. ASSUME LoadAnswers
        PROVE  /\ ~Loading /\ daemon'.load.pc = "idle" /\ daemon.load.status \in Words
               /\ UNCHANGED <<daemon.body, daemon.run, daemon.running, daemon.loaded>>
               /\ down' = Append(down, Frame("response", "load", daemon.load.id,
                                             daemon.load.status))
    BY <1>0, <2>2 DEF LoadAnswers, DaemonType, LoadType, Loading, NoLoad
  <2>3. ASSUME RunStarts
        PROVE  /\ daemon.run.pc = "start" /\ down' = down /\ UNCHANGED daemon.running
               /\ Runs("run") \/ Runs("decided")
    <3>1. \/ daemon' = [daemon EXCEPT !.run = Decided("too_long")]
          \/ daemon' = [daemon EXCEPT !.run = [daemon.run EXCEPT !.pc = "run"]]
      BY <1>0, <2>3 DEF RunStarts, DaemonType
    <3>2. CASE daemon' = [daemon EXCEPT !.run = Decided("too_long")]
      <4>1. Runs("decided") /\ UNCHANGED daemon.running
        BY <1>0, <3>2 DEF Decided, DaemonType, RunType
      <4> QED
        BY <2>3, <4>1 DEF RunStarts
    <3>3. CASE daemon' = [daemon EXCEPT !.run = [daemon.run EXCEPT !.pc = "run"]]
      <4>1. Runs("run") /\ UNCHANGED daemon.running
        BY <1>0, <3>3 DEF DaemonType, RunType
      <4> QED
        BY <2>3, <4>1 DEF RunStarts
    <3> QED
      BY <3>1, <3>2, <3>3
  <2>4. ASSUME RunEnds
        PROVE  /\ daemon.run.pc = "run" /\ down' = down /\ UNCHANGED daemon.running
               /\ Runs("decided")
    BY <1>0, <2>4 DEF RunEnds, Decided, DaemonType, RunType
  <2>5. ASSUME RunAnswers
        PROVE  /\ daemon.run.pc = "decided" /\ Runs("answered") /\ UNCHANGED daemon.running
               /\ down' = down \o IF daemon.run.status # "ok" THEN <<>>
                                  ELSE Answer(daemon.run.id)
    BY <1>0, <2>5 DEF RunAnswers, DaemonType, RunType, Answer
  <2>6. ASSUME RunReleases
        PROVE  /\ daemon.run.pc = "answered" /\ Runs("over") /\ ~daemon'.running
               /\ down' = down
    BY <1>0, <2>6 DEF RunReleases, DaemonType, RunType
  <2>7. ASSUME RunFinishes
        PROVE  /\ daemon.run.pc = "over" /\ daemon'.run.pc = "idle"
               /\ UNCHANGED <<daemon.body, daemon.load, daemon.loaded, daemon.running>>
               /\ down' = Append(down, Frame("event", "finish", daemon.run.id,
                                             daemon.run.status))
    BY <1>0, <2>7 DEF RunFinishes, DaemonType, NoRun
  <2> HIDE DEF Runs
  <2> QED
    BY <2>1, <2>2, <2>3, <2>4, <2>5, <2>6, <2>7 DEF DaemonWorks
<1>3. /\ daemon'.running <=> daemon'.run.pc \in {"start", "run", "decided", "answered"}
      /\ daemon'.body = daemon.body
      /\ daemon'.running => daemon.running /\ daemon'.run.id = daemon.run.id
      /\ Loading' => Loading /\ daemon'.load.id = daemon.load.id
      /\ ~Loading => daemon'.loaded = daemon.loaded
  BY <1>0, <1>2 DEF Loading
<1>4. \A i \in DOMAIN down' : Answers(down'[i]) =>
        i \in DOMAIN down /\ down'[i] = down[i]
  <2>1. ASSUME NEW g \in Frames, down' = Append(down, g), ~Answers(g)
        PROVE  \A i \in DOMAIN down' : Answers(down'[i]) =>
                 i \in DOMAIN down /\ down'[i] = down[i]
    BY <1>0, <2>1, Added
  <2>2. ASSUME NEW s \in Words
        PROVE  /\ Frame("response", "load", daemon.load.id, s) \in Frames
               /\ ~Answers(Frame("response", "load", daemon.load.id, s))
               /\ Frame("event", "finish", daemon.run.id, s) \in Frames
               /\ ~Answers(Frame("event", "finish", daemon.run.id, s))
    <3>1. /\ "response" \in Kinds /\ "load" \in Ops /\ s \in Args
          /\ "event" \in Kinds /\ "finish" \in Ops
      BY DEF Kinds, Ops, Args
    <3> QED
      BY <1>1, <3>1, FrameIs DEF Answers, Frame
  <2>3. ASSUME down' = down \o IF daemon.run.status # "ok" THEN <<>>
                               ELSE Answer(daemon.run.id)
        PROVE  \A i \in DOMAIN down' : Answers(down'[i]) =>
                 i \in DOMAIN down /\ down'[i] = down[i]
    <3>1. PICK q \in Seq(Frames) : /\ down' = down \o q
                                   /\ \A i \in DOMAIN q : q[i].kind = "event"
      <4>1. CASE daemon.run.status # "ok"
        <5>1. /\ <<>> \in Seq(Frames) /\ DOMAIN <<>> = {} /\ down' = down \o <<>>
          BY <2>3, <4>1
        <5> QED
          BY <5>1
      <4>2. CASE daemon.run.status = "ok"
        <5>1. /\ Answer(daemon.run.id) \in Seq(Frames)
              /\ \A i \in DOMAIN Answer(daemon.run.id) :
                   Answer(daemon.run.id)[i].kind = "event"
          BY <1>1, AnswerIs
        <5>2. down' = down \o Answer(daemon.run.id)
          BY <2>3, <4>2
        <5> QED
          BY <5>1, <5>2
      <4> QED
        BY <4>1, <4>2
    <3>2. \A i \in DOMAIN down' :
            \/ i \in DOMAIN down /\ down'[i] = down[i]
            \/ i - Len(down) \in DOMAIN q /\ down'[i] = q[i - Len(down)]
      BY <1>0, <3>1, Joined
    <3> QED
      BY <3>1, <3>2 DEF Answers
  <2>4. CASE down' = down
    BY <2>4
  <2> QED
    BY <1>1, <1>2, <2>1, <2>2, <2>3, <2>4
<1> QED
  BY <1>0, <1>3, <1>4

LEMMA LeftThreads ==
  ASSUME ShapeInv, ChatInv, LeftInv, DaemonWorks
  PROVE  LeftInv'
<1>1. \A k : Left(k)' => Left(k)
  BY ThreadsDo DEF Left, BodyOf
<1>2. \A id, n : n \in Nat /\ Accepts(id, n) => Accepts(id, n)'
  BY ThreadsDo DEF Accepts
<1> QED
  BY <1>1, <1>2, ThreadsDo, LeftKept

\* A daemon that was started again has nothing of any call.
LEMMA LeftFault ==
  ASSUME ShapeInv, ChatInv, LeftInv, Restart \/ LinkLost
  PROVE  LeftInv'
<1>0. /\ UNCHANGED <<call, port, loader, calls, ran, givenUp>>
      /\ up' = <<>> /\ daemon' = Daemon(daemon.gen + 1)
      /\ down \in Seq(Frames)
  BY DEF Restart, LinkLost, client, history, ShapeInv
<1>1. /\ daemon'.load.pc = "idle" /\ daemon'.run.pc = "idle" /\ ~daemon'.running
      /\ daemon'.body = <<>> /\ daemon'.loaded = None
  BY <1>0 DEF Daemon, NoLoad, NoRun
<1>2. Ready \in Frames /\ Ready.op = "ready"
  BY <1>0, ReadyIs
<1>3. \A i \in DOMAIN down' : Answers(down'[i]) =>
        \E j \in DOMAIN down : down[j] = down'[i]
  <2>1. CASE Restart
    <3>1. PICK n \in 0..Len(down) : down' = Append(SubSeq(down, 1, n), Ready)
      BY <2>1 DEF Restart
    <3>2. /\ SubSeq(down, 1, n) \in Seq(Frames)
          /\ \A i \in DOMAIN SubSeq(down, 1, n) :
               i \in DOMAIN down /\ SubSeq(down, 1, n)[i] = down[i]
      BY <1>0, Cut
    <3> QED
      BY <1>2, <3>1, <3>2, Added DEF Answers
  <2>2. CASE LinkLost
    <3>1. down' = <<Ready>>
      BY <2>2 DEF LinkLost
    <3>2. \A i \in DOMAIN down' : down'[i] = Ready
      BY <3>1
    <3> QED
      BY <1>2, <3>2 DEF Answers
  <2> QED
    BY <2>1, <2>2
<1>4. DOMAIN daemon'.body = {}
  BY <1>1
<1>5. \A k : ~Left(k)'
  BY <1>1, <1>4 DEF Left, BodyOf, Loading
<1>6. \A id, n : Accepts(id, n)'
  BY <1>1 DEF Accepts, Loading
<1>7. ~Loading'
  BY <1>1 DEF Loading
<1> QED
  BY <1>0, <1>1, <1>3, <1>5, <1>6, <1>7, LeftKept

\* A step of a call that neither asks for anything nor ends it: what remains to
\* be shown is what its new phase says.
LEMMA LeftCall ==
  ASSUME ShapeInv, ChatInv, LeftInv, UNCHANGED <<daemon, ran, calls, up, loader>>,
         call.kind # "none", call'.kind = call.kind, Call(call'.id) = Call(call.id),
         givenUp' = givenUp \/ givenUp' = givenUp \cup {Call(call.id)},
         BodyInv'
  PROVE  LeftInv'
<1>1. \A k : /\ Left(k)' <=> Left(k)
             /\ BodyOf(k)' <=> BodyOf(k)
             /\ Current(k)' <=> Current(k)
             /\ k \in givenUp => k \in givenUp'
  BY DEF Left, BodyOf, Loading, Current
<1>2. Call(call.id) \in 1..calls
      /\ (loader.pc \in {"pending", "start"} => Call(call.id) # loader.k)
  BY DEF ChatInv, NumberInv
<1>3. OwnerInv'
  <2>1. givenUp' \subseteq 1..calls
        /\ (loader.pc \in {"pending", "start"} => loader.k \notin givenUp')
    BY <1>2 DEF LeftInv, OwnerInv
  <2> QED
    BY <1>1, <2>1 DEF LeftInv, OwnerInv
<1>4. AskedInv'
  <2>1. \A id, n : Accepts(id, n)' <=> Accepts(id, n)
    BY DEF Accepts, Loading
  <2>2. \A k \in 1..MaxCalls : ran'[k] = 1 =>
          ~BodyOf(k)' /\ ~(Loading' /\ Call(daemon'.load.id) = k)
    BY <1>1 DEF LeftInv, AskedInv, Loading
  <2>3. ASSUME NEW i \in DOMAIN up', Asks(up'[i])
        PROVE  /\ ran'[Call(up'[i].id)] = 0
               /\ Call(up'[i].id) \in givenUp' \/ Current(Call(up[i].id))'
               /\ up'[i].op = "chat" /\ up'[i].arg # 1 =>
                    /\ i = 1 /\ up'[i].arg \in 2..Parts
                    /\ Accepts(up[i].id, up[i].arg - 1)'
    <3>1. PICK g : g = up[i] /\ g = up'[i]
      OBVIOUS
    <3>2. /\ ran[Call(g.id)] = 0
          /\ Call(g.id) \in givenUp \/ Current(Call(g.id))
          /\ g.op = "chat" /\ g.arg # 1 =>
               i = 1 /\ g.arg \in 2..Parts /\ Accepts(g.id, g.arg - 1)
      BY <2>3, <3>1 DEF LeftInv, AskedInv
    <3>3. /\ Call(g.id) \in givenUp' \/ Current(Call(g.id))'
          /\ g.op = "chat" /\ g.arg # 1 => Accepts(g.id, g.arg - 1)'
      BY <1>1, <2>1, <3>2
    <3> QED
      BY <3>1, <3>2, <3>3
  <2> QED
    BY <2>2, <2>3 DEF LeftInv, AskedInv
<1>5. OrderInv'
  <2>1. PICK k : k = Call(call.id) /\ k = Call(call'.id)
    OBVIOUS
  <2>2. /\ \A i, j \in DOMAIN up : i < j /\ Call(up[i].id) = k => Call(up[j].id) = k
        /\ (\E i \in DOMAIN up : Call(up[i].id) # k) => ~Left(k)
    BY <2>1 DEF LeftInv, OrderInv
  <2>3. (\E i \in DOMAIN up' : Call(up'[i].id) # k) => ~Left(k)'
    BY <1>1, <2>2
  <2> QED
    BY <2>1, <2>2, <2>3 DEF OrderInv
<1> QED
  BY <1>3, <1>4, <1>5 DEF LeftInv

\* The call goes on, or gives up.
LEMMA LeftQuiet ==
  ASSUME ShapeInv, ChatInv, LeftInv,
         Begin \/ NoAnswer \/ Accepted \/ Watch \/ Reset \/ Close
  PROVE  LeftInv'
<1>0. /\ UNCHANGED <<up, down, daemon, ran, calls, loader>>
      /\ call \in CallType /\ call.pc # "idle" /\ call.kind # "none"
  BY DEF ShapeInv, Begin, NoAnswer, Accepted, Watch, Reset, Close, history, ChatInv,
         PortInv
<1>1. \/ /\ call' = [call EXCEPT !.pc = "send", !.gen = generation]
         /\ call.pc = "begin" /\ givenUp' = givenUp
      \/ /\ call' = [call EXCEPT !.pc = "watch"]
         /\ call.pc = "accepted" /\ givenUp' = givenUp
      \/ /\ call' = [call EXCEPT !.pc = "collect", !.gen = generation]
         /\ call.pc = "watch" /\ givenUp' = givenUp
      \/ /\ call' = [call EXCEPT !.pc = "settle"]
         /\ call.pc = "close" /\ givenUp' = givenUp
      \/ /\ \E out : call' = [call EXCEPT !.pc = "close", !.out = out]
         /\ givenUp' = givenUp \cup {Call(call.id)}
  <2>1. CASE Begin
    BY <2>1 DEF Begin, history
  <2>2. CASE NoAnswer
    BY <1>0, <2>2, Unanswered DEF NoAnswer
  <2>3. CASE Accepted \/ Watch \/ Close
    BY <2>3 DEF Accepted, Watch, Close, Goto, history
  <2>4. CASE Reset
    BY <2>4 DEF Reset, Over
  <2> QED
    BY <2>1, <2>2, <2>3, <2>4
<1>2. /\ UNCHANGED <<call.kind, call.id, call.op, call.part>>
      /\ \/ call.pc = "begin" /\ call'.pc = "send" /\ givenUp' = givenUp
         \/ call.pc = "accepted" /\ call'.pc = "watch" /\ givenUp' = givenUp
         \/ call.pc = "watch" /\ call'.pc = "collect" /\ givenUp' = givenUp
         \/ call.pc = "close" /\ call'.pc = "settle" /\ givenUp' = givenUp
         \/ call'.pc = "close" /\ givenUp' = givenUp \cup {Call(call.id)}
  BY <1>0, <1>1 DEF CallType
<1>3. BodyInv'
  BY <1>0, <1>2 DEF LeftInv, BodyInv, Accepts, BodyOf, Left, Loading
<1> QED
  BY <1>0, <1>2, <1>3, LeftCall

\* Who calls next finds nothing of the call that it makes, and what is left of
\* the call before it is of one that gave up.
LEMMA LeftClient ==
  ASSUME ShapeInv, ChatInv, LeftInv,
         \/ StartLoader \/ Chat \/ Unload \/ Load \/ LoaderEnds \/ Cancel
         \/ \E name \in Models : AskLoad(name)
  PROVE  LeftInv'
<1>0. /\ UNCHANGED <<up, down, port, daemon, ran, givenUp>>
      /\ calls \in Nat /\ MaxCalls \in Nat /\ loader \in LoaderType /\ calls <= MaxCalls
      /\ calls' = calls \/ (calls < MaxCalls /\ calls' = calls + 1)
  BY ComputeAssumption DEF ShapeInv, ChatInv, NumberInv, StartLoader, Chat, Unload, Load,
     LoaderEnds, Cancel, AskLoad, history
<1>1. \A k : /\ Left(k)' <=> Left(k)
             /\ BodyOf(k)' <=> BodyOf(k)
  BY <1>0 DEF Left, BodyOf, Loading
<1>2. loader'.pc \in {"pending", "start"} => loader'.k \notin givenUp
  <2>1. \/ loader'.pc \notin {"pending", "start"}
        \/ loader'.k = loader.k /\ loader.pc \in {"pending", "start"}
        \/ loader'.k = calls + 1
    BY <1>0 DEF StartLoader, Chat, Unload, Load, LoaderEnds, Cancel, AskLoad, LoaderType
  <2> QED
    BY <1>0, <2>1 DEF LeftInv, OwnerInv
<1>3. CASE UNCHANGED call
  <2>1. OwnerInv'
    BY <1>0, <1>1, <1>2, <1>3 DEF LeftInv, OwnerInv, Current
  <2>2. AskedInv'
    BY <1>0, <1>3 DEF LeftInv, AskedInv, Current, BodyOf, Loading, Accepts
  <2>3. OrderInv'
    BY <1>0, <1>1, <1>3 DEF LeftInv, OrderInv
  <2>4. BodyInv'
    BY <1>0, <1>3 DEF LeftInv, BodyInv, Left, BodyOf, Loading, Accepts, Says
  <2> QED
    BY <2>1, <2>2, <2>3, <2>4 DEF LeftInv
<1>4. CASE call' # call
  <2>1. PICK kind \in {"chat", "load", "unload"}, k \in 1..calls',
                name \in Names :
          /\ call' = Begun(kind, k, name) /\ call.kind = "none"
          /\ k \notin givenUp /\ Untouched(k)
    <3>1. CASE Chat
      BY <1>0, <3>1, NumberFree, ComputeAssumption
      DEF Chat, ChatInv, LeftInv, OwnerInv, Names
    <3>2. CASE Unload
      BY <1>0, <3>2, NumberFree DEF Unload, ChatInv, LeftInv, OwnerInv, Names
    <3>3. CASE Load
      BY <1>0, <1>4, <3>3 DEF Load, ChatInv, NumberInv, LeftInv, OwnerInv, LoaderType
    <3> QED
      BY <1>4, <3>1, <3>2, <3>3 DEF StartLoader, LoaderEnds, Cancel, AskLoad
  <2>2. /\ call'.kind = kind /\ call'.op = kind /\ call'.pc = "begin" /\ call'.part = 1
        /\ Call(call'.id) = k
    BY <2>1 DEF Begun, NoCall, Call
  <2>3. \A j \in 1..MaxCalls : Left(j) => j \in givenUp
    BY <2>1 DEF LeftInv, OwnerInv, Current
  <2>4. ~Left(k) /\ ~BodyOf(k) /\ Of(up, k) = {}
    <3>1. k \in 1..MaxCalls
      BY <1>0
    <3> QED
      BY <2>1, <2>3, <3>1 DEF Left, Untouched
  <2>5. OwnerInv'
    <3>1. \A i \in DOMAIN daemon'.body : Call(daemon'.body[i]) \in 1..calls'
      BY <1>0 DEF LeftInv, OwnerInv
    <3>2. givenUp' \subseteq 1..calls'
      BY <1>0 DEF LeftInv, OwnerInv
    <3> QED
      BY <1>0, <1>1, <1>2, <2>3, <3>1, <3>2 DEF LeftInv, OwnerInv
  <2>6. AskedInv'
    <3>1. \A i \in DOMAIN up : Asks(up[i]) => Call(up[i].id) \in givenUp
      BY <2>1 DEF LeftInv, AskedInv, Current
    <3> QED
      BY <1>0, <3>1 DEF LeftInv, AskedInv, BodyOf, Loading, Accepts
  <2>7. OrderInv'
    <3>1. \A i \in DOMAIN up : Call(up[i].id) # k
      BY <2>4 DEF Of
    <3>2. ~Left(k)'
      BY <1>1, <2>4
    <3> QED
      BY <1>0, <2>2, <3>1, <3>2 DEF OrderInv
  <2>8. BodyInv'
    <3>1. ~BodyOf(k)'
      BY <1>1, <2>4
    <3> QED
      BY <2>2, <3>1 DEF BodyInv
  <2> QED
    BY <2>5, <2>6, <2>7, <2>8 DEF LeftInv
<1> QED
  BY <1>3, <1>4

\* A call that is over leaves nothing, unless it had given up.
LEMMA LeftSettle ==
  ASSUME ShapeInv, ChatInv, LeftInv, Settle
  PROVE  LeftInv'
<1>0. /\ UNCHANGED <<up, down, port, daemon, ran, calls, givenUp>>
      /\ call' = NoCall /\ call.pc = "settle" /\ call.kind # "none"
      /\ loader \in LoaderType
  BY DEF ShapeInv, ChatInv, PortInv, Settle
<1>1. loader'.pc \in {"pending", "start"} => loader' = loader
  BY <1>0 DEF Settle, LoaderType
<1>2. call'.kind = "none" /\ call'.pc = "idle"
  BY <1>0 DEF NoCall
<1>3. PICK k : k = Call(call.id)
  OBVIOUS
<1>4. k \notin givenUp => ~Left(k) /\ \A i \in Of(up, k) : ~Asks(up[i])
  BY <1>0, <1>3 DEF LeftInv, BodyInv
<1>5. \A j : Left(j)' <=> Left(j)
  BY <1>0 DEF Left, BodyOf, Loading
<1>6. OwnerInv'
  <2>1. \A j \in 1..MaxCalls : Left(j) => j \in givenUp
    BY <1>3, <1>4 DEF LeftInv, OwnerInv, Current
  <2> QED
    BY <1>0, <1>1, <1>5, <2>1 DEF LeftInv, OwnerInv
<1>7. AskedInv'
  <2>1. \A i \in DOMAIN up : Asks(up[i]) => Call(up[i].id) \in givenUp
    BY <1>3, <1>4 DEF LeftInv, AskedInv, Current, Of
  <2> QED
    BY <1>0, <2>1 DEF LeftInv, AskedInv, BodyOf, Loading, Accepts
<1>8. OrderInv' /\ BodyInv'
  BY <1>2 DEF OrderInv, BodyInv
<1> QED
  BY <1>6, <1>7, <1>8 DEF LeftInv

\* A call writes a frame: one that asks for something is the only one of its call,
\* and the next part of a body is all that is on its way.
LEMMA LeftWritten ==
  ASSUME ShapeInv, ChatInv, LeftInv, UNCHANGED <<daemon, ran, calls, loader>>,
         call.kind # "none", call'.kind = call.kind, Call(call'.id) = Call(call.id),
         givenUp' = givenUp \/ givenUp' = givenUp \cup {Call(call.id)},
         NEW f \in Frames, Call(f.id) = Call(call.id), up' = Append(up, f),
         Asks(f) => Of(up, Call(call.id)) = {} /\ ran[Call(call.id)] = 0,
         f.op = "chat" /\ f.arg # 1 =>
           up = <<>> /\ f.arg \in 2..Parts /\ Accepts(f.id, f.arg - 1),
         BodyInv'
  PROVE  LeftInv'
<1>1. \A k : /\ Left(k)' <=> Left(k)
             /\ BodyOf(k)' <=> BodyOf(k)
             /\ Current(k)' <=> Current(k)
             /\ k \in givenUp => k \in givenUp'
  BY DEF Left, BodyOf, Loading, Current
<1>2. Call(call.id) \in 1..calls
      /\ (loader.pc \in {"pending", "start"} => Call(call.id) # loader.k)
  BY DEF ChatInv, NumberInv
<1>a. /\ up \in Seq(Frames)
      /\ \A i \in DOMAIN up' : \/ i \in DOMAIN up /\ up'[i] = up[i]
                               \/ i = Len(up) + 1 /\ up'[i] = f
  <2>1. up \in Seq(Frames)
    BY DEF ShapeInv
  <2> QED
    BY <2>1, Added
<1>b. PICK k : k = Call(call.id) /\ k = Call(call'.id)
  OBVIOUS
<1>3. OwnerInv'
  <2>1. givenUp' \subseteq 1..calls
        /\ (loader.pc \in {"pending", "start"} => loader.k \notin givenUp')
    BY <1>2 DEF LeftInv, OwnerInv
  <2> QED
    BY <1>1, <2>1 DEF LeftInv, OwnerInv
<1>4. AskedInv'
  <2>1. \A id, n : Accepts(id, n)' <=> Accepts(id, n)
    BY DEF Accepts, Loading
  <2>2. \A j \in 1..MaxCalls : ran'[j] = 1 =>
          ~BodyOf(j)' /\ ~(Loading' /\ Call(daemon'.load.id) = j)
    BY <1>1 DEF LeftInv, AskedInv, Loading
  <2>3. ASSUME NEW i \in DOMAIN up', Asks(up'[i])
        PROVE  /\ ran'[Call(up'[i].id)] = 0
               /\ Call(up'[i].id) \in givenUp' \/ Current(Call(up[i].id))'
               /\ up'[i].op = "chat" /\ up'[i].arg # 1 =>
                    /\ i = 1 /\ up'[i].arg \in 2..Parts
                    /\ Accepts(up[i].id, up[i].arg - 1)'
    <3>1. PICK g : g = up'[i]
      OBVIOUS
    <3>2. /\ ran[Call(g.id)] = 0
          /\ Call(g.id) \in givenUp \/ Current(Call(g.id))
          /\ g.op = "chat" /\ g.arg # 1 =>
               i = 1 /\ g.arg \in 2..Parts /\ Accepts(g.id, g.arg - 1)
      <4>1. CASE i \in DOMAIN up /\ g = up[i]
        BY <2>3, <3>1, <4>1 DEF LeftInv, AskedInv
      <4>2. CASE i = Len(up) + 1 /\ g = f
        <5>1. Current(Call(g.id)) /\ ran[Call(g.id)] = 0
          BY <2>3, <3>1, <4>2 DEF Current
        <5>2. up = <<>> => Len(up) + 1 = 1
          OBVIOUS
        <5> QED
          BY <4>2, <5>1, <5>2
      <4> QED
        BY <1>a, <3>1, <4>1, <4>2
    <3>3. /\ Call(g.id) \in givenUp' \/ Current(Call(g.id))'
          /\ g.op = "chat" /\ g.arg # 1 => Accepts(g.id, g.arg - 1)'
      BY <1>1, <2>1, <3>2
    <3> QED
      BY <3>1, <3>2, <3>3
  <2>4. ASSUME NEW i \in DOMAIN up', NEW j \in DOMAIN up', Asks(up'[i]), Asks(up'[j]),
               Call(up'[i].id) = Call(up'[j].id)
        PROVE  i = j
    <3>1. \/ i \in DOMAIN up /\ up'[i] = up[i]
          \/ i = Len(up) + 1 /\ up'[i] = f
      BY <1>a
    <3>2. \/ j \in DOMAIN up /\ up'[j] = up[j]
          \/ j = Len(up) + 1 /\ up'[j] = f
      BY <1>a
    <3>3. Asks(f) => \A m \in DOMAIN up : Call(up[m].id) # Call(f.id)
      BY DEF Of
    <3>4. \A m, n \in DOMAIN up :
            Asks(up[m]) /\ Asks(up[n]) /\ Call(up[m].id) = Call(up[n].id) => m = n
      BY DEF LeftInv, AskedInv
    <3> QED
      BY <2>4, <3>1, <3>2, <3>3, <3>4
  <2> QED
    BY <2>2, <2>3, <2>4 DEF AskedInv
<1>5. OrderInv'
  <2>1. /\ \A i, j \in DOMAIN up : i < j /\ Call(up[i].id) = k => Call(up[j].id) = k
        /\ (\E i \in DOMAIN up : Call(up[i].id) # k) => ~Left(k)
    BY <1>b DEF LeftInv, OrderInv
  <2>2. (\E i \in DOMAIN up' : Call(up'[i].id) # k) => ~Left(k)'
    BY <1>1, <1>a, <1>b, <2>1
  <2>3. \A i, j \in DOMAIN up' : i < j /\ Call(up'[i].id) = k => Call(up'[j].id) = k
    <3>1. \A i \in DOMAIN up : i \in Nat /\ i <= Len(up)
      BY <1>a
    <3>2. \A i, j \in DOMAIN up' : i < j /\ j \in DOMAIN up => i \in DOMAIN up /\ up'[i] = up[i]
      BY <1>a, <3>1
    <3>3. up'[Len(up) + 1] = f /\ Len(up) + 1 \notin DOMAIN up
      BY <1>a, Added
    <3> SUFFICES ASSUME NEW i \in DOMAIN up', NEW j \in DOMAIN up', i < j,
                        Call(up'[i].id) = k
                 PROVE  Call(up'[j].id) = k
      OBVIOUS
    <3>4. CASE j \in DOMAIN up
      BY <1>a, <2>1, <3>2, <3>3, <3>4
    <3>5. CASE up'[j] = f
      BY <1>b, <3>5
    <3> QED
      BY <1>a, <3>4, <3>5
  <2> QED
    BY <1>b, <2>2, <2>3 DEF OrderInv
<1> QED
  BY <1>3, <1>4, <1>5 DEF LeftInv

\* A cancel asks for nothing.
LEMMA LeftForward ==
  ASSUME ShapeInv, ChatInv, LeftInv, Tell \/ Expire
  PROVE  LeftInv'
<1> DEFINE f == Frame("request", "cancel", call.id, None)
<1>0. /\ UNCHANGED <<daemon, ran, calls, loader>>
      /\ call.pc = "collect" /\ call \in CallType /\ call.kind # "none"
  BY DEF Tell, Expire, history, ShapeInv, ChatInv, PortInv
<1>1. f \in Frames /\ f.op = "cancel" /\ f.id = call.id
  <2>1. call.id \in Ids /\ "request" \in Kinds /\ "cancel" \in Ops /\ None \in Args
    BY <1>0 DEF CallType, Kinds, Ops, Args, Names
  <2> QED
    BY <2>1, FrameIs
<1>2. /\ UNCHANGED <<call.kind, call.id>>
      /\ \/ call'.pc = "collect" /\ givenUp' = givenUp
         \/ call'.pc = "close" /\ givenUp' = givenUp \cup {Call(call.id)}
  <2>1. CASE Tell
    BY <1>0, <2>1 DEF Tell, CallType, history
  <2>2. CASE Expire
    BY <1>0, <2>2 DEF Expire, Over, CallType
  <2> QED
    BY <2>1, <2>2
<1>3. up' = up \/ up' = Append(up, f)
  BY DEF Tell, Expire, Forward
<1> HIDE DEF f
<1>4. BodyInv'
  <2>1. ran[Call(call.id)] = 1
    BY <1>0 DEF LeftInv, BodyInv
  <2> QED
    BY <1>0, <1>2, <2>1 DEF BodyInv
<1>5. CASE up' = up
  BY <1>0, <1>2, <1>4, <1>5, LeftCall
<1>6. CASE up' = Append(up, f)
  BY <1>0, <1>1, <1>2, <1>4, <1>6, LeftWritten DEF Asks
<1> QED
  BY <1>3, <1>5, <1>6

\* The end of a run is the daemon's last word: it has nothing more of the call.
LEMMA LeftTake ==
  ASSUME ShapeInv, ChatInv, LeftInv, Take
  PROVE  LeftInv'
<1> DEFINE f == Head(port.queue)
<1>0. /\ UNCHANGED <<up, down, daemon, calls, ran, loader>>
      /\ call.pc = "collect" /\ call \in CallType /\ call.kind # "none"
      /\ port' = [port EXCEPT !.queue = Tail(@)] /\ port.queue # <<>>
  BY DEF Take, ChatInv, PortInv, ShapeInv
<1>1. f = port.queue[1] /\ 1 \in DOMAIN port.queue /\ f.id = call.id
  BY <1>0, PortTaken
<1>2. Collected(f)
  BY DEF Take
<1> HIDE DEF f
<1>3. PICK k : k = Call(call.id)
  OBVIOUS
<1>4. ran[k] = 1 /\ k \in 1..MaxCalls
  <2>1. k \in 1..calls /\ calls \in 0..MaxCalls /\ MaxCalls \in Nat
    BY <1>0, <1>3, ComputeAssumption DEF ChatInv, NumberInv
  <2> QED
    BY <1>0, <1>3, <2>1 DEF LeftInv, BodyInv
<1>5. /\ UNCHANGED <<call.kind, call.id>>
      /\ \/ call'.pc = "collect" /\ givenUp' = givenUp
         \/ call'.pc = "close" /\ givenUp' = givenUp \cup {k}
         \/ call'.pc = "close" /\ givenUp' = givenUp /\ f.op = "finish"
  <2>1. CASE f.op = "result" /\ Follows(f.arg)
    BY <1>0, <1>2, <2>1 DEF Collected, Follows, CallType
  <2>2. CASE f.op = "result" /\ ~Follows(f.arg)
    BY <1>0, <1>2, <1>3, <2>2 DEF Collected, Over, CallType
  <2>3. CASE f.op = "finish"
    BY <1>0, <1>2, <2>3 DEF Collected, Over, CallType
  <2>4. CASE f.op \notin {"result", "finish"}
    <3>1. UNCHANGED <<call, givenUp>>
      BY <1>2, <2>4 DEF Collected
    <3> QED
      BY <1>0, <3>1
  <2> QED
    BY <2>1, <2>2, <2>3, <2>4
<1>6. f.op = "finish" => ~Left(k) /\ \A i \in Of(up, k) : ~Asks(up[i])
  <2> SUFFICES ASSUME f.op = "finish"
               PROVE  ~Left(k) /\ \A i \in Of(up, k) : ~Asks(up[i])
    OBVIOUS
  <2>1. ~RunOf(k)
    BY <1>1, <1>3 DEF ChatInv, RunInv, IsEvent
  <2>2. daemon.running => daemon.run.pc # "idle"
    BY DEF LeftInv, OwnerInv
  <2>3. ~BodyOf(k) /\ ~(Loading /\ Call(daemon.load.id) = k)
    BY <1>4 DEF LeftInv, AskedInv
  <2>4. \A i \in Of(up, k) : ~Asks(up[i])
    BY <1>4 DEF LeftInv, AskedInv, Of
  <2> QED
    BY <2>1, <2>2, <2>3, <2>4 DEF Left, RunOf
<1>7. BodyInv'
  <2>1. k = Call(call'.id)
    BY <1>3, <1>5
  <2>2. ran'[k] = 1
    BY <1>0, <1>4
  <2>3. ~Left(k) => ~Left(k)'
    BY <1>0 DEF Left, BodyOf, Loading
  <2> QED
    BY <1>0, <1>5, <1>6, <2>1, <2>2, <2>3 DEF BodyInv
<1> QED
  BY <1>0, <1>3, <1>5, <1>7, LeftCall

\* A request is sent.
LEMMA LeftSend ==
  ASSUME ShapeInv, ChatInv, LeftInv, Send
  PROVE  LeftInv'
<1> DEFINE f == Frame("request", call.op, call.id,
                      IF call.op = "chat" THEN call.part ELSE call.name)
           k == Call(call.id)
<1>0. /\ UNCHANGED <<down, daemon, ran, calls, loader>>
      /\ call.pc = "send" /\ call \in CallType /\ up \in Seq(Frames)
      /\ port.queue = <<>> /\ Untouched(k) /\ call.kind # "none"
      /\ call.part \in 1..Parts /\ Parts \in Nat
  BY ComputeAssumption DEF Send, ShapeInv, CallType, ChatInv, PortInv
<1>1. port'.queue = <<>>
  BY <1>0 DEF Send, ShapeInv, PortType
<1>2. f \in Frames /\ f.op = call.op /\ f.id = call.id
      /\ (call.op = "chat" => f.arg = call.part)
  <2>1. call.op \in Ops /\ call.id \in Ids /\ "request" \in Kinds
        /\ (IF call.op = "chat" THEN call.part ELSE call.name) \in Args
    BY <1>0 DEF CallType, Args, Kinds
  <2> QED
    BY <1>0, <2>1, FrameIs
<1>3. \/ /\ UNCHANGED up /\ givenUp' = givenUp \cup {k}
         /\ call' = [call EXCEPT !.pc = "close", !.out = "io"]
      \/ /\ up' = Append(up, f) /\ givenUp' = givenUp
         /\ call' = [call EXCEPT !.pc = "await"]
  BY <1>0, Unanswered DEF Send, Goto
<1> HIDE DEF f
<1>4. /\ UNCHANGED <<call.kind, call.id, call.op, call.part>>
      /\ \/ UNCHANGED up /\ call'.pc = "close" /\ givenUp' = givenUp \cup {k}
         \/ up' = Append(up, f) /\ call'.pc = "await" /\ givenUp' = givenUp
  BY <1>0, <1>3 DEF CallType
<1>5. CASE UNCHANGED up /\ call'.pc = "close" /\ givenUp' = givenUp \cup {k}
  <2>1. BodyInv'
    BY <1>4, <1>5 DEF BodyInv
  <2> QED
    BY <1>0, <1>4, <1>5, <2>1, LeftCall
<1>6. CASE up' = Append(up, f) /\ call'.pc = "await" /\ givenUp' = givenUp
  <2>1. IF call.op = "chat" /\ call.part # 1
        THEN up = <<>> /\ Accepts(call.id, call.part - 1) ELSE ~BodyOf(k)
    BY <1>0 DEF LeftInv, BodyInv
  <2>2. f.op = "chat" /\ f.arg # 1 =>
          up = <<>> /\ f.arg \in 2..Parts /\ Accepts(f.id, f.arg - 1)
    BY <1>0, <1>2, <2>1
  <2>3. \A i \in Of(up', k) : up'[i] = f
    <3>1. Of(up, k) = {}
      BY <1>0 DEF Untouched
    <3>2. Of(up', k) = {Len(up) + 1}
      BY <1>0, <1>2, <1>6, <3>1, OfAdded
    <3> QED
      BY <1>0, <1>2, <1>6, <3>2, Added
  <2>4. BodyInv'
    <3>1. PICK j : j = k /\ j = Call(call'.id)
      BY <1>4
    <3>2. Of(down', j) = {} /\ Of(port'.queue, j) = {}
      BY <1>0, <1>1, <3>1, OfNone DEF Untouched
    <3>3. call.op # "chat" \/ call.part = 1 => ~BodyOf(j)'
      BY <1>0, <2>1, <3>1 DEF BodyOf
    <3> QED
      BY <1>2, <1>4, <1>6, <2>3, <3>1, <3>2, <3>3 DEF BodyInv
  <2>5. Of(up, k) = {} /\ ran[k] = 0
    BY <1>0 DEF Untouched
  <2> QED
    BY <1>0, <1>2, <1>4, <1>6, <2>2, <2>4, <2>5, LeftWritten
<1> QED
  BY <1>4, <1>5, <1>6

\* An answer is taken: it says what the daemon has of the body, and one that ends
\* the call leaves nothing.
LEMMA LeftTakeAnswer ==
  ASSUME ShapeInv, ChatInv, LeftInv, TakeAnswer
  PROVE  LeftInv'
<1> DEFINE f == Head(port.queue)
<1>0. /\ UNCHANGED <<up, down, daemon, calls, ran, loader>>
      /\ port' = [port EXCEPT !.queue = Tail(@)]
      /\ call.pc = "await" /\ port.queue # <<>> /\ call \in CallType
      /\ call.kind # "none" /\ AskInv
      /\ call.part \in 1..Parts /\ Parts \in Nat
  BY ComputeAssumption DEF TakeAnswer, ShapeInv, CallType, ChatInv, PortInv
<1>1. PICK k : k = Call(call.id)
  OBVIOUS
<1>2. /\ f = port.queue[1] /\ 1 \in Of(port.queue, k)
      /\ \A i \in DOMAIN port'.queue :
           /\ i \in Nat /\ i + 1 \in DOMAIN port.queue
           /\ port'.queue[i] = port.queue[i + 1]
  BY <1>0, <1>1, PortTaken
<1>3. /\ k \in 1..MaxCalls /\ ran[k] \in {0, 1}
      /\ call.op = "chat" => call.kind = "chat"
      /\ call.kind = "chat" => call.op \in {"chat", "load"}
  <2>1. k \in 1..calls /\ calls \in 0..MaxCalls /\ MaxCalls \in Nat
        /\ ran \in [1..MaxCalls -> {0, 1}]
    BY <1>0, <1>1, ComputeAssumption DEF ChatInv, NumberInv
  <2> QED
    BY <1>0, <2>1 DEF AskInv, CallType
<1>4. IF ran[k] = 0 THEN Alone(k)
      ELSE /\ call.op = "chat" /\ call.part = Parts
           /\ Answers(f) => f.arg = "ok"
  BY <1>0, <1>1, <1>2 DEF ChatInv, AwaitInv, Answers
<1>5. /\ call.op # "chat" => ~BodyOf(k)
      /\ call.op = "chat" /\ ran[k] = 0 => Says(f)
  BY <1>0, <1>1, <1>2 DEF LeftInv, BodyInv
<1>6. ran[k] = 0 /\ ~BodyOf(k) => ~Left(k) /\ Of(up, k) = {}
  <2> SUFFICES ASSUME ran[k] = 0, ~BodyOf(k) PROVE ~Left(k) /\ Of(up, k) = {}
    OBVIOUS
  <2>1. Of(up, k) = {} /\ ~LoadOf(k)
    BY <1>2, <1>4 DEF Alone
  <2>2. ~(daemon.running /\ Call(daemon.run.id) = k)
    BY DEF LeftInv, OwnerInv, ChatInv, RunInv
  <2>3. ~(Loading /\ Call(daemon.load.id) = k)
    BY <2>1 DEF LoadOf, Loading
  <2> QED
    BY <2>1, <2>2, <2>3 DEF Left
<1> HIDE DEF f
<1>7. CASE UNCHANGED <<call, givenUp>>
  <2>1. BodyInv'
    <3>1. \A j : /\ BodyOf(j)' <=> BodyOf(j)
      BY <1>0 DEF BodyOf
    <3>2. \A g : Says(g)' <=> Says(g)
      BY <1>0, <1>7 DEF Says, BodyOf, Accepts, Loading
    <3>3. /\ \A i \in Of(up, k) : up[i].id = call.id
          /\ call.op # "chat" => ~BodyOf(k)
          /\ call.op = "chat" /\ ran[k] = 0 =>
               /\ call.part = 1 /\ Of(up, k) # {} => ~BodyOf(k)
               /\ \A i \in Of(down, k) : Says(down[i])
               /\ \A i \in Of(port.queue, k) : Says(port.queue[i])
      BY <1>0, <1>1 DEF LeftInv, BodyInv
    <3>4. ASSUME call.op = "chat", ran[k] = 0
          PROVE  /\ \A i \in Of(down', k) : Says(down[i])'
                 /\ \A i \in Of(port'.queue, k) : Says(port.queue[i])'
      <4>1. ASSUME NEW i \in Of(down', k) PROVE Says(down[i])'
        <5>1. PICK g : g = down[i] /\ g = down'[i]
          BY <1>0
        <5>2. Says(g)
          BY <1>0, <3>3, <3>4, <5>1
        <5>3. Says(g)'
          BY <3>2, <5>2
        <5> QED
          BY <5>1, <5>3
      <4>2. ASSUME NEW i \in Of(port'.queue, k) PROVE Says(port.queue[i])'
        <5>1. PICK g : g = port'.queue[i]
          OBVIOUS
        <5>2. g = port.queue[i + 1] /\ i + 1 \in Of(port.queue, k)
          BY <1>2, <5>1 DEF Of
        <5>3. Says(g)
          BY <3>3, <3>4, <5>2
        <5>4. Says(g)'
          BY <3>2, <5>3
        <5> QED
          BY <5>1, <5>4
      <4> QED
        BY <4>1, <4>2
    <3>5. k = Call(call'.id)
      BY <1>1, <1>7
    <3>6. /\ \A i \in Of(up', k) : up'[i].id = call'.id
          /\ call'.op # "chat" => ~BodyOf(k)'
          /\ call'.part = 1 /\ call.op = "chat" /\ ran[k] = 0 /\ Of(up', k) # {}
               => ~BodyOf(k)'
      BY <1>0, <1>7, <3>1, <3>3
    <3> QED
      BY <1>0, <1>7, <3>4, <3>5, <3>6 DEF BodyInv
  <2> QED
    BY <1>0, <1>7, <2>1, LeftCall
<1>8. CASE f.kind = "response" /\ f.op = call.op /\ Returned(f.arg)
  <2> DEFINE id == <<Call(call.id), call.id[2] + 1>>
  <2>1. \/ /\ call.op = "chat" /\ f.arg = "ok" /\ call.part < Parts
           /\ call' = [call EXCEPT !.pc = "begin", !.part = @ + 1]
           /\ givenUp' = givenUp
        \/ /\ call.op = "chat" /\ f.arg = "ok" /\ ~(call.part < Parts)
           /\ call' = [call EXCEPT !.pc = "accepted"] /\ givenUp' = givenUp
        \/ /\ call.op = "chat" /\ f.arg # "ok" /\ givenUp' = givenUp
           /\ call' = [call EXCEPT !.op = "load", !.pc = "begin", !.part = 1,
                                   !.id = id]
        \/ /\ call.op = "load" /\ givenUp' = givenUp
           /\ call' = [call EXCEPT !.op = "chat", !.pc = "begin", !.part = 1,
                                   !.retried = TRUE, !.id = id]
        \/ /\ call.op = "chat" => f.arg # "ok"
           /\ givenUp' = givenUp \/ givenUp' = givenUp \cup {k}
           /\ \E out : call' = [call EXCEPT !.pc = "close", !.out = out]
    <3>1. CASE call.op = "chat"
      BY <1>1, <1>8, <3>1 DEF Returned, ChatReturned, Retries, Request, Over, Goto
    <3>2. CASE call.op = "load"
      BY <1>1, <1>8, <3>2 DEF Returned, LoadReturned, Over
    <3>3. CASE call.op \notin {"chat", "load"}
      BY <1>1, <1>8, <3>3 DEF Returned, Over
    <3> QED
      BY <3>1, <3>2, <3>3
  <2>2. Call(id) = k
    BY <1>1 DEF Call
  <2> HIDE DEF id
  <2>3. /\ call'.kind = call.kind /\ Call(call'.id) = k
        /\ givenUp' = givenUp \/ givenUp' = givenUp \cup {k}
        /\ \/ /\ call.op = "chat" /\ f.arg = "ok" /\ call.part < Parts
              /\ call'.pc = "begin" /\ call'.part = call.part + 1
              /\ call'.op = "chat" /\ call'.id = call.id
           \/ /\ call.op = "chat" /\ f.arg = "ok" /\ ~(call.part < Parts)
              /\ call'.pc = "accepted"
           \/ /\ call.op = "chat" => f.arg # "ok"
              /\ call'.pc = "begin"
              /\ call'.op = "load" \/ call'.part = 1
           \/ /\ call.op = "chat" => f.arg # "ok"
              /\ call'.pc = "close"
    <3>1. CASE /\ call.op = "chat" /\ f.arg = "ok" /\ call.part < Parts
               /\ call' = [call EXCEPT !.pc = "begin", !.part = @ + 1]
               /\ givenUp' = givenUp
      BY <1>0, <1>1, <3>1 DEF CallType
    <3>2. CASE /\ call.op = "chat" /\ f.arg = "ok" /\ ~(call.part < Parts)
               /\ call' = [call EXCEPT !.pc = "accepted"] /\ givenUp' = givenUp
      BY <1>0, <1>1, <3>2 DEF CallType
    <3>3. CASE /\ call.op = "chat" /\ f.arg # "ok" /\ givenUp' = givenUp
               /\ call' = [call EXCEPT !.op = "load", !.pc = "begin", !.part = 1,
                                       !.id = id]
      BY <1>0, <2>2, <3>3 DEF CallType
    <3>4. CASE /\ call.op = "load" /\ givenUp' = givenUp
               /\ call' = [call EXCEPT !.op = "chat", !.pc = "begin", !.part = 1,
                                       !.retried = TRUE, !.id = id]
      BY <1>0, <2>2, <3>4 DEF CallType
    <3>5. ASSUME NEW out, call' = [call EXCEPT !.pc = "close", !.out = out]
          PROVE  call'.kind = call.kind /\ call'.id = call.id /\ call'.pc = "close"
      BY <1>0, <3>5 DEF CallType
    <3> QED
      BY <1>1, <2>1, <3>1, <3>2, <3>3, <3>4, <3>5
  <2>4. /\ call.op = "chat" /\ f.arg = "ok" /\ call.part < Parts
             => up = <<>> /\ Accepts(call.id, call.part)
        /\ call.op = "chat" /\ f.arg = "ok" /\ ~(call.part < Parts) => ran[k] = 1
        /\ (call.op = "chat" => f.arg # "ok") => ran[k] = 0 /\ ~BodyOf(k)
    <3>1. call.op = "chat" => Answers(f)
      BY <1>8 DEF Answers
    <3> QED
      BY <1>0, <1>1, <1>3, <1>4, <1>5, <3>1 DEF Says
  <2>5. ~BodyOf(k) => ~BodyOf(k)'
    BY <1>0 DEF BodyOf
  <2>6. ~Left(k) => ~Left(k)'
    BY <1>0 DEF Left, BodyOf, Loading
  <2>7. BodyInv'
    <3>1. k = Call(call'.id)
      BY <2>3
    <3>2. CASE /\ call.op = "chat" /\ f.arg = "ok" /\ call.part < Parts
               /\ call'.pc = "begin" /\ call'.part = call.part + 1
               /\ call'.op = "chat" /\ call'.id = call.id
      <4>1. up' = <<>> /\ Accepts(call.id, call.part)
        BY <1>0, <2>4, <3>2
      <4>2. call'.part - 1 = call.part /\ call'.part # 1
        BY <1>0, <3>2
      <4>3. Accepts(call.id, call.part - 1)'
        BY <1>0, <3>2, <4>1, <4>2 DEF Accepts, Loading
      <4> QED
        BY <3>2, <4>1, <4>2, <4>3 DEF BodyInv
    <3>3. CASE /\ call.op = "chat" /\ f.arg = "ok" /\ ~(call.part < Parts)
               /\ call'.pc = "accepted"
      <4>1. ran'[k] = 1
        BY <1>0, <2>4, <3>3
      <4> QED
        BY <3>1, <3>3, <4>1 DEF BodyInv
    <3>4. CASE /\ call.op = "chat" => f.arg # "ok"
               /\ call'.pc = "begin"
               /\ call'.op = "load" \/ call'.part = 1
      BY <2>4, <2>5, <3>1, <3>4 DEF BodyInv
    <3>5. CASE /\ call.op = "chat" => f.arg # "ok"
               /\ call'.pc = "close"
      <4>1. ~Left(k)' /\ Of(up', k) = {}
        BY <1>0, <1>6, <2>4, <2>6, <3>5
      <4> QED
        BY <3>1, <3>5, <4>1 DEF BodyInv
    <3> QED
      BY <2>3, <3>2, <3>3, <3>4, <3>5
  <2> QED
    BY <1>0, <1>1, <2>3, <2>7, LeftCall
<1> QED
  BY <1>7, <1>8 DEF TakeAnswer, f

\* What a frame changes in the daemon, and what it is answered
LEMMA Answered ==
  ASSUME ShapeInv, ChatInv, Dispatch,
         NEW f, f = Head(up), NEW n, n = Call(f.id)
  PROVE  LET Replies(status) == down' = Append(down, Frame("response", f.op, f.id, status))
             Idle == ~daemon.running /\ ~Loading
         IN \/ /\ f.op \in {"load", "unload", "cancel"} /\ ran' = ran
               /\ UNCHANGED <<daemon.body, daemon.running, daemon.run, daemon.load>>
               /\ \E status \in Words : Replies(status)
            \/ /\ f.op = "load" /\ ~Loading /\ ran' = ran /\ down' = down
               /\ UNCHANGED <<daemon.body, daemon.running, daemon.run>>
               /\ Loading' /\ daemon'.load.id = f.id
            \/ /\ f.op = "chat" /\ ran' = ran
               /\ UNCHANGED <<daemon.running, daemon.run, daemon.load, daemon.loaded>>
               /\ \/ Replies("busy") /\ ~Idle /\ daemon'.body = daemon.body
                  \/ /\ Replies("not_ready") /\ Idle /\ daemon.loaded = None
                     /\ daemon'.body = daemon.body
                  \/ /\ Replies("invalid") /\ Idle /\ daemon.loaded # None
                     /\ ~Continues(f) /\ daemon'.body = <<>>
                  \/ /\ Replies("ok") /\ Idle /\ daemon.loaded # None /\ Continues(f)
                     /\ f.arg < Parts /\ daemon'.body = Append(daemon.body, f.id)
            \/ /\ f.op = "chat" /\ ~(f.arg < Parts) /\ Idle /\ ~Loading'
               /\ daemon'.body = <<>> /\ daemon'.running
               /\ daemon'.run.pc = "start" /\ daemon'.run.id = f.id
               /\ ran' = [ran EXCEPT ![n] = @ + 1] /\ Replies("ok")
<1> DEFINE Replies(status) == down' = Append(down, Frame("response", f.op, f.id, status))
<1>0. daemon \in DaemonType /\ up # <<>>
  BY DEF ShapeInv, Dispatch
<1>1. CASE f.op = "load"
  <2>1. BeginLoad(f) /\ ran' = ran
    BY <1>1 DEF Dispatch
  <2>2. \/ \E status \in {"busy", "ok"} : Reply(f, status) /\ UNCHANGED daemon
        \/ /\ daemon.load.pc = "idle" /\ UNCHANGED down
           /\ daemon' = [daemon EXCEPT !.load = [NoLoad EXCEPT
                           !.pc = "work", !.id = f.id, !.name = f.arg]]
    BY <2>1 DEF BeginLoad
  <2>3. CASE \E status \in {"busy", "ok"} : Reply(f, status) /\ UNCHANGED daemon
    BY <1>1, <2>1, <2>3 DEF Reply, Words
  <2>4. CASE /\ daemon.load.pc = "idle" /\ UNCHANGED down
             /\ daemon' = [daemon EXCEPT !.load = [NoLoad EXCEPT
                             !.pc = "work", !.id = f.id, !.name = f.arg]]
    BY <1>0, <1>1, <2>1, <2>4 DEF DaemonType, NoLoad, Loading
  <2> QED
    BY <2>2, <2>3, <2>4
<1>2. CASE f.op = "unload"
  <2>1. DaemonUnload(f) /\ ran' = ran
    BY <1>2 DEF Dispatch
  <2>2. /\ \E status \in {"busy", "invalid", "ok"} : Reply(f, status)
        /\ daemon' = daemon \/ daemon' = [daemon EXCEPT !.loaded = None]
    BY <2>1 DEF DaemonUnload
  <2> QED
    BY <1>0, <1>2, <2>1, <2>2 DEF Reply, Words, DaemonType
<1>3. CASE f.op = "cancel"
  <2>1. DaemonCancel(f) /\ ran' = ran
    BY <1>3 DEF Dispatch
  <2>2. /\ \E status \in {"invalid", "ok"} : Reply(f, status)
        /\ daemon' = daemon \/ daemon' = [daemon EXCEPT !.cancel = TRUE]
    BY <2>1 DEF DaemonCancel
  <2> QED
    BY <1>0, <1>3, <2>1, <2>2 DEF Reply, Words, DaemonType
<1>4. CASE f.op = "chat"
  <2> DEFINE Idle == ~daemon.running /\ ~Loading
             Same == UNCHANGED <<daemon.running, daemon.run, daemon.load, daemon.loaded>>
  <2>1. BeginChat(f)
    BY <1>4 DEF Dispatch
  <2>2. CASE ~Idle
    BY <1>4, <2>1, <2>2 DEF BeginChat, Reply
  <2>3. CASE Idle /\ daemon.loaded = None
    BY <1>4, <2>1, <2>3 DEF BeginChat, Reply
  <2>4. CASE Idle /\ daemon.loaded # None /\ ~Continues(f)
    <3>1. /\ Reply(f, "invalid") /\ ran' = ran
          /\ daemon' = [daemon EXCEPT !.body = <<>>]
      BY <2>1, <2>4 DEF BeginChat
    <3>2. Same /\ daemon'.body = <<>>
      BY <1>0, <3>1 DEF DaemonType
    <3> QED
      BY <1>4, <2>4, <3>1, <3>2 DEF Reply
  <2>5. CASE Idle /\ daemon.loaded # None /\ Continues(f) /\ f.arg < Parts
    <3>1. /\ Reply(f, "ok") /\ ran' = ran
          /\ daemon' = [daemon EXCEPT !.body = Append(daemon.body, f.id)]
      BY <2>1, <2>5 DEF BeginChat
    <3>2. Same /\ daemon'.body = Append(daemon.body, f.id)
      BY <1>0, <3>1 DEF DaemonType
    <3> QED
      BY <1>4, <2>5, <3>1, <3>2 DEF Reply
  <2>6. CASE Idle /\ daemon.loaded # None /\ Continues(f) /\ ~(f.arg < Parts)
    <3>1. /\ Reply(f, "ok")
          /\ daemon' = [daemon EXCEPT !.body = <<>>, !.cancel = FALSE,
                          !.running = TRUE, !.active = f.id,
                          !.run = [pc |-> "start", id |-> f.id, status |-> "none"]]
          /\ ran' = [ran EXCEPT ![n] = @ + 1]
      BY <2>1, <2>6 DEF BeginChat, BodyTaken
    <3>2. /\ daemon'.body = <<>> /\ daemon'.running /\ daemon'.load = daemon.load
          /\ daemon'.run.pc = "start" /\ daemon'.run.id = f.id
      BY <1>0, <3>1 DEF DaemonType
    <3> QED
      BY <1>4, <2>6, <3>1, <3>2 DEF Reply, Loading
  <2> QED
    BY <2>2, <2>3, <2>4, <2>5, <2>6
<1>5. f.op \in {"load", "unload", "chat", "cancel"}
  <2>1. f = up[1] /\ 1 \in DOMAIN up
    BY <1>0, Taken DEF ShapeInv
  <2> QED
    BY <2>1 DEF ChatInv, AskInv
<1> QED
  BY <1>1, <1>2, <1>3, <1>4, <1>5

\* One more frame of the same body
LEMMA Longer ==
  ASSUME NEW id \in Ids, NEW m \in Nat
  PROVE  /\ [i \in 1..m |-> id] \in Seq(Ids) /\ Len([i \in 1..m |-> id]) = m
         /\ Append([i \in 1..m |-> id], id) = [i \in 1..(m + 1) |-> id]
<1> DEFINE q == [i \in 1..m |-> id]
           r == [i \in 1..(m + 1) |-> id]
<1>1. q \in Seq(Ids) /\ Len(q) = m /\ \A i \in 1..m : q[i] = id
  <2>1. q \in [1..m -> Ids]
    OBVIOUS
  <2>2. q \in Seq(Ids)
    BY <2>1, IsASeq
  <2> QED
    BY <2>2
<1>2. r \in Seq(Ids) /\ Len(r) = m + 1 /\ \A i \in 1..(m + 1) : r[i] = id
  <2>1. r \in [1..(m + 1) -> Ids] /\ m + 1 \in Nat
    OBVIOUS
  <2>2. r \in Seq(Ids)
    BY <2>1, IsASeq
  <2> QED
    BY <2>2
<1> HIDE DEF q, r
<1>3. /\ Append(q, id) \in Seq(Ids) /\ Len(Append(q, id)) = m + 1
      /\ \A i \in 1..(m + 1) : Append(q, id)[i] = id
  BY <1>1
<1>4. Append(q, id) = r
  BY <1>2, <1>3
<1> QED
  BY <1>1, <1>4 DEF q, r

\* What the daemon has after a frame that asked for something is of the call
\* that asked, and the answer to a chat says what that is.
LEMMA LeftDispatch ==
  ASSUME ShapeInv, ChatInv, LeftInv, Dispatch
  PROVE  LeftInv'
<1>1. PICK f, n : f = Head(up) /\ n = Call(f.id)
  OBVIOUS
<1>2. /\ UNCHANGED <<call, port, loader, calls, givenUp>>
      /\ up \in Seq(Frames) /\ up # <<>> /\ up' = Tail(up)
      /\ down \in Seq(Frames) /\ daemon \in DaemonType /\ daemon.body \in Seq(Ids)
      /\ calls \in 0..MaxCalls /\ MaxCalls \in Nat /\ ran \in [1..MaxCalls -> {0, 1}]
      /\ call \in CallType /\ call.part \in 1..Parts /\ Parts \in Nat
  BY ComputeAssumption
  DEF Dispatch, ShapeInv, ChatInv, NumberInv, client, DaemonType, CallType
<1>3. /\ f \in Frames /\ f = up[1] /\ 1 \in DOMAIN up /\ 1 \in Of(up, n)
      /\ n \in 1..calls /\ n \in 1..MaxCalls /\ f.id \in Ids
      /\ \A i \in DOMAIN up' :
           i \in Nat /\ i + 1 # 1 /\ 1 < i + 1 /\ i + 1 \in DOMAIN up /\ up'[i] = up[i + 1]
  <2>1. /\ f \in Frames /\ f = up[1] /\ 1 \in DOMAIN up
        /\ \A i \in DOMAIN up' :
             i \in Nat /\ i + 1 # 1 /\ i + 1 \in DOMAIN up /\ up'[i] = up[i + 1]
    BY <1>1, <1>2, Taken
  <2>2. n \in 1..calls
    BY <1>1, <2>1 DEF ChatInv, NumberInv
  <2> QED
    BY <1>1, <1>2, <2>1, <2>2 DEF Of, Frames
<1> DEFINE r(status) == Frame("response", f.op, f.id, status)
           Replies(status) == down' = Append(down, r(status))
           Idle == ~daemon.running /\ ~Loading
           Others == /\ f.op \in {"load", "unload", "cancel"} /\ ran' = ran
                     /\ UNCHANGED <<daemon.body, daemon.running, daemon.run, daemon.load>>
                     /\ \E status \in Words : Replies(status)
           Loads == /\ f.op = "load" /\ ~Loading /\ ran' = ran /\ down' = down
                    /\ UNCHANGED <<daemon.body, daemon.running, daemon.run>>
                    /\ Loading' /\ daemon'.load.id = f.id
           Chats == /\ f.op = "chat" /\ ran' = ran
                    /\ UNCHANGED <<daemon.running, daemon.run, daemon.load, daemon.loaded>>
           Refused == Replies("busy") /\ ~Idle /\ daemon'.body = daemon.body
           Unready == /\ Replies("not_ready") /\ Idle /\ daemon.loaded = None
                      /\ daemon'.body = daemon.body
           Dropped == /\ Replies("invalid") /\ Idle /\ daemon.loaded # None
                      /\ ~Continues(f) /\ daemon'.body = <<>>
           Kept == /\ Replies("ok") /\ Idle /\ daemon.loaded # None /\ Continues(f)
                   /\ f.arg < Parts /\ daemon'.body = Append(daemon.body, f.id)
           Runs == /\ f.op = "chat" /\ ~(f.arg < Parts) /\ Idle /\ ~Loading'
                   /\ daemon'.body = <<>> /\ daemon'.running
                   /\ daemon'.run.pc = "start" /\ daemon'.run.id = f.id
                   /\ ran' = [ran EXCEPT ![n] = @ + 1] /\ Replies("ok")
<1>4. Others \/ Loads \/ (Chats /\ (Refused \/ Unready \/ Dropped \/ Kept)) \/ Runs
  BY <1>1, Answered
<1>5. \A status \in Words :
        /\ r(status) \in Frames /\ r(status).kind = "response"
        /\ r(status).op = f.op /\ r(status).id = f.id /\ r(status).arg = status
  <2>1. f.op \in Ops /\ f.id \in Ids /\ "response" \in Kinds /\ Words \subseteq Args
    BY <1>3 DEF Frames, Kinds, Args
  <2> QED
    BY <2>1, FrameIs
<1> HIDE DEF r
<1>6. down' = down \/ \E status \in Words : Replies(status)
  BY <1>4 DEF Words
\* What it asks for
<1>7. Asks(f) =>
        /\ ran[n] = 0
        /\ n \in givenUp \/ Current(n)
        /\ \A i \in DOMAIN up' : Asks(up'[i]) => Call(up'[i].id) # n
  BY <1>1, <1>3 DEF LeftInv, AskedInv
<1>8. \A i \in DOMAIN up' : Asks(up'[i]) =>
        /\ ran[Call(up'[i].id)] = 0
        /\ Call(up'[i].id) \in givenUp \/ Current(Call(up'[i].id))
        /\ up'[i].op = "chat" => up'[i].arg = 1
  <2> SUFFICES ASSUME NEW i \in DOMAIN up', Asks(up'[i])
               PROVE  /\ ran[Call(up'[i].id)] = 0
                      /\ Call(up'[i].id) \in givenUp \/ Current(Call(up'[i].id))
                      /\ up'[i].op = "chat" => up'[i].arg = 1
    OBVIOUS
  <2>1. PICK g, j : g = up'[i] /\ j = i + 1 /\ j \in DOMAIN up /\ g = up[j] /\ j # 1
    BY <1>3
  <2>2. /\ ran[Call(g.id)] = 0
        /\ Call(g.id) \in givenUp \/ Current(Call(g.id))
        /\ g.op = "chat" /\ g.arg # 1 => j = 1
    BY <2>1 DEF LeftInv, AskedInv
  <2> QED
    BY <2>1, <2>2
\* What the daemon has then
<1>9. /\ \A j : BodyOf(j)' => BodyOf(j) \/ (j = n /\ f.op = "chat")
      /\ \A i \in DOMAIN daemon'.body : Call(daemon'.body[i]) \in 1..calls
  <2>1. \A i \in DOMAIN daemon.body : Call(daemon.body[i]) \in 1..calls
    BY DEF LeftInv, OwnerInv
  <2>2. CASE daemon'.body = daemon.body
    BY <2>1, <2>2 DEF BodyOf
  <2>3. CASE daemon'.body = <<>>
    <3>1. DOMAIN daemon'.body = {}
      BY <2>3
    <3> QED
      BY <3>1 DEF BodyOf
  <2>4. CASE f.op = "chat" /\ daemon'.body = Append(daemon.body, f.id)
    <3>1. \A i \in DOMAIN daemon'.body :
            \/ i \in DOMAIN daemon.body /\ daemon'.body[i] = daemon.body[i]
            \/ daemon'.body[i] = f.id
      BY <1>2, <1>3, <2>4
    <3> QED
      BY <1>1, <1>3, <2>1, <2>4, <3>1 DEF BodyOf
  <2> QED
    BY <1>4, <2>2, <2>3, <2>4
<1>10. /\ daemon'.running => (daemon.running /\ daemon'.run = daemon.run)
                              \/ (f.op = "chat" /\ daemon'.run.id = f.id)
       /\ Loading' => (Loading /\ daemon'.load = daemon.load)
                        \/ (f.op = "load" /\ daemon'.load.id = f.id)
       /\ daemon'.running <=> daemon'.run.pc \in {"start", "run", "decided", "answered"}
  BY <1>4 DEF LeftInv, OwnerInv, Loading
<1>11. \A j : Left(j)' => Left(j) \/ (j = n /\ Asks(f))
  BY <1>1, <1>9, <1>10 DEF Left, Asks
<1>12. /\ \A j : j # n => ran'[j] = ran[j]
       /\ Runs => ran'[n] = 1 /\ ran[n] = 0
       /\ ~Runs => ran' = ran
  <2>1. Runs => ran[n] = 0
    BY <1>7 DEF Asks
  <2>2. CASE Runs
    BY <1>2, <1>3, <2>1, <2>2
  <2>3. CASE ~Runs
    BY <1>4, <2>3
  <2> QED
    BY <2>2, <2>3
<1>13. \A j : Current(j)' <=> Current(j)
  BY <1>2 DEF Current
<1>14. OwnerInv'
  <2>1. \A j \in 1..MaxCalls : Left(j)' => j \in givenUp \/ Current(j)
    BY <1>7, <1>11 DEF LeftInv, OwnerInv
  <2> QED
    BY <1>2, <1>9, <1>10, <1>13, <2>1 DEF LeftInv, OwnerInv
<1>15. AskedInv'
  <2>1. ASSUME NEW i \in DOMAIN up', NEW j \in DOMAIN up', Asks(up'[i]), Asks(up'[j]),
               Call(up'[i].id) = Call(up'[j].id)
        PROVE  i = j
    <3>1. /\ i \in Nat /\ i + 1 \in DOMAIN up /\ up'[i] = up[i + 1]
          /\ j \in Nat /\ j + 1 \in DOMAIN up /\ up'[j] = up[j + 1]
      BY <1>3
    <3>2. i + 1 = j + 1
      BY <2>1, <3>1 DEF LeftInv, AskedInv
    <3> QED
      BY <3>1, <3>2
  <2>2. ASSUME NEW i \in DOMAIN up', Asks(up'[i])
        PROVE  /\ ran'[Call(up'[i].id)] = 0
               /\ Call(up'[i].id) \in givenUp' \/ Current(Call(up[i].id))'
               /\ up'[i].op = "chat" => up'[i].arg = 1
    <3>1. PICK g : g = up'[i]
      OBVIOUS
    <3>2. /\ ran[Call(g.id)] = 0
          /\ Call(g.id) \in givenUp \/ Current(Call(g.id))
          /\ g.op = "chat" => g.arg = 1
      BY <1>8, <2>2, <3>1
    <3>3. Runs => Call(g.id) # n
      BY <1>7, <2>2, <3>1 DEF Asks
    <3>4. ran'[Call(g.id)] = 0
      BY <1>12, <3>2, <3>3
    <3>5. Current(Call(g.id)) => Current(Call(g.id))'
      BY <1>13
    <3> QED
      BY <1>2, <3>1, <3>2, <3>4, <3>5
  <2>3. ASSUME NEW j \in 1..MaxCalls, ran'[j] = 1
        PROVE  ~BodyOf(j)' /\ ~(Loading' /\ Call(daemon'.load.id) = j)
    <3>1. CASE Runs
      <4>1. DOMAIN daemon'.body = {}
        BY <3>1
      <4> QED
        BY <3>1, <4>1 DEF BodyOf
    <3>2. CASE ~Runs
      <4>1. ran[j] = 1
        BY <1>12, <2>3, <3>2
      <4>2. ~BodyOf(j) /\ ~(Loading /\ Call(daemon.load.id) = j)
        BY <4>1 DEF LeftInv, AskedInv
      <4>3. Asks(f) => j # n
        BY <1>7, <4>1
      <4> QED
        BY <1>1, <1>9, <1>10, <4>2, <4>3 DEF Asks
    <3> QED
      BY <3>1, <3>2
  <2> QED
    BY <2>1, <2>2, <2>3 DEF AskedInv
<1>16. PICK k : k = Call(call.id) /\ k = Call(call'.id)
  BY <1>2
<1>17. /\ call.kind # "none" /\ n = k => \A i \in DOMAIN up' : Call(up'[i].id) = k
       /\ call.kind # "none" /\ n # k => ~Left(k)
  <2>1. call.kind # "none" =>
          /\ \A i, j \in DOMAIN up : i < j /\ Call(up[i].id) = k => Call(up[j].id) = k
          /\ (\E i \in DOMAIN up : Call(up[i].id) # k) => ~Left(k)
    BY <1>16 DEF LeftInv, OrderInv
  <2> QED
    BY <1>1, <1>3, <2>1
<1>18. OrderInv'
  <2> SUFFICES ASSUME call.kind # "none" PROVE OrderInv'
    BY <1>2 DEF OrderInv
  <2>1. \A i, j \in DOMAIN up : i < j /\ Call(up[i].id) = k => Call(up[j].id) = k
    BY <1>16 DEF LeftInv, OrderInv
  <2>2. \A i, j \in DOMAIN up' : i < j /\ Call(up'[i].id) = k => Call(up'[j].id) = k
    <3> SUFFICES ASSUME NEW i \in DOMAIN up', NEW j \in DOMAIN up', i < j,
                        Call(up'[i].id) = k
                 PROVE  Call(up'[j].id) = k
      OBVIOUS
    <3>1. /\ i \in Nat /\ i + 1 \in DOMAIN up /\ up'[i] = up[i + 1]
          /\ j \in Nat /\ j + 1 \in DOMAIN up /\ up'[j] = up[j + 1]
      BY <1>3
    <3>2. i + 1 < j + 1
      BY <3>1
    <3> QED
      BY <2>1, <3>1, <3>2
  <2>3. (\E i \in DOMAIN up' : Call(up'[i].id) # k) => ~Left(k)'
    BY <1>11, <1>17
  <2> QED
    BY <1>16, <2>2, <2>3 DEF OrderInv
<1>19. BodyInv'
  <2>1. ASSUME call.pc \in {"begin", "send"}
        PROVE  ~BodyOf(k)' /\ ~(call.op = "chat" /\ call.part # 1)
    <3>1. ~BodyOf(k) /\ ~(call.op = "chat" /\ call.part # 1)
      BY <1>2, <1>16, <2>1 DEF LeftInv, BodyInv
    <3>2. k # n
      BY <1>3, <1>16, <2>1 DEF ChatInv, PortInv, Untouched
    <3> QED
      BY <1>9, <3>1, <3>2
  <2>2. ASSUME call.pc = "await"
        PROVE  /\ \A i \in Of(up', k) : up'[i].id = call.id
               /\ call.op # "chat" => ~BodyOf(k)'
               /\ call.op = "chat" /\ ran'[k] = 0 =>
                    /\ call.part = 1 /\ Of(up', k) # {} => ~BodyOf(k)'
                    /\ \A i \in Of(down', k) : Says(down[i])'
                    /\ \A i \in Of(port.queue, k) : Says(port.queue[i])'
    <3>1. /\ \A i \in Of(up, k) : up[i].id = call.id /\ up[i].op = call.op
                                  /\ (call.op = "chat" => up[i].arg = call.part)
          /\ call.op # "chat" => ~BodyOf(k)
          /\ call.op = "chat" /\ ran[k] = 0 =>
               /\ Alone(k)
               /\ call.part = 1 /\ Of(up, k) # {} => ~BodyOf(k)
               /\ \A i \in Of(down, k) : Says(down[i])
               /\ \A i \in Of(port.queue, k) : Says(port.queue[i])
      BY <1>16, <2>2 DEF LeftInv, BodyInv, ChatInv, AwaitInv
    <3>2. \A i \in Of(up', k) : i + 1 \in Of(up, k) /\ up'[i] = up[i + 1]
      BY <1>3 DEF Of
    <3>3. call.op # "chat" => ~BodyOf(k)'
      BY <1>1, <1>3, <1>9, <3>1
    <3>4. ASSUME call.op = "chat", ran'[k] = 0, k # n
          PROVE  /\ call.part = 1 /\ Of(up', k) # {} => ~BodyOf(k)'
                 /\ \A i \in Of(down', k) : Says(down[i])'
                 /\ \A i \in Of(port.queue, k) : Says(port.queue[i])'
      <4>1. ran[k] = 0
        BY <1>12, <3>4
      <4>2. \A g : Says(g) => Says(g)'
        <5>1. \A g : Says(g) => (Answers(g) => g.arg # "ok" /\ ~BodyOf(k))
          BY <1>2, <1>16 DEF Says
        <5>2. ~BodyOf(k) => ~BodyOf(Call(call.id))'
          BY <1>9, <1>16, <3>4
        <5> QED
          BY <5>1, <5>2 DEF Says, Answers
      <4>3. \A i \in Of(down', k) : i \in Of(down, k) /\ down'[i] = down[i]
        <5>1. CASE down' = down
          BY <5>1
        <5>2. ASSUME NEW status \in Words, Replies(status)
              PROVE  \A i \in Of(down', k) : i \in Of(down, k) /\ down'[i] = down[i]
          <6>1. r(status) \in Frames /\ r(status).id = f.id
            BY <1>5, <5>2
          <6>2. \A i \in DOMAIN down' :
                  \/ i \in DOMAIN down /\ down'[i] = down[i]
                  \/ down'[i] = r(status)
            BY <1>2, <5>2, <6>1, Added
          <6> QED
            BY <1>1, <3>4, <6>1, <6>2 DEF Of
        <5> QED
          BY <1>6, <5>1, <5>2
      <4>4. ASSUME NEW i \in Of(down', k) PROVE Says(down[i])'
        <5>1. PICK g : g = down'[i] /\ g = down[i] /\ i \in Of(down, k)
          BY <4>3
        <5>2. Says(g)
          BY <3>1, <3>4, <4>1, <5>1
        <5>3. Says(g)'
          BY <4>2, <5>2
        <5> QED
          BY <5>1, <5>3
      <4>5. ASSUME NEW i \in Of(port.queue, k) PROVE Says(port.queue[i])'
        <5>1. PICK g : g = port.queue[i] /\ g = port'.queue[i]
          BY <1>2
        <5>2. Says(g)
          BY <3>1, <3>4, <4>1, <5>1
        <5>3. Says(g)'
          BY <4>2, <5>2
        <5> QED
          BY <5>1, <5>3
      <4>6. call.part = 1 /\ Of(up', k) # {} => ~BodyOf(k)'
        BY <1>9, <3>1, <3>2, <3>4, <4>1
      <4> QED
        BY <4>4, <4>5, <4>6
    <3>5. ASSUME call.op = "chat", ran'[k] = 0, k = n
          PROVE  /\ call.part = 1 /\ Of(up', k) # {} => ~BodyOf(k)'
                 /\ \A i \in Of(down', k) : Says(down[i])'
                 /\ \A i \in Of(port.queue, k) : Says(port.queue[i])'
      <4>1. ran[k] = 0 /\ ~Runs
        BY <1>12, <3>5
      <4>2. /\ Alone(k) /\ f.op = "chat" /\ f.arg = call.part /\ f.id = call.id
            /\ call.part = 1 => ~BodyOf(k)
        BY <1>3, <3>1, <3>5, <4>1
      <4>3. /\ Of(down, k) = {} /\ Of(port.queue, k) = {} /\ Of(up', k) = {}
        <5>1. Single(Of(up, k))
          BY <4>2 DEF Alone
        <5>2. Of(Tail(up), k) = {}
          BY <1>1, <1>2, <1>3, <3>5, <5>1, OfTaken
        <5> QED
          BY <1>2, <1>3, <3>5, <4>2, <5>2 DEF Alone
      <4>4. call.part # 1 => f.arg \in 2..Parts /\ Accepts(call.id, call.part - 1)
        <5>1. Asks(f)
          BY <4>2 DEF Asks
        <5> QED
          BY <1>3, <4>2, <5>1 DEF LeftInv, AskedInv
      <4>5. Chats /\ (Refused \/ Unready \/ Dropped \/ Kept)
        BY <1>4, <4>1, <4>2
      <4>6. PICK status \in Words :
              /\ Replies(status)
              /\ IF status = "ok" THEN Kept ELSE Refused \/ Unready \/ Dropped
        BY <4>5 DEF Words
      <4>7. /\ r(status).kind = "response" /\ r(status).op = "chat"
            /\ r(status).arg = status /\ r(status) \in Frames
        BY <1>5, <4>2, <4>6
      <4>8. CASE status = "ok"
        <5>1. Kept
          BY <4>6, <4>8
        <5>2. PICK id \in Ids, m \in Nat : id = f.id /\ m = f.arg - 1
          <6>1. f.arg \in 1..Parts
            BY <1>2, <4>2
          <6> QED
            BY <1>2, <1>3, <6>1
        <5>3. daemon.body = [i \in 1..m |-> id]
          <6>1. CASE call.part = 1
            <7>0. f.arg = Len(daemon.body) + 1
              BY <5>1 DEF Continues
            <7>1. m = 0 /\ f.arg = 1
              BY <4>2, <5>2, <6>1
            <7>2. Len(daemon.body) = 0
              BY <1>2, <7>0, <7>1
            <7>3. daemon.body = <<>>
              BY <1>2, <7>2
            <7>4. [i \in 1..m |-> id] \in Seq(Ids) /\ Len([i \in 1..m |-> id]) = 0
              BY <5>2, <7>1, Longer
            <7>5. [i \in 1..m |-> id] = <<>>
              BY <7>4
            <7> QED
              BY <7>3, <7>5
          <6>2. CASE call.part # 1
            BY <4>2, <4>4, <5>1, <5>2, <6>2 DEF Accepts
          <6> QED
            BY <6>1, <6>2
        <5>4. daemon'.body = [i \in 1..(m + 1) |-> id]
          BY <5>1, <5>2, <5>3, Longer
        <5>5. m + 1 = call'.part /\ id = call'.id /\ call'.part < Parts
          BY <1>2, <4>2, <5>1, <5>2
        <5>6. Accepts(call.id, call.part)'
          <6>1. ~daemon'.running /\ ~Loading' /\ daemon'.loaded # None
            BY <4>5, <5>1 DEF Loading
          <6> QED
            BY <5>4, <5>5, <6>1 DEF Accepts
        <5>7. up' = <<>>
          <6>1. call.kind # "none"
            BY <2>2 DEF ChatInv, PortInv
          <6>2. DOMAIN up' = {}
            BY <1>17, <3>5, <4>3, <6>1 DEF Of
          <6>3. up' \in Seq(Frames)
            BY <1>2, Taken
          <6> QED
            BY <6>2, <6>3
        <5>8. \A g : g.arg = "ok" => Says(g)'
          BY <5>5, <5>6, <5>7 DEF Says
        <5> QED
          BY <4>7, <4>8, <5>8, <4>6, <1>2, <4>3, Added DEF Of
      <4>9. CASE status # "ok"
        <5>1. ~BodyOf(k)'
          <6>1. CASE Refused
            <7>1. call.part = 1
              BY <4>4, <6>1 DEF Accepts
            <7> QED
              BY <4>2, <6>1, <7>1 DEF BodyOf
          <6>2. CASE Unready
            <7>1. CASE call.part = 1
              BY <4>2, <6>2, <7>1 DEF BodyOf
            <7>2. CASE call.part # 1
              <8>1. daemon'.body = <<>>
                BY <4>4, <6>2, <7>2 DEF Accepts
              <8>2. DOMAIN daemon'.body = {}
                BY <8>1
              <8> QED
                BY <8>2 DEF BodyOf
            <7> QED
              BY <7>1, <7>2
          <6>3. CASE Dropped
            <7>1. DOMAIN daemon'.body = {}
              BY <6>3
            <7> QED
              BY <7>1 DEF BodyOf
          <6> QED
            BY <4>6, <4>9, <6>1, <6>2, <6>3
        <5>2. \A g : g.arg # "ok" => Says(g)'
          BY <1>16, <5>1 DEF Says
        <5> QED
          BY <4>7, <4>9, <5>2, <4>6, <1>2, <4>3, Added DEF Of
      <4> QED
        BY <4>8, <4>9
    <3> QED
      BY <3>1, <3>2, <3>3, <3>4, <3>5
  <2>3. call.pc \in {"accepted", "watch", "collect"} => ran'[k] = 1
    <3>1. call.pc \in {"accepted", "watch", "collect"} => ran[k] = 1
      BY <1>16 DEF LeftInv, BodyInv
    <3> QED
      BY <1>12, <3>1
  <2>4. ASSUME call.pc \in {"close", "settle"}, k \notin givenUp
        PROVE  ~Left(k)' /\ \A i \in Of(up', k) : ~Asks(up'[i])
    <3>1. ~Left(k) /\ \A i \in Of(up, k) : ~Asks(up[i])
      BY <1>16, <2>4 DEF LeftInv, BodyInv
    <3>2. \A i \in Of(up', k) : i + 1 \in Of(up, k) /\ up'[i] = up[i + 1]
      BY <1>3 DEF Of
    <3>3. n = k => ~Asks(f)
      BY <1>3, <3>1
    <3> QED
      BY <1>11, <3>1, <3>2, <3>3
  <2> QED
    BY <1>2, <1>16, <2>1, <2>2, <2>3, <2>4 DEF BodyInv
<1> QED
  BY <1>14, <1>15, <1>18, <1>19 DEF LeftInv

LEMMA LeftInit == Init => LeftInv
<1> SUFFICES ASSUME Init PROVE LeftInv
  OBVIOUS
<1>1. /\ call.kind = "none" /\ call.pc = "idle" /\ up = <<>> /\ givenUp = {}
      /\ loader.pc = "none" /\ daemon.body = <<>> /\ ~daemon.running
      /\ daemon.run.pc = "idle" /\ daemon.load.pc = "idle"
  BY DEF Init, NoCall, Daemon, NoLoad, NoRun
<1>2. DOMAIN up = {} /\ DOMAIN daemon.body = {}
  BY <1>1
<1>3. \A k : ~BodyOf(k) /\ ~Left(k) /\ ~Loading
  BY <1>1, <1>2 DEF BodyOf, Left, Loading
<1>4. OwnerInv /\ AskedInv
  BY <1>1, <1>2, <1>3 DEF OwnerInv, AskedInv
<1>5. OrderInv /\ BodyInv
  BY <1>1 DEF OrderInv, BodyInv
<1> QED
  BY <1>4, <1>5 DEF LeftInv

LEMMA LeftStep ==
  ASSUME ShapeInv, ChatInv, LeftInv, [Next]_vars
  PROVE  LeftInv'
<1>1. CASE Receive
  BY <1>1, LeftReceive
<1>2. CASE \/ StartLoader \/ Chat \/ Unload \/ Load \/ LoaderEnds \/ Cancel
           \/ \E name \in Models : AskLoad(name)
  BY <1>2, LeftClient
<1>3. CASE CallStep
  BY <1>3, LeftQuiet, LeftSend, LeftTakeAnswer, LeftForward, LeftTake, LeftSettle
  DEF CallStep
<1>4. CASE Dispatch
  BY <1>4, LeftDispatch
<1>5. CASE DaemonWorks
  BY <1>5, LeftThreads
<1>6. CASE Restart \/ LinkLost
  BY <1>6, LeftFault
<1>7. CASE UNCHANGED vars
  <2>1. UNCHANGED <<loader, call, port, up, down, daemon, calls, ran, givenUp>>
    BY <1>7 DEF vars, client, history
  <2>2. /\ \A k : Left(k)' => Left(k)
        /\ \A id, n : n \in Nat /\ Accepts(id, n) => Accepts(id, n)'
        /\ Loading' => Loading
    BY <2>1 DEF Left, BodyOf, Loading, Accepts
  <2>3. daemon.running <=> daemon.run.pc \in {"start", "run", "decided", "answered"}
    BY DEF LeftInv, OwnerInv
  <2> QED
    BY <2>1, <2>2, <2>3, LeftKept
<1> QED
  BY <1>1, <1>2, <1>3, <1>4, <1>5, <1>6, <1>7 DEF Next

LEMMA LeftCorrect == Spec => [](ShapeInv /\ ChatInv /\ LeftInv)
<1>1. Init => ShapeInv /\ ChatInv /\ LeftInv
  BY ShapeInit, ChatInit, LeftInit
<1>2. (ShapeInv /\ ChatInv /\ LeftInv) /\ [Next]_vars => (ShapeInv /\ ChatInv /\ LeftInv)'
  BY ChatStep, LeftStep
<1> QED
  BY <1>1, <1>2, PTL DEF Spec

\* What the daemon has when it refuses the chat at the head of the queue
LEMMA Refused ==
  ASSUME ShapeInv, ChatInv, LeftInv, up # <<>>, up[1].op = "chat",
         \/ daemon.running \/ Loading
         \/ daemon.loaded # None /\ ~Continues(up[1])
  PROVE  LeftBehind # {} /\ LeftBehind \subseteq givenUp
<1>1. PICK f, n : f = up[1] /\ n = Call(f.id)
  OBVIOUS
<1>2. /\ f \in Frames /\ 1 \in DOMAIN up /\ f.op = "chat" /\ 1 \in Of(up, n)
      /\ daemon.body \in Seq(Ids) /\ f.id \in Ids
      /\ calls \in 0..MaxCalls /\ MaxCalls \in Nat /\ Parts \in Nat
  <2>1. f \in Frames /\ 1 \in DOMAIN up
    BY <1>1, Taken DEF ShapeInv
  <2> QED
    BY <1>1, <2>1, ComputeAssumption
    DEF ShapeInv, Of, ChatInv, NumberInv, DaemonType, Frames
<1>3. /\ ran[n] = 0
      /\ f.arg # 1 => f.arg \in 2..Parts /\ Accepts(f.id, f.arg - 1)
  BY <1>1, <1>2 DEF LeftInv, AskedInv, Asks
<1>4. f.arg = 1
  <2> SUFFICES ASSUME f.arg # 1 PROVE FALSE
    OBVIOUS
  <2>1. PICK m \in Nat, id \in Ids : m = f.arg - 1 /\ id = f.id
    BY <1>2, <1>3
  <2>2. /\ daemon.loaded # None /\ ~Continues(f)
        /\ daemon.body = [i \in 1..m |-> id] /\ m >= 1
    BY <1>1, <1>2, <1>3, <2>1 DEF Accepts
  <2>3. Len(daemon.body) = m /\ daemon.body[1] = id
    BY <2>2, Longer
  <2> QED
    BY <1>2, <1>3, <2>1, <2>2, <2>3 DEF Continues
<1>5. daemon.running \/ Loading \/ daemon.body # <<>>
  BY <1>1, <1>4 DEF Continues
<1>6. LeftBehind # {}
  <2>1. daemon.body # <<>> => daemon.body[1] \in ToSet(daemon.body)
    BY <1>2 DEF ToSet
  <2> QED
    BY <1>5, <2>1 DEF LeftBehind
<1>7. \A k \in LeftBehind : Left(k) /\ k \in 1..MaxCalls
  <2> SUFFICES ASSUME NEW k \in LeftBehind PROVE Left(k) /\ k \in 1..calls
    BY <1>2
  <2>1. \/ \E i \in DOMAIN daemon.body : Call(daemon.body[i]) = k
        \/ daemon.running /\ Call(daemon.run.id) = k
        \/ Loading /\ Call(daemon.load.id) = k
    BY DEF LeftBehind, ToSet
  <2>2. daemon.running => daemon.run.pc # "idle"
    BY DEF LeftInv, OwnerInv
  <2> QED
    BY <2>1, <2>2
    DEF Left, BodyOf, LeftInv, OwnerInv, ChatInv, RunInv, NumberInv, Loading
<1>8. ASSUME NEW k, Left(k), Current(k), k \notin givenUp PROVE FALSE
  <2>1. k = Call(call.id) /\ call.kind # "none" /\ call.pc # "idle"
    BY <1>8 DEF Current, ChatInv, PortInv
  <2>2. n = k
    BY <1>1, <1>2, <1>8, <2>1 DEF LeftInv, OrderInv
  <2>3. call.pc \notin {"begin", "send"}
    BY <1>2, <2>1, <2>2 DEF ChatInv, PortInv, Untouched
  <2>4. call.pc \notin {"accepted", "watch", "collect"}
    BY <1>3, <2>1, <2>2 DEF LeftInv, BodyInv
  <2>5. call.pc \notin {"close", "settle"}
    BY <1>8, <2>1 DEF LeftInv, BodyInv
  <2>6. call.pc = "await"
    BY <2>1, <2>3, <2>4, <2>5 DEF ShapeInv, CallType
  <2>7. call.op = "chat" /\ call.part = 1 /\ Alone(k)
    BY <1>1, <1>2, <1>3, <1>4, <2>1, <2>2, <2>6 DEF ChatInv, AwaitInv
  <2>8. ~BodyOf(k)
    BY <1>2, <1>3, <2>1, <2>2, <2>6, <2>7 DEF LeftInv, BodyInv
  <2>9. ~LoadOf(k)
    BY <1>2, <2>2, <2>7 DEF Alone
  <2>10. ~(daemon.running /\ Call(daemon.run.id) = k)
    BY <1>3, <2>2 DEF LeftInv, OwnerInv, ChatInv, RunInv
  <2> QED
    BY <1>8, <2>8, <2>9, <2>10 DEF Left, LoadOf, Loading
<1>9. LeftBehind \subseteq givenUp
  BY <1>7, <1>8 DEF LeftInv, OwnerInv
<1> QED
  BY <1>6, <1>9

\* The daemon refuses a chat as busy or out of place only for what an earlier call
\* left behind that had given up, never for one that had its last word
\* (LlmService::BeginChat, ny_compute_llm_call).
THEOREM RefusalsExplainedCorrect == Spec => RefusalsExplained
<1> DEFINE Explained == Len(down') > Len(down) /\ Refuses(Last(down'))
                          => LeftBehind # {} /\ LeftBehind \subseteq givenUp
<1>1. ASSUME ShapeInv, ChatInv, LeftInv, [Next]_vars
      PROVE  [Explained]_vars
  <2> SUFFICES ASSUME Len(down') > Len(down), Refuses(Last(down')), Next
               PROVE  LeftBehind # {} /\ LeftBehind \subseteq givenUp
    BY <1>1
  <2>1. down \in Seq(Frames) /\ up \in Seq(Frames)
    BY <1>1 DEF ShapeInv
  <2>2. \A g : /\ Last(Append(down, g)) = g
               /\ \A q \in Seq(Frames) : Last(Append(q, g)) = g
    BY <2>1 DEF Last
  <2>3. Answers(Last(down')) /\ Last(down').arg \in {"busy", "invalid"}
    BY DEF Refuses, Answers
  <2>4. CASE Dispatch
    <3>1. PICK f, n : f = Head(up) /\ f = up[1] /\ n = Call(f.id) /\ up # <<>>
      BY <2>1, <2>4, Taken DEF Dispatch
    <3>2. \/ down' = down
          \/ /\ f.op # "chat"
             /\ \E status : down' = Append(down, Frame("response", f.op, f.id, status))
          \/ /\ f.op = "chat" /\ (daemon.running \/ Loading)
          \/ /\ f.op = "chat" /\ daemon.loaded # None /\ ~Continues(f)
          \/ \E status \in {"ok", "not_ready"} :
               down' = Append(down, Frame("response", f.op, f.id, status))
      BY <1>1, <2>4, <3>1, Answered
    <3>3. down' # down
      BY <2>1
    <3>4. ASSUME NEW status, down' = Append(down, Frame("response", f.op, f.id, status))
          PROVE  f.op = "chat" /\ status \in {"busy", "invalid"}
      <4>1. Last(down') = Frame("response", f.op, f.id, status)
        BY <2>2, <3>4
      <4> QED
        BY <2>3, <4>1 DEF Answers, Frame
    <3>5. /\ f.op = "chat"
          /\ \/ daemon.running \/ Loading
             \/ daemon.loaded # None /\ ~Continues(f)
      BY <3>2, <3>3, <3>4
    <3> QED
      BY <1>1, <3>1, <3>5, Refused
  <2>5. CASE DaemonWorks
    <3>1. down' \in Seq(Frames)
      BY <1>1, <2>5, ShapeDaemon DEF ShapeInv
    <3>2. Len(down') \in DOMAIN down' /\ Len(down') \notin DOMAIN down
      BY <2>1, <3>1
    <3>3. Last(down') = down'[Len(down')]
      BY DEF Last
    <3> QED
      BY <1>1, <2>3, <2>5, <3>2, <3>3, ThreadsDo
  <2>6. CASE Restart \/ LinkLost
    <3>1. PICK q \in Seq(Frames) : down' = Append(q, Ready)
      <4>1. CASE Restart
        BY <2>1, <4>1, Cut DEF Restart
      <4>2. CASE LinkLost
        <5>1. down' = <<Ready>>
          BY <4>2 DEF LinkLost
        <5>2. <<Ready>> = Append(<<>>, Ready) /\ <<>> \in Seq(Frames)
          OBVIOUS
        <5> QED
          BY <5>1, <5>2
      <4> QED
        BY <2>6, <4>1, <4>2
    <3>2. Last(down') = Ready
      BY <2>2, <3>1
    <3> QED
      BY <2>3, <3>2 DEF Answers, Ready, Frame
  <2>7. CASE Receive
    BY <2>1, <2>7, Taken DEF Receive
  <2>8. CASE \/ StartLoader \/ Chat \/ Unload \/ Load \/ LoaderEnds \/ Cancel \/ CallStep
             \/ \E name \in Models : AskLoad(name)
    <3>1. down' = down
      BY <2>8 DEF StartLoader, Chat, Unload, Load, LoaderEnds, Cancel, CallStep, AskLoad,
         Begin, Send, TakeAnswer, NoAnswer, Accepted, Watch, Tell, Expire, Take, Reset,
         Close, Settle
    <3> QED
      BY <2>1, <3>1
  <2> QED
    BY <2>4, <2>5, <2>6, <2>7, <2>8 DEF Next
<1> HIDE DEF Explained
<1> QED
  BY <1>1, LeftCorrect, PTL DEF Spec, RefusalsExplained, Explained

==============================================================================
