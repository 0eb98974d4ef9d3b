--------------------------- MODULE BootUpdateProofs ---------------------------
(***************************************************************************)
(* Theorems about BootUpdate: its types, that a staging does not touch the *)
(* slot that runs, that this slot stays a boot candidate, what the record  *)
(* says of the slots, and that the panel's updates implement BootSwitch.   *)
(***************************************************************************)
EXTENDS BootUpdate, TLAPS

USE SentinelAssumption, TaskAssumption, CliAssumption, BoundAssumption
    DEF Tasks, Slots, At

(***************************************************************************)
(* The record and the boot loader                                          *)
(***************************************************************************)
CopyType == [Slots -> RecordType \cup {Torn}]

\* The changes of the record keep its type.
LEMMA RecordTypes ==
  ASSUME NEW record \in RecordType, NEW s \in Slots,
         NEW image \in Images \cup {NoImage}
  PROVE  /\ Invalidated(record, s) \in RecordType
         /\ Activated(record, s) \in RecordType
         /\ Staged(record, s, image) \in RecordType
         /\ Rewritten(record) \in RecordType
         /\ [record EXCEPT !.successful[s] = TRUE] \in RecordType
<1>1. Invalidated(record, s) \in RecordType
  BY DEF Invalidated, RecordType
<1>2. Activated(record, s) \in RecordType
  BY DEF Activated, RecordType
<1>3. Staged(record, s, image) \in RecordType
  BY <1>2 DEF Staged, RecordType
<1>4. Rewritten(record) \in RecordType
  <2>1. record.generation + 1 \in Nat
    BY DEF RecordType
  <2> QED
    BY <2>1 DEF Rewritten, RecordType
<1>5. [record EXCEPT !.successful[s] = TRUE] \in RecordType
  BY DEF RecordType
<1> QED
  BY <1>1, <1>2, <1>3, <1>4, <1>5

\* What the changes of the record do to its fields: in the slot that they are
\* about, and in the other one
LEMMA InvalidatedFields ==
  ASSUME NEW record \in RecordType, NEW s \in Slots, NEW r \in Slots, r # s
  PROVE  /\ Invalidated(record, s) \in RecordType
         /\ Invalidated(record, s).image = record.image
         /\ Invalidated(record, s).active = record.active
         /\ Invalidated(record, s).generation = record.generation
         /\ Invalidated(record, s).priority[s] = 0
         /\ Invalidated(record, s).priority[r] = record.priority[r]
         /\ ~Invalidated(record, s).successful[s]
         /\ Invalidated(record, s).successful[r] = record.successful[r]
<1>2. /\ Invalidated(record, s) \in RecordType
      /\ Invalidated(record, s).image = record.image
      /\ Invalidated(record, s).active = record.active
      /\ Invalidated(record, s).generation = record.generation
      /\ Invalidated(record, s).priority = [record.priority EXCEPT ![s] = 0]
      /\ Invalidated(record, s).successful
           = [record.successful EXCEPT ![s] = FALSE]
  BY RecordTypes DEF Invalidated, RecordType
<1>3. record.priority \in [Slots -> {0, 14, 15}]
      /\ record.successful \in [Slots -> BOOLEAN]
  BY DEF RecordType
<1>4. /\ Invalidated(record, s).priority[s] = 0
      /\ Invalidated(record, s).priority[r] = record.priority[r]
  BY <1>2, <1>3
<1>5. /\ ~Invalidated(record, s).successful[s]
      /\ Invalidated(record, s).successful[r] = record.successful[r]
  BY <1>2, <1>3
<1> QED
  BY <1>2, <1>4, <1>5

LEMMA ActivatedFields ==
  ASSUME NEW record \in RecordType, NEW s \in Slots, NEW r \in Slots, r # s
  PROVE  /\ Activated(record, s) \in RecordType
         /\ Activated(record, s).active = s
         /\ Activated(record, s).image = record.image
         /\ Activated(record, s).successful = record.successful
         /\ Activated(record, s).generation = record.generation
         /\ Activated(record, s).priority[s] = 15
         /\ Activated(record, s).priority[r] \in {0, 14}
         /\ Activated(record, s).priority[r] = 0
              <=> record.priority[r] = 0
<1> DEFINE lead == [q \in Slots |-> IF q = s THEN 15
                                    ELSE IF record.priority[q] >= 15 THEN 14
                                    ELSE record.priority[q]]
<1>2. record.priority \in [Slots -> {0, 14, 15}]
  BY DEF RecordType
<1>3. lead[s] = 15 /\ lead[r] \in {0, 14} /\ (lead[r] = 0 <=> record.priority[r] = 0)
  BY <1>2
<1>4. Activated(record, s) = [record EXCEPT !.active = s, !.priority = lead]
  BY DEF Activated, RecordType
<1> HIDE DEF lead
<1>5. /\ Activated(record, s) \in RecordType
      /\ Activated(record, s).active = s
      /\ Activated(record, s).image = record.image
      /\ Activated(record, s).successful = record.successful
      /\ Activated(record, s).generation = record.generation
      /\ Activated(record, s).priority = lead
  <2>1. Activated(record, s) \in RecordType
    BY RecordTypes
  <2> QED
    BY <1>4, <2>1 DEF RecordType
<1> QED
  BY <1>3, <1>5

\* A staging leaves the other slot bootable if it was, with the same image.
LEMMA StagedFields ==
  ASSUME NEW record \in RecordType, NEW s \in Slots, NEW r \in Slots, r # s,
         NEW image \in Images \cup {NoImage}
  PROVE  /\ Staged(record, s, image).active = s
         /\ Staged(record, s, image).generation = record.generation
         /\ Staged(record, s, image).priority[s] = 15
         /\ Staged(record, s, image).priority[r] \in {0, 14}
         /\ Staged(record, s, image).priority[r] = 0 <=> record.priority[r] = 0
         /\ Staged(record, s, image).image[s] = image
         /\ Staged(record, s, image).image[r] = record.image[r]
         /\ Staged(record, s, image).successful[r] = record.successful[r]
<1> DEFINE before == Activated(record, s)
           staged == Staged(record, s, image)
<1>1. /\ before \in RecordType /\ before.active = s
      /\ before.image = record.image /\ before.successful = record.successful
      /\ before.generation = record.generation
      /\ before.priority[s] = 15 /\ before.priority[r] \in {0, 14}
      /\ before.priority[r] = 0 <=> record.priority[r] = 0
  BY ActivatedFields
<1>2. staged = [before EXCEPT !.successful[s] = FALSE, !.image[s] = image]
  BY DEF Staged
<1>3. staged \in RecordType
  BY RecordTypes
<1> HIDE DEF before, staged
<1>4. /\ staged.priority = before.priority /\ staged.active = before.active
      /\ staged.generation = before.generation
      /\ staged.successful = [before.successful EXCEPT ![s] = FALSE]
      /\ staged.image = [before.image EXCEPT ![s] = image]
  BY <1>1, <1>2, <1>3 DEF RecordType
<1>5. before.successful \in [Slots -> BOOLEAN]
      /\ before.image \in [Slots -> Images \cup {NoImage}]
  BY <1>1 DEF RecordType
<1>6. staged.image[s] = image /\ staged.image[r] = record.image[r]
  BY <1>1, <1>4, <1>5
<1>7. staged.successful[r] = record.successful[r]
  BY <1>1, <1>4, <1>5
<1> QED
  BY <1>1, <1>4, <1>6, <1>7 DEF staged

LEMMA RewrittenFields ==
  ASSUME NEW record \in RecordType
  PROVE  /\ Rewritten(record) \in RecordType
         /\ Rewritten(record).generation = record.generation + 1
         /\ Rewritten(record).priority = record.priority
         /\ Rewritten(record).successful = record.successful
         /\ Rewritten(record).image = record.image
         /\ Rewritten(record).active = record.active
         /\ Rewritten(record).valid
<1>1. Rewritten(record) \in RecordType
  BY RecordTypes
<1> QED
  BY <1>1 DEF Rewritten, RecordType

\* A copy is readable when it is a record, and a torn one is not.
LEMMA Copies ==
  ASSUME NEW copies \in CopyType
  PROVE  /\ Readable(copies) \subseteq Slots
         /\ \A c \in Readable(copies) : copies[c] \in RecordType
         /\ \A c \in Slots : copies[c] \in RecordType => c \in Readable(copies)
         /\ \A c \in Slots : c \in Readable(copies) <=> copies[c].valid
         /\ \A c \in Slots : c \notin Readable(copies) => copies[c] = Torn
<1>1. ASSUME NEW c \in Slots
      PROVE  /\ copies[c] \in RecordType => copies[c].valid
             /\ copies[c].valid => copies[c] \in RecordType
             /\ ~copies[c].valid => copies[c] = Torn
  <2>1. copies[c] \in RecordType \cup {Torn}
    BY DEF CopyType
  <2>2. copies[c] \in RecordType => copies[c].valid
    BY DEF RecordType
  <2>3. ~Torn.valid
    BY DEF Torn
  <2> QED
    BY <2>1, <2>2, <2>3
<1> QED
  BY <1>1 DEF Readable

\* nbootctl_read_records takes a readable copy, none of a higher generation.
LEMMA SelectedReadable ==
  ASSUME NEW copies \in CopyType, Readable(copies) # {}
  PROVE  /\ Selected(copies) \in Readable(copies)
         /\ \A d \in Readable(copies) :
              copies[d].generation <= copies[Selected(copies)].generation
<1> DEFINE Best(c) == \A d \in Readable(copies) \ {c} :
             \/ copies[c].generation > copies[d].generation
             \/ copies[c].generation = copies[d].generation /\ c < d
<1>1. \A c \in Readable(copies) : copies[c].generation \in Nat
  BY Copies DEF RecordType
<1>2. \E c \in Readable(copies) : Best(c)
  <2>1. CASE Readable(copies) = {0}
    BY <2>1
  <2>2. CASE Readable(copies) = {1}
    BY <2>2
  <2>3. CASE Readable(copies) = {0, 1}
    <3>1. copies[0].generation \in Nat /\ copies[1].generation \in Nat
      BY <1>1, <2>3
    <3>2. CASE copies[0].generation >= copies[1].generation
      <4>1. Best(0)
        BY <2>3, <3>1, <3>2
      <4> QED
        BY <4>1, <2>3
    <3>3. CASE copies[1].generation > copies[0].generation
      <4>1. Best(1)
        BY <2>3, <3>1, <3>3
      <4> QED
        BY <4>1, <2>3
    <3> QED
      BY <3>1, <3>2, <3>3
  <2> QED
    BY <2>1, <2>2, <2>3, Copies
<1>3. Selected(copies) \in Readable(copies) /\ Best(Selected(copies))
  <2> DEFINE chosen == CHOOSE c \in Readable(copies) : Best(c)
  <2>1. chosen \in Readable(copies) /\ Best(chosen)
    BY <1>2
  <2>2. Selected(copies) = chosen
    BY DEF Selected
  <2> QED
    BY <2>1, <2>2
<1>4. ASSUME NEW d \in Readable(copies)
      PROVE  copies[d].generation <= copies[Selected(copies)].generation
  BY <1>1, <1>3
<1> QED
  BY <1>3, <1>4

\* A copy that is ahead of the other one, or the only one, is selected.
LEMMA SelectedIs ==
  ASSUME NEW copies \in CopyType, NEW c \in Slots, copies[c].valid,
         copies[1 - c].valid =>
           copies[1 - c].generation < copies[c].generation
  PROVE  Selected(copies) = c
<1>1. c \in Readable(copies)
  BY Copies
<1>2. Selected(copies) \in {c, 1 - c}
  BY <1>1, SelectedReadable, Copies
<1>3. ASSUME Selected(copies) = 1 - c PROVE FALSE
  <2>1. 1 - c \in Readable(copies) /\ 1 - c \in Slots
    BY <1>1, <1>3, SelectedReadable
  <2>2. copies[1 - c].valid
    BY <2>1, Copies
  <2>3. copies[c].generation <= copies[1 - c].generation
    BY <1>1, <1>3, SelectedReadable
  <2>4. copies[c].generation \in Nat /\ copies[1 - c].generation \in Nat
    BY <1>1, <2>1, Copies DEF RecordType
  <2> QED
    BY <2>2, <2>3, <2>4
<1> QED
  BY <1>2, <1>3

\* The slot that the boot loader starts is a candidate whose image verifies.
LEMMA StartedVerified ==
  ASSUME NEW record \in RecordType
  PROVE  /\ Started(record) \in Slots \cup {Recovery}
         /\ Started(record) \in Slots =>
              record.priority[Started(record)] # 0
              /\ Verified(record, Started(record))
         /\ \A s \in Slots :
              record.priority[s] # 0 /\ Verified(record, s)
                => Started(record) \in Slots
<1> DEFINE good == {s \in Bootable(record) : Verified(record, s)}
           Best(s) == \A r \in good \ {s} : Ahead(record, s, r)
<1>1. good \subseteq Slots
  BY DEF Bootable
<1>2. CASE good = {}
  <2>1. Started(record) = Recovery
    BY <1>2 DEF Started
  <2> QED
    BY <1>2, <2>1 DEF Bootable
<1>3. CASE good # {}
  <2>1. \E s \in good : Best(s)
    <3>1. CASE good = {0}
      BY <3>1
    <3>2. CASE good = {1}
      BY <3>2
    <3>3. CASE good = {0, 1}
      <4>1. Ahead(record, 0, 1) \/ Ahead(record, 1, 0)
        BY DEF Ahead, RecordType
      <4>2. Best(0) \/ Best(1)
        BY <3>3, <4>1
      <4> QED
        BY <3>3, <4>2
    <3> QED
      BY <1>1, <1>3, <3>1, <3>2, <3>3
  <2> DEFINE chosen == CHOOSE s \in good : Best(s)
  <2>2. chosen \in good
    BY <2>1
  <2>3. Started(record) = chosen
    BY <1>3 DEF Started
  <2> QED
    BY <1>1, <2>2, <2>3 DEF Bootable
<1> QED
  BY <1>2, <1>3

\* The slot that leads is the one that starts.
LEMMA LeaderStarts ==
  ASSUME NEW record \in RecordType, NEW s \in Slots, Leads(record, s)
  PROVE  Started(record) = s
<1> DEFINE good == {r \in Bootable(record) : Verified(record, r)}
           Best(r) == \A q \in good \ {r} : Ahead(record, r, q)
<1>1. s \in good /\ good \subseteq Slots
  BY DEF Leads, Bootable
<1>2. Best(s)
  BY <1>1 DEF Leads, Bootable
<1>3. ASSUME NEW r \in good, Best(r) PROVE r = s
  <2>1. SUFFICES ASSUME r # s PROVE FALSE
    OBVIOUS
  <2>2. Ahead(record, r, s) /\ Ahead(record, s, r)
    BY <1>1, <1>2, <1>3, <2>1
  <2>3. record.priority[r] \in Nat /\ record.priority[s] \in Nat
    BY <1>1 DEF RecordType
  <2> QED
    BY <2>1, <2>2, <2>3 DEF Ahead
<1> DEFINE chosen == CHOOSE r \in good : Best(r)
<1>4. chosen \in good /\ Best(chosen)
  BY <1>1, <1>2
<1>5. Started(record) = chosen
  BY <1>1 DEF Started
<1> QED
  BY <1>3, <1>4, <1>5

\* The boot loader starts what the selected record says.
LEMMA BootSlotStarted ==
  ASSUME NEW copies \in CopyType
  PROVE  BootSlot(copies) = IF Readable(copies) = {} THEN Recovery
                            ELSE Started(copies[Selected(copies)])
BY DEF BootSlot

(***************************************************************************)
(* Types, and what a task does                                             *)
(***************************************************************************)
\* What JobInv says of task t when it does job
Proper(t, job) ==
  /\ job.pc = "idle" => job = Idle
  /\ job.pc = "receive" => t \in Web /\ job.op = "upload"
  /\ job.pc = "digest" => t \in Web /\ job.op = "apply"
  /\ job.pc = "reboot" => t \in Web /\ job.op = "reboot"
  /\ job.pc = "read" => job.op \in {"apply", "confirm"} \cup CliOps
  /\ job.op \in {"apply", "confirm"} => t \in Web
  /\ job.op \in CliOps => t \in Cli
  /\ job.pc \in {"first", "second", "payload", "copying", "compare"} =>
       /\ job.op \in {"apply", "confirm"} \cup CliOps
       /\ job.record \in RecordType
       /\ ~job.final => job.op \in Staging
  /\ job.pc \in {"payload", "copying", "compare"} => ~job.final

LEMMA JobsProper == JobInv <=> \A t \in Tasks : Proper(t, task[t])
BY DEF JobInv, Proper, Holds

LEMMA IdleProper == \A t \in Tasks : Idle \in TaskType /\ Proper(t, Idle)
<1>1. Idle.pc = "idle" /\ Idle.op = "none" /\ Idle \in TaskType
  BY DEF Idle, TaskType, TaskPC, Ops
<1>2. "none" \notin CliOps
  OBVIOUS
<1> QED
  BY <1>1, <1>2 DEF Proper

\* A step of task t changes no other task.
Moves(t) == \E job \in TaskType : Proper(t, job) /\ task' = [task EXCEPT ![t] = job]

LEMMA AnswerMoves ==
  ASSUME TypeInv, NEW t \in Tasks, NEW ok \in BOOLEAN, Answer(t, ok)
  PROVE  /\ Moves(t) /\ task' = [task EXCEPT ![t] = Idle]
         /\ claimed' \in BOOLEAN
         /\ apply' \in ApplyType
         /\ file' \in Images \cup {NoImage}
         /\ vouched' \subseteq Slots
<1>1. Moves(t) /\ task' = [task EXCEPT ![t] = Idle]
  BY IdleProper DEF Answer, Moves
<1>2. task[t].target \in Slots
  BY DEF TypeInv, TaskType
<1>3. claimed' \in BOOLEAN /\ file' \in Images \cup {NoImage}
      /\ vouched' \subseteq Slots
  BY <1>2 DEF Answer, TypeInv
<1>4. apply' \in ApplyType
  BY DEF Answer, TypeInv, ApplyType
<1> QED
  BY <1>1, <1>3, <1>4

LEMMA GotoMoves ==
  ASSUME TypeInv, NEW t \in Tasks, NEW pc \in TaskPC, Goto(t, pc),
         Proper(t, [task[t] EXCEPT !.pc = pc])
  PROVE  Moves(t)
<1> DEFINE job == [task[t] EXCEPT !.pc = pc]
<1>1. job \in TaskType
  BY DEF TypeInv, TaskType
<1>2. task' = [task EXCEPT ![t] = job]
  BY DEF Goto
<1> QED
  BY <1>1, <1>2 DEF Moves

\* The requests of the panel and the commands
LEMMA RequestMoves ==
  ASSUME TypeInv, JobInv, NEW t \in Tasks,
         \/ t \in Web /\ (Upload(t) \/ Apply(t) \/ Confirm(t) \/ Reboot(t))
         \/ t \in Cli /\ Command(t)
  PROVE  Moves(t) /\ At(t, "idle")
<1>1. task[t] \in TaskType /\ task \in [Tasks -> TaskType]
  BY DEF TypeInv
<1>2. At(t, "idle") /\ task[t] = Idle
  BY DEF Upload, Apply, Confirm, Reboot, Command, Claim, JobInv
<1>3. CASE t \in Web /\ Upload(t)
  <2> DEFINE job == [Idle EXCEPT !.pc = "receive", !.op = "upload"]
  <2>1. job \in TaskType /\ Proper(t, job)
    BY <1>3 DEF Idle, TaskType, TaskPC, Ops, Proper
  <2>2. task' = [task EXCEPT ![t] = job]
    BY <1>1, <1>2, <1>3 DEF Upload, Idle
  <2> QED
    BY <1>2, <2>1, <2>2 DEF Moves
<1>4. CASE t \in Web /\ Apply(t)
  <2> DEFINE job == [Idle EXCEPT !.pc = "digest", !.op = "apply"]
  <2>1. job \in TaskType /\ Proper(t, job)
    BY <1>4 DEF Idle, TaskType, TaskPC, Ops, Proper
  <2>2. task' = [task EXCEPT ![t] = job]
    BY <1>1, <1>2, <1>4 DEF Apply, Idle
  <2> QED
    BY <1>2, <2>1, <2>2 DEF Moves
<1>5. CASE t \in Web /\ Confirm(t)
  <2> DEFINE job == [Idle EXCEPT !.pc = "read", !.op = "confirm",
                                 !.target = running]
  <2>1. job \in TaskType /\ Proper(t, job)
    BY <1>5 DEF Confirm, Idle, TaskType, TaskPC, Ops, Proper
  <2>2. task' = [task EXCEPT ![t] = job]
    BY <1>1, <1>2, <1>5 DEF Confirm, Idle
  <2> QED
    BY <1>2, <2>1, <2>2 DEF Moves
<1>6. CASE t \in Web /\ Reboot(t)
  <2> DEFINE job == [Idle EXCEPT !.pc = "reboot", !.op = "reboot"]
  <2>1. job \in TaskType /\ Proper(t, job)
    BY <1>6 DEF Idle, TaskType, TaskPC, Ops, Proper
  <2>2. task' = [task EXCEPT ![t] = job]
    BY <1>1, <1>2, <1>6 DEF Reboot, Idle
  <2> QED
    BY <1>2, <2>1, <2>2 DEF Moves
<1>7. CASE t \in Cli /\ Command(t)
  <2>1. PICK op \in CliOps, s \in Slots, image \in Images \cup {NoImage} :
          task' = [task EXCEPT ![t].pc = "read",
                               ![t].op = op, ![t].target = s, ![t].image = image]
    BY <1>7 DEF Command
  <2> DEFINE job == [Idle EXCEPT !.pc = "read", !.op = op, !.target = s,
                                 !.image = image]
  <2>2. job \in TaskType /\ Proper(t, job)
    BY <1>7 DEF Idle, TaskType, TaskPC, Ops, Proper
  <2>3. task' = [task EXCEPT ![t] = job]
    BY <1>1, <1>2, <2>1 DEF Idle
  <2> QED
    BY <1>2, <2>2, <2>3 DEF Moves
<1> QED
  BY <1>3, <1>4, <1>5, <1>6, <1>7

\* The target of a staging is a slot.
LEMMA TargetIsSlot ==
  ASSUME NEW record \in RecordType, running \in Slots \cup {Amp, Recovery}
  PROVE  StageTarget(record) \in Slots
BY DEF StageTarget, RecordType

\* What a caller changes in the record that it has read
Changed(t, record) ==
  IF task[t].op \in {"confirm", "mark-successful"}
    THEN [record EXCEPT !.successful[task[t].target] = TRUE]
  ELSE IF task[t].op = "set-active" THEN Activated(record, task[t].target)
  ELSE record

LEMMA ReadMoves ==
  ASSUME TypeInv, JobInv, NEW t \in Tasks, ReadToStage(t) \/ ReadToChange(t)
  PROVE  LET record == copy[Selected(copy)] IN
         /\ Moves(t) /\ At(t, "read") /\ Readable(copy) # {}
         /\ record \in RecordType /\ Selected(copy) \in Slots
         /\ task'[t].pc = "first" /\ task'[t].op = task[t].op
         /\ task'[t].selected = Selected(copy)
         /\ ReadToStage(t) =>
              /\ task[t].op \in Staging /\ ~task'[t].final
              /\ task'[t].target = StageTarget(record)
              /\ task'[t].image = ImageOf(t) /\ ImageOf(t) # NoImage
              /\ task'[t].record
                   = Rewritten(Invalidated(record, StageTarget(record)))
         /\ ReadToChange(t) =>
              /\ task[t].op \notin Staging /\ task'[t].final
              /\ task'[t].target = task[t].target
              /\ task'[t].record = Rewritten(Changed(t, record))
<1> DEFINE record == copy[Selected(copy)]
<1>1. copy \in CopyType /\ At(t, "read") /\ Readable(copy) # {}
  BY DEF TypeInv, CopyType, ReadToStage, ReadToChange
<1>2. record \in RecordType /\ Selected(copy) \in Slots
  BY <1>1, SelectedReadable, Copies
<1>3. /\ task[t].op \in {"apply", "confirm"} \cup CliOps
      /\ task[t].op \in {"apply", "confirm"} => t \in Web
      /\ task[t].op \in CliOps => t \in Cli
  BY <1>1 DEF JobInv
<1>4. task[t] \in TaskType /\ task \in [Tasks -> TaskType]
      /\ task[t].target \in Slots /\ running \in Slots \cup {Amp, Recovery}
  BY DEF TypeInv, TaskType
<1>5. CASE ReadToStage(t)
  <2> DEFINE target == StageTarget(record)
             image == ImageOf(t)
             written == Rewritten(Invalidated(record, target))
             job == [task[t] EXCEPT !.pc = "first", !.final = FALSE,
                       !.target = target, !.image = image,
                       !.selected = Selected(copy), !.record = written]
  <2>1. target \in Slots /\ written \in RecordType
    BY <1>2, <1>4, TargetIsSlot, RecordTypes
  <2>2. image \in Images \cup {NoImage} /\ image # NoImage
    BY <1>4, <1>5 DEF TypeInv, TaskType, ImageOf, ReadToStage
  <2>3. task[t].op \in Staging
    BY <1>5 DEF ReadToStage
  <2>4. task' = [task EXCEPT ![t] = job]
    BY <1>4, <1>5 DEF ReadToStage
  <2> HIDE DEF target, image, written
  <2>5. job \in TaskType /\ job.pc = "first" /\ job.op = task[t].op
        /\ ~job.final /\ job.record = written /\ job.target = target
        /\ job.image = image /\ job.selected = Selected(copy)
    BY <1>2, <1>4, <2>1, <2>2 DEF TaskType, TaskPC
  <2> HIDE DEF job
  <2>6. Proper(t, job)
    BY <1>3, <2>1, <2>3, <2>5 DEF Proper
  <2>7. task'[t] = job /\ Moves(t)
    BY <1>4, <2>4, <2>5, <2>6 DEF Moves
  <2>8. ~ReadToChange(t)
    BY <2>3 DEF ReadToChange
  <2> QED
    BY <1>1, <1>2, <2>2, <2>3, <2>5, <2>7, <2>8 DEF target, image, written
<1>6. CASE ReadToChange(t)
  <2> DEFINE changed == Changed(t, record)
             written == Rewritten(changed)
             job == [task[t] EXCEPT !.pc = "first", !.final = TRUE,
                       !.selected = Selected(copy), !.record = written]
  <2>1. changed \in RecordType
    BY <1>2, <1>4, RecordTypes DEF Changed
  <2>2. written \in RecordType
    BY <2>1, RecordTypes
  <2>3. task[t].op \notin Staging
        /\ task[t].op \in {"confirm", "mark-successful", "set-active", "request"}
    BY <1>3, <1>6 DEF ReadToChange, Staging
  <2>4. task' = [task EXCEPT ![t] = job]
    <3>1. CASE task[t].op \in {"confirm", "mark-successful"}
      BY <1>4, <1>6, <3>1 DEF ReadToChange, Changed
    <3>2. CASE task[t].op = "set-active"
      BY <1>4, <1>6, <3>2 DEF ReadToChange, Changed
    <3>3. CASE task[t].op = "request"
      BY <1>4, <1>6, <3>3 DEF ReadToChange, Changed
    <3> QED
      BY <2>3, <3>1, <3>2, <3>3
  <2> HIDE DEF changed, written
  <2>5. job \in TaskType /\ job.pc = "first" /\ job.op = task[t].op
        /\ job.final /\ job.record = written /\ job.target = task[t].target
        /\ job.selected = Selected(copy)
    BY <1>2, <1>4, <2>2 DEF TaskType, TaskPC
  <2> HIDE DEF job
  <2>6. Proper(t, job)
    BY <1>3, <2>2, <2>3, <2>5 DEF Proper
  <2>7. task'[t] = job /\ Moves(t)
    BY <1>4, <2>4, <2>5, <2>6 DEF Moves
  <2>8. ~ReadToStage(t)
    BY <2>3 DEF ReadToStage
  <2> QED
    BY <1>1, <1>2, <2>3, <2>5, <2>7, <2>8 DEF written, changed
<1> QED
  BY <1>5, <1>6

LEMMA WorkMoves ==
  ASSUME TypeInv, JobInv, NEW t \in Tasks, Work(t)
  PROVE  Moves(t) /\ ~At(t, "idle")
<1> USE DEF TaskPC
<1>1. /\ Proper(t, task[t]) /\ task[t] \in TaskType
      /\ task \in [Tasks -> TaskType] /\ Idle \in TaskType /\ Proper(t, Idle)
  BY JobsProper, IdleProper DEF TypeInv
<1>2. ~At(t, "idle")
  BY DEF Work, Receive, DigestMatches, DigestDiffers, CheckFails, ReadToStage,
         ReadToChange, ReadFails, WriteCopy, WriteFails, BeginPayload,
         EndPayload, Compare, PayloadFails, RebootRefused
<1>3. CASE Receive(t) \/ DigestDiffers(t)
  BY <1>1, <1>2, <1>3 DEF Receive, DigestDiffers, Moves
<1>4. CASE CheckFails(t) \/ ReadFails(t) \/ WriteFails(t) \/ PayloadFails(t)
           \/ RebootRefused(t)
  <2>1. Answer(t, FALSE)
    BY <1>4 DEF CheckFails, ReadFails, WriteFails, PayloadFails, RebootRefused
  <2> QED
    BY <1>2, <2>1, AnswerMoves
<1>5. CASE DigestMatches(t)
  <2>1. Proper(t, [task[t] EXCEPT !.pc = "read"])
    BY <1>1, <1>5 DEF Proper, DigestMatches, TaskType
  <2> QED
    BY <1>2, <1>5, <2>1, GotoMoves DEF DigestMatches
<1>6. CASE ReadToStage(t) \/ ReadToChange(t)
  BY <1>2, <1>6, ReadMoves
<1>7. CASE WriteCopy(t)
  <2>1. At(t, "first") \/ At(t, "second")
    BY <1>7 DEF WriteCopy
  <2>2. Proper(t, [task[t] EXCEPT !.pc = "second"])
    BY <1>1, <2>1 DEF Proper, TaskType
  <2>3. ~task[t].final => Proper(t, [task[t] EXCEPT !.pc = "payload"])
    BY <1>1, <2>1 DEF Proper, TaskType
  <2>4. CASE Goto(t, "second")
    BY <1>2, <2>2, <2>4, GotoMoves
  <2>5. CASE ~task[t].final /\ Goto(t, "payload")
    BY <1>2, <2>3, <2>5, GotoMoves
  <2>6. CASE Answer(t, TRUE)
    BY <1>2, <2>6, AnswerMoves
  <2> QED
    BY <1>7, <2>4, <2>5, <2>6 DEF WriteCopy
<1>8. CASE BeginPayload(t)
  <2>1. Proper(t, [task[t] EXCEPT !.pc = "copying"])
    BY <1>1, <1>8 DEF Proper, BeginPayload, TaskType
  <2> QED
    BY <1>2, <1>8, <2>1, GotoMoves DEF BeginPayload
<1>9. CASE EndPayload(t)
  <2>1. Proper(t, [task[t] EXCEPT !.pc = "compare"])
    BY <1>1, <1>9 DEF Proper, EndPayload, TaskType
  <2> QED
    BY <1>2, <1>9, <2>1, GotoMoves DEF EndPayload
<1>10. CASE Compare(t)
  <2> DEFINE written ==
        Rewritten(Staged(task[t].record, task[t].target, task[t].image))
             job == [task[t] EXCEPT !.pc = "first", !.final = TRUE,
                                    !.record = written]
  <2>1. task[t].record \in RecordType /\ task[t].target \in Slots
        /\ task[t].image \in Images \cup {NoImage}
    BY <1>1, <1>10 DEF Compare, Proper, TaskType
  <2>2. written \in RecordType
    BY <2>1, RecordTypes
  <2>3. task' = [task EXCEPT ![t] = job]
    BY <1>10 DEF Compare
  <2> HIDE DEF written
  <2>4. job \in TaskType /\ Proper(t, job)
    BY <1>1, <1>10, <2>2 DEF Compare, Proper, TaskType
  <2> QED
    BY <1>2, <2>3, <2>4 DEF Moves
<1> QED
  BY <1>3, <1>4, <1>5, <1>6, <1>7, <1>8, <1>9, <1>10 DEF Work

\* The steps by which something other than a task changes
LEMMA WorkTypes ==
  ASSUME TypeInv, JobInv, NEW t \in Tasks, Work(t)
  PROVE  /\ copy' \in CopyType
         /\ content' \in [Slots -> Images \cup {NoImage, Partial}]
         /\ file' \in Images \cup {NoImage}
         /\ claimed' \in BOOLEAN
         /\ apply' \in ApplyType
         /\ vouched' \subseteq Slots
         /\ running' = running
<1> USE DEF TypeInv, medium
<1>1. copy \in CopyType /\ task[t] \in TaskType /\ Torn \in RecordType \cup {Torn}
  BY DEF CopyType
<1>2. Answer(t, TRUE) \/ Answer(t, FALSE) =>
        /\ claimed' \in BOOLEAN /\ apply' \in ApplyType
        /\ file' \in Images \cup {NoImage} /\ vouched' \subseteq Slots
  BY AnswerMoves
<1>3. CASE Receive(t) \/ DigestMatches(t) \/ DigestDiffers(t)
  BY <1>1, <1>3 DEF Receive, DigestMatches, DigestDiffers, ApplyType
<1>4. CASE CheckFails(t) \/ ReadFails(t) \/ PayloadFails(t) \/ RebootRefused(t)
  BY <1>1, <1>2, <1>4 DEF CheckFails, ReadFails, PayloadFails, RebootRefused
<1>5. CASE ReadToStage(t) \/ ReadToChange(t)
  BY <1>1, <1>5 DEF ReadToStage, ReadToChange
<1>6. CASE WriteCopy(t) \/ WriteFails(t)
  <2>1. At(t, "first") \/ At(t, "second")
    BY <1>6 DEF WriteCopy, WriteFails
  <2>2. task[t].record \in RecordType
    BY <2>1 DEF JobInv, Holds
  <2>3. CopyAt(t) \in Slots
    BY <1>1 DEF CopyAt, TaskType
  <2>4. copy' \in CopyType
    BY <1>1, <1>6, <2>2, <2>3 DEF WriteCopy, WriteFails, CopyType
  <2> QED
    BY <1>2, <1>6, <2>4 DEF WriteCopy, WriteFails
<1>7. CASE BeginPayload(t) \/ EndPayload(t)
  <2>1. task[t].target \in Slots /\ task[t].image \in Images \cup {NoImage}
    BY <1>1 DEF TaskType
  <2>2. content' \in [Slots -> Images \cup {NoImage, Partial}]
    <3>1. CASE BeginPayload(t)
      BY <2>1, <3>1 DEF BeginPayload
    <3>2. CASE EndPayload(t)
      <4>1. PICK bytes \in {task[t].image, Partial} :
              content' = [content EXCEPT ![task[t].target] = bytes]
        BY <3>2 DEF EndPayload
      <4> QED
        BY <2>1, <4>1
    <3> QED
      BY <1>7, <3>1, <3>2
  <2> QED
    BY <1>1, <1>7, <2>2 DEF BeginPayload, EndPayload
<1>8. CASE Compare(t)
  BY <1>1, <1>8 DEF Compare
<1> QED
  BY <1>3, <1>4, <1>5, <1>6, <1>7, <1>8 DEF Work

LEMMA RequestTypes ==
  ASSUME TypeInv, NEW t \in Tasks, WebRequest(t) \/ Command(t)
  PROVE  /\ UNCHANGED medium
         /\ file' \in Images \cup {NoImage}
         /\ claimed' \in BOOLEAN
         /\ apply' \in ApplyType
         /\ vouched' = vouched
<1> USE DEF TypeInv, medium, Claim
<1>1. CASE Upload(t) \/ Remove(t)
  BY <1>1 DEF Upload, Remove
<1>2. CASE Apply(t) \/ ApplyRefused(t)
  <2>1. PICK image \in Images, state \in {"writing", "failed"} :
          apply' = [state |-> state, image |-> image]
    BY <1>2 DEF Apply, ApplyRefused
  <2>2. apply' \in ApplyType
    BY <2>1 DEF ApplyType
  <2> QED
    BY <1>2, <2>2 DEF Apply, ApplyRefused
<1>3. CASE Confirm(t) \/ Reboot(t) \/ Command(t)
  BY <1>3 DEF Confirm, Reboot, Command
<1> QED
  BY <1>1, <1>2, <1>3 DEF WebRequest

\* Of the copies that a loss of power leaves, at most the one that is being
\* written is torn.
Survivors ==
  {copy} \cup {[copy EXCEPT ![CopyAt(t)] = Torn] :
                 t \in {u \in Tasks : At(u, "first") \/ At(u, "second")}}

LEMMA SurvivorTypes ==
  ASSUME TypeInv
  PROVE  Survivors \subseteq CopyType
<1>1. copy \in CopyType
  BY DEF TypeInv, CopyType
<1>2. ASSUME NEW t \in Tasks PROVE [copy EXCEPT ![CopyAt(t)] = Torn] \in CopyType
  BY <1>1 DEF CopyType
<1> QED
  BY <1>1, <1>2 DEF Survivors

LEMMA BootRecordTypes ==
  ASSUME NEW copies \in CopyType
  PROVE  /\ BootRecord(copies) \in CopyType
         /\ BootSlot(copies) \in Slots \cup {Recovery}
<1>1. CASE Readable(copies) = {}
  BY <1>1 DEF BootRecord, BootSlot
<1>2. CASE Readable(copies) # {}
  <2> DEFINE record == copies[Selected(copies)]
             tried == {s \in Bootable(record) :
                         /\ ~Verified(record, s)
                         /\ \/ BootSlot(copies) = Recovery
                            \/ Ahead(record, s, BootSlot(copies))}
             after == [record EXCEPT !.priority =
                         [s \in Slots |-> IF s \in tried THEN 0 ELSE @[s]]]
  <2>1. record \in RecordType
    BY <1>2, SelectedReadable, Copies
  <2>2. BootSlot(copies) = Started(record)
    BY <1>2 DEF BootSlot
  <2>3. after \in RecordType
    <3> HIDE DEF tried
    <3> QED
      BY <2>1 DEF RecordType
  <2>4. Rewritten(after) \in RecordType
    BY <2>3, RecordTypes
  <2>5. BootRecord(copies) = copies \/ BootRecord(copies) = [c \in Slots |-> Rewritten(after)]
    BY DEF BootRecord
  <2> HIDE DEF after
  <2>6. BootRecord(copies) \in CopyType
    BY <2>4, <2>5 DEF CopyType
  <2> QED
    BY <2>1, <2>2, <2>6, StartedVerified
<1> QED
  BY <1>1, <1>2

LEMMA ResetTypes ==
  ASSUME TypeInv, Reset
  PROVE  /\ copy' \in CopyType /\ running' \in Slots \cup {Amp, Recovery}
         /\ task' = [t \in Tasks |-> Idle]
         /\ UNCHANGED <<content, file, vouched>>
         /\ claimed' = FALSE /\ apply' = NoApply
         /\ \E copies \in Survivors :
              \/ running' = BootSlot(copies) /\ copy' = BootRecord(copies)
              \/ running' = Amp /\ copy' = copies
<1>1. PICK copies \in Survivors :
        \/ running' = BootSlot(copies) /\ copy' = BootRecord(copies)
        \/ running' = Amp /\ copy' = copies
  BY DEF Reset, Survivors
<1>2. copies \in CopyType
  BY SurvivorTypes
<1> QED
  BY <1>1, <1>2, BootRecordTypes DEF Reset

\* What every lemma about a step starts from
ShapeInv == TypeInv /\ JobInv

LEMMA ShapeInit == Init => ShapeInv
<1> SUFFICES ASSUME Init PROVE TypeInv /\ JobInv
  BY DEF ShapeInv
<1>1. JobInv
  BY IdleProper, JobsProper DEF Init
<1>2. copy \in [Slots -> RecordType \cup {Torn}]
      /\ content \in [Slots -> Images \cup {NoImage, Partial}]
  BY DEF Init, RecordType
<1>3. task \in [Tasks -> TaskType]
  BY IdleProper DEF Init
<1>4. file \in Images \cup {NoImage} /\ claimed \in BOOLEAN
      /\ running \in Slots /\ vouched \subseteq Slots /\ apply = NoApply
  BY DEF Init
<1>5. apply \in ApplyType
  BY <1>4 DEF NoApply, ApplyType
<1> QED
  BY <1>1, <1>2, <1>3, <1>4, <1>5 DEF TypeInv

LEMMA MovesKeepShape ==
  ASSUME ShapeInv, NEW t \in Tasks, Moves(t)
  PROVE  task' \in [Tasks -> TaskType] /\ JobInv'
<1>1. PICK job \in TaskType : Proper(t, job) /\ task' = [task EXCEPT ![t] = job]
  BY DEF Moves
<1>2. task \in [Tasks -> TaskType] /\ \A u \in Tasks : Proper(u, task[u])
  BY JobsProper DEF ShapeInv, TypeInv
<1>3. \A u \in Tasks : Proper(u, task'[u])
  BY <1>1, <1>2
<1>4. JobInv'
  BY <1>3 DEF JobInv, Proper, Holds
<1> QED
  BY <1>1, <1>2, <1>4

\* What a step is: a request, a command, work of one task, or a restart
LEMMA Steps ==
  ASSUME Next
  PROVE  \/ \E t \in Web : Upload(t) \/ Apply(t) \/ Confirm(t) \/ Reboot(t)
         \/ \E t \in Web : Remove(t) \/ ApplyRefused(t)
         \/ \E t \in Cli : Command(t)
         \/ \E t \in Tasks : Work(t)
         \/ Reset
BY DEF Next, WebRequest

LEMMA ShapeStep == ShapeInv /\ [Next]_vars => ShapeInv'
<1> SUFFICES ASSUME ShapeInv, [Next]_vars PROVE ShapeInv'
  OBVIOUS
<1> USE DEF ShapeInv
<1>1. CASE UNCHANGED vars
  <2>1. TypeInv'
    BY <1>1 DEF vars, TypeInv
  <2>2. JobInv'
    BY <1>1 DEF vars, JobInv, Holds
  <2> QED
    BY <2>1, <2>2
<1>2. ASSUME NEW t \in Web, Upload(t) \/ Apply(t) \/ Confirm(t) \/ Reboot(t)
      PROVE  ShapeInv'
  <2>1. task' \in [Tasks -> TaskType] /\ JobInv'
    BY <1>2, RequestMoves, MovesKeepShape
  <2>2. WebRequest(t)
    BY <1>2 DEF WebRequest
  <2> QED
    BY <2>1, <2>2, RequestTypes DEF TypeInv, medium
<1>3. ASSUME NEW t \in Web, Remove(t) \/ ApplyRefused(t) PROVE ShapeInv'
  <2>1. task' = task
    BY <1>3 DEF Remove, ApplyRefused
  <2>2. WebRequest(t)
    BY <1>3 DEF WebRequest
  <2>3. JobInv'
    BY <2>1 DEF JobInv, Holds
  <2> QED
    BY <2>1, <2>2, <2>3, RequestTypes DEF TypeInv, medium
<1>4. ASSUME NEW t \in Cli, Command(t) PROVE ShapeInv'
  <2>1. task' \in [Tasks -> TaskType] /\ JobInv'
    BY <1>4, RequestMoves, MovesKeepShape
  <2> QED
    BY <1>4, <2>1, RequestTypes DEF TypeInv, medium
<1>5. ASSUME NEW t \in Tasks, Work(t) PROVE ShapeInv'
  <2>1. task' \in [Tasks -> TaskType] /\ JobInv'
    BY <1>5, WorkMoves, MovesKeepShape
  <2> QED
    BY <1>5, <2>1, WorkTypes DEF TypeInv, CopyType
<1>6. CASE Reset
  <2>1. JobInv'
    <3>1. \A u \in Tasks : Proper(u, task'[u])
      BY <1>6, IdleProper, ResetTypes
    <3> QED
      BY <3>1 DEF JobInv, Proper, Holds
  <2>2. task' \in [Tasks -> TaskType] /\ NoApply \in ApplyType
    BY <1>6, IdleProper, ResetTypes DEF NoApply, ApplyType
  <2> QED
    BY <1>6, <2>1, <2>2, ResetTypes DEF TypeInv, CopyType
<1> QED
  BY <1>1, <1>2, <1>3, <1>4, <1>5, <1>6, Steps

\* Every variable has its type, whatever the tasks and the medium do.
THEOREM TypeCorrect == Spec => [](TypeInv /\ JobInv)
<1>1. Spec => []ShapeInv
  BY ShapeInit, ShapeStep, PTL DEF Spec
<1> QED
  BY <1>1, PTL DEF ShapeInv

(***************************************************************************)
(* The claim, and the slot that runs                                       *)
(***************************************************************************)
LEMMA OthersStay ==
  ASSUME TypeInv, NEW t \in Tasks, Moves(t)
  PROVE  \A u \in Tasks \ {t} : task'[u] = task[u]
BY DEF Moves, TypeInv

LEMMA AnswerEnds ==
  ASSUME TypeInv, NEW t \in Tasks, NEW ok \in BOOLEAN, Answer(t, ok)
  PROVE  /\ task'[t] = Idle /\ task'[t].pc = "idle" /\ ~Holds(t)'
         /\ claimed' = IF t \in Web THEN FALSE ELSE claimed
<1>1. task' = [task EXCEPT ![t] = Idle]
      /\ claimed' = IF t \in Web THEN FALSE ELSE claimed
  BY DEF Answer
<1>2. task'[t] = Idle
  BY <1>1 DEF TypeInv
<1>3. Idle.pc = "idle"
  BY DEF Idle
<1> QED
  BY <1>1, <1>2, <1>3 DEF Holds

LEMMA ClaimStep == ShapeInv /\ ClaimInv /\ [Next]_vars => ClaimInv'
<1> SUFFICES ASSUME ShapeInv, ClaimInv, [Next]_vars PROVE ClaimInv'
  OBVIOUS
<1> USE DEF ShapeInv
<1>1. CASE UNCHANGED vars
  BY <1>1 DEF vars, ClaimInv
<1>2. ASSUME NEW t \in Web, Upload(t) \/ Apply(t) \/ Confirm(t) \/ Reboot(t)
      PROVE  ClaimInv'
  <2>1. ~claimed /\ claimed'
    BY <1>2 DEF Upload, Apply, Confirm, Reboot, Claim
  <2>2. \A u \in Web : At(u, "idle")
    BY <2>1 DEF ClaimInv
  <2>3. \A u \in Tasks \ {t} : task'[u] = task[u]
    BY <1>2, RequestMoves, OthersStay
  <2> QED
    BY <2>1, <2>2, <2>3 DEF ClaimInv
<1>3. ASSUME NEW t \in Web, Remove(t) \/ ApplyRefused(t) PROVE ClaimInv'
  BY <1>3 DEF ClaimInv, Remove, ApplyRefused
<1>4. ASSUME NEW t \in Cli, Command(t) PROVE ClaimInv'
  <2>1. \A u \in Web : task'[u] = task[u]
    BY <1>4, RequestMoves, OthersStay
  <2>2. claimed' = claimed
    BY <1>4 DEF Command
  <2> QED
    BY <2>1, <2>2 DEF ClaimInv
<1>5. ASSUME NEW t \in Tasks, Work(t) PROVE ClaimInv'
  <2>1. Moves(t) /\ ~At(t, "idle") /\ \A u \in Tasks \ {t} : task'[u] = task[u]
    BY <1>5, WorkMoves, OthersStay
  <2>2. claimed' = claimed \/ (t \in Web /\ task'[t].pc = "idle")
    <3>1. Answer(t, TRUE) \/ Answer(t, FALSE) =>
            claimed' = claimed \/ (t \in Web /\ task'[t].pc = "idle")
      BY AnswerEnds
    <3>2. CASE Receive(t) \/ DigestDiffers(t)
      BY <3>2 DEF Receive, DigestDiffers, JobInv, TypeInv, Idle
    <3>3. CASE DigestMatches(t) \/ ReadToStage(t) \/ ReadToChange(t)
               \/ BeginPayload(t) \/ EndPayload(t) \/ Compare(t)
      BY <3>3 DEF DigestMatches, ReadToStage, ReadToChange, BeginPayload,
                  EndPayload, Compare
    <3>4. CASE CheckFails(t) \/ ReadFails(t) \/ WriteCopy(t) \/ WriteFails(t)
               \/ PayloadFails(t) \/ RebootRefused(t)
      BY <3>1, <3>4 DEF CheckFails, ReadFails, WriteCopy, WriteFails,
                        PayloadFails, RebootRefused
    <3> QED
      BY <1>5, <3>2, <3>3, <3>4 DEF Work
  <2>3. CASE t \in Web
    <3>1. \A u \in Web \ {t} : task'[u].pc = "idle"
      BY <2>1, <2>3 DEF ClaimInv
    <3>2. claimed
      BY <2>1, <2>3 DEF ClaimInv
    <3> QED
      BY <2>2, <3>1, <3>2 DEF ClaimInv
  <2>4. CASE t \in Cli
    <3>1. claimed' = claimed /\ \A u \in Web : task'[u] = task[u]
      BY <2>1, <2>2, <2>4
    <3> QED
      BY <3>1 DEF ClaimInv
  <2> QED
    BY <2>3, <2>4
<1>6. CASE Reset
  BY <1>6, IdleProper, ResetTypes DEF ClaimInv, Idle
<1> QED
  BY <1>1, <1>2, <1>3, <1>4, <1>5, <1>6, Steps

\* One request of the panel is served at a time, and it holds the claim.
THEOREM ClaimCorrect == Spec => []ClaimInv
<1>1. Init => ClaimInv
  BY DEF Init, ClaimInv, Idle
<1>2. ShapeInv /\ ClaimInv /\ [Next]_vars => (ShapeInv /\ ClaimInv)'
  BY ShapeStep, ClaimStep
<1> QED
  BY <1>1, <1>2, ShapeInit, PTL DEF Spec

\* What the steps of a task do to what it has in memory: it reads the record,
\* or goes on with it, or has none.
LEMMA JobSteps ==
  ASSUME TypeInv, JobInv, NEW t \in Tasks, Moves(t),
         \/ t \in Web /\ (Upload(t) \/ Apply(t) \/ Confirm(t) \/ Reboot(t))
         \/ t \in Cli /\ Command(t)
         \/ Work(t) /\ ~ReadToStage(t) /\ ~ReadToChange(t) /\ ~Compare(t)
  PROVE  \/ ~Holds(t)'
         \/ /\ Holds(t) /\ Holds(t)'
            /\ WriteCopy(t) \/ BeginPayload(t) \/ EndPayload(t)
            /\ ~At(t, "first")'
            /\ task'[t] = [task[t] EXCEPT !.pc = task'[t].pc]
<1>1. task \in [Tasks -> TaskType]
  BY DEF TypeInv
<1>2. CASE t \in Web /\ (Upload(t) \/ Apply(t) \/ Confirm(t) \/ Reboot(t))
  BY <1>1, <1>2 DEF Upload, Apply, Confirm, Reboot, Holds, TaskType
<1>3. CASE t \in Cli /\ Command(t)
  <2>1. PICK op \in CliOps, s \in Slots, image \in Images \cup {NoImage} :
          task' = [task EXCEPT ![t].pc = "read",
                               ![t].op = op, ![t].target = s, ![t].image = image]
    BY <1>3 DEF Command
  <2> QED
    BY <1>1, <2>1 DEF Holds, TaskType
<1>4. Answer(t, TRUE) \/ Answer(t, FALSE) => ~Holds(t)'
  BY AnswerEnds
<1>5. CASE Receive(t) \/ DigestMatches(t) \/ DigestDiffers(t)
  BY <1>1, <1>5 DEF Receive, DigestMatches, DigestDiffers, Goto, Holds, Idle, TaskType
<1>6. CASE CheckFails(t) \/ ReadFails(t) \/ WriteFails(t) \/ PayloadFails(t)
           \/ RebootRefused(t)
  BY <1>4, <1>6 DEF CheckFails, ReadFails, WriteFails, PayloadFails, RebootRefused
<1>7. CASE WriteCopy(t)
  <2>1. Holds(t)
    BY <1>7 DEF WriteCopy, Holds
  <2>2. Goto(t, "second") \/ Goto(t, "payload") \/ Answer(t, TRUE)
    BY <1>7 DEF WriteCopy
  <2>3. ASSUME NEW pc \in {"second", "payload"}, Goto(t, pc)
        PROVE  Holds(t)' /\ task'[t].pc = pc
               /\ task'[t] = [task[t] EXCEPT !.pc = task'[t].pc]
    <3>1. task'[t] = [task[t] EXCEPT !.pc = pc]
      BY <1>1, <2>3 DEF Goto
    <3>2. task'[t].pc = pc
      BY <1>1, <3>1 DEF TaskType
    <3> QED
      BY <3>1, <3>2 DEF Holds
  <2> QED
    BY <1>4, <1>7, <2>1, <2>2, <2>3
<1>8. CASE BeginPayload(t) \/ EndPayload(t)
  BY <1>1, <1>8 DEF BeginPayload, EndPayload, Goto, Holds, TaskType
<1> QED
  BY <1>2, <1>3, <1>5, <1>6, <1>7, <1>8 DEF Work

\* Compare goes on with the same slot and the same image.
LEMMA CompareStep ==
  ASSUME TypeInv, JobInv, NEW t \in Tasks, Compare(t)
  PROVE  /\ Holds(t) /\ Replaces(t) /\ At(t, "first")' /\ Holds(t)'
         /\ task'[t].op = task[t].op /\ task'[t].target = task[t].target
         /\ task'[t].image = task[t].image /\ task'[t].final
         /\ task'[t].selected = task[t].selected
         /\ task'[t].record
              = Rewritten(Staged(task[t].record, task[t].target, task[t].image))
         /\ task[t].record \in RecordType /\ task[t].target \in Slots
         /\ task[t].image \in Images \cup {NoImage}
         /\ content[task[t].target] = task[t].image
         /\ UNCHANGED <<medium, vouched, claimed, apply, file>>
<1>1. task \in [Tasks -> TaskType] /\ task[t] \in TaskType
  BY DEF TypeInv
<1>2. Holds(t) /\ Replaces(t) /\ task[t].record \in RecordType
  BY DEF Compare, JobInv, Holds, Replaces
<1>3. task[t].target \in Slots /\ task[t].image \in Images \cup {NoImage}
  BY <1>1 DEF TaskType
<1>4. task' = [task EXCEPT ![t].pc = "first", ![t].final = TRUE, ![t].record =
                 Rewritten(Staged(task[t].record, task[t].target, task[t].image))]
  BY DEF Compare
<1> DEFINE written ==
      Rewritten(Staged(task[t].record, task[t].target, task[t].image))
<1>5. task'[t] = [task[t] EXCEPT !.pc = "first", !.final = TRUE, !.record = written]
  BY <1>1, <1>4
<1>6. written = Rewritten(Staged(task[t].record, task[t].target, task[t].image))
  OBVIOUS
<1> HIDE DEF written
<1>7. /\ task'[t].pc = "first" /\ task'[t].final /\ task'[t].record = written
      /\ task'[t].op = task[t].op /\ task'[t].target = task[t].target
      /\ task'[t].image = task[t].image /\ task'[t].selected = task[t].selected
  BY <1>1, <1>5 DEF TaskType
<1> QED
  BY <1>2, <1>3, <1>6, <1>7 DEF Compare, Holds

\* The slot that a staging writes
LEMMA TargetStep == ShapeInv /\ TargetInv /\ [Next]_vars => TargetInv'
<1> SUFFICES ASSUME ShapeInv, TargetInv, [Next]_vars, running' \in Slots,
                    NEW u \in Tasks, Replaces(u)'
             PROVE  task'[u].target = 1 - running'
  BY DEF TargetInv
<1> USE DEF ShapeInv
<1>1. CASE UNCHANGED vars
  BY <1>1 DEF vars, TargetInv, Replaces, Holds
<1>2. CASE Reset
  BY <1>2, ResetTypes DEF Replaces, Holds, Idle
<1>3. ASSUME NEW t \in Web, Remove(t) \/ ApplyRefused(t)
      PROVE  task'[u].target = 1 - running'
  BY <1>3 DEF Remove, ApplyRefused, medium, TargetInv, Replaces, Holds
<1>4. ASSUME NEW t \in Tasks, Moves(t), running' = running,
             \/ t \in Web /\ (Upload(t) \/ Apply(t) \/ Confirm(t) \/ Reboot(t))
             \/ t \in Cli /\ Command(t)
             \/ Work(t)
      PROVE  task'[u].target = 1 - running'
  <2>1. CASE u # t
    BY <1>4, <2>1, OthersStay DEF TargetInv, Replaces, Holds
  <2>2. CASE u = t /\ ReadToStage(t)
    BY <1>4, <2>2, ReadMoves DEF StageTarget
  <2>3. CASE u = t /\ ReadToChange(t)
    BY <2>3, ReadMoves DEF Replaces
  <2>4. CASE u = t /\ Compare(t)
    BY <1>4, <2>4, CompareStep DEF TargetInv
  <2>5. CASE u = t /\ ~ReadToStage(t) /\ ~ReadToChange(t) /\ ~Compare(t)
    <3>1. Holds(t)
      BY <1>4, <2>5, JobSteps DEF Replaces
    <3>2. task'[t] = [task[t] EXCEPT !.pc = task'[t].pc]
      BY <1>4, <2>5, JobSteps DEF Replaces
    <3>3. task[t] \in TaskType
      BY DEF TypeInv
    <3>4. task'[t].op = task[t].op /\ task'[t].target = task[t].target
      BY <3>2, <3>3 DEF TaskType
    <3>5. Replaces(t)
      BY <2>5, <3>1, <3>4 DEF Replaces
    <3> QED
      BY <1>4, <2>5, <3>4, <3>5 DEF TargetInv
  <2> QED
    BY <2>1, <2>2, <2>3, <2>4, <2>5
<1>5. ASSUME NEW t \in Web, Upload(t) \/ Apply(t) \/ Confirm(t) \/ Reboot(t)
      PROVE  task'[u].target = 1 - running'
  <2>1. Moves(t) /\ running' = running
    BY <1>5, RequestMoves, RequestTypes DEF WebRequest, medium
  <2> QED
    BY <1>4, <1>5, <2>1
<1>6. ASSUME NEW t \in Cli, Command(t) PROVE task'[u].target = 1 - running'
  <2>1. Moves(t) /\ running' = running
    BY <1>6, RequestMoves, RequestTypes DEF medium
  <2> QED
    BY <1>4, <1>6, <2>1
<1>7. ASSUME NEW t \in Tasks, Work(t) PROVE task'[u].target = 1 - running'
  <2>1. Moves(t) /\ running' = running
    BY <1>7, WorkMoves, WorkTypes
  <2> QED
    BY <1>4, <1>7, <2>1
<1> QED
  BY <1>1, <1>2, <1>3, <1>5, <1>6, <1>7, Steps

\* Only the two steps of a payload change a slot, and its target.
LEMMA ContentSteps ==
  ASSUME TypeInv, JobInv, Next, content' # content
  PROVE  \E t \in Tasks :
           /\ BeginPayload(t) \/ EndPayload(t)
           /\ Replaces(t) /\ ~task[t].final /\ task[t].target \in Slots
           /\ \A s \in Slots \ {task[t].target} : content'[s] = content[s]
<1>1. ASSUME NEW t \in Web, WebRequest(t) PROVE content' = content
  BY <1>1, RequestTypes DEF medium
<1>2. ASSUME NEW t \in Cli, Command(t) PROVE content' = content
  BY <1>2, RequestTypes DEF medium
<1>3. CASE Reset
  BY <1>3 DEF Reset
<1>4. ASSUME NEW t \in Tasks, Work(t), ~BeginPayload(t), ~EndPayload(t)
      PROVE  content' = content
  BY <1>4 DEF Work, Receive, DigestMatches, DigestDiffers, CheckFails, ReadToStage,
         ReadToChange, ReadFails, WriteCopy, WriteFails, Compare, PayloadFails,
         RebootRefused, medium
<1>5. PICK t \in Tasks : BeginPayload(t) \/ EndPayload(t)
  BY <1>1, <1>2, <1>3, <1>4 DEF Next
<1>6. Replaces(t) /\ ~task[t].final
  BY <1>5 DEF BeginPayload, EndPayload, JobInv, Replaces, Holds
<1>7. task[t].target \in Slots /\ content \in [Slots -> Images \cup {NoImage, Partial}]
  BY DEF TypeInv, TaskType
<1>8. \A s \in Slots \ {task[t].target} : content'[s] = content[s]
  BY <1>5, <1>7 DEF BeginPayload, EndPayload
<1> QED
  BY <1>5, <1>6, <1>7, <1>8

\* "The slot that must never be written" (nbootctl_running_slot): while a slot
\* runs, no step of a request, a command or the boot loader changes what is in
\* it, however many of them work at the same time and whatever fails.
THEOREM RunningKeptCorrect == Spec => RunningKept
<1> DEFINE IInv == ShapeInv /\ TargetInv
           Keeps == running \in Slots /\ running' = running
                      => content'[running] = content[running]
<1>1. Init => IInv
  <2>1. Init => TargetInv
    BY DEF Init, TargetInv, Replaces, Holds, Idle
  <2> QED
    BY <2>1, ShapeInit
<1>2. IInv /\ [Next]_vars => IInv'
  BY ShapeStep, TargetStep
<1>3. IInv /\ [Next]_vars => [Keeps]_vars
  <2> SUFFICES ASSUME IInv, Next, running \in Slots, content' # content
               PROVE  content'[running] = content[running]
    OBVIOUS
  <2>1. PICK t \in Tasks :
          /\ Replaces(t) /\ task[t].target \in Slots
          /\ \A s \in Slots \ {task[t].target} : content'[s] = content[s]
    BY ContentSteps DEF ShapeInv
  <2>2. task[t].target = 1 - running
    BY <2>1 DEF TargetInv
  <2> QED
    BY <2>1, <2>2
<1> QED
  BY <1>1, <1>2, <1>3, PTL DEF Spec, RunningKept

(***************************************************************************)
(* The slot that runs stays a boot candidate                               *)
(***************************************************************************)
\* When the boot loader starts a slot it leaves the copies alone, or writes to
\* both a record that keeps that slot.
LEMMA BootRecordKeeps ==
  ASSUME NEW copies \in CopyType, BootSlot(copies) \in Slots
  PROVE  LET record == copies[Selected(copies)] IN
         /\ Readable(copies) # {} /\ record \in RecordType
         /\ Selected(copies) \in Slots
         /\ record.priority[BootSlot(copies)] # 0
         /\ Verified(record, BootSlot(copies))
         /\ \/ BootRecord(copies) = copies
            \/ \A c \in Slots :
                 /\ BootRecord(copies)[c] \in RecordType
                 /\ BootRecord(copies)[c].image = record.image
                 /\ BootRecord(copies)[c].priority[BootSlot(copies)] # 0
<1> DEFINE record == copies[Selected(copies)]
           slot == BootSlot(copies)
           tried == {s \in Bootable(record) :
                       /\ ~Verified(record, s)
                       /\ \/ BootSlot(copies) = Recovery
                          \/ Ahead(record, s, BootSlot(copies))}
           after == [record EXCEPT !.priority =
                       [s \in Slots |-> IF s \in tried THEN 0 ELSE @[s]]]
<1>1. Readable(copies) # {} /\ slot = Started(record)
  BY DEF BootSlot
<1>2. record \in RecordType /\ Selected(copies) \in Slots
  BY <1>1, SelectedReadable, Copies
<1>3. record.priority[slot] # 0 /\ Verified(record, slot)
  BY <1>1, <1>2, StartedVerified
<1>4. slot \notin tried
  BY <1>3
<1>5. after \in RecordType /\ after.image = record.image
      /\ after.priority[slot] = record.priority[slot]
  <2> HIDE DEF tried
  <2> QED
    BY <1>2, <1>4 DEF RecordType
<1>6. BootRecord(copies) = copies \/ BootRecord(copies) = [c \in Slots |-> Rewritten(after)]
  BY DEF BootRecord
<1> HIDE DEF after
<1>7. \/ BootRecord(copies) = copies
      \/ \A c \in Slots :
           /\ BootRecord(copies)[c] \in RecordType
           /\ BootRecord(copies)[c].image = record.image
           /\ BootRecord(copies)[c].priority[slot] # 0
  BY <1>3, <1>5, <1>6, RewrittenFields
<1> QED
  BY <1>1, <1>2, <1>3, <1>7

LEMMA TornUnreadable == ~Torn.valid
BY DEF Torn

\* While a slot runs the record that is read keeps it.
LEMMA SelectedKeeps ==
  ASSUME TypeInv, RunningInv, running \in Slots
  PROVE  /\ Readable(copy) # {} /\ Selected(copy) \in Slots
         /\ copy[Selected(copy)] \in RecordType
         /\ KeepsRunning(copy[Selected(copy)])
<1>1. copy \in CopyType
  BY DEF TypeInv, CopyType
<1>2. \A c \in Slots : Stale(c) => ~Stale(1 - c) /\ Selected(copy) = 1 - c
  BY DEF RunningInv
<1>3. \E c \in Slots : copy[c].valid
  BY <1>2 DEF Stale
<1>4. Selected(copy) \in Readable(copy)
  BY <1>1, <1>3, SelectedReadable, Copies
<1>5. Selected(copy) \in Slots /\ copy[Selected(copy)] \in RecordType
  BY <1>1, <1>4, Copies
<1>6. ~Stale(Selected(copy))
  BY <1>2, <1>5
<1> QED
  BY <1>4, <1>5, <1>6 DEF Stale

\* Whoever writes a copy leaves one that keeps the running slot.
LEMMA OtherCopyKeeps ==
  ASSUME TypeInv, JobInv, RunningInv, running \in Slots, NEW t \in Tasks,
         At(t, "first") \/ At(t, "second")
  PROVE  /\ CopyAt(t) \in Slots /\ ~Stale(1 - CopyAt(t))
         /\ task[t].record \in RecordType /\ KeepsRunning(task[t].record)
<1>1. task[t].selected \in Slots
  BY DEF TypeInv, TaskType
<1>2. Holds(t)
  BY DEF Holds
<1>3. task[t].record \in RecordType /\ KeepsRunning(task[t].record)
  BY <1>2 DEF JobInv, RunningInv
<1>4. CopyAt(t) \in Slots
  BY <1>1 DEF CopyAt
<1>5. ASSUME Stale(1 - CopyAt(t)) PROVE FALSE
  <2>1. At(t, "first") /\ task[t].selected = 1 - (1 - CopyAt(t))
    BY <1>2, <1>4, <1>5 DEF RunningInv
  <2> QED
    BY <1>1, <2>1 DEF CopyAt
<1> QED
  BY <1>3, <1>4, <1>5

\* What is read of the record and changed before the first write keeps it.
LEMMA ReadKeeps ==
  ASSUME TypeInv, JobInv, RunningInv, running \in Slots, NEW t \in Tasks,
         ReadToStage(t) \/ ReadToChange(t)
  PROVE  KeepsRunning(task'[t].record)
<1> DEFINE record == copy[Selected(copy)]
<1>1. record \in RecordType /\ KeepsRunning(record)
  BY SelectedKeeps
<1>2. task[t].target \in Slots /\ NoImage \in Images \cup {NoImage}
  BY DEF TypeInv, TaskType
<1>3. CASE ReadToStage(t)
  <2> DEFINE written == Invalidated(record, 1 - running)
  <2>1. task'[t].record = Rewritten(written)
    BY <1>3, ReadMoves DEF StageTarget
  <2>2. written \in RecordType /\ written.image = record.image
        /\ written.priority[running] = record.priority[running]
    BY <1>1, 1 - running \in Slots, running # 1 - running, InvalidatedFields
  <2> HIDE DEF written
  <2> QED
    BY <1>1, <2>1, <2>2, RewrittenFields DEF KeepsRunning, Verified
<1>4. CASE ReadToChange(t)
  <2> DEFINE written == Changed(t, record)
  <2>1. task'[t].record = Rewritten(written)
    BY <1>4, ReadMoves
  <2>2. written \in RecordType /\ written.image = record.image
        /\ written.priority[running] # 0
    <3>1. record.priority[running] # 0
      BY <1>1 DEF KeepsRunning
    <3>2. CASE task[t].op \in {"confirm", "mark-successful"}
      BY <1>1, <1>2, <3>1, <3>2, RecordTypes DEF Changed, RecordType
    <3>3. CASE task[t].op = "set-active"
      <4> DEFINE target == task[t].target
      <4>1. Changed(t, record) = Activated(record, target)
        BY <3>3 DEF Changed
      <4>2. 1 - target \in Slots /\ 1 - target # target
        BY <1>2
      <4>3. /\ Activated(record, target) \in RecordType
            /\ Activated(record, target).image = record.image
            /\ Activated(record, target).priority[target] = 15
        BY <1>1, <1>2, <4>2, ActivatedFields
      <4>4. running # target =>
              (Activated(record, target).priority[running] = 0
                 <=> record.priority[running] = 0)
        BY <1>1, <1>2, ActivatedFields
      <4> HIDE DEF target
      <4> QED
        BY <3>1, <4>1, <4>3, <4>4
    <3> QED
      BY <1>1, <3>1, <3>2, <3>3 DEF Changed
  <2> HIDE DEF written
  <2> QED
    BY <1>1, <2>1, <2>2, RewrittenFields DEF KeepsRunning, Verified
<1> QED
  BY <1>3, <1>4

\* A transfer may fail only while one task at a time changes the record.
OneWriterIfErrors == IoErrors = FALSE \/ Cli = {}

LEMMA ResetKeepsRunning ==
  ASSUME ShapeInv, Reset, running' \in Slots PROVE RunningInv'
<1>1. PICK copies \in Survivors :
        \/ running' = BootSlot(copies) /\ copy' = BootRecord(copies)
        \/ running' = Amp /\ copy' = copies
  BY ResetTypes DEF ShapeInv
<1>2. copies \in CopyType
  BY SurvivorTypes DEF ShapeInv
<1>3. running' = BootSlot(copies) /\ copy' = BootRecord(copies)
      /\ content' = content
  BY <1>1 DEF Reset
<1>4. \A t \in Tasks : ~Holds(t)'
  BY ResetTypes DEF ShapeInv, Holds, Idle
<1> DEFINE k == Selected(copies)
<1>5. /\ k \in Slots /\ copies[k] \in RecordType /\ Readable(copies) # {}
      /\ copies[k].priority[running'] # 0
      /\ copies[k].image[running'] # NoImage
      /\ content'[running'] = copies[k].image[running']
  BY <1>2, <1>3, BootRecordKeeps DEF Verified
<1>6. CASE copy' = copies
  <2>1. Selected(copy') = k
    BY <1>6
  <2>2. copies[k].valid
    BY <1>5 DEF RecordType
  <2>3. ~Stale(k)'
    BY <1>5, <1>6, <2>2 DEF Stale, KeepsRunning, Verified
  <2>4. ASSUME NEW c \in Slots, Stale(c)'
        PROVE  ~Stale(1 - c)' /\ Selected(copy') = 1 - c
    <3>1. c # k
      BY <2>3, <2>4
    <3>2. k = 1 - c
      BY <1>5, <3>1
    <3> QED
      BY <2>1, <2>3, <3>2
  <2> QED
    BY <1>4, <2>4 DEF RunningInv
<1>7. CASE \A c \in Slots : /\ copy'[c] \in RecordType
                            /\ copy'[c].image = copies[k].image
                            /\ copy'[c].priority[running'] # 0
  <2>1. \A c \in Slots : ~Stale(c)'
    BY <1>5, <1>7 DEF Stale, KeepsRunning, Verified, RecordType
  <2> QED
    BY <1>4, <2>1 DEF RunningInv
<1> QED
  BY <1>2, <1>3, <1>6, <1>7, BootRecordKeeps

\* The content of the slot that runs does not change.
LEMMA RunningContent ==
  ASSUME ShapeInv, TargetInv, Next, running \in Slots
  PROVE  content'[running] = content[running]
<1> SUFFICES ASSUME content' # content
             PROVE  content'[running] = content[running]
  OBVIOUS
<1>1. PICK t \in Tasks :
        /\ Replaces(t) /\ task[t].target \in Slots
        /\ \A s \in Slots \ {task[t].target} : content'[s] = content[s]
  BY ContentSteps DEF ShapeInv
<1>2. task[t].target = 1 - running
  BY <1>1 DEF TargetInv
<1> QED
  BY <1>1, <1>2

LEMMA RunningStep ==
  OneWriterIfErrors =>
    (ShapeInv /\ ClaimInv /\ TargetInv /\ RunningInv /\ [Next]_vars => RunningInv')
<1> SUFFICES ASSUME OneWriterIfErrors, ShapeInv, ClaimInv, TargetInv, RunningInv,
                    [Next]_vars, running' \in Slots
             PROVE  RunningInv'
  BY DEF RunningInv
<1> USE DEF ShapeInv
<1>1. CASE UNCHANGED vars
  BY <1>1 DEF vars, RunningInv, Stale, KeepsRunning, Verified, Holds
<1>2. CASE Reset
  BY <1>2, ResetKeepsRunning
<1> SUFFICES ASSUME Next, running' = running PROVE RunningInv'
  <2>1. ASSUME NEW t \in Tasks, WebRequest(t) \/ Command(t) \/ Work(t)
        PROVE  running' = running
    BY <2>1, RequestTypes, WorkTypes DEF medium
  <2> QED
    BY <1>1, <1>2, <2>1 DEF Next
<1>3. content'[running] = content[running]
  BY RunningContent
<1>4. \A c \in Slots : copy'[c] = copy[c] => (Stale(c)' <=> Stale(c))
  BY <1>3 DEF Stale, KeepsRunning, Verified
<1>5. \A c \in Slots : Stale(c) =>
         /\ ~Stale(1 - c) /\ Selected(copy) = 1 - c
         /\ \A u \in Tasks :
              Holds(u) => At(u, "first") /\ task[u].selected = 1 - c
  BY DEF RunningInv
<1>6. \A u \in Tasks : Holds(u) => KeepsRunning(task[u].record)
  BY DEF RunningInv
<1>7. ASSUME NEW t \in Tasks,
             \A u \in Tasks \ {t} : task'[u] = task[u],
             Holds(t)' => KeepsRunning(task'[t].record),
             copy' = copy,
             \/ ~Holds(t)'
             \/ task'[t].pc = "first" /\ task'[t].selected = Selected(copy)
             \/ \A c \in Slots : ~Stale(c)
      PROVE  RunningInv'
  <2>1. \A u \in Tasks : Holds(u)' => KeepsRunning(task[u].record)'
    BY <1>3, <1>6, <1>7 DEF KeepsRunning, Verified, Holds
  <2>2. ASSUME NEW c \in Slots, Stale(c)'
        PROVE  /\ ~Stale(1 - c)' /\ Selected(copy)' = 1 - c
               /\ \A u \in Tasks :
                    Holds(u)' => At(u, "first")' /\ task'[u].selected = 1 - c
    <3>1. Stale(c) /\ ~Stale(1 - c) /\ Selected(copy) = 1 - c
      BY <1>4, <1>5, <1>7, <2>2
    <3>2. ~Stale(1 - c)' /\ Selected(copy)' = 1 - c
      BY <1>4, <1>7, <3>1
    <3>3. \A u \in Tasks : Holds(u)' => At(u, "first")' /\ task'[u].selected = 1 - c
      BY <1>5, <1>7, <2>2, <3>1 DEF Holds
    <3> QED
      BY <3>2, <3>3
  <2> QED
    BY <2>1, <2>2 DEF RunningInv
<1>8. ASSUME NEW t \in Web, Remove(t) \/ ApplyRefused(t) PROVE RunningInv'
  BY <1>3, <1>8 DEF Remove, ApplyRefused, medium, RunningInv, Stale, KeepsRunning,
                    Verified, Holds
<1>9. ASSUME NEW t \in Tasks,
             \/ t \in Web /\ (Upload(t) \/ Apply(t) \/ Confirm(t) \/ Reboot(t))
             \/ t \in Cli /\ Command(t)
      PROVE  RunningInv'
  <2>1. Moves(t) /\ \A u \in Tasks \ {t} : task'[u] = task[u]
    BY <1>9, RequestMoves, OthersStay
  <2>2. copy' = copy
    BY <1>9, RequestTypes DEF WebRequest, medium
  <2>3. ~Holds(t)'
    <3>1. At(t, "idle")
      BY <1>9, RequestMoves
    <3>2. ~Holds(t)
      BY <3>1 DEF Holds
    <3> QED
      BY <1>9, <2>1, <3>2, JobSteps
  <2> QED
    BY <1>7, <2>1, <2>2, <2>3
<1>10. ASSUME NEW t \in Tasks, ReadToStage(t) \/ ReadToChange(t) PROVE RunningInv'
  <2>1. \A u \in Tasks \ {t} : task'[u] = task[u]
    BY <1>10, ReadMoves, OthersStay
  <2>2. task'[t].pc = "first" /\ task'[t].selected = Selected(copy)
    BY <1>10, ReadMoves
  <2>3. KeepsRunning(task'[t].record)
    BY <1>10, ReadKeeps
  <2>4. copy' = copy
    BY <1>10 DEF ReadToStage, ReadToChange, medium
  <2> QED
    BY <1>7, <2>1, <2>2, <2>3, <2>4
<1>11. ASSUME NEW t \in Tasks, Compare(t) PROVE RunningInv'
  <2>1. \A u \in Tasks \ {t} : task'[u] = task[u]
    BY <1>11, WorkMoves, OthersStay DEF Work
  <2>2. \A c \in Slots : ~Stale(c)
    BY <1>5, <1>11, CompareStep DEF Compare
  <2> DEFINE record == task[t].record
             staged == Staged(record, task[t].target, task[t].image)
  <2>3. KeepsRunning(record) /\ record \in RecordType
    BY <1>6, <1>11, CompareStep
  <2>4. task[t].target = 1 - running /\ task[t].target \in Slots
        /\ task[t].image \in Images \cup {NoImage}
    BY <1>11, CompareStep DEF TargetInv
  <2>5. staged \in RecordType /\ task'[t].record = Rewritten(staged)
    BY <1>11, <2>3, <2>4, CompareStep, RecordTypes
  <2>6. /\ staged.image[running] = record.image[running]
        /\ staged.priority[running] = 0 <=> record.priority[running] = 0
    <3> DEFINE target == task[t].target
    <3>1. target \in Slots /\ running \in Slots /\ running # target
      BY <2>4
    <3> QED
      BY <2>3, <2>4, <3>1, StagedFields
  <2> HIDE DEF staged
  <2>7. KeepsRunning(task'[t].record)
    BY <2>3, <2>5, <2>6, RewrittenFields DEF KeepsRunning, Verified
  <2>8. copy' = copy
    BY <1>11 DEF Compare, medium
  <2> QED
    BY <1>7, <2>1, <2>2, <2>7, <2>8
<1>12. ASSUME NEW t \in Tasks, BeginPayload(t) \/ EndPayload(t) PROVE RunningInv'
  <2>1. Moves(t) /\ \A u \in Tasks \ {t} : task'[u] = task[u]
    BY <1>12, WorkMoves, OthersStay DEF Work
  <2>2. Holds(t) /\ ~At(t, "first") /\ copy' = copy
        /\ task'[t].record = task[t].record
    BY <1>12 DEF BeginPayload, EndPayload, Holds, Goto, TypeInv, TaskType
  <2>3. \A c \in Slots : ~Stale(c)
    BY <1>5, <2>2
  <2> QED
    BY <1>6, <1>7, <2>1, <2>2, <2>3
<1>13. ASSUME NEW t \in Tasks, WriteCopy(t) PROVE RunningInv'
  <2>1. Moves(t) /\ \A u \in Tasks \ {t} : task'[u] = task[u]
    BY <1>13, WorkMoves, OthersStay DEF Work
  <2>0. PICK c \in Slots : c = CopyAt(t)
    BY <1>13, OtherCopyKeeps DEF WriteCopy
  <2>2. /\ c \in Slots /\ ~Stale(1 - c)
        /\ task[t].record \in RecordType /\ KeepsRunning(task[t].record)
    BY <1>13, <2>0, OtherCopyKeeps DEF WriteCopy
  <2>3. copy' = [copy EXCEPT ![c] = task[t].record]
    BY <1>13, <2>0 DEF WriteCopy
  <2>4. ~Stale(c)'
    BY <1>3, <2>2, <2>3 DEF Stale, KeepsRunning, Verified, TypeInv, RecordType
  <2>5. ~Stale(1 - c)'
    BY <1>4, <2>2, <2>3 DEF TypeInv
  <2>6. \A d \in Slots : ~Stale(d)'
    BY <2>2, <2>4, <2>5
  <2>7. Holds(t)' => task'[t].record = task[t].record
    BY <1>13, <2>1, JobSteps DEF Work, TypeInv, TaskType, ReadToStage, ReadToChange,
                                 Compare, WriteCopy
  <2>8. \A u \in Tasks : Holds(u)' => KeepsRunning(task[u].record)'
    BY <1>3, <1>6, <2>1, <2>2, <2>7 DEF KeepsRunning, Verified, Holds
  <2> QED
    BY <2>6, <2>8 DEF RunningInv
<1>14. ASSUME NEW t \in Tasks, WriteFails(t) PROVE RunningInv'
  <2>1. Moves(t) /\ \A u \in Tasks \ {t} : task'[u] = task[u]
    BY <1>14, WorkMoves, OthersStay DEF Work
  <2>2. \A u \in Tasks : ~Holds(u)'
    <3>1. Cli = {} /\ t \in Web
      BY <1>14 DEF WriteFails, OneWriterIfErrors
    <3>2. \A u \in Tasks \ {t} : At(u, "idle")
      BY <1>14, <3>1 DEF ClaimInv, WriteFails
    <3>3. ~Holds(t)'
      BY <1>14, AnswerEnds DEF WriteFails
    <3> QED
      BY <2>1, <3>2, <3>3 DEF Holds
  <2>0. PICK c \in Slots : c = CopyAt(t)
    BY <1>14, OtherCopyKeeps DEF WriteFails
  <2>3. /\ c \in Slots /\ ~Stale(1 - c)
        /\ task[t].record \in RecordType /\ KeepsRunning(task[t].record)
    BY <1>14, <2>0, OtherCopyKeeps DEF WriteFails
  <2>4. PICK outcome \in {copy[c], Torn, task[t].record} :
          copy' = [copy EXCEPT ![c] = outcome]
    BY <1>14, <2>0 DEF WriteFails
  <2>5. copy'[c] = outcome /\ copy'[1 - c] = copy[1 - c]
    BY <2>3, <2>4 DEF TypeInv
  <2>6. ~Stale(1 - c)'
    BY <1>4, <2>3, <2>5
  <2>7. Stale(c)' => Selected(copy)' = 1 - c
    <3>1. CASE outcome = copy[c]
      <4>1. copy' = copy
        BY <2>3, <2>4, <3>1 DEF TypeInv
      <4> QED
        BY <1>4, <1>5, <2>3, <4>1
    <3>2. CASE outcome = Torn
      <4>1. copy' \in CopyType
        BY <1>14, WorkTypes DEF Work
      <4>2. copy'[1 - c].valid /\ ~copy'[c].valid
        BY <2>3, <2>5, <3>2, TornUnreadable DEF Stale
      <4> HIDE DEF ShapeInv
      <4>3. Selected(copy') = 1 - c
        <5>1. 1 - c \in Slots /\ 1 - (1 - c) = c
          BY <2>3
        <5> QED
          BY <4>1, <4>2, <5>1, SelectedIs
      <4> QED
        BY <4>3
    <3>3. CASE outcome = task[t].record
      BY <1>3, <2>3, <2>5, <3>3 DEF Stale, KeepsRunning, Verified, RecordType
    <3> QED
      BY <3>1, <3>2, <3>3
  <2>8. ASSUME NEW d \in Slots, Stale(d)'
        PROVE  ~Stale(1 - d)' /\ Selected(copy)' = 1 - d
    <3>1. d = c
      BY <2>3, <2>6, <2>8
    <3> QED
      BY <2>6, <2>7, <2>8, <3>1
  <2> QED
    BY <2>2, <2>8 DEF RunningInv
<1>15. ASSUME NEW t \in Tasks,
              \/ Receive(t) \/ DigestMatches(t) \/ DigestDiffers(t)
              \/ CheckFails(t) \/ ReadFails(t) \/ PayloadFails(t)
              \/ RebootRefused(t)
       PROVE  RunningInv'
  <2>1. Moves(t) /\ \A u \in Tasks \ {t} : task'[u] = task[u]
    BY <1>15, WorkMoves, OthersStay DEF Work
  <2>2. copy' = copy
    BY <1>15 DEF Receive, DigestMatches, DigestDiffers, CheckFails, ReadFails,
                 PayloadFails, RebootRefused, medium
  <2>3. ~Holds(t)'
    <3>1. CASE Receive(t) \/ DigestMatches(t) \/ DigestDiffers(t)
      BY <3>1 DEF Receive, DigestMatches, DigestDiffers, Goto, Holds, Idle, TypeInv,
                  TaskType
    <3>2. CASE CheckFails(t) \/ ReadFails(t) \/ PayloadFails(t) \/ RebootRefused(t)
      BY <3>2, AnswerEnds DEF CheckFails, ReadFails, PayloadFails, RebootRefused
    <3> QED
      BY <1>15, <3>1, <3>2
  <2> QED
    BY <1>7, <2>1, <2>2, <2>3
<1> QED
  BY <1>2, <1>8, <1>9, <1>10, <1>11, <1>12, <1>13, <1>14, <1>15, Steps DEF Work

RunningIInv == ShapeInv /\ ClaimInv /\ TargetInv /\ RunningInv

LEMMA RunningCorrect == OneWriterIfErrors => (Spec => []RunningIInv)
<1> SUFFICES ASSUME OneWriterIfErrors PROVE Spec => []RunningIInv
  OBVIOUS
<1>1. Init => RunningIInv
  <2> SUFFICES ASSUME Init PROVE RunningIInv
    OBVIOUS
  <2>1. \A t \in Tasks : ~Holds(t) /\ ~Replaces(t) /\ At(t, "idle")
    BY DEF Init, Holds, Replaces, Idle
  <2>2. \A c \in Slots : ~Stale(c)
    BY DEF Init, Stale, KeepsRunning, Verified
  <2> QED
    BY <2>1, <2>2, ShapeInit DEF RunningIInv, ClaimInv, TargetInv, RunningInv
<1>2. RunningIInv /\ [Next]_vars => RunningIInv'
  BY ShapeStep, ClaimStep, TargetStep, RunningStep DEF RunningIInv
<1> QED
  BY <1>1, <1>2, PTL DEF Spec

LEMMA BootsAgain == RunningIInv => SlotBootsAgain
<1> SUFFICES ASSUME RunningIInv, running \in Slots PROVE NextSlot \in Slots
  BY DEF SlotBootsAgain
<1>1. /\ Readable(copy) # {}
      /\ copy[Selected(copy)] \in RecordType
      /\ KeepsRunning(copy[Selected(copy)])
  BY SelectedKeeps DEF RunningIInv, ShapeInv
<1>2. NextSlot = Started(copy[Selected(copy)])
  BY <1>1 DEF NextSlot, BootSlot
<1> QED
  BY <1>1, <1>2, StartedVerified DEF KeepsRunning

\* While a slot runs there is at every instant a slot that the boot loader can
\* start: with any number of commands in the middle of their reads and writes
\* of the record when no transfer fails, and also with failing transfers when
\* the claim lets one request change the record at a time.
THEOREM SlotBootsAgainCorrect ==
  IoErrors = FALSE \/ Cli = {} => (Spec => []SlotBootsAgain)
BY BootsAgain, RunningCorrect, PTL DEF OneWriterIfErrors

(***************************************************************************)
(* What the record says, while only requests of the panel change it        *)
(***************************************************************************)
SoloInv == SoundInv /\ WriterInv /\ ConfirmInv /\ ApplyInv /\ DoneInv

\* While a task works, and when a request is taken on, no other one does.
LEMMA Alone ==
  ASSUME Cli = {}, ShapeInv, ClaimInv, NEW t \in Tasks,
         \/ Upload(t) \/ Apply(t) \/ Confirm(t) \/ Reboot(t)
         \/ Work(t)
  PROVE  /\ Moves(t)
         /\ \A u \in Tasks \ {t} : task[u] = Idle /\ task'[u] = Idle
<1> USE DEF ShapeInv
<1>1. Moves(t)
  BY RequestMoves, WorkMoves
<1>2. \A u \in Tasks \ {t} : At(u, "idle")
  <2>1. CASE Work(t)
    BY <2>1, WorkMoves DEF ClaimInv
  <2>2. CASE Upload(t) \/ Apply(t) \/ Confirm(t) \/ Reboot(t)
    BY <2>2 DEF Upload, Apply, Confirm, Reboot, Claim, ClaimInv
  <2> QED
    BY <2>1, <2>2
<1>3. \A u \in Tasks \ {t} : task[u] = Idle
  BY <1>2 DEF JobInv
<1> QED
  BY <1>1, <1>3, OthersStay

\* The task that has the record in memory
LEMMA Holder ==
  ASSUME Cli = {}, ShapeInv, NEW t \in Tasks, Holds(t)
  PROVE  /\ task[t].op \in {"apply", "confirm"}
         /\ task[t].record \in RecordType /\ task[t].record.valid
         /\ task[t].selected \in Slots /\ task[t].target \in Slots
         /\ task[t].image \in Images \cup {NoImage}
         /\ task[t].final \in BOOLEAN
         /\ ~task[t].final => task[t].op = "apply"
<1>1. task[t] \in TaskType
  BY DEF ShapeInv, TypeInv
<1>2. /\ task[t].op \in {"apply", "confirm"}
      /\ task[t].record \in RecordType
      /\ ~task[t].final => task[t].op \in Staging
  BY DEF ShapeInv, JobInv
<1> QED
  BY <1>1, <1>2 DEF TaskType, RecordType, Staging

LEMMA IdleHasNone == Idle.pc = "idle" /\ Idle.op = "none"
BY DEF Idle

\* A step after which no task has the record in memory, and that leaves the
\* medium and the confirmations alone
LEMMA Aside ==
  ASSUME SoloInv, UNCHANGED <<copy, content, vouched>>,
         \A u \in Tasks : ~Holds(u)',
         \A u \in Tasks : task'[u].op = "apply" =>
           apply'.state = "writing" /\ (At(u, "read")' => file' = apply'.image),
         apply' = apply \/ apply'.state # "done"
  PROVE  SoloInv'
<1>1. SoundInv'
  BY DEF SoloInv, SoundInv, Sound, Verified
<1>2. WriterInv'
  BY DEF WriterInv, Holds
<1>3. ConfirmInv'
  BY DEF ConfirmInv
<1>4. ApplyInv'
  BY DEF ApplyInv
<1>5. DoneInv'
  BY DEF SoloInv, DoneInv, Leads, Ahead, Verified
<1> QED
  BY <1>1, <1>2, <1>3, <1>4, <1>5 DEF SoloInv

\* What a request does before it reads the record, and after it failed
LEMMA AsideSteps ==
  ASSUME Cli = {}, ShapeInv, ClaimInv, SoloInv, NEW t \in Tasks,
         \/ Upload(t) \/ Apply(t) \/ Confirm(t) \/ Reboot(t)
         \/ Receive(t) \/ DigestMatches(t) \/ DigestDiffers(t)
         \/ CheckFails(t) \/ ReadFails(t) \/ PayloadFails(t) \/ RebootRefused(t)
  PROVE  SoloInv'
<1> USE DEF ShapeInv
<1>1. \A u \in Tasks \ {t} : task'[u] = Idle
  BY Alone DEF Work
<1>2. task \in [Tasks -> TaskType] /\ apply \in ApplyType
  BY DEF TypeInv
<1>3. SUFFICES /\ UNCHANGED <<copy, content, vouched>> /\ ~Holds(t)'
               /\ task'[t].op = "apply" =>
                    /\ apply'.state = "writing"
                    /\ At(t, "read")' => file' = apply'.image
               /\ apply' = apply \/ apply'.state # "done"
  <2>1. \A u \in Tasks \ {t} : ~Holds(u)' /\ task'[u].op # "apply"
    BY <1>1, IdleHasNone DEF Holds
  <2> QED
    BY <1>3, <2>1, Aside
<1>4. CASE Upload(t) \/ Confirm(t) \/ Reboot(t)
  BY <1>2, <1>4 DEF Upload, Confirm, Reboot, medium, Holds, TaskType
<1>5. CASE Apply(t)
  BY <1>2, <1>5 DEF Apply, medium, Holds, TaskType
<1>6. CASE Receive(t) \/ DigestDiffers(t)
  <2>1. task'[t] = Idle /\ UNCHANGED <<copy, content, vouched>>
    BY <1>2, <1>6 DEF Receive, DigestDiffers, medium
  <2>2. apply' = apply \/ apply'.state = "failed"
    BY <1>2, <1>6 DEF Receive, DigestDiffers, ApplyType
  <2> QED
    BY <2>1, <2>2, IdleHasNone DEF Holds
<1>7. CASE DigestMatches(t)
  <2>1. task[t].op = "apply" /\ apply.state = "writing"
    BY <1>7 DEF DigestMatches, JobInv, SoloInv, ApplyInv
  <2> QED
    BY <1>2, <1>7, <2>1 DEF DigestMatches, Goto, medium, Holds, TaskType
<1>8. CASE CheckFails(t) \/ ReadFails(t) \/ PayloadFails(t) \/ RebootRefused(t)
  <2>1. Answer(t, FALSE) /\ UNCHANGED medium
    BY <1>8 DEF CheckFails, ReadFails, PayloadFails, RebootRefused
  <2>2. task'[t] = Idle /\ vouched' = vouched
    BY <1>2, <2>1 DEF Answer
  <2>3. apply' = apply \/ apply'.state = "failed"
    BY <1>2, <2>1 DEF Answer, ApplyType
  <2> QED
    BY <2>1, <2>2, <2>3, IdleHasNone DEF medium, Holds
<1> QED
  BY <1>4, <1>5, <1>6, <1>7, <1>8

\* The changes of a record keep what it says of the slots: the slot that is
\* going to be replaced is no candidate any more, and no slot is unconfirmed
\* but the one that is replaced.
LEMMA ReadSound ==
  ASSUME Cli = {}, ShapeInv, SoloInv, NEW t \in Tasks,
         ReadToStage(t) \/ ReadToChange(t)
  PROVE  /\ task'[t].record \in RecordType
         /\ Sound(task[t].record)'
         /\ \A c \in Readable(copy) : Sound(copy[c])'
         /\ task'[t].record.generation = copy[Selected(copy)].generation + 1
<1> DEFINE record == copy[Selected(copy)]
<1> USE DEF ShapeInv
<1>1. record \in RecordType /\ Sound(record) /\ content' = content
  <2>1. Selected(copy) \in Readable(copy)
    <3>1. copy \in CopyType /\ Readable(copy) # {}
      BY DEF TypeInv, CopyType, ReadToStage, ReadToChange
    <3> QED
      BY <3>1, SelectedReadable
  <2> QED
    BY <2>1, ReadMoves DEF SoloInv, SoundInv, ReadToStage, ReadToChange, medium
<1>2. vouched' \subseteq vouched
  BY DEF ReadToStage, ReadToChange
<1>3. \A c \in Readable(copy) : Sound(copy[c])'
  <2>1. copy' = copy
    BY DEF ReadToStage, ReadToChange, medium
  <2> QED
    BY <1>1, <1>2, <2>1 DEF SoloInv, SoundInv, Sound, Verified
<1>4. CASE ReadToStage(t)
  <2>1. PICK target \in Slots : target = StageTarget(record)
    BY <1>1, TargetIsSlot DEF TypeInv
  <2>2. vouched' = vouched \ {target}
    BY <1>4, <2>1 DEF ReadToStage
  <2> DEFINE written == Invalidated(record, target)
             r == 1 - target
  <2>3. task'[t].record = Rewritten(written)
    BY <1>4, <2>1, ReadMoves
  <2>4. r \in Slots /\ r # target /\ Slots = {r, target}
    OBVIOUS
  <2> HIDE DEF r
  <2>5. /\ written \in RecordType /\ written.image = record.image
        /\ written.generation = record.generation
        /\ written.priority[target] = 0
        /\ written.priority[r] = record.priority[r]
        /\ written.successful[r] = record.successful[r]
    BY <1>1, <2>4, InvalidatedFields
  <2> HIDE DEF written
  <2>6. /\ task'[t].record \in RecordType
        /\ task'[t].record.generation = record.generation + 1
        /\ task'[t].record.image = record.image
        /\ task'[t].record.priority = written.priority
        /\ task'[t].record.successful = written.successful
    BY <2>3, <2>5, RewrittenFields
  <2> HIDE DEF record
  <2>7. Sound(task[t].record)'
    BY <1>1, <2>2, <2>4, <2>5, <2>6 DEF Sound, Verified
  <2> QED
    BY <1>3, <2>6, <2>7 DEF record
<1>5. CASE ReadToChange(t)
  <2> DEFINE target == task[t].target
             written == [record EXCEPT !.successful[target] = TRUE]
  <2>1. task[t].op = "confirm"
    BY <1>5 DEF ReadToChange, JobInv, Staging
  <2>2. target \in Slots /\ vouched' = vouched
    BY <1>5 DEF ReadToChange, TypeInv, TaskType
  <2>3. task'[t].record = Rewritten(written)
    BY <1>5, <2>1, ReadMoves DEF Changed
  <2>4. /\ written \in RecordType /\ written.image = record.image
        /\ written.generation = record.generation
        /\ written.priority = record.priority
        /\ \A s \in Slots : record.successful[s] => written.successful[s]
    <3> HIDE DEF target
    <3> QED
      BY <1>1, <2>2, RecordTypes DEF RecordType
  <2> HIDE DEF written
  <2>5. /\ task'[t].record \in RecordType
        /\ task'[t].record.generation = record.generation + 1
        /\ task'[t].record.image = record.image
        /\ task'[t].record.priority = record.priority
        /\ task'[t].record.successful = written.successful
    BY <2>3, <2>4, RewrittenFields
  <2> HIDE DEF record
  <2>6. Sound(task[t].record)'
    BY <1>1, <2>2, <2>4, <2>5 DEF Sound, Verified
  <2> QED
    BY <1>3, <2>5, <2>6 DEF record
<1> QED
  BY <1>4, <1>5

LEMMA ReadSolo ==
  ASSUME Cli = {}, ShapeInv, ClaimInv, SoloInv, NEW t \in Tasks,
         ReadToStage(t) \/ ReadToChange(t)
  PROVE  SoloInv'
<1> DEFINE k == Selected(copy)
<1> USE DEF ShapeInv
<1>1. \A u \in Tasks \ {t} : task'[u] = Idle
  BY Alone DEF Work
<1>2. copy' = copy /\ content' = content /\ apply' = apply /\ file' = file
  BY DEF ReadToStage, ReadToChange, medium
<1>3. /\ Moves(t) /\ At(t, "read") /\ k \in Slots /\ copy[k] \in RecordType
      /\ task'[t].pc = "first" /\ task'[t].op = task[t].op
      /\ task'[t].selected = k
  BY ReadMoves
<1>4. copy \in CopyType /\ Readable(copy) # {}
  BY DEF TypeInv, CopyType, ReadToStage, ReadToChange
<1>5. /\ task'[t].record \in RecordType
      /\ task'[t].record.generation = copy[k].generation + 1
  BY ReadSound
<1>6. \A u \in Tasks : Holds(u)' \/ task'[u].op \in {"apply", "confirm"} => u = t
  BY <1>1, IdleHasNone DEF Holds
<1>7. SoundInv'
  <2>1. \A c \in Readable(copy') : Sound(copy[c])'
    BY <1>2, ReadSound
  <2>2. Sound(task[t].record)'
    BY ReadSound
  <2> QED
    BY <1>2, <1>4, <1>6, <2>1, <2>2 DEF SoundInv
<1>8. WriterInv'
  <2>1. k \in Readable(copy)
        /\ \A d \in Readable(copy) : copy[d].generation <= copy[k].generation
    BY <1>4, SelectedReadable
  <2>2. copy[k].valid /\ copy[k].generation \in Nat
    BY <1>3 DEF RecordType
  <2>3. copy[1 - k].valid => copy[1 - k].generation <= copy[k].generation
    <3>1. 1 - k \in Slots
      BY <1>3
    <3> QED
      BY <1>4, <2>1, <3>1, Copies
  <2>4. copy[k].generation < task'[t].record.generation
    BY <1>5, <2>2
  <2>5. \A u \in Tasks \ {t} : task'[u].pc = "idle"
    BY <1>1, IdleHasNone
  <2> HIDE DEF k
  <2> QED
    BY <1>2, <1>3, <2>2, <2>3, <2>4, <2>5 DEF WriterInv
<1>9. ConfirmInv'
  <2> SUFFICES ASSUME task'[t].op = "confirm"
               PROVE  /\ task'[t].final
                      /\ task'[t].record.successful[task'[t].target]
                      /\ BootsAlike(task'[t].record, copy'[task'[t].selected])
    BY <1>6 DEF ConfirmInv, BootsAlike
  <2>1. ReadToChange(t) /\ task[t].op = "confirm"
    BY <1>3 DEF ReadToStage, ReadToChange, Staging
  <2> DEFINE written == [copy[k] EXCEPT !.successful[task[t].target] = TRUE]
  <2>2. task'[t].final /\ task'[t].target = task[t].target
        /\ task'[t].record = Rewritten(written)
    BY <2>1, ReadMoves DEF Changed
  <2>3. task[t].target \in Slots
    BY DEF TypeInv, TaskType
  <2>4. /\ written \in RecordType /\ written.image = copy[k].image
        /\ written.priority = copy[k].priority
        /\ written.active = copy[k].active
        /\ written.successful[task[t].target] = TRUE
    <3> HIDE DEF k
    <3> QED
      BY <1>3, <2>3, RecordTypes DEF RecordType
  <2> HIDE DEF written
  <2> QED
    BY <1>2, <1>3, <2>2, <2>4, RewrittenFields DEF BootsAlike
<1>10. ApplyInv' /\ DoneInv'
  <2>1. CASE ReadToChange(t)
    <3>1. task'[t].op # "apply"
      BY <1>3, <2>1 DEF ReadToChange, Staging
    <3>2. ApplyInv'
      BY <1>6, <3>1 DEF ApplyInv
    <3>3. DoneInv'
      BY <1>2 DEF SoloInv, DoneInv, Leads, Ahead, Verified
    <3> QED
      BY <3>2, <3>3
  <2>2. CASE ReadToStage(t)
    <3>1. task[t].op = "apply"
      BY <1>3, <2>2 DEF ReadToStage, Staging, JobInv
    <3>2. apply.state = "writing" /\ file = apply.image
      BY <1>3, <3>1 DEF SoloInv, ApplyInv
    <3>3. /\ ~task'[t].final /\ task'[t].image = file /\ file # NoImage
          /\ task'[t].target = StageTarget(copy[k])
          /\ task'[t].record = Rewritten(Invalidated(copy[k], StageTarget(copy[k])))
      BY <2>2, <3>1, ReadMoves DEF ImageOf
    <3>4. PICK target \in Slots : target = StageTarget(copy[k])
      BY <1>3, TargetIsSlot DEF TypeInv
    <3>5. task'[t].target = target /\ target \notin vouched'
      BY <2>2, <3>3, <3>4 DEF ReadToStage
    <3>6. task'[t].record.priority[target] = 0
      <4>1. 1 - target \in Slots /\ 1 - target # target
        OBVIOUS
      <4>2. /\ Invalidated(copy[k], target) \in RecordType
            /\ Invalidated(copy[k], target).priority[target] = 0
        BY <1>3, <4>1, InvalidatedFields
      <4> QED
        BY <3>3, <3>4, <4>2, RewrittenFields
    <3>7. ApplyInv'
      <4>1. \A u \in Tasks : task'[u].op = "apply" => u = t
        BY <1>6
      <4> QED
        BY <1>2, <1>3, <3>2, <3>3, <3>5, <3>6, <4>1 DEF ApplyInv
    <3> QED
      BY <1>2, <3>2, <3>7 DEF DoneInv
  <2> QED
    BY <2>1, <2>2
<1> QED
  BY <1>7, <1>8, <1>9, <1>10 DEF SoloInv

\* A record that the boot loader treats as another one leads to the same slot.
LEMMA AlikeLeads ==
  ASSUME NEW record, NEW other, NEW s \in Slots,
         BootsAlike(record, other), Leads(other, s)
  PROVE  Leads(record, s)
BY DEF BootsAlike, Leads, Ahead, Verified

\* What is known when a copy is about to be written
LEMMA AtCopy ==
  ASSUME Cli = {}, ShapeInv, SoloInv, NEW t \in Tasks,
         At(t, "first") \/ At(t, "second")
  PROVE  LET record == task[t].record
             selected == task[t].selected
         IN /\ Holds(t) /\ selected \in Slots
            /\ record \in RecordType /\ record.valid /\ Sound(record)
            /\ copy[selected] \in RecordType /\ copy[selected].valid
            /\ Sound(copy[selected])
            /\ copy[selected].generation < record.generation
            /\ CopyAt(t) = IF At(t, "first") THEN 1 - selected ELSE selected
            /\ At(t, "second") => copy[1 - selected] = record
<1>1. Holds(t)
  BY DEF Holds
<1>2. /\ task[t].selected \in Slots /\ copy \in CopyType
      /\ task[t].record \in RecordType /\ task[t].record.valid
  BY <1>1, Holder DEF ShapeInv, TypeInv, CopyType
<1>3. copy[task[t].selected].valid
      /\ copy[task[t].selected].generation < task[t].record.generation
      /\ (At(t, "second") => copy[1 - task[t].selected] = task[t].record)
  BY DEF SoloInv, WriterInv
<1>4. task[t].selected \in Readable(copy)
  BY <1>2, <1>3, Copies
<1>5. copy[task[t].selected] \in RecordType /\ Sound(copy[task[t].selected])
  BY <1>2, <1>4, Copies DEF SoloInv, SoundInv
<1>6. Sound(task[t].record)
  BY <1>1 DEF SoloInv, SoundInv
<1> QED
  BY <1>1, <1>2, <1>3, <1>5, <1>6 DEF CopyAt

\* A record that a confirmation writes boots what is booted anyway.
LEMMA ConfirmLeads ==
  ASSUME Cli = {}, ShapeInv, SoloInv, NEW t \in Tasks,
         At(t, "first") \/ At(t, "second"), task[t].op = "confirm",
         NEW s \in Slots, \A c \in Readable(copy) : Leads(copy[c], s)
  PROVE  Leads(task[t].record, s)
<1>1. Holds(t) /\ copy[task[t].selected].valid /\ task[t].selected \in Slots
  BY AtCopy
<1>2. task[t].selected \in Readable(copy)
  BY <1>1, Copies DEF ShapeInv, TypeInv, CopyType
<1>3. BootsAlike(task[t].record, copy[task[t].selected])
  BY <1>1 DEF SoloInv, ConfirmInv
<1> QED
  BY <1>2, <1>3, AlikeLeads

\* The first copy has been written, and the second one is next.
LEMMA WriteFirst ==
  ASSUME Cli = {}, ShapeInv, ClaimInv, SoloInv, NEW t \in Tasks,
         WriteCopy(t), At(t, "first")
  PROVE  SoloInv'
<1> DEFINE record == task[t].record
           k == task[t].selected
<1>1. \A u \in Tasks \ {t} : task'[u] = Idle
  BY Alone DEF Work
<1>2. /\ k \in Slots /\ record \in RecordType /\ record.valid /\ Sound(record)
      /\ copy[k] \in RecordType /\ copy[k].valid /\ Sound(copy[k])
      /\ copy[k].generation < record.generation
      /\ CopyAt(t) = 1 - k /\ Holds(t)
  BY AtCopy
<1>3. copy \in [Slots -> RecordType \cup {Torn}] /\ task \in [Tasks -> TaskType]
  BY DEF ShapeInv, TypeInv
<1>4. UNCHANGED <<content, apply, file, vouched>> /\ Goto(t, "second")
      /\ copy' = [copy EXCEPT ![1 - k] = record]
  BY <1>2 DEF WriteCopy
<1>5. copy'[1 - k] = record /\ copy'[k] = copy[k] /\ 1 - k \in Slots
  BY <1>2, <1>3, <1>4
<1>6. task'[t] = [task[t] EXCEPT !.pc = "second"]
  BY <1>3, <1>4 DEF Goto
<1>7. /\ task'[t].pc = "second" /\ task'[t].op = task[t].op
      /\ task'[t].record = record /\ task'[t].selected = k
      /\ task'[t].target = task[t].target /\ task'[t].final = task[t].final
      /\ task'[t].image = task[t].image
  BY <1>3, <1>6 DEF TaskType
<1>8. \A u \in Tasks : Holds(u)' \/ task'[u].op \in {"apply", "confirm"} => u = t
  BY <1>1, IdleHasNone DEF Holds
<1> HIDE DEF record, k
<1>9. SoundInv'
  <2>1. k \in Readable(copy')
    BY <1>2, <1>5 DEF Readable
  <2>2. \A c \in Slots : c = k \/ c = 1 - k
    BY <1>2
  <2>3. \A c \in Slots : Sound(copy[c])'
    BY <1>2, <1>4, <1>5, <2>2 DEF Sound, Verified
  <2>4. \A u \in Tasks : Holds(u)' => Sound(task[u].record)'
    BY <1>2, <1>4, <1>7, <1>8 DEF Sound, Verified
  <2> QED
    BY <2>1, <2>3, <2>4 DEF SoundInv, Readable
<1>10. WriterInv'
  <2>1. \A u \in Tasks \ {t} : task'[u].pc = "idle"
    BY <1>1, IdleHasNone
  <2> QED
    BY <1>2, <1>5, <1>7, <2>1 DEF WriterInv
<1>11. ConfirmInv'
  <2> SUFFICES ASSUME task[t].op = "confirm"
               PROVE  /\ task[t].final /\ record.successful[task[t].target]
                      /\ BootsAlike(record, copy[k])
    BY <1>5, <1>7, <1>8 DEF ConfirmInv, BootsAlike
  <2> QED
    BY <1>2 DEF SoloInv, ConfirmInv, record, k
<1>12. ApplyInv'
  <2> SUFFICES ASSUME task[t].op = "apply"
               PROVE  /\ apply.state = "writing"
                      /\ task[t].image = apply.image /\ task[t].image # NoImage
                      /\ task[t].target \notin vouched
                      /\ ~task[t].final => record.priority[task[t].target] = 0
                      /\ task[t].final =>
                           /\ Leads(record, task[t].target)
                           /\ content[task[t].target] = task[t].image
    BY <1>4, <1>7, <1>8 DEF ApplyInv, Leads, Ahead, Verified
  <2> QED
    BY <1>2 DEF SoloInv, ApplyInv, record
<1>13. DoneInv'
  <2> SUFFICES ASSUME apply.state = "done" PROVE DoneInv'
    BY <1>4 DEF DoneInv
  <2>1. PICK s \in Slots :
          content[s] = apply.image /\ \A c \in Readable(copy) : Leads(copy[c], s)
    BY DEF SoloInv, DoneInv
  <2>2. task[t].op = "confirm"
    BY <1>2, Holder DEF SoloInv, ApplyInv
  <2>3. Leads(record, s)
    BY <2>1, <2>2, ConfirmLeads DEF record
  <2>4. Leads(copy[k], s)
    BY <1>2, <2>1 DEF Readable
  <2>5. \A c \in Slots : c = k \/ c = 1 - k
    BY <1>2
  <2>6. \A c \in Readable(copy') : Leads(copy[c], s)'
    BY <1>4, <1>5, <2>3, <2>4, <2>5 DEF Leads, Ahead, Verified, Readable
  <2> QED
    BY <1>4, <2>1, <2>6 DEF DoneInv
<1> QED
  BY <1>9, <1>10, <1>11, <1>12, <1>13 DEF SoloInv

\* Both copies are the record now: the payload is next, or the request is over.
LEMMA WriteSecond ==
  ASSUME Cli = {}, ShapeInv, ClaimInv, SoloInv, NEW t \in Tasks,
         WriteCopy(t), At(t, "second")
  PROVE  SoloInv'
<1> DEFINE record == task[t].record
           k == task[t].selected
<1>1. \A u \in Tasks \ {t} : task'[u] = Idle
  BY Alone DEF Work
<1>2. /\ k \in Slots /\ record \in RecordType /\ record.valid /\ Sound(record)
      /\ copy[1 - k] = record /\ copy[k].valid /\ CopyAt(t) = k /\ Holds(t)
  BY AtCopy
<1>3. copy \in [Slots -> RecordType \cup {Torn}] /\ task \in [Tasks -> TaskType]
      /\ apply \in ApplyType
  BY DEF ShapeInv, TypeInv
<1>4. content' = content /\ copy' = [copy EXCEPT ![k] = record]
  BY <1>2 DEF WriteCopy
<1>5. \A c \in Slots : copy'[c] = record
  <2>1. \A c \in Slots : c = k \/ c = 1 - k
    BY <1>2
  <2> QED
    BY <1>2, <1>3, <1>4, <2>1
<1>6. Readable(copy') = Slots
  BY <1>2, <1>5 DEF Readable
<1>7. /\ task[t].op \in {"apply", "confirm"} /\ task[t].target \in Slots
      /\ task[t].final \in BOOLEAN /\ (~task[t].final => task[t].op = "apply")
  BY <1>2, Holder
<1>8. task[t].op = "apply" =>
        /\ apply.state = "writing"
        /\ task[t].image = apply.image /\ task[t].image # NoImage
        /\ task[t].target \notin vouched
        /\ ~task[t].final => record.priority[task[t].target] = 0
        /\ task[t].final => Leads(record, task[t].target)
                            /\ content[task[t].target] = task[t].image
  BY <1>2 DEF SoloInv, ApplyInv
<1>9. task[t].op = "confirm" => record.successful[task[t].target]
  BY <1>2 DEF SoloInv, ConfirmInv
<1>10. CASE ~task[t].final
  <2>1. UNCHANGED <<claimed, apply, file, vouched>> /\ Goto(t, "payload")
    BY <1>10 DEF WriteCopy
  <2>2. task'[t] = [task[t] EXCEPT !.pc = "payload"]
    BY <1>3, <2>1 DEF Goto
  <2>3. /\ task'[t].pc = "payload" /\ task'[t].op = task[t].op
        /\ task'[t].record = record /\ task'[t].selected = k
        /\ task'[t].target = task[t].target /\ task'[t].final = task[t].final
        /\ task'[t].image = task[t].image
    BY <1>3, <2>2 DEF TaskType
  <2>4. \A u \in Tasks : Holds(u)' \/ task'[u].op \in {"apply", "confirm"} => u = t
    BY <1>1, IdleHasNone DEF Holds
  <2> HIDE DEF record, k
  <2>5. SoundInv'
    <3>1. Sound(task[t].record)' /\ \A c \in Slots : Sound(copy[c])'
      BY <1>2, <1>4, <1>5, <2>1, <2>3 DEF Sound, Verified
    <3>2. Readable(copy') # {} /\ Readable(copy') \subseteq Slots
      BY <1>6
    <3> QED
      BY <2>4, <3>1, <3>2 DEF SoundInv
  <2>6. WriterInv'
    <3>1. \A u \in Tasks \ {t} : task'[u].pc = "idle"
      BY <1>1, IdleHasNone
    <3>2. copy'[k] = record /\ copy'[1 - k] = record
      BY <1>2, <1>5
    <3> QED
      BY <1>2, <2>3, <3>1, <3>2 DEF WriterInv
  <2>7. ConfirmInv'
    BY <1>7, <1>10, <2>3, <2>4 DEF ConfirmInv
  <2>8. ApplyInv'
    BY <1>7, <1>8, <1>10, <2>1, <2>3, <2>4 DEF ApplyInv
  <2>9. DoneInv'
    BY <1>7, <1>8, <1>10, <2>1 DEF DoneInv
  <2> QED
    BY <2>5, <2>6, <2>7, <2>8, <2>9 DEF SoloInv
<1>11. CASE task[t].final
  <2>1. Answer(t, TRUE)
    BY <1>11 DEF WriteCopy
  <2>2. task'[t] = Idle
        /\ vouched' = IF task[t].op = "confirm" THEN vouched \cup {task[t].target}
                      ELSE vouched
    BY <1>3, <2>1 DEF Answer
  <2>3. \A u \in Tasks : task'[u] = Idle
    BY <1>1, <2>2
  <2>4. \A u \in Tasks : ~Holds(u)' /\ ~(task'[u].op \in {"apply", "confirm"})
                         /\ task'[u].pc = "idle"
    BY <2>3, IdleHasNone DEF Holds
  <2> HIDE DEF record, k
  <2>5. SoundInv'
    <3>1. \A s \in vouched' : record.successful[s]
      BY <1>2, <1>9, <2>2, <1>3 DEF Sound, ShapeInv, TypeInv
    <3>2. \A c \in Slots : Sound(copy[c])'
      BY <1>2, <1>4, <1>5, <3>1 DEF Sound, Verified
    <3>3. Readable(copy') # {} /\ Readable(copy') \subseteq Slots
      BY <1>6
    <3> QED
      BY <2>4, <3>2, <3>3 DEF SoundInv
  <2>6. WriterInv' /\ ConfirmInv' /\ ApplyInv'
    BY <2>4 DEF WriterInv, ConfirmInv, ApplyInv
  <2>7. DoneInv'
    <3>1. ASSUME NEW s \in Slots, Leads(record, s), content[s] = apply'.image
          PROVE  DoneInv'
      <4>1. \A c \in Slots : Leads(copy[c], s)'
        BY <1>4, <1>5, <3>1 DEF Leads, Ahead, Verified
      <4> QED
        BY <1>4, <1>6, <3>1, <4>1 DEF DoneInv
    <3>2. CASE task[t].op = "apply"
      <4>1. apply' = [apply EXCEPT !.state = "done"]
        BY <2>1, <3>2 DEF Answer
      <4>2. apply'.image = apply.image
        BY <1>3, <4>1 DEF ApplyType
      <4> QED
        BY <1>7, <1>8, <1>11, <3>1, <3>2, <4>2
    <3>3. CASE task[t].op = "confirm"
      <4>1. apply' = apply
        BY <2>1, <3>3 DEF Answer
      <4> SUFFICES ASSUME apply.state = "done" PROVE DoneInv'
        BY <4>1 DEF DoneInv
      <4>2. PICK s \in Slots : content[s] = apply.image
                               /\ \A c \in Readable(copy) : Leads(copy[c], s)
        BY DEF SoloInv, DoneInv
      <4>3. Leads(record, s)
        BY <3>3, <4>2, ConfirmLeads DEF record
      <4> QED
        BY <3>1, <4>1, <4>2, <4>3
    <3> QED
      BY <1>7, <3>2, <3>3
  <2> QED
    BY <2>5, <2>6, <2>7 DEF SoloInv
<1> QED
  BY <1>7, <1>10, <1>11

\* A transfer fails, whatever it has left of the copy.
LEMMA WriteFailsSolo ==
  ASSUME Cli = {}, ShapeInv, ClaimInv, SoloInv, NEW t \in Tasks, WriteFails(t)
  PROVE  SoloInv'
<1> DEFINE record == task[t].record
           k == task[t].selected
<1>1. \A u \in Tasks \ {t} : task'[u] = Idle
  BY Alone DEF Work
<1>2. /\ k \in Slots /\ record \in RecordType /\ record.valid /\ Sound(record)
      /\ copy[k] \in RecordType /\ copy[k].valid /\ Sound(copy[k])
      /\ CopyAt(t) = (IF At(t, "first") THEN 1 - k ELSE k) /\ Holds(t)
      /\ (At(t, "second") => copy[1 - k] = record)
  BY AtCopy DEF WriteFails
<1>3. copy \in [Slots -> RecordType \cup {Torn}] /\ task \in [Tasks -> TaskType]
      /\ apply \in ApplyType
  BY DEF ShapeInv, TypeInv
<1>4. /\ content' = content /\ Answer(t, FALSE)
      /\ At(t, "first") \/ At(t, "second")
  BY DEF WriteFails
<1>0. PICK w \in Slots : w = CopyAt(t)
  BY <1>2
<1>5. PICK outcome \in {copy[w], Torn, record} :
        copy' = [copy EXCEPT ![w] = outcome]
  BY <1>0 DEF WriteFails
<1>6. copy'[w] = outcome /\ copy'[1 - w] = copy[1 - w] /\ 1 - w \in Slots
      /\ \A c \in Slots : c = w \/ c = 1 - w
  BY <1>3, <1>5
<1>7. 1 - w \in Readable(copy) /\ (copy[1 - w] = record \/ 1 - w = k)
  <2>1. copy[1 - w].valid /\ (copy[1 - w] = record \/ 1 - w = k)
    BY <1>0, <1>2, <1>4
  <2> QED
    BY <1>6, <2>1 DEF Readable
<1>8. task'[t] = Idle /\ vouched' = vouched
  BY <1>3, <1>4 DEF Answer
<1>9. \A u \in Tasks : ~Holds(u)' /\ ~(task'[u].op \in {"apply", "confirm"})
                       /\ task'[u].pc = "idle"
  BY <1>1, <1>8, IdleHasNone DEF Holds
<1> HIDE DEF record, k
<1>10. \A c \in Readable(copy') :
         \/ copy'[c] = record
         \/ c \in Readable(copy) /\ copy'[c] = copy[c]
  <2>1. outcome = copy[w] \/ outcome = record \/ w \notin Readable(copy')
    BY <1>5, <1>6, TornUnreadable DEF Readable
  <2>2. \A c \in Readable(copy') : c \in Slots /\ copy'[c].valid
    BY DEF Readable
  <2> QED
    BY <1>6, <1>7, <2>1, <2>2 DEF Readable
<1>11. SoundInv'
  <2>1. Readable(copy') # {}
    BY <1>6, <1>7 DEF Readable
  <2>2. \A c \in Readable(copy) : Sound(copy[c])
    BY DEF SoloInv, SoundInv
  <2>3. \A c \in Readable(copy') : Sound(copy[c])'
    BY <1>2, <1>4, <1>8, <1>10, <2>2 DEF Sound, Verified
  <2> QED
    BY <1>9, <2>1, <2>3 DEF SoundInv
<1>12. WriterInv' /\ ConfirmInv' /\ ApplyInv'
  BY <1>9 DEF WriterInv, ConfirmInv, ApplyInv
<1>13. DoneInv'
  <2> SUFFICES ASSUME apply'.state = "done" PROVE DoneInv'
    BY DEF DoneInv
  <2>1. task[t].op # "apply"
    <3>1. task[t].op = "apply" => apply' = [apply EXCEPT !.state = "failed"]
      BY <1>4 DEF Answer
    <3> QED
      BY <1>3, <3>1 DEF ApplyType
  <2>2. task[t].op = "confirm" /\ apply' = apply
    BY <1>2, <1>4, <2>1, Holder DEF Answer
  <2>3. PICK s \in Slots : content[s] = apply.image
                           /\ \A c \in Readable(copy) : Leads(copy[c], s)
    BY <2>2 DEF SoloInv, DoneInv
  <2>4. Leads(record, s)
    BY <1>4, <2>2, <2>3, ConfirmLeads DEF record
  <2>5. \A c \in Readable(copy') : Leads(copy[c], s)'
    BY <1>4, <1>10, <2>3, <2>4 DEF Leads, Ahead, Verified
  <2> QED
    BY <1>4, <2>2, <2>3, <2>5 DEF DoneInv
<1> QED
  BY <1>11, <1>12, <1>13 DEF SoloInv

\* While the payload is written both copies are the record that has taken the
\* priority of the slot.
LEMMA PayloadSolo ==
  ASSUME Cli = {}, ShapeInv, ClaimInv, SoloInv, NEW t \in Tasks,
         BeginPayload(t) \/ EndPayload(t)
  PROVE  SoloInv'
<1> DEFINE record == task[t].record
           target == task[t].target
<1>1. \A u \in Tasks \ {t} : task'[u] = Idle
  BY Alone DEF Work
<1>2. Holds(t) /\ task[t].pc \in {"payload", "copying"} /\ ~task[t].final
  BY DEF BeginPayload, EndPayload, ShapeInv, JobInv, Holds
<1>3. /\ record \in RecordType /\ target \in Slots /\ task[t].selected \in Slots
      /\ task[t].op = "apply"
  BY <1>2, Holder
<1>4. task \in [Tasks -> TaskType]
      /\ content \in [Slots -> Images \cup {NoImage, Partial}]
  BY DEF ShapeInv, TypeInv
<1>5. UNCHANGED <<copy, apply, file, vouched>>
      /\ \A s \in Slots \ {target} : content'[s] = content[s]
  BY <1>3, <1>4 DEF BeginPayload, EndPayload
<1>6. PICK pc \in {"copying", "compare"} : task' = [task EXCEPT ![t].pc = pc]
  BY DEF BeginPayload, EndPayload, Goto
<1>7. task'[t] = [task[t] EXCEPT !.pc = pc]
  BY <1>4, <1>6
<1>8. /\ task'[t].pc = pc /\ task'[t].op = task[t].op
      /\ task'[t].record = record /\ task'[t].selected = task[t].selected
      /\ task'[t].target = target /\ task'[t].final = task[t].final
      /\ task'[t].image = task[t].image
  BY <1>4, <1>7 DEF TaskType
<1>9. \A u \in Tasks : Holds(u)' \/ task'[u].op \in {"apply", "confirm"} => u = t
  BY <1>1, IdleHasNone DEF Holds
<1>10. /\ apply.state = "writing" /\ target \notin vouched
       /\ task[t].image = apply.image /\ task[t].image # NoImage
       /\ record.priority[target] = 0
  BY <1>2, <1>3 DEF SoloInv, ApplyInv
<1>11. \A c \in Slots : copy[c] = record
  <2>1. copy[task[t].selected] = record /\ copy[1 - task[t].selected] = record
    BY <1>2 DEF SoloInv, WriterInv
  <2>2. \A c \in Slots : c = task[t].selected \/ c = 1 - task[t].selected
    BY <1>3
  <2> QED
    BY <2>1, <2>2
<1>12. Sound(record)
  BY <1>2 DEF SoloInv, SoundInv
<1> HIDE DEF record, target
<1>13. SoundInv'
  <2>1. Sound(task[t].record)' /\ \A c \in Slots : Sound(copy[c])'
    BY <1>5, <1>8, <1>10, <1>11, <1>12 DEF Sound, Verified
  <2>2. Readable(copy') # {} /\ Readable(copy') \subseteq Slots
    BY <1>5 DEF SoloInv, SoundInv, Readable
  <2> QED
    BY <1>9, <2>1, <2>2 DEF SoundInv
<1>14. WriterInv'
  <2>1. \A u \in Tasks \ {t} : task'[u].pc = "idle"
    BY <1>1, IdleHasNone
  <2>2. copy'[task[t].selected] = record /\ copy'[1 - task[t].selected] = record
    BY <1>3, <1>5, <1>11
  <2> QED
    BY <1>8, <2>1, <2>2 DEF WriterInv
<1>15. ConfirmInv'
  BY <1>3, <1>8, <1>9 DEF ConfirmInv
<1>16. ApplyInv'
  BY <1>2, <1>5, <1>8, <1>9, <1>10 DEF ApplyInv
<1>17. DoneInv'
  BY <1>5, <1>10 DEF DoneInv
<1> QED
  BY <1>13, <1>14, <1>15, <1>16, <1>17 DEF SoloInv

\* The slot holds the image: the record gives it the highest priority.
LEMMA CompareSolo ==
  ASSUME Cli = {}, ShapeInv, ClaimInv, SoloInv, NEW t \in Tasks, Compare(t)
  PROVE  SoloInv'
<1> DEFINE record == task[t].record
           target == task[t].target
           r == 1 - target
           image == task[t].image
           staged == Staged(record, target, image)
<1>1. \A u \in Tasks \ {t} : task'[u] = Idle
  BY Alone DEF Work
<1>2. /\ Holds(t) /\ task'[t].pc = "first" /\ task'[t].op = task[t].op
      /\ task'[t].target = target /\ task'[t].image = image /\ task'[t].final
      /\ task'[t].selected = task[t].selected
      /\ task'[t].record = Rewritten(staged)
      /\ record \in RecordType /\ target \in Slots
      /\ image \in Images \cup {NoImage} /\ content[target] = image
      /\ UNCHANGED <<copy, content, vouched, apply, file>>
  BY CompareStep DEF ShapeInv, medium
<1>3. task[t].op = "apply" /\ task[t].selected \in Slots
  <2>1. ~task[t].final
    BY DEF Compare, ShapeInv, JobInv
  <2> QED
    BY <1>2, <2>1, Holder
<1>4. /\ apply.state = "writing" /\ target \notin vouched
      /\ image = apply.image /\ image # NoImage
      /\ record.priority[target] = 0
  <2>1. ~task[t].final
    BY DEF Compare, ShapeInv, JobInv
  <2> QED
    BY <1>2, <1>3, <2>1 DEF SoloInv, ApplyInv
<1>5. copy[task[t].selected] = record /\ copy[1 - task[t].selected] = record
  BY DEF Compare, SoloInv, WriterInv
<1>6. \A c \in Slots : copy[c] = record
  <2>1. \A c \in Slots : c = task[t].selected \/ c = 1 - task[t].selected
    BY <1>3
  <2> QED
    BY <1>5, <2>1
<1>7. Sound(record)
  BY <1>2 DEF SoloInv, SoundInv
<1>8. r \in Slots /\ r # target /\ \A s \in Slots : s = r \/ s = target
  BY <1>2
<1> HIDE DEF r
<1>9. /\ staged \in RecordType /\ staged.active = target
      /\ staged.generation = record.generation
  <2>1. staged \in RecordType
    BY <1>2, RecordTypes
  <2>2. staged.active = target /\ staged.generation = record.generation
    BY <1>2, <1>8, StagedFields
  <2> QED
    BY <2>1, <2>2
<1>10. /\ staged.priority[target] = 15 /\ staged.priority[r] \in {0, 14}
       /\ staged.priority[r] = 0 <=> record.priority[r] = 0
       /\ staged.image[target] = image /\ staged.image[r] = record.image[r]
       /\ staged.successful[r] = record.successful[r]
  BY <1>2, <1>8, StagedFields
<1> HIDE DEF staged
<1>11. /\ task'[t].record \in RecordType
       /\ task'[t].record.generation = record.generation + 1
       /\ task'[t].record.priority = staged.priority
       /\ task'[t].record.image = staged.image
       /\ task'[t].record.active = target
       /\ task'[t].record.successful = staged.successful
  BY <1>2, <1>9, RewrittenFields
<1>12. \A u \in Tasks : Holds(u)' \/ task'[u].op \in {"apply", "confirm"} => u = t
  BY <1>1, IdleHasNone DEF Holds
<1>13. record.generation \in Nat /\ record.valid /\ record.priority[r] \in {0, 14, 15}
  BY <1>2, <1>8 DEF RecordType
<1> HIDE DEF record, target, image
<1>14. SoundInv'
  <2>1. Sound(task[t].record)'
    BY <1>2, <1>4, <1>7, <1>8, <1>10, <1>11 DEF Sound, Verified
  <2>2. \A c \in Slots : Sound(copy[c])'
    BY <1>2, <1>6, <1>7 DEF Sound, Verified
  <2>3. Readable(copy') # {} /\ Readable(copy') \subseteq Slots
    BY <1>2 DEF SoloInv, SoundInv, Readable
  <2> QED
    BY <1>12, <2>1, <2>2, <2>3 DEF SoundInv
<1>15. WriterInv'
  <2>1. \A u \in Tasks \ {t} : task'[u].pc = "idle"
    BY <1>1, IdleHasNone
  <2> QED
    BY <1>2, <1>5, <1>11, <1>13, <2>1 DEF WriterInv
<1>16. ConfirmInv'
  BY <1>2, <1>3, <1>12 DEF ConfirmInv
<1>17. ApplyInv'
  <2>1. Leads(task[t].record, task[t].target)'
    <3>1. task'[t].record.priority[target] = 15
      BY <1>10, <1>11
    <3>2. task'[t].record.image[target] = image
      BY <1>10, <1>11
    <3>3. Ahead(task'[t].record, target, r)
      BY <1>10, <1>11, <3>1 DEF Ahead
    <3> QED
      BY <1>2, <1>4, <3>1, <3>2, <3>3 DEF Leads, Verified, r
  <2> QED
    BY <1>2, <1>4, <1>6, <1>12, <1>13, <2>1 DEF ApplyInv, BootsAlike
<1>18. DoneInv'
  BY <1>2, <1>4 DEF DoneInv
<1> QED
  BY <1>14, <1>15, <1>16, <1>17, <1>18 DEF SoloInv

\* After a loss of power a record that was sound is left, and the boot loader
\* leaves it as it is: every slot that it could start verifies.
LEMMA ResetSolo ==
  ASSUME Cli = {}, ShapeInv, SoloInv, Reset
  PROVE  /\ SoloInv'
         /\ \E copies \in Survivors :
              /\ copies \in CopyType /\ Readable(copies) # {} /\ copy' = copies
              /\ running' = BootSlot(copies) \/ (AmpControl /\ running' = Amp)
<1>1. PICK copies \in Survivors :
        \/ running' = BootSlot(copies) /\ copy' = BootRecord(copies)
        \/ AmpControl /\ running' = Amp /\ copy' = copies
  BY DEF Reset, Survivors
<1>2. copies \in CopyType
  BY SurvivorTypes DEF ShapeInv
<1>3. copy \in [Slots -> RecordType \cup {Torn}]
  BY DEF ShapeInv, TypeInv
<1>4. /\ Readable(copies) # {}
      /\ \A c \in Readable(copies) : c \in Readable(copy) /\ copies[c] = copy[c]
  <2>1. CASE copies = copy
    BY <2>1 DEF SoloInv, SoundInv
  <2>2. ASSUME NEW t \in Tasks, At(t, "first") \/ At(t, "second"),
               copies = [copy EXCEPT ![CopyAt(t)] = Torn]
        PROVE  /\ Readable(copies) # {}
               /\ \A c \in Readable(copies) : c \in Readable(copy) /\ copies[c] = copy[c]
    <3> DEFINE k == task[t].selected
    <3>1. /\ k \in Slots /\ copy[k].valid
          /\ CopyAt(t) = (IF At(t, "first") THEN 1 - k ELSE k)
          /\ At(t, "second") => copy[1 - k].valid
      BY <2>2, AtCopy
    <3>2. PICK w \in Slots : w = CopyAt(t)
      BY <3>1
    <3>3. copies[w] = Torn /\ copies[1 - w] = copy[1 - w] /\ 1 - w \in Slots
          /\ \A c \in Slots : c = w \/ c = 1 - w
      BY <1>3, <2>2, <3>2
    <3>4. copy[1 - w].valid
      BY <2>2, <3>1, <3>2
    <3> QED
      BY <3>3, <3>4, TornUnreadable DEF Readable
  <2> QED
    BY <2>1, <2>2 DEF Survivors
<1>5. \A c \in Readable(copies) : Sound(copies[c]) /\ copies[c] \in RecordType
  BY <1>2, <1>4, Copies DEF SoloInv, SoundInv
<1>6. BootRecord(copies) = copies
  <2> DEFINE record == copies[Selected(copies)]
             tried == {s \in Bootable(record) :
                         /\ ~Verified(record, s)
                         /\ \/ BootSlot(copies) = Recovery
                            \/ Ahead(record, s, BootSlot(copies))}
  <2>1. Selected(copies) \in Readable(copies)
    BY <1>2, <1>4, SelectedReadable
  <2>2. Sound(record)
    BY <1>5, <2>1
  <2>3. tried = {}
    BY <2>2 DEF Sound, Bootable
  <2> QED
    BY <2>3 DEF BootRecord
<1>7. /\ copy' = copies
      /\ running' = BootSlot(copies) \/ (AmpControl /\ running' = Amp)
  BY <1>1, <1>6
<1>8. \A u \in Tasks : task'[u] = Idle
  BY DEF Reset
<1>9. \A u \in Tasks : ~Holds(u)' /\ ~(task'[u].op \in {"apply", "confirm"})
                       /\ task'[u].pc = "idle"
  BY <1>8, IdleHasNone DEF Holds
<1>10. content' = content /\ vouched' = vouched /\ apply' = NoApply
  BY DEF Reset
<1>11. SoundInv'
  <2>1. \A c \in Readable(copy') : Sound(copy[c])'
    BY <1>5, <1>7, <1>10 DEF Sound, Verified
  <2> QED
    BY <1>4, <1>7, <1>9, <2>1 DEF SoundInv
<1>12. WriterInv' /\ ConfirmInv' /\ ApplyInv'
  BY <1>9 DEF WriterInv, ConfirmInv, ApplyInv
<1>13. DoneInv'
  BY <1>10 DEF DoneInv, NoApply
<1> QED
  BY <1>1, <1>2, <1>4, <1>7, <1>11, <1>12, <1>13 DEF SoloInv

LEMMA SoloInit == Cli = {} /\ Init => SoloInv
<1> SUFFICES ASSUME Cli = {}, Init PROVE SoloInv
  OBVIOUS
<1>1. \A u \in Tasks : ~Holds(u) /\ ~(task[u].op \in {"apply", "confirm"})
                       /\ task[u].pc = "idle"
  BY IdleHasNone DEF Init, Holds
<1>2. /\ \A c \in Slots : copy[c].valid
      /\ \A c \in Slots : Sound(copy[c])
  BY DEF Init, Sound, Verified
<1>3. SoundInv
  BY <1>1, <1>2 DEF SoundInv, Readable
<1>4. WriterInv /\ ConfirmInv /\ ApplyInv
  BY <1>1 DEF WriterInv, ConfirmInv, ApplyInv
<1>5. DoneInv
  BY DEF Init, DoneInv, NoApply
<1> QED
  BY <1>3, <1>4, <1>5 DEF SoloInv

LEMMA SoloStep ==
  Cli = {} => (ShapeInv /\ ClaimInv /\ SoloInv /\ [Next]_vars => SoloInv')
<1> SUFFICES ASSUME Cli = {}, ShapeInv, ClaimInv, SoloInv, [Next]_vars PROVE SoloInv'
  OBVIOUS
<1>1. CASE UNCHANGED vars
  BY <1>1 DEF vars, SoloInv, SoundInv, Sound, Verified, Holds, WriterInv, ConfirmInv,
              BootsAlike, ApplyInv, DoneInv, Leads, Ahead
<1>2. ASSUME NEW t \in Web, Remove(t) \/ ApplyRefused(t) PROVE SoloInv'
  <2>1. \A u \in Tasks : task[u] = Idle
    BY <1>2 DEF Remove, ApplyRefused, ClaimInv, ShapeInv, JobInv
  <2>2. UNCHANGED <<copy, content, vouched, task>>
        /\ (apply' = apply \/ apply'.state # "done")
    BY <1>2 DEF Remove, ApplyRefused, medium
  <2>3. \A u \in Tasks : ~Holds(u)' /\ task'[u].op # "apply"
    BY <2>1, <2>2, IdleHasNone DEF Holds
  <2> QED
    BY <2>2, <2>3, Aside
<1>3. ASSUME NEW t \in Tasks, Work(t) PROVE SoloInv'
  <2>1. CASE WriteCopy(t)
    BY <2>1, WriteFirst, WriteSecond DEF WriteCopy
  <2> QED
    BY <1>3, <2>1, AsideSteps, ReadSolo, WriteFailsSolo, PayloadSolo, CompareSolo
       DEF Work
<1>4. ASSUME NEW t \in Web, Upload(t) \/ Apply(t) \/ Confirm(t) \/ Reboot(t)
      PROVE  SoloInv'
  BY <1>4, AsideSteps
<1> QED
  BY <1>1, <1>2, <1>3, <1>4, ResetSolo, Steps

PanelInv == RunningIInv /\ SoloInv

LEMMA PanelCorrect == Cli = {} => (Spec => []PanelInv)
<1> SUFFICES ASSUME Cli = {} PROVE Spec => []PanelInv
  OBVIOUS
<1>1. Init => SoloInv
  BY SoloInit
<1>2. RunningIInv /\ SoloInv /\ [Next]_vars => SoloInv'
  BY SoloStep DEF RunningIInv
<1>3. Spec => []RunningIInv
  BY RunningCorrect DEF OneWriterIfErrors
<1> QED
  BY <1>1, <1>2, <1>3, PTL DEF Spec, PanelInv

\* Whichever copy of the record survives, it tells the truth while only the
\* panel changes it: a slot that it gives a priority holds the image of its
\* digest as a whole, also when transfers fail and power is lost in any write,
\* and a slot whose confirmation was answered stays confirmed until a staging
\* is about to replace it.
THEOREM RecordTrueCorrect == Cli = {} => (Spec => []RecordTrue)
<1>1. PanelInv => RecordTrue
  <2> SUFFICES ASSUME PanelInv PROVE TypeInv /\ PriorityVerified /\ ConfirmKept
    BY DEF RecordTrue
  <2>1. TypeInv /\ \A c \in Readable(copy) : Sound(copy[c])
    BY DEF PanelInv, RunningIInv, ShapeInv, SoloInv, SoundInv
  <2>2. vouched \subseteq Slots
    BY <2>1 DEF TypeInv
  <2> QED
    BY <2>1, <2>2 DEF PriorityVerified, ConfirmKept, Sound
<1> QED
  BY <1>1, PanelCorrect, PTL

\* While the panel shows an update as done, the next boot starts the image whose
\* digest the owner confirmed, whatever happened to the file and to the record
\* since.
THEOREM DoneBootsConfirmedCorrect == Cli = {} => (Spec => []DoneBootsConfirmed)
<1>1. PanelInv => DoneBootsConfirmed
  <2> SUFFICES ASSUME PanelInv, apply.state = "done"
               PROVE  NextSlot \in Slots /\ content[NextSlot] = apply.image
    BY DEF DoneBootsConfirmed
  <2>1. PICK s \in Slots : content[s] = apply.image
                           /\ \A c \in Readable(copy) : Leads(copy[c], s)
    BY DEF PanelInv, SoloInv, DoneInv
  <2>2. copy \in CopyType /\ Readable(copy) # {}
    BY DEF PanelInv, RunningIInv, ShapeInv, TypeInv, CopyType, SoloInv, SoundInv
  <2>3. Selected(copy) \in Readable(copy)
    BY <2>2, SelectedReadable
  <2>4. Started(copy[Selected(copy)]) = s
    BY <2>1, <2>2, <2>3, Copies, LeaderStarts
  <2> QED
    BY <2>1, <2>2, <2>4 DEF NextSlot, BootSlot
<1> QED
  BY <1>1, PanelCorrect, PTL

(***************************************************************************)
(* Requests of the panel implement BootSwitch                              *)
(***************************************************************************)
Runs == IF running \in Slots THEN content[running] ELSE NoImage
NextImage == IF NextSlot \in Slots THEN content[NextSlot] ELSE NoImage

\* The slot that starts when the slots hold contents
StartedWith(record, contents) ==
  LET good == {s \in Bootable(record) :
                 record.image[s] # NoImage /\ contents[s] = record.image[s]}
  IN IF good = {} THEN Recovery
     ELSE CHOOSE s \in good : \A r \in good \ {s} : Ahead(record, s, r)

LEMMA StartedIsWith == \A record : Started(record) = StartedWith(record, content)
BY DEF Started, StartedWith, Verified

LEMMA StartedUnchanged ==
  ASSUME content' = content
  PROVE  \A record : Started(record)' = Started(record)
BY DEF Started, Verified, Bootable, Ahead

\* The only candidate whose image verifies is the slot that starts.
LEMMA OnlyCandidate ==
  ASSUME NEW record \in RecordType, NEW contents, NEW s \in Slots,
         record.priority[s] # 0, record.priority[1 - s] = 0,
         record.image[s] # NoImage, contents[s] = record.image[s]
  PROVE  StartedWith(record, contents) = s
<1> DEFINE good == {r \in Bootable(record) :
                      record.image[r] # NoImage /\ contents[r] = record.image[r]}
<1>1. good = {s}
  <2>1. \A r \in Slots : r = s \/ r = 1 - s
    OBVIOUS
  <2> QED
    BY <2>1 DEF Bootable
<1> HIDE DEF good
<1>2. StartedWith(record, contents)
        = IF good = {} THEN Recovery
          ELSE CHOOSE q \in good : \A r \in good \ {q} : Ahead(record, q, r)
  BY DEF StartedWith, good
<1>3. (CHOOSE q \in good : \A r \in good \ {q} : Ahead(record, q, r)) = s
  BY <1>1
<1> QED
  BY <1>1, <1>2, <1>3

\* What the boot loader looks at in a record
StartedFrom(active, priority, image) ==
  LET good == {s \in {r \in Slots : priority[r] # 0} :
                 image[s] # NoImage /\ content[s] = image[s]}
  IN IF good = {} THEN Recovery
     ELSE CHOOSE s \in good :
            \A r \in good \ {s} :
              \/ priority[s] > priority[r]
              \/ priority[s] = priority[r] /\ active = s

LEMMA AlikeStarted ==
  ASSUME NEW record, NEW other, BootsAlike(record, other)
  PROVE  Started(record) = Started(other)
<1>1. /\ Started(record) = StartedFrom(record.active, record.priority, record.image)
      /\ Started(other) = StartedFrom(other.active, other.priority, other.image)
  BY DEF Started, StartedFrom, Verified, Bootable, Ahead
<1> QED
  BY <1>1 DEF BootsAlike

\* The slot that starts is what a copy says with which the other one agrees,
\* that is the newer one, or the only one that can be read.
LEMMA NextIs ==
  ASSUME NEW copies \in CopyType, NEW c \in Slots, copies[c].valid,
         copies[1 - c].valid =>
           \/ copies[1 - c] = copies[c]
           \/ copies[1 - c].generation < copies[c].generation
  PROVE  Readable(copies) # {} /\ copies[Selected(copies)] = copies[c]
<1>1. c \in Readable(copies)
  BY DEF Readable
<1>2. CASE copies[1 - c].valid => copies[1 - c].generation < copies[c].generation
  BY <1>1, <1>2, SelectedIs
<1>3. CASE copies[1 - c] = copies[c]
  <2>1. Selected(copies) \in {c, 1 - c}
    BY <1>1, SelectedReadable, Copies
  <2> QED
    BY <1>1, <1>3, <2>1
<1> QED
  BY <1>2, <1>3

LEMMA NextSlotStarted ==
  ASSUME Readable(copy) # {}
  PROVE  NextSlot = Started(copy[Selected(copy)])
BY DEF NextSlot, BootSlot

\* From one step to the next, when the slots hold the same
LEMMA NextSlotNext ==
  ASSUME content' = content, Readable(copy') # {}
  PROVE  NextSlot' = Started(copy'[Selected(copy')])
<1>1. NextSlot' = Started(copy[Selected(copy)])'
  BY DEF NextSlot, BootSlot, Readable, Selected
<1>2. Started(copy[Selected(copy)])' = Started(copy'[Selected(copy')])
  <2>1. \A record : StartedWith(record, content') = Started(record)
    BY StartedIsWith
  <2>2. Started(copy[Selected(copy)])'
          = StartedWith(copy'[Selected(copy')], content')
    BY DEF Started, StartedWith, Verified, Bootable, Ahead, Selected, Readable
  <2> QED
    BY <2>1, <2>2
<1> QED
  BY <1>1, <1>2

SwitchInv == PanelInv /\ SelectedInv /\ running \in Slots

\* The image that is asked for, when only task t works
AskedIn(tasks) ==
  LET staging == {u \in Tasks : /\ tasks[u].op \in Staging
                                /\ tasks[u].pc \notin {"digest", "read"}}
  IN IF staging = {} THEN NoImage ELSE tasks[CHOOSE u \in staging : TRUE].image

HoldingPC == {"first", "second", "payload", "copying", "compare"}

LEMMA AskedIs ==
  ASSUME Cli = {}, NEW tasks, NEW t \in Tasks,
         tasks[t] \in TaskType, Proper(t, tasks[t]),
         \A u \in Tasks \ {t} : tasks[u] = Idle
  PROVE  AskedIn(tasks) = IF tasks[t].pc \in HoldingPC /\ tasks[t].op = "apply"
                          THEN tasks[t].image ELSE NoImage
<1> DEFINE staging == {u \in Tasks : /\ tasks[u].op \in Staging
                                     /\ tasks[u].pc \notin {"digest", "read"}}
           job == tasks[t]
<1>1. staging \subseteq {t}
  BY IdleHasNone DEF Staging
<1>2. t \in staging <=> job.pc \in HoldingPC /\ job.op = "apply"
  <2>1. job.pc \in TaskPC /\ job.op \notin CliOps
    BY DEF TaskType, Proper
  <2>2. job.pc \notin HoldingPC /\ job.op \in Staging => job.pc \in {"digest", "read"}
    BY <2>1, IdleHasNone DEF TaskPC, HoldingPC, Proper, Staging
  <2>3. job.pc \in HoldingPC => job.op \in {"apply", "confirm"}
    BY <2>1 DEF Proper, HoldingPC
  <2> QED
    BY <2>2, <2>3 DEF HoldingPC, Staging
<1>3. AskedIn(tasks)
        = IF staging = {} THEN NoImage ELSE tasks[CHOOSE u \in staging : TRUE].image
  BY DEF AskedIn
<1> HIDE DEF staging
<1>4. CASE t \in staging
  <2>1. staging = {t} /\ (CHOOSE u \in staging : TRUE) = t
    BY <1>1, <1>4
  <2> QED
    BY <1>2, <1>3, <1>4, <2>1
<1>5. CASE t \notin staging
  <2>1. staging = {}
    BY <1>1, <1>5
  <2> QED
    BY <1>2, <1>3, <1>5, <2>1
<1> QED
  BY <1>4, <1>5

LEMMA AskedBefore ==
  ASSUME Cli = {}, ShapeInv, NEW t \in Tasks, \A u \in Tasks \ {t} : task[u] = Idle
  PROVE  AskedImage = IF Holds(t) /\ task[t].op = "apply" THEN task[t].image
                      ELSE NoImage
<1>1. AskedImage = AskedIn(task)
  BY DEF AskedImage, AskedIn
<1>2. task[t] \in TaskType /\ Proper(t, task[t])
  BY JobsProper DEF ShapeInv, TypeInv
<1> QED
  BY <1>1, <1>2, AskedIs DEF Holds, HoldingPC

LEMMA AskedAfter ==
  ASSUME Cli = {}, ShapeInv, NEW t \in Tasks, Moves(t),
         \A u \in Tasks \ {t} : task'[u] = Idle
  PROVE  AskedImage' = IF Holds(t)' /\ task'[t].op = "apply" THEN task'[t].image
                       ELSE NoImage
<1>1. AskedImage' = AskedIn(task')
  BY DEF AskedImage, AskedIn
<1>2. PICK job \in TaskType : Proper(t, job) /\ task' = [task EXCEPT ![t] = job]
  BY DEF Moves
<1>3. task'[t] = job
  BY <1>2 DEF ShapeInv, TypeInv
<1>4. AskedIn(task') = IF task'[t].pc \in HoldingPC /\ task'[t].op = "apply"
                       THEN task'[t].image ELSE NoImage
  BY <1>2, <1>3, AskedIs
<1> QED
  BY <1>1, <1>4 DEF Holds, HoldingPC

LEMMA SelectedStep ==
  Cli = {} => (ShapeInv /\ ClaimInv /\ SoloInv /\ SelectedInv /\ [Next]_vars
                 => SelectedInv')
<1> SUFFICES ASSUME Cli = {}, ShapeInv, ClaimInv, SoloInv, SelectedInv, [Next]_vars,
                    NEW u \in Tasks, At(u, "first")'
             PROVE  copy'[task'[u].selected] = copy'[Selected(copy')]
  BY DEF SelectedInv, Selected, Readable
<1>0. task \in [Tasks -> TaskType]
  BY DEF ShapeInv, TypeInv
<1>1. CASE UNCHANGED vars
  BY <1>1 DEF vars, SelectedInv
<1>2. CASE Reset
  BY <1>2, IdleHasNone, ResetTypes DEF ShapeInv
<1>3. ASSUME NEW t \in Web, Remove(t) \/ ApplyRefused(t) PROVE FALSE
  BY <1>3, IdleHasNone DEF Remove, ApplyRefused, ClaimInv
<1>4. ASSUME NEW t \in Tasks,
             Upload(t) \/ Apply(t) \/ Confirm(t) \/ Reboot(t) \/ Work(t)
      PROVE  u = t
  BY <1>4, Alone, IdleHasNone
<1>5. ASSUME NEW t \in Web, Upload(t) \/ Apply(t) \/ Confirm(t) \/ Reboot(t)
      PROVE  FALSE
  <2>1. u = t
    BY <1>4, <1>5
  <2> QED
    BY <1>0, <1>5, <2>1 DEF Upload, Apply, Confirm, Reboot, TaskType
<1>6. ASSUME NEW t \in Tasks, Work(t)
      PROVE  copy'[task'[u].selected] = copy'[Selected(copy')]
  <2>1. u = t
    BY <1>4, <1>6
  <2>2. CASE ReadToStage(t) \/ ReadToChange(t)
    <3>1. task'[t].selected = Selected(copy)
      BY <2>2, ReadMoves DEF ShapeInv
    <3>2. copy' = copy
      BY <2>2 DEF ReadToStage, ReadToChange, medium
    <3> QED
      BY <2>1, <3>1, <3>2
  <2>3. CASE Compare(t)
    <3>1. task'[t].selected = task[t].selected /\ Holds(t) /\ copy' = copy
      BY <2>3, CompareStep DEF ShapeInv, medium
    <3>2. task[t].selected \in Slots /\ task[t].record.valid
      BY <3>1, Holder
    <3>3. copy[task[t].selected] = task[t].record
          /\ copy[1 - task[t].selected] = task[t].record
      BY <2>3 DEF Compare, SoloInv, WriterInv
    <3>4. copy \in CopyType
      BY DEF ShapeInv, TypeInv, CopyType
    <3>5. copy[Selected(copy)] = copy[task[t].selected]
      BY <3>2, <3>3, <3>4, NextIs
    <3> QED
      BY <2>1, <3>1, <3>5
  <2>4. CASE ~ReadToStage(t) /\ ~ReadToChange(t) /\ ~Compare(t)
    <3>1. Moves(t)
      BY <1>6, Alone
    <3>2. ~At(t, "first")'
      BY <1>6, <2>4, <3>1, JobSteps DEF ShapeInv, Holds
    <3> QED
      BY <2>1, <3>2
  <2> QED
    BY <2>2, <2>3, <2>4
<1> QED
  BY <1>1, <1>2, <1>3, <1>5, <1>6, Steps

\* What a write or a loss of power leaves of the copies: what is booted does
\* not change, or the record that is written decides.
LEMMA LeftNext ==
  ASSUME Cli = {}, SwitchInv, NEW t \in Tasks, At(t, "first") \/ At(t, "second"),
         NEW outcome \in {copy[CopyAt(t)], Torn, task[t].record},
         NEW copies \in CopyType, copies = [copy EXCEPT ![CopyAt(t)] = outcome]
  PROVE  /\ Readable(copies) # {}
         /\ \/ Started(copies[Selected(copies)]) = NextSlot
            \/ /\ At(t, "first") /\ outcome = task[t].record
               /\ Started(copies[Selected(copies)]) = Started(task[t].record)
<1> DEFINE record == task[t].record
           k == task[t].selected
<1>1. ShapeInv /\ SoloInv /\ SelectedInv
  BY DEF SwitchInv, PanelInv, RunningIInv
<1>2. /\ k \in Slots /\ record.valid /\ copy[k].valid
      /\ copy[k].generation < record.generation
      /\ CopyAt(t) = (IF At(t, "first") THEN 1 - k ELSE k)
      /\ (At(t, "second") => copy[1 - k] = record)
  BY <1>1, AtCopy
<1>3. copy \in [Slots -> RecordType \cup {Torn}] /\ copy \in CopyType
      /\ 1 - k \in Slots /\ 1 - k # k /\ 1 - (1 - k) = k
  BY <1>1, <1>2 DEF ShapeInv, TypeInv, CopyType
<1>4. Readable(copy) # {} /\ NextSlot = Started(copy[Selected(copy)])
  BY <1>1, NextSlotStarted DEF SoloInv, SoundInv
<1>5. CASE At(t, "first")
  <2>1. copy[k] = copy[Selected(copy)] /\ copies = [copy EXCEPT ![1 - k] = outcome]
    BY <1>1, <1>2, <1>5 DEF SelectedInv
  <2>2. copies[k] = copy[k] /\ copies[1 - k] = outcome
    BY <1>3, <2>1
  <2> HIDE DEF k, record
  <2>3. CASE outcome = copy[1 - k]
    <3>1. copies = copy
      BY <1>3, <2>1, <2>3
    <3> QED
      BY <1>4, <3>1
  <2>4. CASE outcome = Torn
    <3>1. Readable(copies) # {} /\ copies[Selected(copies)] = copies[k]
      BY <1>2, <2>2, <2>4, TornUnreadable, NextIs
    <3> QED
      BY <1>4, <2>1, <2>2, <3>1
  <2>5. CASE outcome = record
    <3>1. copies[1 - k].valid /\ copies[1 - (1 - k)].generation < copies[1 - k].generation
      BY <1>2, <1>3, <2>2, <2>5
    <3>2. Readable(copies) # {} /\ copies[Selected(copies)] = copies[1 - k]
      BY <1>3, <3>1, NextIs
    <3> QED
      BY <1>5, <2>2, <2>5, <3>2 DEF record
  <2> QED
    BY <1>2, <1>5, <2>3, <2>4, <2>5 DEF record
<1>6. CASE At(t, "second")
  <2>1. copies = [copy EXCEPT ![k] = outcome] /\ copy[1 - k] = record
    BY <1>2, <1>6
  <2>2. copies[k] = outcome /\ copies[1 - k] = record
    BY <1>3, <2>1
  <2> HIDE DEF k, record
  <2>3. copy[Selected(copy)] = record
    <3>1. copy[1 - k].valid /\ copy[1 - (1 - k)].generation < copy[1 - k].generation
      BY <1>2, <1>3, <2>1
    <3>2. copy[Selected(copy)] = copy[1 - k]
      BY <1>3, <3>1, NextIs
    <3> QED
      BY <2>1, <3>2
  <2>4. CASE outcome = copy[k]
    <3>1. copies = copy
      BY <1>3, <2>1, <2>4
    <3> QED
      BY <1>4, <3>1
  <2>5. CASE outcome # copy[k]
    <3>1. outcome = Torn \/ outcome = record
      BY <1>2, <1>6, <2>5 DEF record
    <3>2. copies[1 - k].valid /\ (copies[1 - (1 - k)].valid =>
                                    copies[1 - (1 - k)] = copies[1 - k])
      BY <1>2, <1>3, <2>2, <3>1, TornUnreadable
    <3>3. Readable(copies) # {} /\ copies[Selected(copies)] = copies[1 - k]
      BY <1>3, <3>2, NextIs
    <3> QED
      BY <1>4, <2>2, <2>3, <3>3
  <2> QED
    BY <2>4, <2>5
<1> QED
  BY <1>5, <1>6

\* What the abstract switch does, in the words of the refinement mapping
SwitchStep ==
  \/ UNCHANGED <<Runs, NextImage, AskedImage>>
  \/ /\ AskedImage = NoImage /\ AskedImage' \in Images
     /\ UNCHANGED <<Runs, NextImage>>
  \/ /\ AskedImage # NoImage /\ NextImage' = Runs
     /\ UNCHANGED <<Runs, AskedImage>>
  \/ /\ AskedImage # NoImage /\ NextImage = Runs /\ NextImage' = AskedImage
     /\ UNCHANGED <<Runs, AskedImage>>
  \/ /\ AskedImage # NoImage /\ AskedImage' = NoImage
     /\ \/ NextImage' \in {NextImage, Runs}
        \/ NextImage = Runs /\ NextImage' = AskedImage
     /\ UNCHANGED Runs
  \/ Runs' = NextImage /\ AskedImage' = NoImage /\ UNCHANGED NextImage

LEMMA SwitchStepMaps == SwitchStep => [Switch!Next]_(Switch!vars)
<1> SUFFICES ASSUME SwitchStep PROVE [Switch!Next]_(Switch!vars)
  OBVIOUS
<1>1. CASE UNCHANGED <<Runs, NextImage, AskedImage>>
  BY <1>1 DEF Runs, NextImage, Switch!vars
<1>2. CASE /\ AskedImage = NoImage /\ AskedImage' \in Images
           /\ UNCHANGED <<Runs, NextImage>>
  BY <1>2 DEF Runs, NextImage, Switch!Next, Switch!Ask
<1>3. CASE /\ AskedImage # NoImage /\ NextImage' = Runs
           /\ UNCHANGED <<Runs, AskedImage>>
  BY <1>3 DEF Runs, NextImage, Switch!Next, Switch!Withdraw
<1>4. CASE /\ AskedImage # NoImage /\ NextImage = Runs /\ NextImage' = AskedImage
           /\ UNCHANGED <<Runs, AskedImage>>
  BY <1>4 DEF Runs, NextImage, Switch!Next, Switch!Activate
<1>5. CASE /\ AskedImage # NoImage /\ AskedImage' = NoImage
           /\ \/ NextImage' \in {NextImage, Runs}
              \/ NextImage = Runs /\ NextImage' = AskedImage
           /\ UNCHANGED Runs
  BY <1>5 DEF Runs, NextImage, Switch!Next, Switch!Answer
<1>6. CASE Runs' = NextImage /\ AskedImage' = NoImage /\ UNCHANGED NextImage
  BY <1>6 DEF Runs, NextImage, Switch!Next, Switch!Boot
<1> QED
  BY <1>1, <1>2, <1>3, <1>4, <1>5, <1>6 DEF SwitchStep

LEMMA QuietNext ==
  ASSUME UNCHANGED <<copy, content, running>>
  PROVE  UNCHANGED <<Runs, NextImage>>
<1>1. NextSlot' = NextSlot
  BY DEF NextSlot, BootSlot, Readable, Selected, Started, Verified, Bootable, Ahead
<1> QED
  BY <1>1 DEF Runs, NextImage

LEMMA NextSlotWith ==
  ASSUME Readable(copy') # {}
  PROVE  NextSlot' = StartedWith(copy'[Selected(copy')], content')
BY DEF NextSlot, BootSlot, Readable, Selected, Started, StartedWith, Verified,
       Bootable, Ahead

\* Steps that leave the copies and the slots alone: the request is taken on,
\* goes on with what it asked for, or is over.
LEMMA QuietSwitch ==
  ASSUME Cli = {}, SwitchInv, NEW t \in Tasks,
         \/ Upload(t) \/ Apply(t) \/ Confirm(t) \/ Reboot(t)
         \/ Work(t) /\ ~WriteCopy(t) /\ ~WriteFails(t) /\ ~BeginPayload(t)
                    /\ ~EndPayload(t)
  PROVE  SwitchStep
<1>1. ShapeInv /\ ClaimInv /\ SoloInv /\ TypeInv /\ JobInv
  BY DEF SwitchInv, PanelInv, RunningIInv, ShapeInv
<1>2. Moves(t) /\ \A u \in Tasks \ {t} : task[u] = Idle /\ task'[u] = Idle
  BY <1>1, Alone
<1>3. AskedImage = (IF Holds(t) /\ task[t].op = "apply" THEN task[t].image
                    ELSE NoImage)
      /\ AskedImage' = (IF Holds(t)' /\ task'[t].op = "apply" THEN task'[t].image
                        ELSE NoImage)
  BY <1>1, <1>2, AskedBefore, AskedAfter
<1>4. UNCHANGED <<copy, content, running>>
  <2>1. CASE Upload(t) \/ Apply(t) \/ Confirm(t) \/ Reboot(t)
    BY <2>1 DEF Upload, Apply, Confirm, Reboot, medium
  <2>2. CASE Receive(t) \/ DigestMatches(t) \/ DigestDiffers(t) \/ CheckFails(t)
             \/ ReadToStage(t) \/ ReadToChange(t) \/ ReadFails(t) \/ Compare(t)
             \/ PayloadFails(t) \/ RebootRefused(t)
    BY <2>2 DEF Receive, DigestMatches, DigestDiffers, CheckFails, ReadToStage,
                ReadToChange, ReadFails, Compare, PayloadFails, RebootRefused, medium
  <2> QED
    BY <2>1, <2>2 DEF Work
<1>5. UNCHANGED <<Runs, NextImage>>
  BY <1>4, QuietNext
<1>6. CASE ReadToStage(t)
  <2>1. At(t, "read") /\ task'[t].image = ImageOf(t) /\ ImageOf(t) # NoImage
        /\ task'[t].pc = "first" /\ task'[t].op = task[t].op
    BY <1>1, <1>6, ReadMoves
  <2>2. AskedImage = NoImage
    BY <1>3, <2>1 DEF Holds
  <2>3. AskedImage' \in {NoImage, ImageOf(t)}
    BY <1>3, <2>1
  <2>4. ImageOf(t) \in Images
    BY <1>1, <2>1 DEF ImageOf, TypeInv, TaskType
  <2> QED
    BY <1>5, <2>2, <2>3, <2>4 DEF SwitchStep
<1>7. CASE ReadToChange(t)
  <2>1. At(t, "read") /\ task'[t].op \notin Staging
    BY <1>1, <1>7, ReadMoves
  <2> QED
    BY <1>3, <1>5, <2>1 DEF Holds, Staging, SwitchStep
<1>8. CASE Compare(t)
  BY <1>1, <1>3, <1>5, <1>8, CompareStep DEF SwitchStep
<1>9. CASE ~ReadToStage(t) /\ ~ReadToChange(t) /\ ~Compare(t)
  <2>1. t \in Web
    BY DEF Tasks
  <2>2. ~WriteCopy(t) /\ ~BeginPayload(t) /\ ~EndPayload(t)
    <3>1. CASE Upload(t) \/ Apply(t) \/ Confirm(t) \/ Reboot(t)
      <4>1. At(t, "idle")
        BY <3>1 DEF Upload, Apply, Confirm, Reboot, Claim
      <4> QED
        BY <4>1 DEF WriteCopy, BeginPayload, EndPayload, At
    <3> QED
      BY <3>1
  <2>3. ~Holds(t)'
    BY <1>1, <1>2, <1>9, <2>1, <2>2, JobSteps
  <2>4. AskedImage' = NoImage
    BY <1>3, <2>3
  <2> QED
    BY <1>5, <2>4 DEF SwitchStep
<1> QED
  BY <1>6, <1>7, <1>8, <1>9

\* While a payload is written the slot that runs is the next one.
LEMMA PayloadSwitch ==
  ASSUME Cli = {}, SwitchInv, Next, NEW t \in Tasks, BeginPayload(t) \/ EndPayload(t)
  PROVE  SwitchStep
<1>1. ShapeInv /\ ClaimInv /\ SoloInv /\ TypeInv /\ JobInv /\ TargetInv /\ RunningInv
      /\ running \in Slots
  BY DEF SwitchInv, PanelInv, RunningIInv, ShapeInv
<1>2. Moves(t) /\ \A u \in Tasks \ {t} : task[u] = Idle /\ task'[u] = Idle
  BY <1>1, Alone DEF Work
<1>3. AskedImage = (IF Holds(t) /\ task[t].op = "apply" THEN task[t].image
                    ELSE NoImage)
      /\ AskedImage' = (IF Holds(t)' /\ task'[t].op = "apply" THEN task'[t].image
                        ELSE NoImage)
  BY <1>1, <1>2, AskedBefore, AskedAfter
<1>4. Holds(t) /\ ~task[t].final /\ task[t].op = "apply"
  <2>1. Holds(t) /\ ~task[t].final
    BY <1>1 DEF BeginPayload, EndPayload, Holds, JobInv
  <2> QED
    BY <1>1, <2>1, Holder
<1>5. UNCHANGED <<copy, running>> /\ content'[running] = content[running]
  BY <1>1, RunningContent DEF BeginPayload, EndPayload
<1>6. AskedImage' = AskedImage
  <2>1. Holds(t)' /\ task'[t].op = task[t].op /\ task'[t].image = task[t].image
    BY <1>1 DEF BeginPayload, EndPayload, Goto, Holds, TypeInv, TaskType
  <2> QED
    BY <1>3, <1>4, <2>1
<1> DEFINE record == copy[Selected(copy)]
<1>7. record \in RecordType /\ KeepsRunning(record) /\ Readable(copy) # {}
  BY <1>1, SelectedKeeps
<1>8. record.priority[1 - running] = 0
  <2>1. record = task[t].record
    <3>1. Selected(copy) \in {task[t].selected, 1 - task[t].selected}
      BY <1>1, <1>4, SelectedKeeps, Holder
    <3> QED
      BY <1>1, <3>1 DEF SoloInv, WriterInv, BeginPayload, EndPayload
  <2>2. task[t].target = 1 - running
    BY <1>1, <1>4 DEF TargetInv, Replaces, Staging
  <2> QED
    BY <1>1, <1>4, <2>1, <2>2 DEF SoloInv, ApplyInv
<1>9. NextSlot = running
  <2>1. StartedWith(record, content) = running
    BY <1>1, <1>7, <1>8, OnlyCandidate DEF KeepsRunning, Verified
  <2> QED
    BY <1>7, <2>1, StartedIsWith, NextSlotStarted
<1>10. NextSlot' = running
  <2>1. StartedWith(record, content') = running
    BY <1>1, <1>5, <1>7, <1>8, OnlyCandidate DEF KeepsRunning, Verified
  <2>2. Readable(copy') # {} /\ copy'[Selected(copy')] = record
    BY <1>5, <1>7
  <2> QED
    BY <2>1, <2>2, NextSlotWith
<1>11. UNCHANGED <<Runs, NextImage>>
  BY <1>1, <1>5, <1>9, <1>10 DEF Runs, NextImage
<1> QED
  BY <1>6, <1>11 DEF SwitchStep

\* A write of a copy, complete or not
LEMMA WriteSwitch ==
  ASSUME Cli = {}, SwitchInv, NEW t \in Tasks, WriteCopy(t) \/ WriteFails(t)
  PROVE  SwitchStep
<1> DEFINE record == task[t].record
           k == task[t].selected
           target == task[t].target
<1>1. ShapeInv /\ ClaimInv /\ SoloInv /\ TypeInv /\ JobInv /\ TargetInv /\ RunningInv
      /\ running \in Slots /\ SelectedInv
  BY DEF SwitchInv, PanelInv, RunningIInv, ShapeInv
<1>2. Moves(t) /\ \A u \in Tasks \ {t} : task[u] = Idle /\ task'[u] = Idle
  BY <1>1, Alone DEF Work
<1>3. AskedImage = (IF Holds(t) /\ task[t].op = "apply" THEN task[t].image
                    ELSE NoImage)
      /\ AskedImage' = (IF Holds(t)' /\ task'[t].op = "apply" THEN task'[t].image
                        ELSE NoImage)
  BY <1>1, <1>2, AskedBefore, AskedAfter
<1>4. /\ At(t, "first") \/ At(t, "second")
      /\ UNCHANGED <<content, running>>
      /\ \E outcome \in {copy[CopyAt(t)], Torn, record} :
           copy' = [copy EXCEPT ![CopyAt(t)] = outcome]
  BY DEF WriteCopy, WriteFails
<1>5. Holds(t) /\ record \in RecordType /\ k \in Slots /\ target \in Slots
      /\ task[t].op \in {"apply", "confirm"} /\ task[t].final \in BOOLEAN
  <2>1. Holds(t)
    BY <1>4 DEF Holds
  <2> QED
    BY <1>1, <2>1, Holder
<1>6. \/ NextSlot' = NextSlot
      \/ At(t, "first") /\ NextSlot' = Started(record)
  <2>1. copy' \in CopyType
    BY <1>1, WorkTypes DEF Work
  <2>2. /\ Readable(copy') # {}
        /\ \/ Started(copy'[Selected(copy')]) = NextSlot
           \/ At(t, "first") /\ Started(copy'[Selected(copy')]) = Started(record)
    BY <1>4, <2>1, LeftNext
  <2> QED
    BY <1>4, <2>2, NextSlotNext
<1>7. Runs' = Runs /\ (NextSlot' = NextSlot => NextImage' = NextImage)
      /\ Runs = content[running]
  BY <1>1, <1>4 DEF Runs, NextImage
<1>8. \/ task'[t] = Idle
      \/ Holds(t)' /\ task'[t].op = task[t].op /\ task'[t].image = task[t].image
  <2>1. CASE WriteFails(t)
    BY <1>1, <2>1, AnswerEnds DEF WriteFails
  <2>2. CASE WriteCopy(t)
    <3>1. Goto(t, "second") \/ Goto(t, "payload") \/ Answer(t, TRUE)
      BY <2>2 DEF WriteCopy
    <3>2. Answer(t, TRUE) => task'[t] = Idle
      BY <1>1, AnswerEnds
    <3>3. ASSUME NEW pc \in {"second", "payload"}, Goto(t, pc)
          PROVE  Holds(t)' /\ task'[t].op = task[t].op
                 /\ task'[t].image = task[t].image
      BY <1>1, <3>3 DEF Goto, Holds, TypeInv, TaskType
    <3> QED
      BY <3>1, <3>2, <3>3
  <2> QED
    BY <2>1, <2>2
<1>9. AskedImage' \in {NoImage, AskedImage}
  BY <1>3, <1>5, <1>8, IdleHasNone
<1>10. CASE task[t].op = "confirm"
  <2>1. AskedImage = NoImage /\ AskedImage' = NoImage
    BY <1>3, <1>9, <1>10
  <2>2. NextSlot' = NextSlot
    <3>1. ASSUME At(t, "first") PROVE Started(record) = NextSlot
      <4>1. BootsAlike(record, copy[k]) /\ copy[k] = copy[Selected(copy)]
        BY <1>1, <1>5, <1>10, <3>1 DEF SoloInv, ConfirmInv, SelectedInv
      <4>2. Readable(copy) # {}
        BY <1>1 DEF SoloInv, SoundInv
      <4> QED
        BY <4>1, <4>2, AlikeStarted, NextSlotStarted
    <3> QED
      BY <1>6, <3>1
  <2> QED
    BY <1>7, <2>1, <2>2 DEF SwitchStep
<1>11. CASE task[t].op = "apply"
  <2>1. AskedImage = task[t].image /\ task[t].image # NoImage
    BY <1>1, <1>3, <1>5, <1>11 DEF SoloInv, ApplyInv
  <2>2. target = 1 - running /\ 1 - target = running
    BY <1>1, <1>5, <1>11 DEF TargetInv, Replaces, Staging
  <2>3. CASE ~task[t].final
    <3>1. record.priority[1 - running] = 0 /\ KeepsRunning(record)
      BY <1>1, <1>5, <1>11, <2>2, <2>3 DEF SoloInv, ApplyInv, RunningInv
    <3>2. Started(record) = running
      BY <1>1, <1>5, <3>1, OnlyCandidate, StartedIsWith DEF KeepsRunning, Verified
    <3>3. NextImage' \in {NextImage, Runs}
      BY <1>1, <1>4, <1>6, <1>7, <3>2 DEF NextImage
    <3> QED
      BY <1>7, <1>9, <2>1, <3>3 DEF SwitchStep
  <2>4. CASE task[t].final
    <3>1. Leads(record, target) /\ content[target] = task[t].image
      BY <1>1, <1>5, <1>11, <2>4 DEF SoloInv, ApplyInv
    <3>2. Started(record) = target
      BY <1>5, <3>1, LeaderStarts
    <3>3. At(t, "first") => NextSlot = running
      <4> SUFFICES ASSUME At(t, "first") PROVE NextSlot = running
        OBVIOUS
      <4>1. copy[0].priority[target] = 0 /\ BootsAlike(copy[0], copy[1])
        BY <1>1, <1>5, <1>11, <2>4 DEF SoloInv, ApplyInv
      <4>2. \A c \in Slots : copy[c].priority[target] = 0
        BY <4>1 DEF BootsAlike
      <4> DEFINE read == copy[Selected(copy)]
      <4>3. read \in RecordType /\ KeepsRunning(read) /\ Readable(copy) # {}
            /\ Selected(copy) \in Slots
        BY <1>1, SelectedKeeps
      <4>4. read.priority[1 - running] = 0
        BY <2>2, <4>2, <4>3
      <4>5. StartedWith(read, content) = running
        BY <1>1, <4>3, <4>4, OnlyCandidate DEF KeepsRunning, Verified
      <4> QED
        BY <4>3, <4>5, StartedIsWith, NextSlotStarted
    <3>4. NextImage' = NextImage \/ (NextImage = Runs /\ NextImage' = AskedImage)
      <4>1. CASE NextSlot' = NextSlot
        BY <1>7, <4>1
      <4>2. CASE At(t, "first") /\ NextSlot' = target
        <5>1. NextImage = Runs
          BY <1>1, <3>3, <4>2 DEF NextImage, Runs
        <5>2. NextImage' = AskedImage
          BY <1>4, <1>5, <2>1, <3>1, <4>2 DEF NextImage
        <5> QED
          BY <5>1, <5>2
      <4> QED
        BY <1>6, <3>2, <4>1, <4>2
    <3> QED
      BY <1>7, <1>9, <2>1, <3>4 DEF SwitchStep
  <2> QED
    BY <1>5, <2>3, <2>4
<1> QED
  BY <1>5, <1>10, <1>11

\* A loss of power starts what was the next one, which stays the next one.
LEMMA ResetSwitch ==
  ASSUME Cli = {}, AmpControl = FALSE, SwitchInv, Reset
  PROVE  SwitchStep /\ running' \in Slots
<1>1. ShapeInv /\ SoloInv /\ TypeInv /\ running \in Slots /\ RunningIInv
  BY DEF SwitchInv, PanelInv, RunningIInv, ShapeInv
<1>2. PICK copies \in Survivors :
        /\ copies \in CopyType /\ Readable(copies) # {} /\ copy' = copies
        /\ running' = BootSlot(copies)
  BY <1>1, ResetSolo
<1>3. Readable(copy) # {} /\ NextSlot = Started(copy[Selected(copy)])
  BY <1>1, NextSlotStarted DEF SoloInv, SoundInv
<1>4. Started(copies[Selected(copies)]) = NextSlot
  <2>1. CASE copies = copy
    BY <1>3, <2>1
  <2>2. ASSUME NEW t \in Tasks, At(t, "first") \/ At(t, "second"),
               copies = [copy EXCEPT ![CopyAt(t)] = Torn]
        PROVE  Started(copies[Selected(copies)]) = NextSlot
    <3>1. Torn # task[t].record
      <4>1. task[t].record.valid
        BY <1>1, <2>2, AtCopy
      <4> QED
        BY <4>1, TornUnreadable
    <3> QED
      BY <1>2, <2>2, <3>1, LeftNext
  <2> QED
    BY <2>1, <2>2 DEF Survivors
<1>5. content' = content /\ task' = [t \in Tasks |-> Idle]
  BY DEF Reset
<1>6. running' = NextSlot /\ NextSlot' = NextSlot
  <2>1. running' = NextSlot
    BY <1>2, <1>4 DEF BootSlot
  <2> QED
    BY <1>2, <1>4, <1>5, <2>1, NextSlotNext
<1>7. AskedImage' = NoImage
  <2>1. {u \in Tasks : /\ task'[u].op \in Staging
                        /\ task'[u].pc \notin {"digest", "read"}} = {}
    BY <1>5, IdleHasNone DEF Staging
  <2> QED
    BY <2>1 DEF AskedImage
<1>8. NextSlot \in Slots
  BY <1>1, BootsAgain DEF SlotBootsAgain
<1>9. Runs' = NextImage /\ NextImage' = NextImage
  BY <1>5, <1>6, <1>8 DEF Runs, NextImage
<1> QED
  BY <1>6, <1>7, <1>8, <1>9 DEF SwitchStep

\* What bootctrl.py writes at first
FirstImage(a, b) == [s \in Slots |-> IF s = 0 THEN a ELSE b]
FirstRecord(a, b, second) ==
  [valid |-> TRUE, generation |-> 1, active |-> 0,
   priority |-> [s \in Slots |-> IF s = 0 THEN 15 ELSE second],
   successful |-> [s \in Slots |-> s = 0 \/ second # 0],
   image |-> FirstImage(a, b)]

LEMMA SwitchInit == Cli = {} /\ Init => Switch!Init /\ SelectedInv /\ running \in Slots
<1> SUFFICES ASSUME Cli = {}, Init
             PROVE  Switch!Init /\ SelectedInv /\ running \in Slots
  OBVIOUS
<1>1. /\ running = 0 /\ content[0] \in Images
      /\ copy[0] = copy[1]
      /\ \A c \in Slots :
           /\ copy[c] \in RecordType /\ copy[c].valid
           /\ Leads(copy[c], 0)
  <2>1. PICK a \in Images, b \in Images \cup {NoImage}, second \in {0, 14} :
          /\ b = NoImage => second = 0
          /\ copy = [c \in Slots |-> FirstRecord(a, b, second)]
          /\ content = FirstImage(a, b)
          /\ file = NoImage /\ claimed = FALSE /\ apply = NoApply
          /\ task = [t \in Tasks |-> Idle]
          /\ running = 0
          /\ vouched = {}
    BY Zenon DEF Init, FirstRecord, FirstImage
  <2> DEFINE image == FirstImage(a, b)
             record == FirstRecord(a, b, second)
  <2>2. record \in RecordType /\ record.valid /\ record.priority[0] = 15
        /\ record.priority[1] = second /\ record.image[0] = a /\ image[0] = a
    BY DEF FirstRecord, FirstImage, RecordType, Slots
  <2>3. content = image /\ running = 0 /\ \A c \in Slots : copy[c] = record
    BY <2>1
  <2> HIDE DEF record, image
  <2>4. Leads(record, 0)
    BY <2>2, <2>3, SentinelAssumption DEF Leads, Verified, Ahead
  <2> QED
    BY <2>2, <2>3, <2>4 DEF Slots
<1>2. copy \in CopyType
  BY ShapeInit DEF ShapeInv, TypeInv, CopyType
<1>3. Readable(copy) # {} /\ Selected(copy) \in Slots
  BY <1>1, <1>2, SelectedReadable DEF Readable, Slots
<1>4. NextSlot = 0
  <2>1. Started(copy[Selected(copy)]) = 0
    BY <1>1, <1>3, LeaderStarts DEF Slots
  <2> QED
    BY <1>3, <2>1, NextSlotStarted
<1>5. \A u \in Tasks : task[u].pc = "idle" /\ task[u].op = "none"
  BY IdleHasNone DEF Init
<1>6. AskedImage = NoImage
  <2>1. {u \in Tasks : /\ task[u].op \in Staging
                        /\ task[u].pc \notin {"digest", "read"}} = {}
    BY <1>5 DEF Staging
  <2> QED
    BY <2>1 DEF AskedImage
<1>7. SelectedInv
  BY <1>5 DEF SelectedInv
<1> QED
  BY <1>1, <1>4, <1>6, <1>7 DEF Switch!Init, Slots

LEMMA SwitchNext ==
  ASSUME Cli = {}, AmpControl = FALSE, SwitchInv, [Next]_vars
  PROVE  SwitchStep /\ running' \in Slots
<1>0. running \in Slots /\ ClaimInv /\ ShapeInv
  BY DEF SwitchInv, PanelInv, RunningIInv
<1>1. CASE UNCHANGED vars
  BY <1>0, <1>1, QuietNext DEF vars, SwitchStep, AskedImage
<1>2. ASSUME NEW t \in Web, Upload(t) \/ Apply(t) \/ Confirm(t) \/ Reboot(t)
      PROVE  SwitchStep /\ running' = running
  <2>1. running' = running
    BY <1>2 DEF Upload, Apply, Confirm, Reboot, medium
  <2>2. t \in Tasks
    BY DEF Tasks
  <2> QED
    BY <1>2, <2>1, <2>2, QuietSwitch
<1>3. ASSUME NEW t \in Web, Remove(t) \/ ApplyRefused(t)
      PROVE  SwitchStep /\ running' = running
  <2>1. UNCHANGED <<copy, content, running, task>>
    BY <1>3 DEF Remove, ApplyRefused, medium
  <2> QED
    BY <2>1, QuietNext DEF SwitchStep, AskedImage
<1>4. ASSUME NEW t \in Tasks, Work(t) PROVE SwitchStep /\ running' = running
  <2>1. running' = running
    BY <1>4 DEF Work, Receive, DigestMatches, DigestDiffers, CheckFails, ReadToStage,
                ReadToChange, ReadFails, WriteCopy, WriteFails, BeginPayload,
                EndPayload, Compare, PayloadFails, RebootRefused, medium
  <2>2. CASE WriteCopy(t) \/ WriteFails(t)
    BY <2>1, <2>2, WriteSwitch
  <2>3. CASE BeginPayload(t) \/ EndPayload(t)
    <3>1. Next
      BY <1>4 DEF Next
    <3> QED
      BY <2>1, <2>3, <3>1, PayloadSwitch
  <2> QED
    BY <1>4, <2>1, <2>2, <2>3, QuietSwitch
<1> QED
  BY <1>0, <1>1, <1>2, <1>3, <1>4, ResetSwitch, Steps

\* The requests of the panel implement the abstract switch: with any number of
\* them, whatever transfer fails and whenever power is lost, the next boot
\* starts what runs, or an image that was asked for and written as a whole
\* after what runs had been made the next one again.
THEOREM ImplementsSwitchCorrect ==
  Cli = {} /\ AmpControl = FALSE => (Spec => ImplementsSwitch)
<1> SUFFICES ASSUME Cli = {}, AmpControl = FALSE PROVE Spec => ImplementsSwitch
  OBVIOUS
<1>1. Init => Switch!Init /\ SelectedInv /\ running \in Slots
  BY SwitchInit
<1>2. PanelInv /\ SelectedInv /\ running \in Slots /\ [Next]_vars
        => /\ SelectedInv' /\ (running \in Slots)'
           /\ [Switch!Next]_(Switch!vars)
  BY SelectedStep, SwitchNext, SwitchStepMaps DEF SwitchInv, PanelInv, RunningIInv
<1>3. Spec => []PanelInv
  BY PanelCorrect
<1> QED
  BY <1>1, <1>2, <1>3, PTL DEF Spec, ImplementsSwitch, Switch!Spec
===============================================================================
