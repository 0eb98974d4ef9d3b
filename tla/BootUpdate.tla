------------------------------ MODULE BootUpdate ------------------------------
(***************************************************************************)
(* The A/B update of the NuttX firmware: the two copies of the boot        *)
(* control record and the commands that change them (nbootctl_bootctrl.c), *)
(* the update requests of the web panel (ny_product_maintenance.c), the    *)
(* uploaded file and the claim on it (ny_web_ota.c), and what the boot     *)
(* loader does with the record.                                            *)
(*                                                                         *)
(* One step is one write to the medium, one read of the record, or one     *)
(* request.  A write of a copy that a loss of power interrupts leaves the  *)
(* copy as it was or torn: its checksum does not match.  The block driver  *)
(* does one transfer at a time, so power is lost in at most one.           *)
(*                                                                         *)
(* The record keeps two domains; this is the NuttX one.  In the control    *)
(* domain of an AMP image (running = Amp) no NuttX slot runs.              *)
(***************************************************************************)
EXTENDS Naturals

CONSTANTS
  Images,      \* firmware images; an image stands for its SHA-256, too
  NoImage,     \* image_size = 0
  Partial,     \* bytes that are no image: a payload that is being replaced
  Amp,         \* what runs when N-Boot started the AMP domain
  Recovery,    \* no slot starts: N-Boot stays in its recovery
  Web,         \* requests of the panel, with their workers
  Cli,         \* runs of the nbootctl command
  CliOps,      \* the subcommands in use
  AmpControl,  \* whether the AMP domain is started, too
  IoErrors,    \* whether a transfer may fail
  MaxWrites    \* bound of the model: no request starts above this generation

Slots == {0, 1}
Tasks == Web \cup Cli
Staging == {"apply", "stage"}

ASSUME SentinelAssumption ==
  /\ NoImage \notin Images /\ Partial \notin Images /\ NoImage # Partial
  /\ Amp \notin Slots /\ Recovery \notin Slots /\ Amp # Recovery
ASSUME TaskAssumption == Web \cap Cli = {}
ASSUME CliAssumption ==
  CliOps \subseteq {"stage", "set-active", "mark-successful", "request"}
ASSUME BoundAssumption ==
  AmpControl \in BOOLEAN /\ IoErrors \in BOOLEAN /\ MaxWrites \in Nat

VARIABLES
  copy,      \* the two copies of the record
  content,   \* what is in each slot
  file,      \* NY_WEB_OTA_FILE, or NoImage
  claimed,   \* g_ota_claimed
  apply,     \* g_maint_apply: the job the panel sees
  task,      \* what each request and each command is doing
  running,   \* what N-Boot started, as the handoff says
  vouched    \* history: slots whose update.confirm was answered with success

vars == <<copy, content, file, claimed, apply, task, running, vouched>>

(***************************************************************************)
(* Data                                                                    *)
(***************************************************************************)
RecordType == [valid : {TRUE}, generation : Nat, active : Slots,
               priority : [Slots -> {0, 14, 15}],
               successful : [Slots -> BOOLEAN],
               image : [Slots -> Images \cup {NoImage}]]
Torn == [valid |-> FALSE]

TaskPC == {"idle", "receive", "digest", "read", "first", "second",
           "payload", "copying", "compare", "reboot"}

Ops == {"none", "upload", "apply", "confirm", "reboot"} \cup CliOps

\* final: the record is written for the last time.
TaskType == [pc : TaskPC, op : Ops, image : Images \cup {NoImage},
             target : Slots, selected : Slots,
             record : RecordType \cup {Torn}, final : BOOLEAN]
Idle == [pc |-> "idle", op |-> "none", image |-> NoImage, target |-> 0,
         selected |-> 0, record |-> Torn, final |-> FALSE]

ApplyType == [state : {"none", "writing", "done", "failed"},
              image : Images \cup {NoImage}]
NoApply == [state |-> "none", image |-> NoImage]

\* bootctrl.py init: slot A is given an image and is active; slot B may be
\* given one, and is not bootable (priority 0) or second (14), as the tool of
\* this repository and the one of the boot loader have it.
Init ==
  \E a \in Images, b \in Images \cup {NoImage}, second \in {0, 14} :
    LET image == [s \in Slots |-> IF s = 0 THEN a ELSE b]
        record == [valid |-> TRUE, generation |-> 1, active |-> 0,
                   priority |-> [s \in Slots |-> IF s = 0 THEN 15 ELSE second],
                   successful |-> [s \in Slots |-> s = 0 \/ second # 0],
                   image |-> image]
    IN /\ b = NoImage => second = 0
       /\ copy = [c \in Slots |-> record]
       /\ content = image
       /\ file = NoImage /\ claimed = FALSE /\ apply = NoApply
       /\ task = [t \in Tasks |-> Idle]
       /\ running = 0
       /\ vouched = {}

(***************************************************************************)
(* The record                                                              *)
(***************************************************************************)
Readable(copies) == {c \in Slots : copies[c].valid}

\* The valid copy with the highest generation, the first one if they tie
Selected(copies) ==
  CHOOSE c \in Readable(copies) :
    \A d \in Readable(copies) \ {c} :
      \/ copies[c].generation > copies[d].generation
      \/ copies[c].generation = copies[d].generation /\ c < d

StageTargetInactive(record) == 1 - record.active

\* Not in the running slot; from AMP, not in the one that is active
StageTarget(record) ==
  IF running \in Slots THEN 1 - running ELSE 1 - record.active

InvalidatedLate(record, s) == [record EXCEPT !.successful[s] = FALSE]

Invalidated(record, s) ==
  [record EXCEPT !.priority[s] = 0, !.successful[s] = FALSE]

Activated(record, s) ==
  [record EXCEPT !.active = s,
     !.priority = [r \in Slots |-> IF r = s THEN 15
                                   ELSE IF @[r] >= 15 THEN 14 ELSE @[r]]]

Staged(record, s, image) ==
  [Activated(record, s) EXCEPT !.successful[s] = FALSE, !.image[s] = image]

Rewritten(record) == [record EXCEPT !.generation = @ + 1]

(***************************************************************************)
(* The boot loader                                                         *)
(***************************************************************************)
Bootable(record) == {s \in Slots : record.priority[s] # 0}
Ahead(record, s, r) ==
  \/ record.priority[s] > record.priority[r]
  \/ record.priority[s] = record.priority[r] /\ record.active = s
Verified(record, s) == record.image[s] # NoImage /\ content[s] = record.image[s]

\* The slot N-Boot starts: of those with a priority and the image that their
\* digest says, the one ahead of the other.
Started(record) ==
  LET good == {s \in Bootable(record) : Verified(record, s)}
  IN IF good = {} THEN Recovery
     ELSE CHOOSE s \in good : \A r \in good \ {s} : Ahead(record, s, r)
BootSlot(copies) ==
  IF Readable(copies) = {} THEN Recovery ELSE Started(copies[Selected(copies)])

\* It takes the priority of a slot that it tried and that did not verify.
BootRecord(copies) ==
  LET record == copies[Selected(copies)]
      tried == {s \in Bootable(record) :
                  /\ ~Verified(record, s)
                  /\ \/ BootSlot(copies) = Recovery
                     \/ Ahead(record, s, BootSlot(copies))}
      after == [record EXCEPT
                  !.priority = [s \in Slots |-> IF s \in tried THEN 0 ELSE @[s]]]
  IN IF Readable(copies) = {} \/ tried = {} THEN copies
     ELSE [c \in Slots |-> Rewritten(after)]

NextSlot == BootSlot(copy)

(***************************************************************************)
(* Requests                                                                *)
(***************************************************************************)
At(t, pc) == task[t].pc = pc
Goto(t, pc) == task' = [task EXCEPT ![t].pc = pc]
Room == \A c \in Readable(copy) : copy[c].generation < MaxWrites

\* ny_web_ota_claim by a new request
Claim(t) == At(t, "idle") /\ running # Recovery /\ ~claimed /\ claimed' = TRUE

\* The request is over: its worker gives the claim back, a job says how it
\* went and the file of a job that succeeded is removed.
Answer(t, ok) ==
  LET op == task[t].op
  IN /\ task' = [task EXCEPT ![t] = Idle]
     /\ claimed' = IF t \in Web THEN FALSE ELSE claimed
     /\ apply' = IF op = "apply"
                 THEN [apply EXCEPT !.state = IF ok THEN "done" ELSE "failed"]
                 ELSE apply
     /\ file' = IF op = "apply" /\ ok THEN NoImage ELSE file
     /\ vouched' = IF op = "confirm" /\ ok THEN vouched \cup {task[t].target}
                   ELSE vouched

medium == <<copy, content, running>>

\* POST /ota: an earlier file goes first.
Upload(t) ==
  /\ Claim(t)
  /\ file' = NoImage
  /\ task' = [task EXCEPT ![t].pc = "receive", ![t].op = "upload"]
  /\ UNCHANGED <<medium, apply, vouched>>

\* The body arrives, or not, or is not what its digest says.
Receive(t) ==
  /\ At(t, "receive")
  /\ task' = [task EXCEPT ![t] = Idle]
  /\ file' \in Images \cup {NoImage}
  /\ claimed' = FALSE
  /\ UNCHANGED <<medium, apply, vouched>>

\* DELETE /ota, and storage.clear of the directory the file is in
Remove(t) ==
  /\ At(t, "idle") /\ running # Recovery /\ ~claimed
  /\ file' = NoImage
  /\ UNCHANGED <<medium, claimed, apply, task, vouched>>

\* update.apply: the owner says by its digest which image to write.  The
\* worker may fail to start.
Apply(t) ==
  /\ Claim(t) /\ Room
  /\ file # NoImage
  /\ \E image \in Images :
       /\ apply' = [state |-> "writing", image |-> image]
       /\ task' = [task EXCEPT ![t].pc = "digest", ![t].op = "apply"]
  /\ UNCHANGED <<medium, file, vouched>>
ApplyRefused(t) ==
  /\ At(t, "idle") /\ running # Recovery /\ ~claimed /\ file # NoImage
  /\ \E image \in Images :
       apply' = [state |-> "failed", image |-> image]
  /\ UNCHANGED <<medium, claimed, file, task, vouched>>

DigestUnchecked(t) ==
  /\ At(t, "digest")
  /\ Goto(t, "read")
  /\ UNCHANGED <<medium, claimed, apply, file, vouched>>

\* The worker compares the file as it is now with what the owner confirmed.
DigestMatches(t) ==
  /\ At(t, "digest") /\ file = apply.image
  /\ Goto(t, "read")
  /\ UNCHANGED <<medium, claimed, apply, file, vouched>>
DigestDiffersHeld(t) ==
  /\ At(t, "digest") /\ file # apply.image
  /\ task' = [task EXCEPT ![t] = Idle]
  /\ apply' = [apply EXCEPT !.state = "failed"]
  /\ file' = NoImage
  /\ UNCHANGED <<medium, claimed, vouched>>
DigestDiffers(t) ==
  /\ At(t, "digest") /\ file # apply.image
  /\ task' = [task EXCEPT ![t] = Idle]
  /\ claimed' = FALSE
  /\ apply' = [apply EXCEPT !.state = "failed"]
  /\ file' = NoImage
  /\ UNCHANGED <<medium, vouched>>

\* The file cannot be read, or it does not fit the slot.
CheckFails(t) == At(t, "digest") /\ Answer(t, FALSE) /\ UNCHANGED medium

\* update.confirm: the owner vouches for the slot that runs.
Confirm(t) ==
  /\ Claim(t) /\ Room
  /\ running \in Slots
  /\ task' = [task EXCEPT ![t].pc = "read", ![t].op = "confirm",
                          ![t].target = running]
  /\ UNCHANGED <<medium, apply, file, vouched>>

\* device.reboot: the claim stays until the board resets, or refuses to.
Reboot(t) ==
  /\ Claim(t)
  /\ task' = [task EXCEPT ![t].pc = "reboot", ![t].op = "reboot"]
  /\ UNCHANGED <<medium, apply, file, vouched>>
RebootRefused(t) == At(t, "reboot") /\ Answer(t, FALSE) /\ UNCHANGED medium

\* nbootctl: nothing is claimed.  Only a stage names an image, only the
\* others but a boot request name a slot.
Command(t) ==
  /\ At(t, "idle") /\ running # Recovery /\ Room
  /\ \E op \in CliOps, s \in Slots, image \in Images \cup {NoImage} :
       /\ (op = "stage") = (image # NoImage)
       /\ op \in {"stage", "request"} => s = 0
       /\ task' = [task EXCEPT ![t].pc = "read",
                               ![t].op = op, ![t].target = s, ![t].image = image]
  /\ UNCHANGED <<medium, claimed, apply, file, vouched>>

(***************************************************************************)
(* The record and the slot                                                 *)
(***************************************************************************)
\* The file of a staging, opened once the record has been read
ImageOf(t) == IF task[t].op = "apply" THEN file ELSE task[t].image

\* nbootctl_read_records, and what the caller changes before its first
\* nbootctl_write_records
ReadToStage(t) ==
  LET record == copy[Selected(copy)]
      target == StageTarget(record)
      image == ImageOf(t)
  IN /\ At(t, "read") /\ task[t].op \in Staging
     /\ Readable(copy) # {} /\ image # NoImage
     /\ task' = [task EXCEPT ![t].pc = "first", ![t].final = FALSE,
                  ![t].target = target, ![t].image = image,
                  ![t].selected = Selected(copy),
                  ![t].record = Rewritten(Invalidated(record, target))]
     /\ vouched' = vouched \ {target}
     /\ UNCHANGED <<medium, claimed, apply, file>>

ReadToChange(t) ==
  LET record == copy[Selected(copy)]
      target == task[t].target
      changed == CASE task[t].op \in {"confirm", "mark-successful"} ->
                        [record EXCEPT !.successful[target] = TRUE]
                   [] task[t].op = "set-active" -> Activated(record, target)
                   [] task[t].op = "request" -> record
  IN /\ At(t, "read") /\ task[t].op \notin Staging
     /\ Readable(copy) # {}
     /\ task[t].op = "request" \/ record.image[target] # NoImage
     /\ task' = [task EXCEPT ![t].pc = "first", ![t].final = TRUE,
                  ![t].selected = Selected(copy),
                  ![t].record = Rewritten(changed)]
     /\ UNCHANGED <<medium, claimed, apply, file, vouched>>

\* No valid copy, no such image, or a slot or file that cannot be opened
ReadFails(t) == At(t, "read") /\ Answer(t, FALSE) /\ UNCHANGED medium

CopyAtSwapped(t) == IF At(t, "first") THEN task[t].selected ELSE 1 - task[t].selected

\* nbootctl_write_records: the other copy first, then the one that was
\* selected; each is read back.
CopyAt(t) == IF At(t, "first") THEN 1 - task[t].selected ELSE task[t].selected

WriteCopy(t) ==
  /\ At(t, "first") \/ At(t, "second")
  /\ copy' = [copy EXCEPT ![CopyAt(t)] = task[t].record]
  /\ \/ /\ At(t, "first") /\ Goto(t, "second")
        /\ UNCHANGED <<claimed, apply, file, vouched>>
     \/ /\ At(t, "second") /\ ~task[t].final /\ Goto(t, "payload")
        /\ UNCHANGED <<claimed, apply, file, vouched>>
     \/ At(t, "second") /\ task[t].final /\ Answer(t, TRUE)
  /\ UNCHANGED <<content, running>>

\* The transfer or the read-back fails, whatever has reached the medium.
WriteFails(t) ==
  /\ IoErrors
  /\ At(t, "first") \/ At(t, "second")
  /\ \E outcome \in {copy[CopyAt(t)], Torn, task[t].record} :
       copy' = [copy EXCEPT ![CopyAt(t)] = outcome]
  /\ Answer(t, FALSE)
  /\ UNCHANGED <<content, running>>

\* The first sectors of the payload are written ...
BeginPayload(t) ==
  /\ At(t, "payload")
  /\ content' = [content EXCEPT ![task[t].target] = Partial]
  /\ Goto(t, "copying")
  /\ UNCHANGED <<copy, running, claimed, apply, file, vouched>>

\* ... and the last ones.  What the slot holds then may not be what was
\* written: the medium may be bad, or two commands write the same slot.
EndPayload(t) ==
  /\ At(t, "copying")
  /\ \E bytes \in {task[t].image, Partial} :
       content' = [content EXCEPT ![task[t].target] = bytes]
  /\ Goto(t, "compare")
  /\ UNCHANGED <<copy, running, claimed, apply, file, vouched>>

\* The slot is read back and its digest is the one of what was written.
Compare(t) ==
  LET target == task[t].target
      record == task[t].record
      image == task[t].image
  IN /\ At(t, "compare")
     /\ content[target] = image
     /\ task' = [task EXCEPT ![t].pc = "first", ![t].final = TRUE,
                  ![t].record = Rewritten(Staged(record, target, image))]
     /\ UNCHANGED <<medium, claimed, apply, file, vouched>>

\* A transfer of the payload fails, or the digests differ.
PayloadFails(t) ==
  /\ \/ IoErrors /\ task[t].pc \in {"payload", "copying", "compare"}
     \/ At(t, "compare") /\ content[task[t].target] # task[t].image
  /\ Answer(t, FALSE)
  /\ UNCHANGED medium

(***************************************************************************)
(* Restart                                                                 *)
(***************************************************************************)
\* The board resets or loses power at any step; N-Boot then starts a slot,
\* or the AMP domain if it is told to.
Reset ==
  /\ \E copies \in {copy} \cup {[copy EXCEPT ![CopyAt(t)] = Torn] :
                     t \in {u \in Tasks : At(u, "first") \/ At(u, "second")}} :
       \/ running' = BootSlot(copies) /\ copy' = BootRecord(copies)
       \/ AmpControl /\ running' = Amp /\ copy' = copies
  /\ task' = [t \in Tasks |-> Idle]
  /\ claimed' = FALSE /\ apply' = NoApply
  /\ UNCHANGED <<content, file, vouched>>

WebRequest(t) ==
  \/ Upload(t) \/ Remove(t) \/ Apply(t) \/ ApplyRefused(t)
  \/ Confirm(t) \/ Reboot(t)

\* What a request or a command does on its own once it has been taken on
Work(t) ==
  \/ Receive(t) \/ DigestMatches(t) \/ DigestDiffers(t) \/ CheckFails(t)
  \/ ReadToStage(t) \/ ReadToChange(t) \/ ReadFails(t)
  \/ WriteCopy(t) \/ WriteFails(t)
  \/ BeginPayload(t) \/ EndPayload(t) \/ Compare(t) \/ PayloadFails(t)
  \/ RebootRefused(t)

Next ==
  \/ \E t \in Web : WebRequest(t)
  \/ \E t \in Cli : Command(t)
  \/ \E t \in Tasks : Work(t)
  \/ Reset

Spec == Init /\ [][Next]_vars

\* Every transfer ends, the upload by its timeout; a reboot happens or is
\* refused.
FairSpec == Spec /\ \A t \in Web : WF_vars(Work(t))

(***************************************************************************)
(* Properties                                                              *)
(***************************************************************************)
\* Every variable has its type.
TypeInv ==
  /\ copy \in [Slots -> RecordType \cup {Torn}]
  /\ content \in [Slots -> Images \cup {NoImage, Partial}]
  /\ file \in Images \cup {NoImage}
  /\ claimed \in BOOLEAN
  /\ apply \in ApplyType
  /\ task \in [Tasks -> TaskType]
  /\ running \in Slots \cup {Amp, Recovery}
  /\ vouched \subseteq Slots

\* Whichever copy of the record survives, a slot it gives a priority holds
\* the image that its digest is of, as a whole: "A partially replaced payload
\* must not remain a boot candidate" (nbootctl_bootctrl_stage), also when
\* the write of the second copy fails and when power is lost in any write.
PriorityVerified ==
  \A c \in Readable(copy), s \in Slots :
    copy[c].priority[s] # 0 => Verified(copy[c], s)

\* While a slot runs there is at every instant a slot that N-Boot can start:
\* losing power now, with commands of the owner in the middle of their reads
\* and writes of the same record, does not leave the board in its recovery.
SlotBootsAgain == running \in Slots => NextSlot \in Slots

\* From AMP, too, an update keeps a NuttX slot that boots: "the standalone
\* firmware N-Boot falls back to stays intact" (ny_product_maintenance.c).
\* After an interrupted update it does not: see README, "What the code does not
\* keep".
StandaloneStays == running = Amp => NextSlot \in Slots

\* A slot whose update.confirm was answered with success stays confirmed in
\* every copy of the record until a staging is about to replace it: what a
\* staging keeps in memory while it writes does not undo the confirmation.
ConfirmKept ==
  \A s \in vouched, c \in Readable(copy) : copy[c].successful[s]

\* What the record says holds, in whichever copy survives: what may boot was
\* verified, and what was confirmed stays confirmed.
RecordTrue == TypeInv /\ PriorityVerified /\ ConfirmKept

\* While the panel shows an update as done, the next boot starts the image
\* whose digest the owner confirmed, whatever was uploaded or removed before
\* and since.
DoneBootsConfirmed ==
  apply.state = "done" =>
    NextSlot \in Slots /\ content[NextSlot] = apply.image

\* "The slot that must never be written" (nbootctl_running_slot): while a
\* slot runs, what is in it does not change.
RunningKept ==
  [][(running \in Slots /\ running' = running)
       => content'[running] = content[running]]_vars

\* The claim of a request is given back on every path, also when its
\* transfer fails or the board refuses to reset.
ClaimReleased == claimed ~> ~claimed

\* The image that the update in progress has begun to write
AskedImage ==
  LET staging == {t \in Tasks : /\ task[t].op \in Staging
                                /\ task[t].pc \notin {"digest", "read"}}
  IN IF staging = {} THEN NoImage ELSE task[CHOOSE t \in staging : TRUE].image

Switch == INSTANCE BootSwitch WITH
  None <- NoImage,
  running <- IF running \in Slots THEN content[running] ELSE NoImage,
  next <- IF NextSlot \in Slots THEN content[NextSlot] ELSE NoImage,
  asked <- AskedImage

\* Requests of the panel implement the abstract switch: whatever fails and
\* whenever power is lost, what boots next is what runs or an image that was
\* asked for and written as a whole.
ImplementsSwitch == Switch!Spec

(***************************************************************************)
(* Inductive invariants (BootUpdateProofs)                                 *)
(***************************************************************************)
\* A task that has read the record and has what it will write in memory
Holds(t) == task[t].pc \in {"first", "second", "payload", "copying", "compare"}
Replaces(t) == Holds(t) /\ task[t].op \in Staging

\* What a task does goes with what it was asked for.
JobInv ==
  \A t \in Tasks :
    /\ At(t, "idle") => task[t] = Idle
    /\ At(t, "receive") => t \in Web /\ task[t].op = "upload"
    /\ At(t, "digest") => t \in Web /\ task[t].op = "apply"
    /\ At(t, "reboot") => t \in Web /\ task[t].op = "reboot"
    /\ At(t, "read") => task[t].op \in {"apply", "confirm"} \cup CliOps
    /\ task[t].op \in {"apply", "confirm"} => t \in Web
    /\ task[t].op \in CliOps => t \in Cli
    /\ Holds(t) =>
         /\ task[t].op \in {"apply", "confirm"} \cup CliOps
         /\ task[t].record \in RecordType
    /\ task[t].pc \in {"payload", "copying", "compare"} => ~task[t].final
    /\ Holds(t) /\ ~task[t].final => task[t].op \in Staging

\* The claim is held by the one request that is being served.
ClaimInv ==
  \A t \in Web : ~At(t, "idle") =>
    claimed /\ \A u \in Web \ {t} : At(u, "idle")

\* A staging does not touch the slot that runs.
TargetInv ==
  running \in Slots =>
    \A t \in Tasks : Replaces(t) => task[t].target = 1 - running

\* A record with which the slot that runs is a boot candidate
KeepsRunning(record) ==
  record.priority[running] # 0 /\ Verified(record, running)
Stale(c) == ~copy[c].valid \/ ~KeepsRunning(copy[c])

\* At most one copy would not boot the slot that runs.  It is the one that is
\* not selected, and whoever has read the record is about to rewrite it.
RunningInv ==
  running \in Slots =>
    /\ \A t \in Tasks : Holds(t) => KeepsRunning(task[t].record)
    /\ \A c \in Slots : Stale(c) =>
         /\ ~Stale(1 - c) /\ Selected(copy) = 1 - c
         /\ \A t \in Tasks :
              Holds(t) => At(t, "first") /\ task[t].selected = 1 - c

\* A record that says of each slot what is so
Sound(record) ==
  \A s \in Slots :
    /\ record.priority[s] # 0 => Verified(record, s)
    /\ s \in vouched => record.successful[s]
SoundInv ==
  /\ Readable(copy) # {} /\ \A c \in Readable(copy) : Sound(copy[c])
  /\ \A t \in Tasks : Holds(t) => Sound(task[t].record)

\* How far the one task that changes the record has come with the copies
WriterInv ==
  \A t \in Tasks :
    LET selected == copy[task[t].selected]
        other == copy[1 - task[t].selected]
        record == task[t].record
    IN /\ At(t, "first") \/ At(t, "second") =>
            selected.valid /\ selected.generation < record.generation
       /\ At(t, "first") =>
            (other.valid => other.generation <= selected.generation)
       /\ At(t, "second") => other = record
       /\ task[t].pc \in {"payload", "copying", "compare"} =>
            other = record /\ selected = record

\* What the copy that is left, while the other one is written, boots is what is
\* booted anyway.
SelectedInv ==
  \A t \in Tasks :
    At(t, "first") => copy[task[t].selected] = copy[Selected(copy)]

\* Records between which the boot loader sees no difference
BootsAlike(record, other) ==
  /\ record.active = other.active
  /\ record.priority = other.priority
  /\ record.image = other.image
ConfirmInv ==
  \A t \in Tasks :
    /\ task[t].op = "confirm" => ~(Holds(t) /\ ~task[t].final)
    /\ task[t].op = "confirm" /\ Holds(t) =>
         /\ task[t].record.successful[task[t].target]
         /\ BootsAlike(task[t].record, copy[task[t].selected])

\* A record with which the boot loader starts slot s
Leads(record, s) ==
  /\ record.priority[s] # 0 /\ Verified(record, s)
  /\ record.priority[1 - s] # 0 => Ahead(record, s, 1 - s)

\* The job of the panel: the image confirmed is the one that is written, the
\* slot is no candidate until it holds that image, and is the next one then.
ApplyInv ==
  \A t \in Tasks :
    LET job == task[t]
        target == job.target
    IN job.op = "apply" =>
         /\ apply.state = "writing"
         /\ At(t, "read") => file = apply.image
         /\ Holds(t) =>
              /\ job.image = apply.image /\ job.image # NoImage
              /\ target \notin vouched
              /\ ~job.final => job.record.priority[target] = 0
              /\ job.final =>
                   Leads(job.record, target) /\ content[target] = job.image
              /\ job.final /\ At(t, "first") =>
                   /\ copy[0].valid /\ copy[1].valid
                   /\ copy[0].priority[target] = 0
                   /\ BootsAlike(copy[0], copy[1])

\* The slot of the update that is done is the next one in every copy.
DoneInv ==
  apply.state = "done" =>
    \E s \in Slots :
      content[s] = apply.image /\ \A c \in Readable(copy) : Leads(copy[c], s)

================================================================================
