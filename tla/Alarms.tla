------------------------------- MODULE Alarms -------------------------------
(***************************************************************************)
(* The alarms of ny_product_alarms.c.  The rows are one record of the      *)
(* state database, replaced as a whole; what the service keeps in memory   *)
(* is the record it last read or wrote, so one variable stands for both.   *)
(* A request of the panel runs under g_alarm_lock from its reading of the  *)
(* clock to its write.  A tick of the product worker does not: it reads    *)
(* the clock before it takes the lock (TickStart), and asks only then      *)
(* whether the clock was moved (TickLocked).                               *)
(*                                                                         *)
(* An alarm repeats every Day units or is a single one; days of the week   *)
(* are left out.  The names do not meet those of Timers, the other service *)
(* of the worker, so that one module can prove about both.                 *)
(***************************************************************************)
EXTENDS ProductClock

CONSTANTS
  AlarmIds,    \* rows there may be
  Day,         \* time between two occurrences
  Grace,       \* NY_ALARM_GRACE_MS
  Ring,        \* NY_ALARM_RING_MS
  Frame,       \* NY_ALARM_FRAME_MS
  Records,     \* bound of the model: what the panel sends
  MaxRequests  \* bound of the model: requests that change something

ASSUME AlarmAssumption ==
  /\ Grace \in Nat \ {0} /\ Ring \in Nat /\ Day \in Nat /\ Frame \in Nat
  /\ Grace < Ring /\ Ring < Day /\ Day < Frame /\ MaxRequests \in Nat
  /\ Records \subseteq [enabled : BOOLEAN, once : BOOLEAN, time : 0..(Day - 1)]

VARIABLES
  alarms,      \* the record "alarms"
  alarmTick,   \* the tick of the worker, with the time it has read
  alarmStep,   \* g_alarm_clock_step
  sounding,    \* g_alarm_sounding: what the media service was last told
  requests,    \* how many requests there have been
  frame,       \* history: what each next_at was worked out from, see Frames
  back         \* history: the clock went back

alarmService == <<alarms, alarmTick, alarmStep, sounding, requests>>
alarmHistory == <<frame, back>>
alarmVars == <<clock, moves, alarmService, alarmHistory>>

AlarmStatuses == {"scheduled", "ringing", "dismissed", "snoozed", "missed"}
NoAlarm == [status |-> "none", enabled |-> FALSE, once |-> FALSE, time |-> 0,
            due |-> 0, fired |-> 0]

\* "own": the present reading of the clock; "far": a reading that the clock was
\* then moved far away from, which a tick has to notice; "other": the clock of
\* an earlier boot, or a step that a tick cannot tell (see ClockSet).
Frames == {"own", "far", "other"}
Idle == [running |-> FALSE, now |-> 0, late |-> FALSE, owed |-> FALSE]

\* A definition with a faulty form before it is one a run shows its property
\* to depend on.
SameInstant(row, after) ==
  IF clock.valid /\ row.enabled
  THEN CHOOSE t \in after..(after + Day - 1) : t % Day = row.time ELSE 0

\* ny_alarm_next: strictly later than the instant, none without a clock
NextAt(row, after) ==
  IF clock.valid /\ row.enabled
  THEN CHOOSE t \in (after + 1)..(after + Day) : t % Day = row.time ELSE 0

(***************************************************************************)
(* Requests                                                                *)
(***************************************************************************)
AlarmEdit(i, row) ==
  /\ requests < MaxRequests
  /\ requests' = requests + 1
  /\ alarms' = [alarms EXCEPT ![i] = row]
  /\ frame' = [frame EXCEPT ![i] =
                 IF alarms[i].due = row.due THEN @ ELSE "own"]
  /\ UNCHANGED <<clock, moves, alarmTick, alarmStep, sounding, back>>

Fresh(record) ==
  LET row == [status |-> "scheduled", enabled |-> record.enabled,
              once |-> record.once, time |-> record.time,
              due |-> 0, fired |-> 0]
  IN [row EXCEPT !.due = NextAt(row, clock.wall)]

\* What an earlier boot stored
AlarmInit ==
  /\ ClockInit
  /\ alarms \in [AlarmIds -> {NoAlarm} \cup {Fresh(record) : record \in Records}]
  /\ alarmTick = Idle
  /\ alarmStep = 0 /\ sounding = FALSE /\ requests = 0
  /\ frame = [i \in AlarmIds |-> "other"] /\ back = FALSE

\* create takes a new id, update replaces the row
CreateOrUpdate(i) ==
  /\ clock.wall + Day <= Horizon
  /\ \E record \in Records : AlarmEdit(i, Fresh(record))

DeleteAlarm(i) == alarms[i] # NoAlarm /\ AlarmEdit(i, NoAlarm)

Dismiss(i) ==
  /\ alarms[i].status = "ringing"
  /\ AlarmEdit(i, [alarms[i] EXCEPT !.status = "dismissed"])

Snooze(i) ==
  /\ alarms[i].status = "ringing" /\ clock.valid
  /\ clock.wall + Grace <= Horizon
  /\ AlarmEdit(i, [alarms[i] EXCEPT !.status = "snoozed",
                                    !.due = clock.wall + Grace])

AlarmRequest ==
  \E i \in AlarmIds :
    CreateOrUpdate(i) \/ DeleteAlarm(i) \/ Dismiss(i) \/ Snooze(i)

(***************************************************************************)
(* The tick                                                                *)
(***************************************************************************)
TickStart ==
  /\ ~alarmTick.running
  /\ alarmTick' = [running |-> TRUE, now |-> clock.wall, late |-> FALSE,
                   owed |-> FALSE]
  /\ UNCHANGED <<clock, moves, alarms, alarmStep, sounding, requests,
                 alarmHistory>>

Snoozed(row) == row.status = "snoozed"
Ringing(row) == row.status = "ringing"
Waits(row) == (row.enabled \/ Snoozed(row)) /\ ~Ringing(row)

Moved == clock.generation # alarmStep

\* ny_alarm_stale: worked out from a reading that was far off
NeverStale(due) == FALSE
Stale(due) ==
  /\ Moved /\ due # 0
  /\ Distance(alarmTick.now, clock.before) > Frame
  /\ Distance(due, clock.before) <= Frame

NotSnoozedDue(row) == row.enabled /\ ~Ringing(row) /\
                      (row.due <= alarmTick.now \/ Stale(row.due))
AlarmDue(row) == Waits(row) /\ (row.due <= alarmTick.now \/ Stale(row.due))

\* It rings, or was missed; a single one is switched off.
Fired(row) ==
  [row EXCEPT !.fired = row.due, !.enabled = @ /\ ~row.once,
              !.status = IF alarmTick.now - row.due <= Grace THEN "ringing"
                         ELSE "missed"]

AlarmTicked(row) ==
  IF Ringing(row)
  THEN IF row.fired # 0 /\ alarmTick.now >= row.fired + Ring
       THEN [row EXCEPT !.status = "missed"] ELSE row
  ELSE IF ~AlarmDue(row) THEN row
  ELSE IF Stale(row.due)
  THEN [row EXCEPT !.due = IF Snoozed(row) THEN alarmTick.now
                           ELSE NextAt(row, alarmTick.now)]
  ELSE LET fired == IF row.due = 0 THEN row ELSE Fired(row)
       IN [fired EXCEPT !.due = NextAt(fired, alarmTick.now)]

AnyRinging == \E i \in AlarmIds : Ringing(alarms[i])

Returns == alarmTick' = Idle

\* The sound follows what is stored.
OnlyLouder == sounding' = (sounding \/ AnyRinging')
Sound == sounding' = AnyRinging'

TickInvalid ==
  /\ alarmTick.running /\ ~clock.valid /\ Returns
  /\ UNCHANGED <<clock, moves, alarms, alarmStep, sounding, requests,
                 alarmHistory>>

TickNoneDue ==
  /\ alarmTick.running /\ clock.valid
  /\ \A i \in AlarmIds : ~AlarmDue(alarms[i])
  /\ alarmStep' = clock.generation
  /\ UNCHANGED <<clock, moves, alarms, requests, alarmHistory>>
  /\ Returns /\ Sound

TickStored ==
  /\ alarmTick.running /\ clock.valid
  /\ \E i \in AlarmIds : AlarmDue(alarms[i])
  /\ alarms' = [i \in AlarmIds |-> AlarmTicked(alarms[i])]
  /\ frame' = [i \in AlarmIds |-> IF ~AlarmDue(alarms[i]) THEN frame[i]
                                   ELSE IF alarmTick.late THEN "other" ELSE "own"]
  /\ alarmStep' = clock.generation
  /\ UNCHANGED <<clock, moves, requests, back>>
  /\ Returns /\ Sound

TickFails ==
  /\ alarmTick.running /\ clock.valid
  /\ \E i \in AlarmIds : AlarmDue(alarms[i])
  /\ Returns
  /\ UNCHANGED <<clock, moves, alarms, alarmStep, sounding, requests,
                 alarmHistory>>

AlarmTick == TickStart \/ TickInvalid \/ TickNoneDue \/ TickStored

(***************************************************************************)
(* The clock                                                               *)
(***************************************************************************)
\* What a step of the clock, or time after it, makes of the rows it touches
Blur(lost) == frame' = [i \in AlarmIds |-> IF lost THEN "other" ELSE frame[i]]

\* A tick that comes when as much time has passed as the clock was put back by
\* finds nothing to remark on.  The worker ticks far more often than a unit of
\* time passes.
AlarmTimePasses ==
  /\ ~alarmTick.owed /\ ~alarmTick.running /\ Passes
  /\ alarmTick' = [alarmTick EXCEPT !.owed = TRUE]
  /\ Blur(/\ Moved /\ Distance(clock.wall, clock.before) > Frame
          /\ Distance(clock'.wall, clock.before) <= Frame)
  /\ UNCHANGED <<alarms, alarmStep, sounding, requests, back>>

\* Only the last step is remembered, a tick that has read the clock does not
\* read it again, an alarm that rings is not looked at, and small steps add up.
Untold(i) ==
  \/ Moved \/ alarmTick.running \/ Ringing(alarms[i])
  \/ Distance(alarms[i].due, clock.wall) > Frame

AlarmClockSet ==
  \E t \in Targets :
    LET far == Distance(t, clock.wall) > Frame IN
    /\ SetTo(t)
    /\ frame' = [i \in AlarmIds |->
                   IF (far /\ Untold(i)) \/ (Moved /\ frame[i] = "far")
                   THEN "other"
                   ELSE IF far /\ frame[i] = "own" THEN "far" ELSE frame[i]]
    /\ alarmTick' = [alarmTick EXCEPT !.late = alarmTick.running]
    /\ back' = (back \/ t < clock.wall)
    /\ UNCHANGED <<alarms, alarmStep, sounding, requests>>

AlarmRestart ==
  /\ Boots
  /\ alarmTick' = Idle
  /\ alarmStep' = 0 /\ sounding' = FALSE
  /\ frame' = [i \in AlarmIds |-> "other"]
  /\ back' = (back \/ clock'.wall < clock.wall)
  /\ UNCHANGED <<alarms, requests>>

AlarmNext ==
  AlarmRequest \/ AlarmTick \/ TickFails \/ AlarmTimePasses \/ AlarmClockSet
  \/ AlarmRestart

AlarmSpec == AlarmInit /\ [][AlarmNext]_alarmVars

\* The worker goes on ticking, and a write that fails is not the end of all.
AlarmFairSpec ==
  AlarmSpec /\ WF_alarmVars(AlarmTick) /\ SF_alarmVars(TickStored)

(***************************************************************************)
(* Properties                                                              *)
(***************************************************************************)
AlarmRows ==
  {NoAlarm} \cup
  [status : AlarmStatuses, enabled : BOOLEAN, once : BOOLEAN,
   time : 0..(Day - 1), due : 0..(Horizon + Day), fired : 0..Horizon]

\* What the rows and the tick may hold.
AlarmTypes ==
  /\ ClockType
  /\ alarms \in [AlarmIds -> AlarmRows]
  /\ frame \in [AlarmIds -> Frames]
  /\ alarmTick.running \in BOOLEAN /\ alarmTick.now \in 0..Horizon
  /\ alarmStep \in 0..MaxMoves /\ sounding \in BOOLEAN
  /\ requests \in 0..MaxRequests

\* Once a tick has seen that the clock was moved far (ny_alarm_stale), no alarm
\* that waits depends any more on the reading the clock was moved away from,
\* whatever requests, time, smaller steps and failed writes came in between.
Rescheduled ==
  ~alarmTick.running /\ ~Moved =>
    \A i \in AlarmIds :
      Waits(alarms[i]) /\ alarms[i].due # 0 => frame[i] # "far"

\* Rows that are rescheduled stay rows that the worker can find again.
RowsKept == AlarmTypes /\ Rescheduled

\* An occurrence that has rung and was dismissed, snoozed or timed out does not
\* ring again (ny_alarm_next is strictly later), unless the clock went back.
NoSecondRing ==
  [][\A i \in AlarmIds : ~Ringing(alarms[i]) /\ Ringing(alarms'[i])
                      => back \/ alarms'[i].fired > alarms[i].fired]_alarmVars

\* The sound follows the stored rows: it begins for an alarm that rings, after
\* a restart too, and ends when the last one was dismissed, snoozed or deleted.
SoundFollows ==
  clock.valid /\ sounding # AnyRinging ~> sounding = AnyRinging \/ ~clock.valid

\* Under a clock that is believed, an alarm that is due does not stay due: it
\* rings, is reported as missed or is put off, a snoozed one included.
DueHandled ==
  \A i \in AlarmIds :
    clock.valid /\ Waits(alarms[i]) /\ alarms[i].due <= clock.wall
      ~> ~clock.valid \/ ~Waits(alarms[i]) \/ alarms[i].due > clock.wall

\* "An alarm rings for a while, not for ever.  Nobody came."
\* (ny_product_alarms.c:500)
RingEnds ==
  \A i \in AlarmIds : clock.valid /\ Ringing(alarms[i])
                   ~> ~clock.valid \/ ~Ringing(alarms[i])

(***************************************************************************)
(* The inductive invariant of the proofs                                   *)
(***************************************************************************)
TickInv ==
  /\ alarmTick \in [running : BOOLEAN, now : 0..Horizon, late : BOOLEAN,
                    owed : BOOLEAN]
  /\ clock.generation <= moves

\* What neither repeats nor is put off has no next occurrence.
SetInv ==
  \A i \in AlarmIds :
    alarms[i].due # 0 => alarms[i].enabled \/ Snoozed(alarms[i])

\* A tick can tell a row that depends on a reading the clock was moved far away
\* from: the move is news to it, and the row is near that reading.
TellTale(i) ==
  /\ Moved
  /\ Distance(alarms[i].due, clock.before) <= Frame
  /\ Distance(clock.wall, clock.before) > Frame
  /\ alarmTick.running => Distance(alarmTick.now, clock.before) > Frame

FarInv ==
  \A i \in AlarmIds :
    frame[i] = "far" =>
      ~Ringing(alarms[i]) /\ (alarms[i].due = 0 \/ TellTale(i))

\* Unless the clock went back: what has rung was before all that is to come.
\* A tick may put a snoozed row off to an instant it read before the clock was
\* moved twice; that one is found too late to ring.
TooLate(t) ==
  t + Grace < clock.wall /\ (alarmTick.running => t + Grace < alarmTick.now)

FiredInv ==
  ~back =>
    /\ alarmTick.running => alarmTick.now <= clock.wall
    /\ clock.before <= clock.wall
    /\ \A i \in AlarmIds :
         /\ alarms[i].fired <= clock.wall
         /\ alarmTick.running => alarms[i].fired <= alarmTick.now
         /\ Moved => alarms[i].fired <= clock.before
         /\ \/ alarms[i].due = 0
            \/ alarms[i].due > alarms[i].fired
            \/ TooLate(alarms[i].due)

AlarmInv == AlarmTypes /\ TickInv /\ SetInv /\ FarInv /\ FiredInv

=============================================================================
