------------------------------- MODULE Timers -------------------------------
(***************************************************************************)
(* The timers of ny_product_timers.c: countdowns and stopwatches that run  *)
(* on the monotonic clock and are stored with an anchor on the wall clock, *)
(* so that they can be picked up after a restart.                          *)
(*                                                                         *)
(* Requests and ticks change the rows under g_timer_lock (variable job):   *)
(* a changed copy is anchored, written to the state database and only then *)
(* becomes what the service works with.  A tick reads the wall clock, asks *)
(* whether it is valid and how often it was moved, and waits for the lock  *)
(* only then; the clock is set under neither.  A request names the         *)
(* revision it has seen, so the instant it read before it waited for the   *)
(* lock is not older than the rows it changes.                             *)
(*                                                                         *)
(* A sleep timer is a countdown that silences the media instead of         *)
(* chiming; laps and labels are left out.  Of the fields the kinds do not  *)
(* share, a row has one each: shown is remaining_ms or elapsed_ms, at is   *)
(* deadline_mono_ms or anchor_mono_ms, and anchor is due_at or anchor_at.  *)
(* What no later step reads is 0.                                          *)
(***************************************************************************)
EXTENDS ProductClock

CONSTANTS
  Ids,         \* rows there may be
  Duration,    \* of a countdown
  MaxEdits     \* bound of the model: requests that change something

ASSUME TimerAssumption == Duration \in Nat \ {0} /\ MaxEdits \in Nat

VARIABLES
  mono,        \* the monotonic clock
  stored,      \* the record "timers" of the state database
  rows,        \* g_timers
  loaded,      \* g_timers is not NULL
  tick,        \* a tick before it has the lock
  job,         \* who holds g_timer_lock, to store what
  step,        \* g_timer_clock_step
  edits,       \* how many requests there have been
  ran,         \* history: how long a timer has been running
  sure,        \* history: it was picked up with a true anchor
  chimes       \* history: how often a countdown has chimed

service == <<stored, rows, loaded, tick, job, step, edits>>
history == <<ran, sure, chimes>>
vars == <<clock, moves, mono, service, history>>

Kinds == {"countdown", "stopwatch"}
Statuses == {"running", "paused", "finished", "waiting-clock"}
NoRow == [kind |-> "none", status |-> "none", shown |-> 0, base |-> 0,
          at |-> 0, anchor |-> 0]
NoTick == [pc |-> "idle", wall |-> 0, valid |-> FALSE, step |-> 0]
NoJob == [by |-> "nobody", rows |-> [i \in Ids |-> NoRow], wall |-> 0,
          valid |-> FALSE, step |-> 0, fresh |-> {}, done |-> {}]

Monus(a, b) == IF a > b THEN a - b ELSE 0

Running(row) == row.status = "running"
Waiting(row) == row.status = "waiting-clock"
Stopwatch(row) == row.kind = "stopwatch"

Init ==
  /\ ClockInit /\ mono = 0
  /\ stored = [i \in Ids |-> NoRow] /\ rows = stored /\ loaded = FALSE
  /\ tick = NoTick /\ job = NoJob /\ step = 0 /\ edits = 0
  /\ ran = [i \in Ids |-> 0] /\ sure = [i \in Ids |-> TRUE]
  /\ chimes = [i \in Ids |-> 0]

(***************************************************************************)
(* Loading and saving                                                      *)
(***************************************************************************)
\* From the anchor on, the timer counts on the monotonic clock again.
PickedUp(row, wall) ==
  IF Stopwatch(row)
  THEN [row EXCEPT !.base = row.shown + Monus(wall, row.anchor), !.at = mono]
  ELSE [row EXCEPT !.at = mono + Monus(row.anchor, wall)]

\* ny_timer_load: an anchor that was taken without a clock is 0.
Recovered(row) ==
  IF ~(Running(row) \/ Waiting(row)) THEN row
  ELSE IF row.anchor = 0
  THEN [row EXCEPT !.status = "paused", !.base = 0, !.at = 0]
  ELSE IF clock.valid THEN PickedUp(row, clock.wall)
  ELSE [row EXCEPT !.status = "waiting-clock", !.base = 0, !.at = 0]

Present == IF loaded THEN rows ELSE [i \in Ids |-> Recovered(stored[i])]

\* ny_timer_project
Projected(row) ==
  IF ~Running(row) THEN row
  ELSE [row EXCEPT !.shown = IF Stopwatch(row)
                             THEN row.base + Monus(mono, row.at)
                             ELSE Monus(row.at, mono)]

Anchored(row, wall, valid) ==
  IF ~Running(row) THEN row
  ELSE [row EXCEPT !.anchor = IF ~valid THEN 0
                              ELSE IF Stopwatch(row) THEN wall
                              ELSE wall + row.shown]

Free == job.by = "nobody"

\* A save reads both clocks, then asks whether the wall clock is valid.
Save(by, candidate, seen, fresh, done) ==
  /\ job' = [by |-> by, rows |-> [i \in Ids |-> Projected(candidate[i])],
             wall |-> clock.wall, valid |-> clock.valid, step |-> seen,
             fresh |-> fresh, done |-> done]
  /\ rows' = Present /\ loaded' = TRUE

\* What a tick has seen when it has saved
SeenLate == clock.generation
Seen == IF job.by = "tick" THEN job.step ELSE step

\* Only a transition that reached storage is heard.
HeardAnyway(i, saved) == i \in job.done
Heard(i, saved) == saved /\ i \in job.done

Written ==
  /\ ~Free
  /\ \E valid \in {job.valid, clock.valid} :
       stored' = [i \in Ids |-> Anchored(job.rows[i], job.wall, valid)]
  /\ rows' = stored' /\ step' = Seen /\ job' = NoJob
  /\ ran' = [i \in Ids |-> IF i \in job.fresh THEN 0 ELSE ran[i]]
  /\ sure' = [i \in Ids |-> sure[i] \/ i \in job.fresh]
  /\ chimes' = [i \in Ids |-> IF i \in job.fresh THEN 0
                              ELSE IF Heard(i, TRUE) THEN chimes[i] + 1
                              ELSE chimes[i]]
  /\ UNCHANGED <<clock, moves, mono, loaded, tick, edits>>

NotWritten ==
  /\ ~Free
  /\ job' = NoJob
  /\ chimes' = [i \in Ids |-> IF Heard(i, FALSE) THEN chimes[i] + 1
                              ELSE chimes[i]]
  /\ UNCHANGED <<clock, moves, mono, stored, rows, loaded, tick, step, edits,
                 ran, sure>>

(***************************************************************************)
(* Requests                                                                *)
(***************************************************************************)
Edit(i, row, fresh) ==
  /\ Free /\ edits < MaxEdits
  /\ edits' = edits + 1
  /\ Save("request", [Present EXCEPT ![i] = row], 0, fresh, {})
  /\ UNCHANGED <<clock, moves, mono, stored, tick, step, history>>

Create(i) ==
  /\ Present[i] = NoRow
  /\ \E kind \in Kinds :
       Edit(i, [NoRow EXCEPT !.kind = kind, !.status = "running",
                  !.at = IF kind = "stopwatch" THEN mono ELSE mono + Duration],
            {i})

Delete(i) == Present[i] # NoRow /\ Edit(i, NoRow, {i})

\* A timer that is stopped with what it shows
Halted(row, status) ==
  [Projected(row) EXCEPT !.status = status, !.base = 0, !.at = 0, !.anchor = 0]

Pause(i) ==
  Running(Present[i]) /\ Edit(i, Halted(Present[i], "paused"), {})

Resumed(row) ==
  IF Stopwatch(row)
  THEN [row EXCEPT !.status = "running", !.base = row.shown, !.at = mono]
  ELSE [row EXCEPT !.status = "running", !.at = mono + row.shown]

Resume(i) ==
  /\ Present[i].status = "paused"
  /\ Edit(i, Resumed(Present[i]), {})

\* A lap changes nothing that is modelled, but the save takes new anchors.
Lap(i) ==
  /\ Running(Present[i]) /\ Stopwatch(Present[i])
  /\ Edit(i, Present[i], {})

Request == \E i \in Ids :
             Create(i) \/ Delete(i) \/ Pause(i) \/ Resume(i) \/ Lap(i)

(***************************************************************************)
(* The tick                                                                *)
(***************************************************************************)
TickRead ==
  /\ tick.pc = "idle"
  /\ tick' = [NoTick EXCEPT !.pc = "read", !.wall = clock.wall]
  /\ UNCHANGED <<clock, moves, mono, stored, rows, loaded, job, step, edits,
                 history>>

TickAsk ==
  /\ tick.pc = "read"
  /\ tick' = [tick EXCEPT !.pc = "asked", !.valid = clock.valid,
                          !.step = clock.generation]
  /\ UNCHANGED <<clock, moves, mono, stored, rows, loaded, job, step, edits,
                 history>>

Over(row) == Running(row) /\ ~Stopwatch(row) /\ row.at <= mono

DueWhileRunning(row) == (Running(row) /\ tick.step # step) \/ Over(row)
Due(row) ==
  \/ Waiting(row) /\ tick.valid
  \/ Running(row) /\ tick.step # step
  \/ Over(row)

\* It runs again when there is a clock, and may be over at once.
Continued(row) ==
  IF Waiting(row) /\ tick.valid
  THEN PickedUp([row EXCEPT !.status = "running"], tick.wall) ELSE row

Ticked(row) ==
  LET on == Continued(row)
  IN IF Over(on) THEN Halted(on, "finished") ELSE on

TickNothing ==
  /\ tick.pc = "asked" /\ Free /\ (\A i \in Ids : ~Due(Present[i]))
  /\ tick' = NoTick /\ step' = tick.step
  /\ rows' = Present /\ loaded' = TRUE
  /\ UNCHANGED <<clock, moves, mono, stored, job, edits, history>>

TickSave ==
  /\ tick.pc = "asked" /\ Free /\ (\E i \in Ids : Due(Present[i]))
  /\ tick' = NoTick
  /\ Save("tick", [i \in Ids |-> Ticked(Present[i])], tick.step, {},
          {i \in Ids : Over(Continued(Present[i]))})
  /\ UNCHANGED <<clock, moves, mono, stored, step, edits, history>>

Tick == TickRead \/ TickAsk \/ TickNothing \/ TickSave

(***************************************************************************)
(* The clocks                                                              *)
(***************************************************************************)
\* Reading, saving and answering take less than a unit of time.
TimePasses ==
  /\ Free /\ tick.pc = "idle" /\ Passes
  /\ mono' = mono + 1
  /\ ran' = [i \in Ids |-> IF sure[i] /\ Running(Present[i]) THEN ran[i] + 1
                           ELSE ran[i]]
  /\ UNCHANGED <<service, sure, chimes>>

\* A timer that waits for the clock takes what it is set to, and so does one
\* that was not picked up yet.
ClockSet ==
  /\ \E t \in Targets : SetTo(t)
  /\ sure' = [i \in Ids |-> sure[i] /\ ~Waiting(Present[i])
                            /\ (loaded \/ ~Running(stored[i]))]
  /\ ran' = [i \in Ids |-> IF sure'[i] THEN ran[i] ELSE 0]
  /\ UNCHANGED <<mono, service, chimes>>

\* The anchors are true when there was a clock and its last step has been seen.
Restart ==
  LET off == Distance(clock'.wall, clock.wall) IN
  /\ Boots
  /\ mono' = 0 /\ loaded' = FALSE /\ tick' = NoTick /\ job' = NoJob /\ step' = 0
  /\ sure' = [i \in Ids |->
       sure[i] /\ (Running(stored[i]) \/ Waiting(stored[i])
                     => clock'.valid /\ Running(stored[i])
                        /\ stored[i].anchor # 0 /\ step = clock.generation)]
  /\ ran' = [i \in Ids |-> IF ~sure'[i] THEN 0
                           ELSE IF Running(stored[i]) THEN ran[i] + off
                           ELSE ran[i]]
  /\ rows' = [i \in Ids |-> NoRow]
  /\ UNCHANGED <<stored, edits, chimes>>

Next == Request \/ Tick \/ Written \/ NotWritten \/ TimePasses \/ ClockSet
        \/ Restart

Spec == Init /\ [][Next]_vars

\* The worker goes on ticking, and a write that fails is not the end of all.
FairSpec == Spec /\ WF_vars(Tick) /\ SF_vars(Written)

(***************************************************************************)
(* Properties                                                              *)
(***************************************************************************)
Bound == (Horizon + Duration) * (MaxMoves + 2)

\* What the rows may hold.
RowType == [kind : Kinds \cup {"none"}, status : Statuses \cup {"none"},
            shown : 0..Bound, base : 0..Bound, at : 0..Bound, anchor : 0..Bound]
TypeInv ==
  /\ ClockType
  /\ \A i \in Ids : stored[i] \in RowType /\ rows[i] \in RowType
  /\ mono \in 0..Bound /\ loaded \in BOOLEAN /\ step \in 0..MaxMoves
  /\ tick.pc \in {"idle", "read", "asked"} /\ tick.step \in 0..MaxMoves
  /\ job.by \in {"nobody", "request", "tick"}

\* What a timer shows is how long it has been running, across pauses, steps of
\* the clock, saves that fail and restarts with a clock and a true anchor.
Showing(row) == Projected(row).shown

TimeTrue ==
  \A i \in Ids :
    LET row == Present[i] IN
    sure[i] /\ row # NoRow /\ ~Waiting(row) =>
      Showing(row) = IF Stopwatch(row) THEN ran[i] ELSE Monus(Duration, ran[i])

\* Once the last step of the clock has been seen, what is stored would be
\* picked up as what runs.
AnchorsTrue ==
  loaded /\ step = clock.generation /\ clock.valid =>
    \A i \in Ids :
      sure[i] /\ Running(rows[i]) /\ stored[i].anchor # 0 =>
        Showing(PickedUp(stored[i], clock.wall)) = Showing(rows[i])

\* The time of a timer is kept, in what runs and in what is stored of it.
TimeKept == TypeInv /\ TimeTrue /\ AnchorsTrue

\* A countdown chimes once.
ChimesOnce == \A i \in Ids : chimes[i] <= 1

\* A countdown that is over does not go on running, and one that waits for a
\* clock does not wait when there is one.
Proceeds ==
  \A i \in Ids :
    Over(Present[i]) \/ (Waiting(Present[i]) /\ clock.valid)
      ~> ~(Over(Present[i]) \/ (Waiting(Present[i]) /\ clock.valid))

(***************************************************************************)
(* Inductive invariants (ProductProofs)                                    *)
(***************************************************************************)
\* Every step of the clock and every restart may make a timer show more by the
\* width of the clock.  The limits of a row depend on what they have made (s),
\* on the wall clock (w) and on the monotonic clock (m).
Spent == Horizon * moves

Pending(row) == Running(row) \/ Waiting(row)
Active(row) == row.status \in Statuses \ {"finished"}

NatRow == [kind : Kinds \cup {"none"}, status : Statuses \cup {"none"},
           shown : Nat, base : Nat, at : Nat, anchor : Nat]

\* A row, wherever it is held
Held(row, s, w, m) ==
  /\ row \in NatRow
  /\ "none" \in {row.kind, row.status} => row = NoRow
  /\ Waiting(row) => row.anchor # 0
  /\ IF Stopwatch(row) THEN row.shown <= s + w
     ELSE /\ row.base = 0 /\ row.shown <= Duration + s
          /\ m + row.shown <= Duration + s + w

\* and one that may have been stored
Kept(row, s, w, m) ==
  /\ Held(row, s, w, m)
  /\ row.base <= s + Horizon
  /\ row.at <= Duration + s + Horizon /\ row.anchor <= Duration + s + Horizon
  /\ Stopwatch(row) /\ Pending(row) /\ row.anchor # 0
       => row.shown <= s + row.anchor

\* A row that was stored before the last restart and is still to be picked up
Awaited(row, s, w, m) ==
  Pending(row) /\ row.anchor # 0 =>
    IF Stopwatch(row) THEN row.shown + Horizon <= s + row.anchor
    ELSE row.anchor <= Duration + s /\ m + row.anchor <= Duration + s + w

\* A row that the service works with
Live(row, s, w, m) ==
  /\ Waiting(row) => Awaited(row, s, w, m)
  /\ Running(row) =>
       IF Stopwatch(row)
       THEN row.at <= m /\ row.base + m <= s + w + row.at
       ELSE row.at <= m + Duration + s /\ row.at <= Duration + s + w

Fit(row, s, w, m) ==
  Held(row, s, w, m) /\ Live(row, s, w, m) /\ (~Running(row) => Kept(row, s, w, m))

ClockInv ==
  /\ ClockType /\ clock.generation <= moves
  /\ mono \in Nat /\ mono <= Spent + clock.wall
  /\ loaded \in BOOLEAN /\ step \in 0..clock.generation
  /\ tick \in [pc : {"idle", "read", "asked"}, wall : 0..Horizon,
               valid : BOOLEAN, step : 0..clock.generation]
  /\ job.by \in {"nobody", "request", "tick"}

RowsInv ==
  /\ rows \in [Ids -> NatRow]
  /\ \A i \in Ids :
       /\ Kept(stored[i], Spent, clock.wall, mono)
       /\ Kept(rows[i], Spent, clock.wall, mono)
       /\ IF loaded THEN Live(rows[i], Spent, clock.wall, mono)
          ELSE Awaited(stored[i], Spent, clock.wall, mono) /\ rows[i] = NoRow

\* What a row shows at an instant of the monotonic clock
Shown(row, m) ==
  IF ~Running(row) THEN row.shown
  ELSE IF Stopwatch(row) THEN row.base + Monus(m, row.at)
  ELSE Monus(row.at, m)

\* While something is saved no time passes, and a step of the clock is noticed.
JobInv ==
  ~Free =>
    /\ loaded /\ job.wall \in Times /\ job.valid \in BOOLEAN
    /\ job.valid => clock.valid
    /\ Seen \in 0..clock.generation
    /\ Seen = clock.generation => job.wall = clock.wall
    /\ \A i \in Ids :
         /\ Fit(job.rows[i], Spent, clock.wall, mono)
         /\ Running(job.rows[i]) =>
              /\ job.rows[i].shown = Shown(job.rows[i], mono)
              /\ Stopwatch(job.rows[i]) => job.rows[i].shown <= Spent + job.wall

\* What a timer shows that has been running for a time
Told(row, m, time) ==
  Shown(row, m) = IF Stopwatch(row) THEN time ELSE Monus(Duration, time)

Truth(row, m, time) == ~Waiting(row) /\ (row # NoRow => Told(row, m, time))

\* and the anchor it has to have been stored with
Matches(row, w, time) ==
  IF Stopwatch(row) THEN row.anchor <= w /\ row.shown + (w - row.anchor) = time
  ELSE Monus(row.anchor, w) = Monus(Duration, time)

Like(row, other) ==
  /\ row.kind = other.kind /\ row.status = other.status
  /\ ~Running(other) => row = other

TimeInv ==
  /\ ran \in [Ids -> Nat] /\ sure \in [Ids -> BOOLEAN]
  /\ \A i \in Ids : sure[i] =>
       IF loaded THEN Truth(rows[i], mono, ran[i]) /\ Like(rows[i], stored[i])
       ELSE /\ ~Waiting(stored[i])
            /\ ~Running(stored[i]) => Truth(stored[i], mono, ran[i])
  /\ ~Free => \A i \in Ids :
       IF i \in job.fresh THEN Truth(job.rows[i], mono, 0)
       ELSE sure[i] => Truth(job.rows[i], mono, ran[i])

AnchorInv ==
  \A i \in Ids : sure[i] /\ Running(stored[i]) =>
    /\ ~loaded => stored[i].anchor # 0 /\ step = clock.generation
    /\ stored[i].anchor # 0 =>
         /\ clock.valid
         /\ step = clock.generation => Matches(stored[i], clock.wall, ran[i])

\* A countdown that has chimed is over, in what runs and in what is stored.
ChimeInv ==
  /\ chimes \in [Ids -> {0, 1}]
  /\ \A i \in Ids :
       /\ Active(stored[i]) => chimes[i] = 0
       /\ loaded => (Active(rows[i]) <=> Active(stored[i]))
       /\ ~Free =>
            /\ i \in job.done => ~Active(job.rows[i]) /\ i \notin job.fresh
            /\ i \in job.done \/ (i \notin job.fresh /\ Active(job.rows[i]))
                 => chimes[i] = 0

=============================================================================
