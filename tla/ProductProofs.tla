---------------------------- MODULE ProductProofs ----------------------------
(***************************************************************************)
(* Proofs about the two services of the product worker that schedule       *)
(* against the wall clock, Timers and Alarms.                              *)
(*                                                                         *)
(* Timers: what a timer shows is how long it has been running, what is     *)
(* stored of it would be picked up as what runs, and a countdown chimes    *)
(* once, for every number of timers, every duration and every bound on the *)
(* clocks.  A row is followed by lemmas on one row: what the clocks do to  *)
(* its limits, what picking it up, halting it and saving it make of it.    *)
(* The inductive invariant TimerInv says of every row where it may be and  *)
(* that it shows the time that it has been running.                        *)
(*                                                                         *)
(* Alarms: no alarm goes on depending on a wrong reading of the clock, and *)
(* what has rung does not ring again, for every number of alarms, every    *)
(* length of day, grace, ringing and frame in the order the code has them, *)
(* and every bound on clock, moves and requests. There is a next           *)
(* occurrence after every instant (Occurrence); lemmas on one row say what *)
(* a request and a tick make of it; the inductive invariant is AlarmInv.   *)
(***************************************************************************)
EXTENDS Timers, Alarms, TLAPS

TimerInv ==
  ClockInv /\ RowsInv /\ JobInv /\ TimeInv /\ AnchorInv /\ ChimeInv

(***************************************************************************)
(* Timers: what the clocks do to a row                                     *)
(***************************************************************************)
LEMMA ClockConstants ==
  /\ Horizon \in Nat /\ Horizon >= 1 /\ Duration \in Nat /\ Duration >= 1
  /\ MaxMoves \in Nat
  /\ \A t \in Times : t \in Nat /\ t >= 1 /\ t <= Horizon
BY ClockAssumption, TimerAssumption DEF Times

LEMMA SpentCounts ==
  ASSUME NEW k \in 0..MaxMoves
  PROVE  /\ Horizon * k \in Nat /\ Horizon * k <= Horizon * MaxMoves
         /\ Horizon * (k + 1) = Horizon * k + Horizon
<1>1. k \in Nat /\ Horizon \in Nat /\ MaxMoves \in Nat /\ MaxMoves >= k
  BY ClockConstants
<1>2. Horizon * k \in Nat /\ Horizon * (k + 1) = Horizon * k + Horizon
  BY <1>1
<1>3. PICK j \in Nat : MaxMoves = k + j
  <2>1. MaxMoves - k \in Nat /\ MaxMoves = k + (MaxMoves - k)
    BY <1>1
  <2> QED
    BY <2>1
<1>4. Horizon * MaxMoves = Horizon * k + Horizon * j /\ Horizon * j \in Nat
  BY <1>1, <1>3
<1> QED
  BY <1>1, <1>2, <1>4

LEMMA RowPasses ==
  ASSUME NEW row, NEW s \in Nat, NEW w \in Nat, NEW m \in Nat
  PROVE  /\ Held(row, s, w, m) => Held(row, s, w + 1, m + 1)
         /\ Kept(row, s, w, m) => Kept(row, s, w + 1, m + 1)
         /\ Awaited(row, s, w, m) /\ row \in NatRow => Awaited(row, s, w + 1, m + 1)
         /\ Live(row, s, w, m) /\ row \in NatRow => Live(row, s, w + 1, m + 1)
BY ClockConstants DEF Held, Kept, Awaited, Live, NatRow

LEMMA RowMoves ==
  ASSUME NEW row, NEW s \in Nat, NEW w \in Times, NEW v \in Times, NEW m \in Nat
  PROVE  /\ Held(row, s, w, m) => Held(row, s + Horizon, v, m)
         /\ Kept(row, s, w, m) => Kept(row, s + Horizon, v, m)
         /\ Awaited(row, s, w, m) /\ row \in NatRow => Awaited(row, s + Horizon, v, m)
         /\ Live(row, s, w, m) /\ row \in NatRow => Live(row, s + Horizon, v, m)
         /\ Fit(row, s, w, m) => Fit(row, s + Horizon, v, m)
BY ClockConstants DEF Held, Kept, Awaited, Live, Fit, NatRow

LEMMA RowBoots ==
  ASSUME NEW row, NEW s \in Nat, NEW w \in Times, NEW v \in Times, NEW m \in Nat,
         Kept(row, s, w, m)
  PROVE  Kept(row, s + Horizon, v, 0) /\ Awaited(row, s + Horizon, v, 0)
BY ClockConstants DEF Held, Kept, Awaited, NatRow

LEMMA NoRowKept ==
  ASSUME NEW s \in Nat, NEW w \in Nat, NEW m \in Nat, m <= s + w
  PROVE  /\ Kept(NoRow, s, w, m) /\ Fit(NoRow, s, w, m)
         /\ ~Running(NoRow) /\ ~Waiting(NoRow) /\ ~Stopwatch(NoRow) /\ ~Active(NoRow)
BY ClockConstants DEF NoRow, Held, Kept, Live, Fit, NatRow, Pending, Running, Waiting,
                      Stopwatch, Active, Statuses

(***************************************************************************)
(* Timers: what picking it up, halting it and saving it make of a row      *)
(***************************************************************************)
LEMMA Picked ==
  ASSUME NEW row, NEW s \in Nat, NEW w \in Times, NEW t \in 0..Horizon,
         mono \in Nat, mono <= s + w, Kept(row, s, w, mono),
         Awaited(row, s, w, mono), Pending(row), row.anchor # 0
  PROVE  LET next == PickedUp(row, t) IN
         /\ Kept(next, s, w, mono) /\ Awaited(next, s, w, mono)
         /\ Live(next, s, w, mono)
         /\ next.kind = row.kind /\ next.status = row.status
         /\ next.anchor = row.anchor /\ next.shown = row.shown
         /\ Running(row) =>
              Shown(next, mono) = IF Stopwatch(row)
                                  THEN row.shown + Monus(t, row.anchor)
                                  ELSE Monus(row.anchor, t)
<1> DEFINE next == PickedUp(row, t)
<1>1. row \in NatRow /\ row # NoRow /\ row.kind # "none" /\ row.status # "none"
  BY DEF Kept, Held, Pending, Running, Waiting, NoRow
<1>2. /\ next \in NatRow /\ next.kind = row.kind /\ next.status = row.status
      /\ next.anchor = row.anchor /\ next.shown = row.shown
      /\ Stopwatch(row) => next.base = row.shown + Monus(t, row.anchor) /\ next.at = mono
      /\ ~Stopwatch(row) => next.base = row.base
                            /\ next.at = mono + Monus(row.anchor, t)
  <2>1. Monus(t, row.anchor) \in Nat /\ Monus(row.anchor, t) \in Nat
    BY <1>1, ClockConstants DEF NatRow, Monus
  <2>2. CASE Stopwatch(row)
    <3>1. row.shown + Monus(t, row.anchor) \in Nat
      BY <1>1, <2>1 DEF NatRow
    <3> QED
      BY <1>1, <2>2, <3>1 DEF PickedUp, NatRow
  <2>3. CASE ~Stopwatch(row)
    <3>1. mono + Monus(row.anchor, t) \in Nat
      BY <2>1
    <3> QED
      BY <1>1, <2>3, <3>1 DEF PickedUp, NatRow
  <2> QED
    BY <2>2, <2>3
<1> HIDE DEF next
<1>3. Held(next, s, w, mono)
  BY <1>1, <1>2 DEF Kept, Held, Waiting, Stopwatch
<1>4. Awaited(next, s, w, mono)
  BY <1>2 DEF Awaited, Pending, Running, Waiting, Stopwatch
<1>5. row.shown \in Nat /\ row.anchor \in Nat /\ t \in Nat /\ t <= Horizon
      /\ w \in Nat /\ w >= 1 /\ w <= Horizon
  BY <1>1, ClockConstants DEF NatRow
<1>6. CASE Stopwatch(row)
  <2>1. next.base <= s + w /\ next.base \in Nat
    <3>1. row.shown + Horizon <= s + row.anchor /\ row.shown <= s + w
      BY <1>6 DEF Awaited, Kept, Held
    <3>2. Monus(t, row.anchor) = IF t > row.anchor THEN t - row.anchor ELSE 0
      BY DEF Monus
    <3>3. row.shown + Monus(t, row.anchor) \in Nat
          /\ row.shown + Monus(t, row.anchor) <= s + w
      BY <1>5, <3>1, <3>2, ClockConstants
    <3> QED
      BY <1>2, <1>6, <3>3
  <2>2. Kept(next, s, w, mono)
    BY <1>2, <1>3, <1>5, <1>6, <2>1, ClockConstants
       DEF Kept, Stopwatch, Pending, Running, Waiting
  <2>3. Live(next, s, w, mono)
    <3>1. next.at <= mono /\ next.base + mono <= s + w + next.at
      BY <1>2, <1>5, <1>6, <2>1
    <3> QED
      BY <1>2, <1>4, <1>6, <3>1 DEF Live, Stopwatch
  <2> QED
    BY <1>2, <1>4, <1>6, <2>1, <2>2, <2>3 DEF Shown, Running, Stopwatch, Monus, next
<1>7. CASE ~Stopwatch(row)
  <2>1. row.anchor <= Duration + s /\ mono + row.anchor <= Duration + s + w
        /\ row.base = 0
    BY <1>7 DEF Awaited, Kept, Held
  <2>2. next.at \in Nat /\ next.at <= mono + Duration + s
        /\ next.at <= Duration + s + w
    BY <1>2, <1>5, <1>7, <2>1, ClockConstants DEF Monus
  <2>3. Kept(next, s, w, mono)
    BY <1>2, <1>3, <1>5, <1>7, <2>1, <2>2, ClockConstants
       DEF Kept, Stopwatch
  <2>4. Live(next, s, w, mono)
    BY <1>2, <1>4, <1>7, <2>2 DEF Live, Stopwatch
  <2>5. Running(row) => Shown(next, mono) = Monus(row.anchor, t)
    BY <1>2, <1>5, <1>7 DEF Shown, Running, Stopwatch, Monus
  <2> QED
    BY <1>2, <1>4, <1>7, <2>3, <2>4, <2>5 DEF next
<1> QED
  BY <1>6, <1>7

\* What a running row shows
LEMMA ShownBounds ==
  ASSUME NEW row, NEW s \in Nat, NEW w \in Times, mono \in Nat, mono <= s + w,
         Held(row, s, w, mono), Live(row, s, w, mono), Running(row)
  PROVE  /\ Shown(row, mono) \in Nat
         /\ IF Stopwatch(row) THEN Shown(row, mono) <= s + w
            ELSE /\ Shown(row, mono) <= Duration + s
                 /\ mono + Shown(row, mono) <= Duration + s + w
<1>1. row.base \in Nat /\ row.at \in Nat /\ w \in Nat
  BY ClockConstants DEF Held, NatRow
<1> QED
  BY <1>1, ClockConstants DEF Shown, Live, Held, Monus

LEMMA ShowingIs ==
  ASSUME NEW row \in NatRow, mono \in Nat
  PROVE  /\ Projected(row) = IF Running(row) THEN [row EXCEPT !.shown = Shown(row, mono)]
                             ELSE row
         /\ Showing(row) = Shown(row, mono)
BY DEF Projected, Shown, Showing, NatRow, Monus

LEMMA ProjectedFit ==
  ASSUME NEW row, NEW s \in Nat, NEW w \in Times, mono \in Nat, mono <= s + w,
         Fit(row, s, w, mono)
  PROVE  LET next == Projected(row) IN
         /\ Fit(next, s, w, mono)
         /\ next.kind = row.kind /\ next.status = row.status
         /\ ~Running(row) => next = row
         /\ Running(row) => /\ next.shown = Shown(next, mono)
                            /\ Stopwatch(row) => next.shown <= s + w
         /\ Shown(next, mono) = Shown(row, mono)
<1>1. row \in NatRow
  BY DEF Fit, Held
<1>2. CASE ~Running(row)
  BY <1>1, <1>2, ShowingIs
<1>3. CASE Running(row)
  <2> DEFINE next == Projected(row)
  <2>1. /\ Shown(row, mono) \in Nat
        /\ IF Stopwatch(row) THEN Shown(row, mono) <= s + w
           ELSE /\ Shown(row, mono) <= Duration + s
                /\ mono + Shown(row, mono) <= Duration + s + w
    BY <1>3, ShownBounds DEF Fit
  <2>2. /\ next \in NatRow /\ next.shown = Shown(row, mono)
        /\ next.kind = row.kind /\ next.status = row.status
        /\ next.base = row.base /\ next.at = row.at /\ next.anchor = row.anchor
    BY <1>1, <1>3, <2>1, ShowingIs DEF NatRow
  <2> HIDE DEF next
  <2>3. Held(next, s, w, mono)
    BY <1>3, <2>1, <2>2 DEF Fit, Held, Waiting, Running, Stopwatch, NoRow
  <2>4. Live(next, s, w, mono)
    BY <1>3, <2>2 DEF Fit, Live, Waiting, Running, Stopwatch
  <2>5. Shown(next, mono) = Shown(row, mono)
    BY <1>3, <2>2 DEF Shown, Running, Stopwatch
  <2>6. Fit(next, s, w, mono)
    BY <1>3, <2>2, <2>3, <2>4 DEF Fit, Running
  <2> QED
    BY <1>3, <2>1, <2>2, <2>5, <2>6 DEF next
<1> QED
  BY <1>2, <1>3

LEMMA HaltedKept ==
  ASSUME NEW row, NEW s \in Nat, NEW w \in Times, mono \in Nat, mono <= s + w,
         Held(row, s, w, mono), Live(row, s, w, mono), Running(row),
         NEW status \in {"paused", "finished"}
  PROVE  LET next == Halted(row, status) IN
         /\ Fit(next, s, w, mono) /\ Kept(next, s, w, mono)
         /\ next.kind = row.kind /\ next.status = status
         /\ Shown(next, mono) = Shown(row, mono)
<1> DEFINE next == Halted(row, status)
<1>1. row \in NatRow /\ row.kind # "none"
  BY DEF Held, Running, NoRow
<1>2. /\ Shown(row, mono) \in Nat
      /\ IF Stopwatch(row) THEN Shown(row, mono) <= s + w
         ELSE /\ Shown(row, mono) <= Duration + s
              /\ mono + Shown(row, mono) <= Duration + s + w
  BY ShownBounds
<1>3. /\ next \in NatRow /\ next.shown = Shown(row, mono)
      /\ next.kind = row.kind /\ next.status = status
      /\ next.base = 0 /\ next.at = 0 /\ next.anchor = 0
  BY <1>1, <1>2, ShowingIs DEF Halted, NatRow, Statuses
<1> HIDE DEF next
<1>4. Held(next, s, w, mono)
  BY <1>1, <1>2, <1>3 DEF Held, Waiting, Stopwatch
<1>5. Kept(next, s, w, mono)
  BY <1>3, <1>4, ClockConstants DEF Kept
<1>6. Fit(next, s, w, mono) /\ Shown(next, mono) = Shown(row, mono)
  BY <1>3, <1>4, <1>5 DEF Fit, Live, Running, Waiting, Shown
<1> QED
  BY <1>3, <1>5, <1>6 DEF next

LEMMA ResumedFit ==
  ASSUME NEW row, NEW s \in Nat, NEW w \in Times, mono \in Nat, mono <= s + w,
         Kept(row, s, w, mono), row.status = "paused"
  PROVE  LET next == Resumed(row) IN
         /\ Fit(next, s, w, mono) /\ Running(next)
         /\ next.kind = row.kind
         /\ Shown(next, mono) = Shown(row, mono)
<1> DEFINE next == Resumed(row)
<1>1. row \in NatRow /\ row.kind # "none" /\ w \in Nat
  BY ClockConstants DEF Kept, Held, NoRow
<1>2. /\ next \in NatRow /\ next.shown = row.shown
      /\ next.kind = row.kind /\ next.status = "running" /\ next.anchor = row.anchor
      /\ Stopwatch(row) => next.base = row.shown /\ next.at = mono
      /\ ~Stopwatch(row) => next.base = row.base /\ next.at = mono + row.shown
  <2>1. mono + row.shown \in Nat /\ "running" \in Statuses
    BY <1>1 DEF NatRow, Statuses
  <2>2. CASE Stopwatch(row)
    BY <1>1, <2>1, <2>2 DEF Resumed, NatRow
  <2>3. CASE ~Stopwatch(row)
    BY <1>1, <2>1, <2>3 DEF Resumed, NatRow
  <2> QED
    BY <2>2, <2>3
<1> HIDE DEF next
<1>3. Held(next, s, w, mono) /\ Running(next)
  BY <1>1, <1>2 DEF Kept, Held, Waiting, Running, Stopwatch
<1>4. Live(next, s, w, mono)
  <2>1. row.shown \in Nat /\ ~Waiting(next)
    BY <1>1, <1>2 DEF NatRow, Waiting
  <2>2. CASE Stopwatch(row)
    <3>1. row.shown <= s + w
      BY <2>2 DEF Kept, Held
    <3>2. next.at <= mono /\ next.base + mono <= s + w + next.at
      BY <1>1, <1>2, <2>1, <2>2, <3>1
    <3> QED
      BY <1>2, <2>1, <2>2, <3>2 DEF Live, Stopwatch
  <2>3. CASE ~Stopwatch(row)
    <3>1. row.shown <= Duration + s /\ mono + row.shown <= Duration + s + w
      BY <2>3 DEF Kept, Held
    <3>2. next.at <= mono + Duration + s /\ next.at <= Duration + s + w
      BY <1>1, <1>2, <2>1, <2>3, <3>1, ClockConstants
    <3> QED
      BY <1>2, <2>1, <2>3, <3>2 DEF Live, Stopwatch
  <2> QED
    BY <2>2, <2>3
<1>5. Shown(next, mono) = Shown(row, mono)
  BY <1>1, <1>2 DEF Shown, Running, Stopwatch, Monus, NatRow
<1> QED
  BY <1>2, <1>3, <1>4, <1>5 DEF next, Fit

LEMMA CreatedFit ==
  ASSUME NEW kind \in Kinds, NEW s \in Nat, NEW w \in Times, mono \in Nat,
         mono <= s + w
  PROVE  LET next == [NoRow EXCEPT !.kind = kind, !.status = "running",
                        !.at = IF kind = "stopwatch" THEN mono ELSE mono + Duration]
         IN Fit(next, s, w, mono) /\ Running(next) /\ Truth(next, mono, 0)
<1> DEFINE next == [NoRow EXCEPT !.kind = kind, !.status = "running",
                      !.at = IF kind = "stopwatch" THEN mono ELSE mono + Duration]
<1>1. /\ next \in NatRow /\ next.kind = kind /\ next.status = "running"
      /\ next.shown = 0 /\ next.base = 0 /\ next.anchor = 0
      /\ next.at = IF kind = "stopwatch" THEN mono ELSE mono + Duration
      /\ w \in Nat
  <2>1. mono + Duration \in Nat /\ "running" \in Statuses /\ w \in Nat
    BY ClockConstants DEF Statuses
  <2>2. CASE kind = "stopwatch"
    BY <2>1, <2>2 DEF NoRow, NatRow
  <2>3. CASE kind # "stopwatch"
    BY <2>1, <2>3 DEF NoRow, NatRow
  <2> QED
    BY <2>2, <2>3
<1> HIDE DEF next
<1>2. Held(next, s, w, mono) /\ Running(next) /\ ~Waiting(next)
  BY <1>1, ClockConstants DEF Held, Waiting, Running, Stopwatch, Kinds
<1>3. Live(next, s, w, mono)
  BY <1>1, <1>2, ClockConstants DEF Live, Stopwatch
<1>4. Truth(next, mono, 0)
  BY <1>1, <1>2, ClockConstants DEF Truth, Told, Shown, Stopwatch, Monus
<1> QED
  BY <1>2, <1>3, <1>4 DEF next, Fit

\* What is stored of a row that was saved
LEMMA AnchoredKept ==
  ASSUME NEW row, NEW s \in Nat, NEW w \in Times, NEW m \in Nat, NEW t \in Times,
         NEW valid \in BOOLEAN, m <= s + w, Fit(row, s, w, m),
         Running(row) /\ Stopwatch(row) => row.shown <= s + t
  PROVE  LET next == Anchored(row, t, valid) IN
         /\ Kept(next, s, w, m) /\ Live(next, s, w, m)
         /\ next.kind = row.kind /\ next.status = row.status
         /\ ~Running(row) => next = row
         /\ Shown(next, m) = Shown(row, m)
         /\ Running(row) => /\ next.shown = row.shown
                            /\ next.anchor = IF ~valid THEN 0
                                             ELSE IF Stopwatch(row) THEN t
                                             ELSE t + row.shown
<1>1. row \in NatRow /\ w \in Nat /\ t \in Nat /\ t <= Horizon
  BY ClockConstants DEF Fit, Held
<1>2. CASE ~Running(row)
  BY <1>2 DEF Anchored, Fit
<1>3. CASE Running(row)
  <2> DEFINE next == Anchored(row, t, valid)
  <2>1. /\ next \in NatRow /\ next.kind = row.kind /\ next.status = row.status
        /\ next.base = row.base /\ next.at = row.at /\ next.shown = row.shown
        /\ next.anchor = IF ~valid THEN 0 ELSE IF Stopwatch(row) THEN t
                         ELSE t + row.shown
    BY <1>1, <1>3 DEF Anchored, NatRow
  <2> HIDE DEF next
  <2>2. Held(next, s, w, m)
    BY <1>3, <2>1 DEF Fit, Held, Waiting, Running, Stopwatch, NoRow
  <2>3. Live(next, s, w, m)
    BY <1>3, <2>1 DEF Fit, Live, Waiting, Running, Stopwatch
  <2>4. Kept(next, s, w, m)
    <3>1. row.shown \in Nat /\ row.base \in Nat /\ row.at \in Nat
          /\ w >= 1 /\ w <= Horizon /\ Horizon \in Nat
      BY <1>1, ClockConstants DEF NatRow
    <3>2. CASE Stopwatch(row)
      <4>1. row.at <= m /\ row.base + m <= s + w + row.at /\ row.shown <= s + t
        BY <1>3, <3>2 DEF Fit, Live
      <4>2. row.base <= s + Horizon /\ row.at <= Duration + s + Horizon
        BY <1>1, <3>1, <4>1, ClockConstants
      <4>3. next.anchor <= Duration + s + Horizon
            /\ (next.anchor # 0 => row.shown <= s + next.anchor)
        BY <1>1, <2>1, <3>1, <3>2, <4>1, ClockConstants
      <4> QED
        BY <2>1, <2>2, <3>2, <4>2, <4>3 DEF Kept, Stopwatch
    <3>3. CASE ~Stopwatch(row)
      <4>1. row.at <= Duration + s + w /\ row.base = 0 /\ row.shown <= Duration + s
        BY <1>3, <3>3 DEF Fit, Live, Held
      <4>2. t + row.shown <= Duration + s + Horizon
            /\ row.at <= Duration + s + Horizon /\ row.base <= s + Horizon
        BY <1>1, <3>1, <4>1, ClockConstants
      <4>3. next.anchor <= Duration + s + Horizon
        BY <1>1, <2>1, <3>1, <3>3, <4>2, ClockConstants
      <4> QED
        BY <2>1, <2>2, <3>3, <4>2, <4>3 DEF Kept, Stopwatch
    <3> QED
      BY <3>2, <3>3
  <2>5. Shown(next, m) = Shown(row, m)
    BY <1>3, <2>1 DEF Shown, Running, Stopwatch
  <2> QED
    BY <1>3, <2>1, <2>3, <2>4, <2>5 DEF next
<1> QED
  BY <1>2, <1>3

(***************************************************************************)
(* Timers: the rows that the service works with once it has loaded them    *)
(***************************************************************************)
LEMMA Now ==
  ASSUME ClockInv
  PROVE  /\ Spent \in Nat /\ Spent <= Horizon * MaxMoves
         /\ Horizon * (moves + 1) = Spent + Horizon
         /\ clock.wall \in Times /\ clock.wall \in Nat /\ clock.wall <= Horizon
         /\ clock.valid \in BOOLEAN /\ clock.generation \in Nat /\ moves \in Nat
         /\ mono \in Nat /\ mono <= Spent + clock.wall
         /\ step \in Nat /\ step <= clock.generation
         /\ tick.step \in Nat /\ tick.step <= clock.generation
         /\ tick.wall \in 0..Horizon
<1>1. moves \in 0..MaxMoves /\ clock.wall \in Times /\ clock.valid \in BOOLEAN
      /\ clock.generation \in 0..MaxMoves
  BY DEF ClockInv, ClockType
<1>2. Spent \in Nat /\ Spent <= Horizon * MaxMoves
      /\ Horizon * (moves + 1) = Spent + Horizon
  BY <1>1, SpentCounts DEF Spent
<1>3. tick.step \in 0..clock.generation /\ tick.wall \in 0..Horizon
  BY DEF ClockInv
<1> QED
  BY <1>1, <1>2, <1>3, ClockConstants DEF ClockInv

LEMMA Presented ==
  ASSUME TimerInv, NEW i \in Ids
  PROVE  /\ Kept(Present[i], Spent, clock.wall, mono)
         /\ Live(Present[i], Spent, clock.wall, mono)
         /\ sure[i] => Truth(Present[i], mono, ran[i]) /\ Like(Present[i], stored[i])
         /\ Active(Present[i]) <=> Active(stored[i])
<1>0. /\ Spent \in Nat /\ clock.wall \in Times /\ clock.wall \in 0..Horizon
      /\ mono \in Nat /\ mono <= Spent + clock.wall /\ Horizon \in Nat
  BY Now, ClockConstants DEF TimerInv
<1>1. CASE loaded
  BY <1>1 DEF Present, TimerInv, RowsInv, TimeInv, ChimeInv
<1>2. CASE ~loaded
  <2> DEFINE row == stored[i]
             next == Present[i]
  <2>1. next = Recovered(row)
    BY <1>2 DEF Present
  <2>2. Kept(row, Spent, clock.wall, mono) /\ Awaited(row, Spent, clock.wall, mono)
    BY <1>2 DEF TimerInv, RowsInv
  <2>3. sure[i] => /\ ~Waiting(row)
                   /\ ~Running(row) => Truth(row, mono, ran[i])
                   /\ Running(row) => /\ row.anchor # 0 /\ clock.valid
                                      /\ Matches(row, clock.wall, ran[i])
    BY <1>2 DEF TimerInv, TimeInv, AnchorInv
  <2>4. row \in NatRow /\ (Pending(row) => row.kind # "none")
        /\ (Waiting(row) => row.anchor # 0)
    BY <2>2 DEF Kept, Held, Pending, Running, Waiting, NoRow
  <2> HIDE DEF row, next
  <2>5. CASE ~Pending(row)
    <3>1. next = row
      BY <2>1, <2>5 DEF Recovered, Pending
    <3> QED
      BY <2>2, <2>3, <2>5, <3>1 DEF Live, Pending, Like, row, next
  <2>6. CASE Pending(row) /\ row.anchor = 0
    <3>1. next = [row EXCEPT !.status = "paused", !.base = 0, !.at = 0]
      BY <2>1, <2>6 DEF Recovered, Pending
    <3>2. /\ next \in NatRow /\ next.kind = row.kind /\ next.status = "paused"
          /\ next.base = 0 /\ next.at = 0 /\ next.anchor = row.anchor
          /\ next.shown = row.shown
      BY <2>4, <3>1 DEF NatRow, Statuses
    <3>3. Kept(next, Spent, clock.wall, mono)
      BY <1>0, <2>2, <2>4, <2>6, <3>2 DEF Kept, Held, Waiting, Stopwatch
    <3>4. Live(next, Spent, clock.wall, mono)
      BY <3>2 DEF Live, Waiting, Running
    <3>5. ~sure[i]
      BY <2>3, <2>6 DEF Pending
    <3>6. Active(next) /\ Active(row)
      BY <2>6, <3>2 DEF Active, Pending, Running, Waiting, Statuses
    <3> QED
      BY <3>3, <3>4, <3>5, <3>6 DEF row, next
  <2>7. CASE Pending(row) /\ row.anchor # 0 /\ clock.valid
    <3>1. next = PickedUp(row, clock.wall)
      BY <2>1, <2>7 DEF Recovered, Pending
    <3>2. /\ Kept(next, Spent, clock.wall, mono) /\ Live(next, Spent, clock.wall, mono)
          /\ next.kind = row.kind /\ next.status = row.status
          /\ Running(row) =>
               Shown(next, mono) = IF Stopwatch(row)
                                   THEN row.shown + Monus(clock.wall, row.anchor)
                                   ELSE Monus(row.anchor, clock.wall)
      BY <1>0, <2>2, <2>7, <3>1, Picked
    <3>3. Active(next) <=> Active(row)
      BY <3>2 DEF Active
    <3>4. ASSUME sure[i] PROVE Truth(next, mono, ran[i]) /\ Like(next, row)
      <4>1. Running(row) /\ Matches(row, clock.wall, ran[i])
        BY <2>3, <2>7, <3>4 DEF Pending
      <4>2. row.shown \in Nat /\ row.anchor \in Nat /\ clock.wall \in Nat
        BY <1>0, <2>4 DEF NatRow
      <4>3. Told(next, mono, ran[i])
        BY <3>2, <4>1, <4>2 DEF Told, Matches, Monus, Stopwatch
      <4> QED
        BY <3>2, <4>1, <4>3 DEF Truth, Like, Running, Waiting
    <3> QED
      BY <3>2, <3>3, <3>4 DEF row, next
  <2>8. CASE Pending(row) /\ row.anchor # 0 /\ ~clock.valid
    <3>1. next = [row EXCEPT !.status = "waiting-clock", !.base = 0, !.at = 0]
      BY <2>1, <2>8 DEF Recovered, Pending
    <3>2. /\ next \in NatRow /\ next.kind = row.kind /\ next.status = "waiting-clock"
          /\ next.base = 0 /\ next.at = 0 /\ next.anchor = row.anchor
          /\ next.shown = row.shown
      BY <2>4, <3>1 DEF NatRow, Statuses
    <3>3. Kept(next, Spent, clock.wall, mono)
      <4>1. Held(next, Spent, clock.wall, mono)
        BY <2>2, <2>4, <2>8, <3>2 DEF Kept, Held, Waiting, Stopwatch
      <4>2. Stopwatch(next) => row.shown <= Spent + row.anchor
        BY <2>2, <2>8, <3>2 DEF Kept, Stopwatch
      <4>3. row.anchor <= Duration + Spent + Horizon
        BY <2>2 DEF Kept
      <4> QED
        BY <1>0, <3>2, <4>1, <4>2, <4>3, ClockConstants DEF Kept
    <3>4. Live(next, Spent, clock.wall, mono)
      BY <2>2, <2>8, <3>2 DEF Live, Awaited, Pending, Waiting, Running, Stopwatch
    <3>5. ~sure[i]
      BY <2>3, <2>8 DEF Pending
    <3>6. Active(next) /\ Active(row)
      BY <2>8, <3>2 DEF Active, Pending, Running, Waiting, Statuses
    <3> QED
      BY <3>3, <3>4, <3>5, <3>6 DEF row, next
  <2> QED
    BY <1>0, <2>5, <2>6, <2>7, <2>8, Now DEF TimerInv
<1> QED
  BY <1>1, <1>2, Now DEF TimerInv, ClockInv

LEMMA PresentRows == ASSUME TimerInv PROVE Present \in [Ids -> NatRow]
<1>1. \A i \in Ids : Present[i] \in NatRow
  BY Presented DEF Kept, Held
<1>2. CASE loaded
  BY <1>2 DEF Present, TimerInv, RowsInv
<1>3. CASE ~loaded
  BY <1>1, <1>3 DEF Present
<1> QED
  BY <1>2, <1>3

(***************************************************************************)
(* Timers: saving                                                          *)
(***************************************************************************)
\* A step that loads the rows, and changes neither the clocks nor what is stored
LEMMA LoadKeeps ==
  ASSUME TimerInv, rows' = Present, loaded' = TRUE,
         UNCHANGED <<clock, moves, mono, stored, history>>,
         \A i \in Ids : sure[i] /\ Running(stored[i]) => step' = step
  PROVE  /\ RowsInv' /\ AnchorInv'
         /\ \A i \in Ids : sure[i] =>
              Truth(rows'[i], mono, ran[i]) /\ Like(rows'[i], stored[i])
         /\ \A i \in Ids : Active(rows'[i]) <=> Active(stored[i])
<1>1. Spent' = Spent
  BY DEF Spent
<1>2. RowsInv'
  <2>1. ASSUME NEW i \in Ids
        PROVE  /\ Kept(stored[i], Spent, clock.wall, mono)
               /\ Kept(rows'[i], Spent, clock.wall, mono)
               /\ Live(rows'[i], Spent, clock.wall, mono)
    BY Presented DEF TimerInv, RowsInv
  <2>2. rows' \in [Ids -> NatRow]
    BY PresentRows
  <2> QED
    BY <1>1, <2>1, <2>2 DEF RowsInv
<1>3. AnchorInv'
  BY DEF TimerInv, AnchorInv, history
<1> QED
  BY <1>2, <1>3, Presented

LEMMA SaveKeeps ==
  ASSUME TimerInv, NEW by \in {"request", "tick"}, NEW candidate,
         NEW seen \in 0..clock.generation, NEW fresh, NEW done,
         Free, Save(by, candidate, seen, fresh, done),
         UNCHANGED <<clock, moves, mono, stored, step, history>>,
         tick' \in {tick, NoTick},
         \A i \in Ids :
           /\ Fit(candidate[i], Spent, clock.wall, mono)
           /\ IF i \in fresh THEN Truth(candidate[i], mono, 0)
              ELSE sure[i] => Truth(candidate[i], mono, ran[i])
           /\ i \in done => ~Active(candidate[i]) /\ i \notin fresh
           /\ i \in done \/ (i \notin fresh /\ Active(candidate[i]))
                => Active(Present[i])
  PROVE  TimerInv'
<1>0. /\ Spent \in Nat /\ clock.wall \in Times /\ mono \in Nat
      /\ mono <= Spent + clock.wall /\ clock.valid \in BOOLEAN
      /\ step \in 0..clock.generation
  BY Now DEF TimerInv, ClockInv
<1>1. Spent' = Spent /\ loaded' = TRUE /\ rows' = Present
  BY DEF Spent, Save
<1>2. /\ job'.by = by /\ job'.wall = clock.wall /\ job'.valid = clock.valid
      /\ job'.step = seen /\ job'.fresh = fresh /\ job'.done = done
      /\ \A i \in Ids : job'.rows[i] = Projected(candidate[i])
  BY DEF Save
<1>3. ClockInv'
  <2>1. tick' \in [pc : {"idle", "read", "asked"}, wall : 0..Horizon,
                    valid : BOOLEAN, step : 0..clock.generation]
    <3>1. 0 \in 0..clock.generation /\ 0 \in 0..Horizon
      BY Now, ClockConstants DEF TimerInv
    <3>2. tick \in [pc : {"idle", "read", "asked"}, wall : 0..Horizon,
                    valid : BOOLEAN, step : 0..clock.generation]
      BY DEF TimerInv, ClockInv
    <3>3. NoTick \in [pc : {"idle", "read", "asked"}, wall : 0..Horizon,
                      valid : BOOLEAN, step : 0..clock.generation]
      BY <3>1 DEF NoTick
    <3> QED
      BY <3>2, <3>3
  <2> QED
    BY <1>1, <1>2, <2>1 DEF TimerInv, ClockInv, ClockType, Times
<1>4. /\ RowsInv' /\ AnchorInv'
      /\ \A i \in Ids : sure[i] =>
           Truth(rows'[i], mono, ran[i]) /\ Like(rows'[i], stored[i])
      /\ \A i \in Ids : Active(rows'[i]) <=> Active(stored[i])
  BY <1>1, LoadKeeps
<1>5. ASSUME NEW i \in Ids
      PROVE  LET row == candidate[i]
                 next == Projected(row)
             IN /\ Fit(next, Spent, clock.wall, mono)
                /\ next.kind = row.kind /\ next.status = row.status
                /\ ~Running(row) => next = row
                /\ Running(row) =>
                     /\ next.shown = Shown(next, mono)
                     /\ Stopwatch(row) => next.shown <= Spent + clock.wall
                /\ Shown(next, mono) = Shown(row, mono)
  BY <1>0, ProjectedFit
<1>6. JobInv'
  <2>1. ASSUME NEW i \in Ids
        PROVE  /\ Fit(job'.rows[i], Spent, clock.wall, mono)
               /\ Running(job'.rows[i]) =>
                    /\ job'.rows[i].shown = Shown(job'.rows[i], mono)
                    /\ Stopwatch(job'.rows[i]) =>
                         job'.rows[i].shown <= Spent + job'.wall
    BY <1>2, <1>5 DEF Running, Stopwatch
  <2>2. Seen' \in 0..clock.generation
    BY <1>0, <1>2 DEF Seen
  <2> QED
    BY <1>0, <1>1, <1>2, <2>1, <2>2 DEF JobInv
<1>7. TimeInv'
  <2>1. ASSUME NEW i \in Ids, NEW time, Truth(candidate[i], mono, time)
        PROVE  Truth(job'.rows[i], mono, time)
    <3>1. ~Running(NoRow)
      BY DEF NoRow, Running
    <3> QED
      BY <1>2, <1>5, <2>1, <3>1 DEF Truth, Told, Waiting, Stopwatch
  <2> QED
    BY <1>1, <1>2, <1>4, <2>1 DEF TimerInv, TimeInv, history
<1>8. ChimeInv'
  <2>1. \A i \in Ids : Active(job'.rows[i]) <=> Active(candidate[i])
    BY <1>2, <1>5 DEF Active
  <2>2. \A i \in Ids : Active(Present[i]) => chimes[i] = 0
    BY Presented DEF TimerInv, ChimeInv
  <2> QED
    BY <1>2, <1>4, <2>1, <2>2 DEF TimerInv, ChimeInv, history
<1> QED
  BY <1>3, <1>4, <1>6, <1>7, <1>8 DEF TimerInv

\* A request changes one row.
LEMMA EditKeeps ==
  ASSUME TimerInv, NEW i \in Ids, NEW row, NEW fresh \in {{i}, {}},
         Edit(i, row, fresh),
         Fit(row, Spent, clock.wall, mono),
         IF fresh = {i} THEN Truth(row, mono, 0)
         ELSE sure[i] => Truth(row, mono, ran[i]),
         fresh = {} /\ Active(row) => Active(Present[i])
  PROVE  TimerInv'
<1> DEFINE candidate == [Present EXCEPT ![i] = row]
<1>1. Free /\ Save("request", candidate, 0, fresh, {})
      /\ UNCHANGED <<clock, moves, mono, stored, tick, step, history>>
  BY DEF Edit
<1>2. 0 \in 0..clock.generation
  BY Now DEF TimerInv
<1>3. \A j \in Ids : candidate[j] = IF j = i THEN row ELSE Present[j]
  BY PresentRows
<1>4. \A j \in Ids : Fit(Present[j], Spent, clock.wall, mono)
                     /\ (sure[j] => Truth(Present[j], mono, ran[j]))
  BY Presented DEF Fit, Kept
<1> HIDE DEF candidate
<1>5. ASSUME NEW j \in Ids
      PROVE  /\ Fit(candidate[j], Spent, clock.wall, mono)
             /\ IF j \in fresh THEN Truth(candidate[j], mono, 0)
                ELSE sure[j] => Truth(candidate[j], mono, ran[j])
             /\ j \notin fresh /\ Active(candidate[j]) => Active(Present[j])
  BY <1>3, <1>4
<1> QED
  BY <1>1, <1>2, <1>5, SaveKeeps

(***************************************************************************)
(* Timers: requests and the tick                                           *)
(***************************************************************************)
LEMMA RequestKeeps == TimerInv /\ Request => TimerInv'
<1> SUFFICES ASSUME TimerInv, NEW i \in Ids,
                    Create(i) \/ Delete(i) \/ Pause(i) \/ Resume(i) \/ Lap(i)
             PROVE  TimerInv'
  BY DEF Request
<1>0. /\ Spent \in Nat /\ clock.wall \in Times /\ mono \in Nat
      /\ mono <= Spent + clock.wall /\ clock.wall \in Nat
  BY Now DEF TimerInv
<1>1. /\ Kept(Present[i], Spent, clock.wall, mono)
      /\ Held(Present[i], Spent, clock.wall, mono)
      /\ Live(Present[i], Spent, clock.wall, mono)
      /\ Fit(Present[i], Spent, clock.wall, mono)
      /\ sure[i] => Truth(Present[i], mono, ran[i])
  BY Presented DEF Kept, Fit
<1>2. CASE Create(i)
  <2>1. PICK kind \in Kinds :
          Edit(i, [NoRow EXCEPT !.kind = kind, !.status = "running",
                     !.at = IF kind = "stopwatch" THEN mono ELSE mono + Duration], {i})
    BY <1>2 DEF Create
  <2> DEFINE row == [NoRow EXCEPT !.kind = kind, !.status = "running",
                       !.at = IF kind = "stopwatch" THEN mono ELSE mono + Duration]
  <2>2. Fit(row, Spent, clock.wall, mono) /\ Truth(row, mono, 0)
    BY <1>0, CreatedFit
  <2>3. Edit(i, row, {i})
    BY <2>1
  <2> HIDE DEF row
  <2> QED
    BY <2>2, <2>3, EditKeeps
<1>3. CASE Delete(i)
  <2>1. Fit(NoRow, Spent, clock.wall, mono) /\ ~Waiting(NoRow)
    BY <1>0, NoRowKept
  <2>2. Truth(NoRow, mono, 0)
    BY <2>1 DEF Truth
  <2> QED
    BY <1>3, <2>1, <2>2, EditKeeps DEF Delete
<1>4. CASE Pause(i)
  <2> DEFINE row == Halted(Present[i], "paused")
  <2>1. Running(Present[i]) /\ Edit(i, row, {})
    BY <1>4 DEF Pause
  <2>2. /\ Fit(row, Spent, clock.wall, mono)
        /\ row.kind = Present[i].kind /\ row.status = "paused"
        /\ Shown(row, mono) = Shown(Present[i], mono)
    BY <1>0, <1>1, <2>1, HaltedKept
  <2>3. Present[i] # NoRow /\ Active(Present[i])
    BY <2>1 DEF Running, NoRow, Active, Statuses
  <2> HIDE DEF row
  <2>4. sure[i] => Truth(row, mono, ran[i])
    BY <1>1, <2>2, <2>3 DEF Truth, Told, Waiting, Stopwatch
  <2> QED
    BY <2>1, <2>2, <2>3, <2>4, EditKeeps
<1>5. CASE Resume(i)
  <2> DEFINE row == Resumed(Present[i])
  <2>1. Present[i].status = "paused" /\ Edit(i, row, {})
    BY <1>5 DEF Resume
  <2>2. /\ Fit(row, Spent, clock.wall, mono) /\ Running(row)
        /\ row.kind = Present[i].kind
        /\ Shown(row, mono) = Shown(Present[i], mono)
    BY <1>0, <1>1, <2>1, ResumedFit
  <2>3. Present[i] # NoRow /\ Active(Present[i])
    BY <2>1 DEF NoRow, Active, Statuses
  <2> HIDE DEF row
  <2>4. sure[i] => Truth(row, mono, ran[i])
    BY <1>1, <2>2, <2>3 DEF Truth, Told, Running, Waiting, Stopwatch
  <2> QED
    BY <2>1, <2>2, <2>3, <2>4, EditKeeps
<1>6. CASE Lap(i)
  BY <1>1, <1>6, EditKeeps DEF Lap
<1> QED
  BY <1>2, <1>3, <1>4, <1>5, <1>6

\* A row after a tick
LEMMA TickedFit ==
  ASSUME TimerInv, NEW i \in Ids
  PROVE  /\ Fit(Ticked(Present[i]), Spent, clock.wall, mono)
         /\ sure[i] => Truth(Ticked(Present[i]), mono, ran[i])
         /\ Active(Ticked(Present[i])) => Active(Present[i])
         /\ Over(Continued(Present[i])) =>
              ~Active(Ticked(Present[i])) /\ Active(Present[i])
<1> DEFINE row == Present[i]
           on == Continued(row)
           next == Ticked(row)
<1>0. /\ Spent \in Nat /\ clock.wall \in Times /\ mono \in Nat
      /\ mono <= Spent + clock.wall /\ tick.wall \in 0..Horizon
  BY Now DEF TimerInv
<1>1. /\ Kept(row, Spent, clock.wall, mono) /\ Live(row, Spent, clock.wall, mono)
      /\ sure[i] => Truth(row, mono, ran[i])
  BY Presented
<1> HIDE DEF row
<1>2. /\ Kept(on, Spent, clock.wall, mono) /\ Live(on, Spent, clock.wall, mono)
      /\ sure[i] => Truth(on, mono, ran[i])
      /\ Active(on) <=> Active(row)
  <2>1. CASE ~(Waiting(row) /\ tick.valid)
    BY <1>1, <2>1 DEF Continued
  <2>2. CASE Waiting(row) /\ tick.valid
    <3> DEFINE running == [row EXCEPT !.status = "running"]
    <3>1. row \in NatRow /\ row.anchor # 0 /\ row.kind # "none"
          /\ Awaited(row, Spent, clock.wall, mono)
      BY <1>1, <2>2 DEF Kept, Held, Live, Waiting, NoRow
    <3>2. /\ running \in NatRow /\ running.kind = row.kind
          /\ running.status = "running" /\ running.shown = row.shown
          /\ running.base = row.base /\ running.at = row.at
          /\ running.anchor = row.anchor
      BY <3>1 DEF NatRow, Statuses
    <3>3. on = PickedUp(running, tick.wall)
      BY <2>2 DEF Continued
    <3> HIDE DEF running, on
    <3>4. Kept(running, Spent, clock.wall, mono) /\ Pending(running)
          /\ Awaited(running, Spent, clock.wall, mono)
      <4>1. Held(running, Spent, clock.wall, mono) /\ Pending(running) /\ Pending(row)
        BY <1>1, <2>2, <3>1, <3>2 DEF Kept, Held, Pending, Running, Waiting, Stopwatch
      <4>2. Awaited(running, Spent, clock.wall, mono)
        BY <3>1, <3>2, <4>1 DEF Awaited, Stopwatch
      <4> QED
        BY <1>1, <3>2, <4>1, <4>2 DEF Kept, Stopwatch
    <3>5. /\ Kept(on, Spent, clock.wall, mono) /\ Live(on, Spent, clock.wall, mono)
          /\ on.status = "running"
      BY <1>0, <3>1, <3>2, <3>3, <3>4, Picked
    <3>6. ~sure[i]
      BY <1>1, <2>2 DEF Truth
    <3>7. Active(on) /\ Active(row)
      BY <2>2, <3>5 DEF Active, Waiting, Statuses
    <3> QED
      BY <3>5, <3>6, <3>7
  <2> QED
    BY <2>1, <2>2
<1>3. next = IF Over(on) THEN Halted(on, "finished") ELSE on
  BY DEF Ticked
<1> HIDE DEF on, next
<1>4. CASE ~Over(on)
  BY <1>2, <1>3, <1>4 DEF Fit, Kept, row, on, next
<1>5. CASE Over(on)
  <2>1. Running(on) /\ ~Stopwatch(on) /\ on # NoRow /\ Active(on)
    BY <1>5 DEF Over, Running, NoRow, Active, Statuses
  <2>2. /\ Fit(next, Spent, clock.wall, mono)
        /\ next.kind = on.kind /\ next.status = "finished"
        /\ Shown(next, mono) = Shown(on, mono)
    BY <1>0, <1>2, <1>3, <1>5, <2>1, HaltedKept DEF Kept
  <2>3. sure[i] => Truth(next, mono, ran[i])
    BY <1>2, <2>1, <2>2 DEF Truth, Told, Waiting, Stopwatch
  <2>4. ~Active(next)
    BY <2>2 DEF Active
  <2> QED
    BY <1>2, <2>1, <2>2, <2>3, <2>4 DEF row, on, next
<1> QED
  BY <1>4, <1>5

LEMMA TickKeeps == TimerInv /\ Tick => TimerInv'
<1> SUFFICES ASSUME TimerInv, Tick PROVE TimerInv'
  OBVIOUS
<1>0. /\ clock.valid \in BOOLEAN /\ clock.generation \in Nat
      /\ clock.wall \in 0..Horizon /\ tick.step \in 0..clock.generation
      /\ 0 \in 0..clock.generation /\ 0 \in 0..Horizon
      /\ tick \in [pc : {"idle", "read", "asked"}, wall : 0..Horizon,
                   valid : BOOLEAN, step : 0..clock.generation]
  BY Now, ClockConstants DEF TimerInv, ClockInv
<1>1. CASE TickRead \/ TickAsk
  <2>1. UNCHANGED <<clock, moves, mono, stored, rows, loaded, job, step, edits,
                    history>>
    BY <1>1 DEF TickRead, TickAsk
  <2>2. tick' \in [pc : {"idle", "read", "asked"}, wall : 0..Horizon,
                   valid : BOOLEAN, step : 0..clock.generation]
    <3>1. clock.generation \in 0..clock.generation
      BY <1>0
    <3> QED
      BY <1>0, <1>1, <3>1 DEF TickRead, TickAsk, NoTick
  <2>3. ClockInv'
    BY <2>1, <2>2 DEF TimerInv, ClockInv, ClockType, Times, Spent
  <2>4. Spent' = Spent /\ Seen' = Seen /\ Free' = Free
    BY <2>1 DEF Spent, Seen, Free
  <2>5. RowsInv' /\ JobInv'
    BY <2>1, <2>4 DEF TimerInv, RowsInv, JobInv
  <2>6. TimeInv' /\ AnchorInv' /\ ChimeInv'
    BY <2>1, <2>4 DEF TimerInv, TimeInv, AnchorInv, ChimeInv, history
  <2> QED
    BY <2>3, <2>5, <2>6 DEF TimerInv
<1>2. CASE TickNothing
  <2>1. /\ rows' = Present /\ loaded' = TRUE /\ step' = tick.step /\ tick' = NoTick
        /\ Free /\ \A i \in Ids : ~Due(Present[i])
        /\ UNCHANGED <<clock, moves, mono, stored, job, edits, history>>
    BY <1>2 DEF TickNothing
  <2>2. ASSUME NEW i \in Ids, sure[i], Running(stored[i]) PROVE step' = step
    <3>1. Running(Present[i])
      BY <2>2, Presented DEF Like, Running
    <3> QED
      BY <2>1, <3>1 DEF Due
  <2>3. /\ RowsInv' /\ AnchorInv'
        /\ \A i \in Ids : sure[i] =>
             Truth(rows'[i], mono, ran[i]) /\ Like(rows'[i], stored[i])
        /\ \A i \in Ids : Active(rows'[i]) <=> Active(stored[i])
    BY <2>1, <2>2, LoadKeeps
  <2>4. NoTick \in [pc : {"idle", "read", "asked"}, wall : 0..Horizon,
                    valid : BOOLEAN, step : 0..clock.generation]
    BY <1>0 DEF NoTick
  <2>5. ClockInv'
    BY <1>0, <2>1, <2>4 DEF TimerInv, ClockInv, ClockType, Times, Spent
  <2>6. JobInv' /\ TimeInv' /\ ChimeInv'
    BY <2>1, <2>3 DEF TimerInv, JobInv, TimeInv, ChimeInv, Free, history
  <2> QED
    BY <2>3, <2>5, <2>6 DEF TimerInv
<1>3. CASE TickSave
  <2> DEFINE candidate == [i \in Ids |-> Ticked(Present[i])]
             done == {i \in Ids : Over(Continued(Present[i]))}
  <2>1. /\ Free /\ Save("tick", candidate, tick.step, {}, done) /\ tick' = NoTick
        /\ UNCHANGED <<clock, moves, mono, stored, step, history>>
    BY <1>3 DEF TickSave
  <2>2. \A i \in Ids :
          /\ Fit(candidate[i], Spent, clock.wall, mono)
          /\ sure[i] => Truth(candidate[i], mono, ran[i])
          /\ i \in done => ~Active(candidate[i])
          /\ i \in done \/ Active(candidate[i]) => Active(Present[i])
    BY TickedFit
  <2> HIDE DEF candidate, done
  <2> QED
    BY <1>0, <2>1, <2>2, SaveKeeps
<1> QED
  BY <1>1, <1>2, <1>3 DEF Tick

(***************************************************************************)
(* Timers: what is written, and what is not                                *)
(***************************************************************************)
LEMMA WrittenKeeps == TimerInv /\ Written => TimerInv'
<1> SUFFICES ASSUME TimerInv, Written PROVE TimerInv'
  OBVIOUS
<1>0. /\ Spent \in Nat /\ clock.wall \in Times /\ clock.wall \in Nat /\ mono \in Nat
      /\ mono <= Spent + clock.wall /\ clock.valid \in BOOLEAN
  BY Now DEF TimerInv
<1>1. /\ ~Free /\ step' = Seen /\ job' = NoJob /\ Free'
      /\ ran' = [i \in Ids |-> IF i \in job.fresh THEN 0 ELSE ran[i]]
      /\ sure' = [i \in Ids |-> sure[i] \/ i \in job.fresh]
      /\ chimes' = [i \in Ids |-> IF i \in job.fresh THEN 0
                                  ELSE IF i \in job.done THEN chimes[i] + 1
                                  ELSE chimes[i]]
      /\ rows' = stored'
      /\ UNCHANGED <<clock, moves, mono, loaded, tick, edits>>
  BY DEF Written, Heard, Free, NoJob
<1>2. /\ loaded /\ job.wall \in Times /\ job.valid \in BOOLEAN
      /\ job.valid => clock.valid
      /\ Seen \in 0..clock.generation
      /\ Seen = clock.generation => job.wall = clock.wall
  BY <1>1 DEF TimerInv, JobInv
<1>3. PICK valid \in BOOLEAN :
        /\ valid => clock.valid
        /\ stored' = [i \in Ids |-> Anchored(job.rows[i], job.wall, valid)]
  BY <1>0, <1>2 DEF Written
<1>4. ASSUME NEW i \in Ids
      PROVE  /\ Fit(job.rows[i], Spent, clock.wall, mono)
             /\ Running(job.rows[i]) =>
                  /\ job.rows[i].shown = Shown(job.rows[i], mono)
                  /\ Stopwatch(job.rows[i]) => job.rows[i].shown <= Spent + job.wall
  BY <1>1 DEF TimerInv, JobInv
<1>5. ASSUME NEW i \in Ids
      PROVE  LET row == job.rows[i]
                 next == stored'[i]
             IN /\ Kept(next, Spent, clock.wall, mono)
                /\ Live(next, Spent, clock.wall, mono)
                /\ next.kind = row.kind /\ next.status = row.status
                /\ ~Running(row) => next = row
                /\ Shown(next, mono) = Shown(row, mono)
                /\ Running(row) => /\ next.shown = row.shown
                                   /\ next.anchor = IF ~valid THEN 0
                                                    ELSE IF Stopwatch(row) THEN job.wall
                                                    ELSE job.wall + row.shown
  BY <1>0, <1>2, <1>3, <1>4, AnchoredKept
<1>6. Spent' = Spent
  BY <1>1 DEF Spent
<1>7. ClockInv'
  BY <1>1, <1>2, <1>6 DEF TimerInv, ClockInv, ClockType, Times, NoJob
<1>8. RowsInv'
  <2>1. \A i \in Ids : stored'[i] \in NatRow
    BY <1>5 DEF Kept, Held
  <2>2. rows' \in [Ids -> NatRow]
    BY <1>1, <1>3, <2>1
  <2> QED
    BY <1>1, <1>2, <1>5, <1>6, <2>2 DEF RowsInv
<1>9. JobInv'
  BY <1>1 DEF JobInv
<1>10. ASSUME NEW i \in Ids, sure'[i]
       PROVE  Truth(job.rows[i], mono, ran'[i]) /\ Truth(stored'[i], mono, ran'[i])
  <2>1. Truth(job.rows[i], mono, ran'[i])
    BY <1>1, <1>10 DEF TimerInv, TimeInv
  <2>2. ~Running(NoRow)
    BY DEF Running, NoRow
  <2> QED
    BY <1>5, <2>1, <2>2 DEF Truth, Told, Waiting, Stopwatch
<1>11. TimeInv'
  <2>1. ran' \in [Ids -> Nat] /\ sure' \in [Ids -> BOOLEAN]
    <3>1. ran \in [Ids -> Nat] /\ sure \in [Ids -> BOOLEAN]
      BY DEF TimerInv, TimeInv
    <3> QED
      BY <1>1, <3>1
  <2>2. \A i \in Ids : Like(rows'[i], stored'[i])
    BY <1>1 DEF Like
  <2> QED
    BY <1>1, <1>2, <1>10, <2>1, <2>2 DEF TimeInv
<1>12. AnchorInv'
  <2> SUFFICES ASSUME NEW i \in Ids, sure'[i], Running(stored'[i]),
                      stored'[i].anchor # 0
               PROVE  /\ clock.valid
                      /\ step' = clock.generation =>
                           Matches(stored'[i], clock.wall, ran'[i])
    BY <1>1, <1>2 DEF AnchorInv
  <2>1. Running(job.rows[i]) /\ job.rows[i] # NoRow
    BY <1>5 DEF Running, NoRow
  <2>2. valid
    BY <1>5, <2>1
  <2>3. ASSUME step' = clock.generation
        PROVE  Matches(stored'[i], clock.wall, ran'[i])
    <3>1. job.wall = clock.wall
      BY <1>1, <1>2, <2>3
    <3>2. /\ job.rows[i].shown \in Nat
          /\ job.rows[i].shown = IF Stopwatch(job.rows[i]) THEN ran'[i]
                                 ELSE Monus(Duration, ran'[i])
      <4>1. job.rows[i].shown = Shown(job.rows[i], mono)
        BY <1>4, <2>1
      <4>2. job.rows[i] \in NatRow
        BY <1>4 DEF Fit, Held
      <4>3. Told(job.rows[i], mono, ran'[i])
        BY <1>10, <2>1 DEF Truth
      <4> QED
        BY <4>1, <4>2, <4>3 DEF Told, NatRow
    <3>3. stored'[i].shown = job.rows[i].shown
          /\ stored'[i].kind = job.rows[i].kind
          /\ stored'[i].anchor = IF Stopwatch(job.rows[i]) THEN clock.wall
                                 ELSE clock.wall + job.rows[i].shown
      BY <1>5, <2>1, <2>2, <3>1
    <3>4. CASE Stopwatch(job.rows[i])
      <4>1. stored'[i].anchor <= clock.wall
            /\ stored'[i].shown + (clock.wall - stored'[i].anchor) = ran'[i]
        BY <1>0, <3>2, <3>3, <3>4
      <4> QED
        BY <3>3, <3>4, <4>1 DEF Matches, Stopwatch
    <3>5. CASE ~Stopwatch(job.rows[i])
      <4>1. Monus(stored'[i].anchor, clock.wall) = job.rows[i].shown
        BY <1>0, <3>2, <3>3, <3>5 DEF Monus
      <4> QED
        BY <3>2, <3>3, <3>5, <4>1 DEF Matches, Stopwatch
    <3> QED
      BY <3>4, <3>5
  <2> QED
    BY <1>3, <2>2, <2>3
<1>13. ChimeInv'
  <2>1. \A i \in Ids : Active(stored'[i]) <=> Active(job.rows[i])
    BY <1>5 DEF Active
  <2>2. /\ chimes \in [Ids -> {0, 1}]
        /\ \A i \in Ids :
             /\ i \in job.done => ~Active(job.rows[i]) /\ i \notin job.fresh
             /\ i \in job.done \/ (i \notin job.fresh /\ Active(job.rows[i]))
                  => chimes[i] = 0
    BY <1>1 DEF TimerInv, ChimeInv
  <2>3. \A i \in Ids : chimes'[i] \in {0, 1} /\ (Active(stored'[i]) => chimes'[i] = 0)
    BY <1>1, <2>1, <2>2
  <2> QED
    BY <1>1, <2>3 DEF ChimeInv
<1> QED
  BY <1>7, <1>8, <1>9, <1>11, <1>12, <1>13 DEF TimerInv

LEMMA NotWrittenKeeps == TimerInv /\ NotWritten => TimerInv'
<1> SUFFICES ASSUME TimerInv, NotWritten PROVE TimerInv'
  OBVIOUS
<1>1. /\ job' = NoJob /\ Free' /\ ~Free /\ chimes' = [i \in Ids |-> chimes[i]]
      /\ UNCHANGED <<clock, moves, mono, stored, rows, loaded, tick, step, edits,
                     ran, sure>>
  BY DEF NotWritten, Heard, Free, NoJob
<1>2. chimes' = chimes
  BY <1>1 DEF TimerInv, ChimeInv
<1>3. Spent' = Spent
  BY <1>1 DEF Spent
<1>4. ClockInv'
  BY <1>1, <1>3 DEF TimerInv, ClockInv, ClockType, Times, NoJob
<1>5. RowsInv' /\ JobInv'
  BY <1>1, <1>3 DEF TimerInv, RowsInv, JobInv
<1>6. TimeInv' /\ AnchorInv' /\ ChimeInv'
  BY <1>1, <1>2 DEF TimerInv, TimeInv, AnchorInv, ChimeInv
<1> QED
  BY <1>4, <1>5, <1>6 DEF TimerInv

(***************************************************************************)
(* Timers: the clocks                                                      *)
(***************************************************************************)
LEMMA PassesKeeps == TimerInv /\ TimePasses => TimerInv'
<1> SUFFICES ASSUME TimerInv, TimePasses PROVE TimerInv'
  OBVIOUS
<1>0. /\ Spent \in Nat /\ clock.wall \in Times /\ clock.wall \in Nat /\ mono \in Nat
      /\ mono <= Spent + clock.wall
  BY Now DEF TimerInv
<1>1. /\ Free /\ tick.pc = "idle" /\ clock.wall < Horizon
      /\ clock' = [clock EXCEPT !.wall = @ + 1] /\ moves' = moves /\ mono' = mono + 1
      /\ ran' = [i \in Ids |-> IF sure[i] /\ Running(Present[i]) THEN ran[i] + 1
                               ELSE ran[i]]
      /\ UNCHANGED <<service, sure, chimes>>
  BY DEF TimePasses, Passes
<1>2. /\ ClockType' /\ clock'.wall = clock.wall + 1
      /\ clock'.valid = clock.valid /\ clock'.generation = clock.generation
  <2>1. clock \in [wall : Times, valid : BOOLEAN, generation : 0..MaxMoves,
                   before : 0..Horizon] /\ moves \in 0..MaxMoves
    BY DEF TimerInv, ClockInv, ClockType
  <2>2. clock.wall + 1 \in Times
    BY <1>0, <1>1, ClockConstants DEF Times
  <2>3. clock'.wall = clock.wall + 1
        /\ clock' \in [wall : Times, valid : BOOLEAN, generation : 0..MaxMoves,
                       before : 0..Horizon]
        /\ clock'.valid = clock.valid /\ clock'.generation = clock.generation
    BY <1>1, <2>1, <2>2
  <2> QED
    BY <1>1, <2>1, <2>3 DEF ClockType, Times
<1>3. Spent' = Spent /\ mono' \in Nat /\ mono' <= Spent + clock'.wall
  BY <1>0, <1>1, <1>2 DEF Spent
<1>4. ClockInv'
  BY <1>1, <1>2, <1>3 DEF TimerInv, ClockInv, service
<1>5. RowsInv'
  <2>1. ASSUME NEW i \in Ids
        PROVE  /\ Kept(stored[i], Spent, clock.wall, mono) /\ stored[i] \in NatRow
               /\ Kept(rows[i], Spent, clock.wall, mono) /\ rows[i] \in NatRow
               /\ IF loaded THEN Live(rows[i], Spent, clock.wall, mono)
                  ELSE Awaited(stored[i], Spent, clock.wall, mono) /\ rows[i] = NoRow
    BY DEF TimerInv, RowsInv, Kept, Held
  <2>2. ASSUME NEW i \in Ids
        PROVE  /\ Kept(stored[i], Spent, clock.wall + 1, mono + 1)
               /\ Kept(rows[i], Spent, clock.wall + 1, mono + 1)
               /\ IF loaded THEN Live(rows[i], Spent, clock.wall + 1, mono + 1)
                  ELSE /\ Awaited(stored[i], Spent, clock.wall + 1, mono + 1)
                       /\ rows[i] = NoRow
    BY <1>0, <2>1, RowPasses
  <2> QED
    BY <1>1, <1>2, <1>3, <2>2 DEF RowsInv, TimerInv, service
<1>6. JobInv'
  BY <1>1 DEF JobInv, Free, service
<1>7. ASSUME NEW row \in NatRow, NEW time \in Nat, Live(row, Spent, clock.wall, mono),
             Truth(row, mono, time)
      PROVE  Truth(row, mono + 1, IF Running(row) THEN time + 1 ELSE time)
  <2>1. CASE ~Running(row)
    BY <1>7, <2>1 DEF Truth, Told, Shown
  <2>2. CASE Running(row) /\ Stopwatch(row)
    <3>1. row.at <= mono /\ row.at \in Nat /\ row.base \in Nat /\ row # NoRow
      BY <1>7, <2>2 DEF Live, NatRow, Running, NoRow
    <3>2. row.base + Monus(mono, row.at) = time
      BY <1>7, <2>2, <3>1 DEF Truth, Told, Shown
    <3>3. row.base + Monus(mono + 1, row.at) = time + 1
      BY <1>0, <3>1, <3>2 DEF Monus
    <3> QED
      BY <1>7, <2>2, <3>3 DEF Truth, Told, Shown
  <2>3. CASE Running(row) /\ ~Stopwatch(row)
    <3>1. row.at \in Nat /\ row # NoRow
      BY <2>3 DEF NatRow, Running, NoRow
    <3>2. Monus(row.at, mono) = Monus(Duration, time)
      BY <1>7, <2>3, <3>1 DEF Truth, Told, Shown
    <3>3. Monus(row.at, mono + 1) = Monus(Duration, time + 1)
      BY <1>0, <3>1, <3>2, ClockConstants DEF Monus
    <3> QED
      BY <1>7, <2>3, <3>3 DEF Truth, Told, Shown
  <2> QED
    BY <2>1, <2>2, <2>3
<1>8. ran \in [Ids -> Nat] /\ sure \in [Ids -> BOOLEAN]
  BY DEF TimerInv, TimeInv
<1>9. ASSUME NEW i \in Ids
      PROVE  /\ ran'[i] \in Nat
             /\ sure[i] => (Running(Present[i]) <=> Running(stored[i]))
             /\ sure[i] => ran'[i] = IF Running(stored[i]) THEN ran[i] + 1 ELSE ran[i]
  <2>1. sure[i] => (Running(Present[i]) <=> Running(stored[i]))
    BY Presented DEF Like, Running
  <2> QED
    BY <1>1, <1>8, <2>1
<1>10. TimeInv'
  <2>1. ASSUME NEW i \in Ids, sure[i], loaded
        PROVE  Truth(rows[i], mono + 1, ran'[i]) /\ Like(rows[i], stored[i])
    <3>1. /\ rows[i] \in NatRow /\ Live(rows[i], Spent, clock.wall, mono)
          /\ Truth(rows[i], mono, ran[i]) /\ Like(rows[i], stored[i])
      BY <2>1 DEF TimerInv, RowsInv, TimeInv
    <3>2. ran'[i] = IF Running(rows[i]) THEN ran[i] + 1 ELSE ran[i]
      BY <1>9, <2>1, <3>1 DEF Like, Running
    <3> QED
      BY <1>7, <1>8, <3>1, <3>2
  <2>2. ASSUME NEW i \in Ids, sure[i], ~loaded
        PROVE  /\ ~Waiting(stored[i])
               /\ ~Running(stored[i]) => Truth(stored[i], mono + 1, ran'[i])
    BY <1>9, <2>2 DEF TimerInv, TimeInv, Truth, Told, Shown
  <2>3. ran' \in [Ids -> Nat]
    BY <1>1, <1>9
  <2> QED
    BY <1>1, <1>8, <2>1, <2>2, <2>3 DEF TimeInv, Free, service
<1>11. AnchorInv'
  <2> SUFFICES ASSUME NEW i \in Ids, sure[i], Running(stored[i])
               PROVE  /\ ~loaded => stored[i].anchor # 0 /\ step = clock.generation
                      /\ stored[i].anchor # 0 =>
                           /\ clock.valid
                           /\ step = clock.generation =>
                                Matches(stored[i], clock.wall + 1, ran'[i])
    BY <1>1, <1>2 DEF AnchorInv, service
  <2>1. ran'[i] = ran[i] + 1 /\ ran[i] \in Nat
    BY <1>8, <1>9
  <2>2. stored[i].anchor \in Nat /\ stored[i].shown \in Nat
    BY DEF TimerInv, RowsInv, Kept, Held, NatRow
  <2>3. Matches(stored[i], clock.wall, ran[i])
          => Matches(stored[i], clock.wall + 1, ran[i] + 1)
    BY <1>0, <2>1, <2>2, ClockConstants DEF Matches, Monus
  <2> QED
    BY <2>1, <2>3 DEF TimerInv, AnchorInv
<1>12. ChimeInv'
  BY <1>1 DEF TimerInv, ChimeInv, Free, service
<1> QED
  BY <1>4, <1>5, <1>6, <1>10, <1>11, <1>12 DEF TimerInv

LEMMA SetKeeps == TimerInv /\ ClockSet => TimerInv'
<1> SUFFICES ASSUME TimerInv, ClockSet PROVE TimerInv'
  OBVIOUS
<1>0. /\ Spent \in Nat /\ clock.wall \in Times /\ clock.wall \in Nat /\ mono \in Nat
      /\ mono <= Spent + clock.wall /\ Horizon * (moves + 1) = Spent + Horizon
      /\ clock.wall <= Horizon
  BY Now DEF TimerInv
<1>1. PICK t \in Times : SetTo(t)
  BY DEF ClockSet, Targets
<1>2. /\ sure' = [i \in Ids |-> sure[i] /\ ~Waiting(Present[i])
                                /\ (loaded \/ ~Running(stored[i]))]
      /\ ran' = [i \in Ids |-> IF sure'[i] THEN ran[i] ELSE 0]
      /\ UNCHANGED <<mono, service, chimes>>
  BY DEF ClockSet
<1>3. /\ clock \in [wall : Times, valid : BOOLEAN, generation : 0..MaxMoves,
                    before : 0..Horizon]
      /\ moves \in Nat /\ moves < MaxMoves /\ moves' = moves + 1
      /\ clock.generation \in Nat /\ clock.generation <= moves
  BY <1>1, ClockConstants DEF TimerInv, ClockInv, ClockType, SetTo
<1>4. /\ ClockType' /\ clock'.wall \in Times /\ clock'.valid = TRUE
      /\ clock'.generation \in Nat /\ clock'.generation <= moves'
      /\ clock.generation <= clock'.generation
      /\ clock'.generation = clock.generation => clock'.wall = clock.wall
  <2>1. CASE t = clock.wall
    <3>1. clock' = [clock EXCEPT !.valid = TRUE]
      BY <1>1, <2>1 DEF SetTo
    <3>2. clock' \in [wall : Times, valid : BOOLEAN, generation : 0..MaxMoves,
                      before : 0..Horizon]
          /\ clock'.wall = clock.wall /\ clock'.valid = TRUE
          /\ clock'.generation = clock.generation
      BY <1>3, <3>1
    <3> QED
      BY <1>0, <1>3, <3>2, ClockConstants DEF ClockType, Times
  <2>2. CASE t # clock.wall
    <3>1. clock' = [wall |-> t, valid |-> TRUE, before |-> clock.wall,
                    generation |-> clock.generation + 1]
      BY <1>1, <2>2 DEF SetTo
    <3>2. clock.generation + 1 \in 0..MaxMoves /\ clock.wall \in 0..Horizon
          /\ moves' \in 0..MaxMoves
      BY <1>0, <1>3, ClockConstants
    <3>3. clock' \in [wall : Times, valid : BOOLEAN, generation : 0..MaxMoves,
                      before : 0..Horizon]
          /\ clock'.wall = t /\ clock'.valid = TRUE
          /\ clock'.generation = clock.generation + 1
      BY <1>1, <3>1, <3>2
    <3> QED
      BY <1>1, <1>3, <3>2, <3>3 DEF ClockType, Times
  <2> QED
    BY <2>1, <2>2
<1>5. Spent' = Spent + Horizon
  BY <1>0, <1>3 DEF Spent
<1>6. Horizon \in Nat /\ clock'.wall \in Nat /\ clock'.wall <= Horizon
  BY <1>4, ClockConstants
<1>7. ClockInv'
  <2>1. mono <= Spent' + clock'.wall
    BY <1>0, <1>5, <1>6
  <2>2. step \in 0..clock'.generation
    BY <1>3, <1>4 DEF TimerInv, ClockInv
  <2>3. tick \in [pc : {"idle", "read", "asked"}, wall : 0..Horizon,
                  valid : BOOLEAN, step : 0..clock'.generation]
    <3>1. 0..clock.generation \subseteq 0..clock'.generation
      BY <1>3, <1>4
    <3> QED
      BY <3>1 DEF TimerInv, ClockInv
  <2> QED
    BY <1>2, <1>4, <2>1, <2>2, <2>3 DEF TimerInv, ClockInv, service
<1>8. RowsInv'
  <2>1. ASSUME NEW i \in Ids
        PROVE  /\ Kept(stored[i], Spent, clock.wall, mono) /\ stored[i] \in NatRow
               /\ Kept(rows[i], Spent, clock.wall, mono) /\ rows[i] \in NatRow
               /\ IF loaded THEN Live(rows[i], Spent, clock.wall, mono)
                  ELSE Awaited(stored[i], Spent, clock.wall, mono) /\ rows[i] = NoRow
    BY DEF TimerInv, RowsInv, Kept, Held
  <2>2. ASSUME NEW i \in Ids
        PROVE  /\ Kept(stored[i], Spent + Horizon, clock'.wall, mono)
               /\ Kept(rows[i], Spent + Horizon, clock'.wall, mono)
               /\ IF loaded THEN Live(rows[i], Spent + Horizon, clock'.wall, mono)
                  ELSE /\ Awaited(stored[i], Spent + Horizon, clock'.wall, mono)
                       /\ rows[i] = NoRow
    BY <1>0, <1>4, <2>1, RowMoves
  <2> QED
    BY <1>2, <1>5, <2>2 DEF RowsInv, TimerInv, service
<1>9. JobInv'
  <2> SUFFICES ASSUME ~Free PROVE JobInv'
    BY <1>2 DEF JobInv, Free, service
  <2>1. /\ loaded /\ job.wall \in Times /\ job.valid \in BOOLEAN
        /\ Seen \in 0..clock.generation
        /\ Seen = clock.generation => job.wall = clock.wall
        /\ \A i \in Ids :
             /\ Fit(job.rows[i], Spent, clock.wall, mono)
             /\ Running(job.rows[i]) =>
                  /\ job.rows[i].shown = Shown(job.rows[i], mono)
                  /\ Stopwatch(job.rows[i]) => job.rows[i].shown <= Spent + job.wall
    BY DEF TimerInv, JobInv
  <2>2. Seen' = Seen /\ Seen \in 0..clock'.generation
        /\ (Seen = clock'.generation => Seen = clock.generation)
    BY <1>2, <1>3, <1>4, <2>1 DEF Seen, service
  <2>3. ASSUME NEW i \in Ids
        PROVE  /\ Fit(job.rows[i], Spent + Horizon, clock'.wall, mono)
               /\ Running(job.rows[i]) /\ Stopwatch(job.rows[i])
                    => job.rows[i].shown <= Spent + Horizon + job.wall
    <3>1. job.wall \in Nat /\ job.rows[i].shown \in Nat
      BY <2>1, ClockConstants DEF Fit, Held, NatRow
    <3> QED
      BY <1>0, <1>4, <1>6, <2>1, <3>1, RowMoves
  <2>4. Seen = clock'.generation => job.wall = clock'.wall
    BY <1>4, <2>1, <2>2
  <2> QED
    BY <1>2, <1>4, <1>5, <2>1, <2>2, <2>3, <2>4 DEF JobInv, service
<1>10. ran \in [Ids -> Nat] /\ sure \in [Ids -> BOOLEAN]
  BY DEF TimerInv, TimeInv
<1>11. ASSUME NEW i \in Ids, sure'[i]
       PROVE  sure[i] /\ ran'[i] = ran[i] /\ (loaded \/ ~Running(stored[i]))
  BY <1>2, <1>10, <1>11
<1>12. TimeInv'
  <2>1. ran' \in [Ids -> Nat] /\ sure' \in [Ids -> BOOLEAN]
    BY <1>2, <1>10
  <2> QED
    BY <1>2, <1>11, <2>1 DEF TimerInv, TimeInv, Free, service
<1>13. AnchorInv'
  <2> SUFFICES ASSUME NEW i \in Ids, sure'[i], Running(stored[i])
               PROVE  /\ loaded
                      /\ stored[i].anchor # 0 =>
                           (step = clock'.generation =>
                              Matches(stored[i], clock'.wall, ran'[i]))
    BY <1>2, <1>4 DEF AnchorInv, service
  <2>1. step = clock'.generation => step = clock.generation
    BY <1>3, <1>4 DEF TimerInv, ClockInv
  <2> QED
    BY <1>4, <1>11, <2>1 DEF TimerInv, AnchorInv
<1>14. ChimeInv'
  BY <1>2 DEF TimerInv, ChimeInv, Free, service
<1> QED
  BY <1>7, <1>8, <1>9, <1>12, <1>13, <1>14 DEF TimerInv

LEMMA RestartKeeps == TimerInv /\ Restart => TimerInv'
<1> SUFFICES ASSUME TimerInv, Restart PROVE TimerInv'
  OBVIOUS
<1>0. /\ Spent \in Nat /\ clock.wall \in Times /\ clock.wall \in Nat /\ mono \in Nat
      /\ Horizon * (moves + 1) = Spent + Horizon /\ clock.wall <= Horizon
      /\ Horizon \in Nat /\ moves \in Nat /\ MaxMoves \in Nat
  BY Now, ClockConstants DEF TimerInv
<1>1. /\ moves < MaxMoves /\ moves' = moves + 1 /\ clock'.wall \in Times
      /\ clock'.valid \in BOOLEAN /\ clock'.generation = 0 /\ ClockType'
      /\ clock'.valid => clock.wall <= clock'.wall
  <2>1. PICK trusted \in BOOLEAN :
          \E t \in IF trusted THEN {clock.wall} \cup {x \in Targets : x > clock.wall}
                   ELSE {1} :
            clock' = [wall |-> t, valid |-> trusted, generation |-> 0, before |-> 0]
    BY DEF Restart, Boots
  <2>2. PICK t \in IF trusted THEN {clock.wall} \cup {x \in Targets : x > clock.wall}
                   ELSE {1} :
          clock' = [wall |-> t, valid |-> trusted, generation |-> 0, before |-> 0]
    BY <2>1
  <2>3. t \in Times /\ (trusted => clock.wall <= t)
    BY <1>0, <2>2, ClockConstants DEF Targets, Times
  <2>4. moves < MaxMoves /\ moves' = moves + 1
    BY DEF Restart, Boots
  <2>5. 0 \in 0..MaxMoves /\ 0 \in 0..Horizon /\ moves' \in 0..MaxMoves
    BY <1>0, <2>4
  <2>6. clock' \in [wall : Times, valid : BOOLEAN, generation : 0..MaxMoves,
                    before : 0..Horizon]
    BY <2>2, <2>3, <2>5
  <2> QED
    BY <2>2, <2>3, <2>4, <2>5, <2>6 DEF ClockType, Times
<1>2. /\ mono' = 0 /\ loaded' = FALSE /\ tick' = NoTick /\ job' = NoJob /\ step' = 0
      /\ sure' = [i \in Ids |->
           sure[i] /\ (Running(stored[i]) \/ Waiting(stored[i])
                         => clock'.valid /\ Running(stored[i])
                            /\ stored[i].anchor # 0 /\ step = clock.generation)]
      /\ ran' = [i \in Ids |->
           IF ~sure'[i] THEN 0
           ELSE IF Running(stored[i]) THEN ran[i] + Distance(clock'.wall, clock.wall)
           ELSE ran[i]]
      /\ rows' = [i \in Ids |-> NoRow]
      /\ UNCHANGED <<stored, edits, chimes>>
  BY DEF Restart
<1>3. Spent' = Spent + Horizon
  BY <1>0, <1>1 DEF Spent
<1>4. clock'.wall \in Nat /\ Distance(clock'.wall, clock.wall) \in Nat
      /\ (clock'.valid =>
            clock'.wall = clock.wall + Distance(clock'.wall, clock.wall))
  BY <1>0, <1>1, ClockConstants DEF Distance
<1>5. Free' /\ job'.by = "nobody"
  BY <1>2 DEF NoJob, Free
<1>6. ClockInv'
  <2>1. NoTick \in [pc : {"idle", "read", "asked"}, wall : 0..Horizon,
                    valid : BOOLEAN, step : 0..0]
    BY <1>0 DEF NoTick
  <2>2. 0 <= Spent' + clock'.wall /\ clock'.generation <= moves'
    BY <1>0, <1>1, <1>3, <1>4
  <2>3. /\ tick' \in [pc : {"idle", "read", "asked"}, wall : 0..Horizon,
                      valid : BOOLEAN, step : 0..clock'.generation]
        /\ step' \in 0..clock'.generation
    BY <1>1, <1>2, <2>1
  <2>4. mono' \in Nat /\ mono' <= Spent' + clock'.wall
    BY <1>2, <2>2
  <2> QED
    BY <1>1, <1>2, <1>5, <2>2, <2>3, <2>4 DEF ClockInv
<1>7. RowsInv'
  <2>1. ASSUME NEW i \in Ids
        PROVE  /\ Kept(stored[i], Spent + Horizon, clock'.wall, 0)
               /\ Awaited(stored[i], Spent + Horizon, clock'.wall, 0)
    BY <1>0, <1>1, RowBoots DEF TimerInv, RowsInv
  <2>2. Kept(NoRow, Spent + Horizon, clock'.wall, 0)
    <3>1. Spent + Horizon \in Nat /\ 0 <= Spent + Horizon + clock'.wall
      BY <1>0, <1>4
    <3> QED
      BY <1>4, <3>1, NoRowKept
  <2>3. rows' \in [Ids -> NatRow]
    BY <1>2, <2>2 DEF Kept, Held
  <2> QED
    BY <1>2, <1>3, <2>1, <2>2, <2>3 DEF RowsInv
<1>8. JobInv'
  BY <1>5 DEF JobInv
<1>9. ran \in [Ids -> Nat] /\ sure \in [Ids -> BOOLEAN]
  BY DEF TimerInv, TimeInv
<1>10. ASSUME NEW i \in Ids, sure'[i]
       PROVE  /\ sure[i] /\ ~Waiting(stored[i])
              /\ Running(stored[i]) =>
                   /\ clock'.valid /\ stored[i].anchor # 0 /\ step = clock.generation
                   /\ ran'[i] = ran[i] + Distance(clock'.wall, clock.wall)
              /\ ~Running(stored[i]) => ran'[i] = ran[i]
  BY <1>2, <1>9, <1>10 DEF Running, Waiting
<1>11. TimeInv'
  <2>1. ran' \in [Ids -> Nat] /\ sure' \in [Ids -> BOOLEAN]
    BY <1>1, <1>2, <1>4, <1>9
  <2>2. ASSUME NEW i \in Ids, sure'[i], ~Running(stored[i])
        PROVE  Truth(stored[i], 0, ran'[i])
    <3>1. Truth(stored[i], mono, ran[i])
      BY <1>10, <2>2 DEF TimerInv, TimeInv, Like
    <3> QED
      BY <1>10, <2>2, <3>1 DEF Truth, Told, Shown
  <2> QED
    BY <1>2, <1>5, <1>10, <2>1, <2>2 DEF TimeInv
<1>12. AnchorInv'
  <2> SUFFICES ASSUME NEW i \in Ids, sure'[i], Running(stored[i])
               PROVE  /\ stored[i].anchor # 0 /\ clock'.valid
                      /\ Matches(stored[i], clock'.wall, ran'[i])
    BY <1>1, <1>2 DEF AnchorInv
  <2>1. /\ clock'.valid /\ stored[i].anchor # 0 /\ step = clock.generation
        /\ ran'[i] = ran[i] + Distance(clock'.wall, clock.wall) /\ sure[i]
    BY <1>10
  <2>2. Matches(stored[i], clock.wall, ran[i])
    BY <2>1 DEF TimerInv, AnchorInv
  <2>3. stored[i].anchor \in Nat /\ stored[i].shown \in Nat /\ ran[i] \in Nat
    BY <1>9 DEF TimerInv, RowsInv, Kept, Held, NatRow
  <2>4. Matches(stored[i], clock'.wall, ran'[i])
    BY <1>0, <1>4, <2>1, <2>2, <2>3, ClockConstants DEF Matches, Monus
  <2> QED
    BY <2>1, <2>4
<1>13. ChimeInv'
  BY <1>2, <1>5 DEF TimerInv, ChimeInv
<1> QED
  BY <1>6, <1>7, <1>8, <1>11, <1>12, <1>13 DEF TimerInv

(***************************************************************************)
(* Timers: the invariant and the theorems                                  *)
(***************************************************************************)
LEMMA TimerInit == Init => TimerInv
<1> SUFFICES ASSUME Init PROVE TimerInv
  OBVIOUS
<1>1. /\ clock \in [wall : {1}, valid : BOOLEAN, generation : {0}, before : {0}]
      /\ moves = 0 /\ mono = 0 /\ stored = [i \in Ids |-> NoRow] /\ rows = stored
      /\ loaded = FALSE /\ tick = NoTick /\ job = NoJob /\ step = 0
      /\ ran = [i \in Ids |-> 0] /\ sure = [i \in Ids |-> TRUE]
      /\ chimes = [i \in Ids |-> 0]
  BY DEF Init, ClockInit
<1>2. /\ 1 \in Times /\ 0 \in 0..MaxMoves /\ 0 \in 0..Horizon /\ Horizon \in Nat
  BY ClockConstants DEF Times
<1>3. Spent = 0
  BY <1>1, <1>2 DEF Spent
<1>4. clock.wall = 1 /\ clock.valid \in BOOLEAN /\ clock.generation = 0 /\ ClockType
  BY <1>1, <1>2 DEF ClockType
<1>5. Free /\ job.by = "nobody"
  BY <1>1 DEF NoJob, Free
<1>6. NoTick \in [pc : {"idle", "read", "asked"}, wall : 0..Horizon,
                  valid : BOOLEAN, step : 0..0]
  BY <1>2 DEF NoTick
<1>7. ClockInv
  <2>1. /\ tick \in [pc : {"idle", "read", "asked"}, wall : 0..Horizon,
                     valid : BOOLEAN, step : 0..clock.generation]
        /\ step \in 0..clock.generation
    BY <1>1, <1>4, <1>6
  <2>2. mono \in Nat /\ mono <= Spent + clock.wall /\ clock.generation <= moves
    BY <1>1, <1>3, <1>4
  <2> QED
    BY <1>1, <1>4, <1>5, <2>1, <2>2 DEF ClockInv
<1>8. /\ Kept(NoRow, 0, 1, 0) /\ ~Running(NoRow) /\ ~Waiting(NoRow) /\ ~Active(NoRow)
      /\ NoRow \in NatRow
  BY NoRowKept DEF Kept, Held
<1>9. Awaited(NoRow, 0, 1, 0)
  BY <1>8 DEF Awaited, Pending
<1>10. RowsInv
  BY <1>1, <1>3, <1>4, <1>8, <1>9 DEF RowsInv
<1>11. JobInv
  BY <1>5 DEF JobInv
<1>12. TimeInv
  BY <1>1, <1>5, <1>8 DEF TimeInv, Truth
<1>13. AnchorInv /\ ChimeInv
  BY <1>1, <1>5, <1>8 DEF AnchorInv, ChimeInv
<1> QED
  BY <1>7, <1>10, <1>11, <1>12, <1>13 DEF TimerInv

LEMMA TimerStep == TimerInv /\ [Next]_vars => TimerInv'
<1> SUFFICES ASSUME TimerInv, [Next]_vars PROVE TimerInv'
  OBVIOUS
<1>1. CASE UNCHANGED vars
  <2>1. Spent' = Spent /\ Seen' = Seen /\ Free' = Free
    BY <1>1 DEF vars, service, Spent, Seen, Free
  <2>2. ClockInv' /\ RowsInv' /\ JobInv'
    BY <1>1, <2>1 DEF vars, service, TimerInv, ClockInv, ClockType, Times, RowsInv, JobInv
  <2>3. TimeInv' /\ AnchorInv' /\ ChimeInv'
    BY <1>1, <2>1 DEF vars, service, history, TimerInv, TimeInv, AnchorInv, ChimeInv
  <2> QED
    BY <2>2, <2>3 DEF TimerInv
<1> QED
  BY <1>1, RequestKeeps, TickKeeps, WrittenKeeps, NotWrittenKeeps, PassesKeeps, SetKeeps,
     RestartKeeps DEF Next

LEMMA TimerCorrect == Spec => []TimerInv
BY TimerInit, TimerStep, PTL DEF Spec

\* A countdown chimes once, whatever is saved, lost or picked up again.
THEOREM ChimesOnceCorrect == Spec => []ChimesOnce
<1>1. TimerInv => ChimesOnce
  <2>1. ASSUME TimerInv, NEW i \in Ids PROVE chimes[i] <= 1
    <3>1. chimes[i] \in {0, 1}
      BY <2>1 DEF TimerInv, ChimeInv
    <3> QED
      BY <3>1
  <2> QED
    BY <2>1 DEF ChimesOnce
<1> QED
  BY <1>1, TimerCorrect, PTL

\* The time of a timer is kept: what it shows is how long it has been running,
\* across pauses, steps of the clock, saves that fail and restarts with a clock
\* and a true anchor; what is stored of it would be picked up as what runs; and
\* no field of a row grows past what the clocks can have made of it.
THEOREM TimeKeptCorrect == Spec => []TimeKept
<1>1. TimerInv => TimeKept
  <2> SUFFICES ASSUME TimerInv PROVE TypeInv /\ TimeTrue /\ AnchorsTrue
    BY DEF TimeKept
  <2>0. /\ Spent \in Nat /\ Spent <= Horizon * MaxMoves /\ clock.wall \in Times
        /\ clock.wall \in Nat /\ clock.wall <= Horizon /\ mono \in Nat
        /\ mono <= Spent + clock.wall /\ clock.wall \in 0..Horizon
        /\ Horizon \in Nat /\ Duration \in Nat /\ MaxMoves \in Nat
    BY Now, ClockConstants DEF TimerInv
  <2>1. /\ Bound \in Nat /\ Horizon * MaxMoves + Horizon + Duration <= Bound
    <3> DEFINE h == Horizon * MaxMoves
               d == Duration * MaxMoves
    <3>1. h \in Nat /\ d \in Nat
      BY <2>0
    <3>2. Bound = h + d + 2 * Horizon + 2 * Duration
      BY <2>0 DEF Bound
    <3> HIDE DEF h, d
    <3>3. Bound \in Nat /\ h + Horizon + Duration <= Bound
      BY <2>0, <3>1, <3>2
    <3> QED
      BY <3>3 DEF h
  <2>2. ASSUME NEW row, Kept(row, Spent, clock.wall, mono) PROVE row \in RowType
    <3>1. row \in NatRow
      BY <2>2 DEF Kept, Held
    <3>2. /\ row.shown <= Duration + Spent + Horizon
          /\ row.base <= Duration + Spent + Horizon
          /\ row.at <= Duration + Spent + Horizon
          /\ row.anchor <= Duration + Spent + Horizon
      BY <2>0, <2>2, <3>1 DEF Kept, Held, NatRow
    <3> DEFINE h == Horizon * MaxMoves
    <3>3. h \in Nat /\ Spent <= h /\ h + Horizon + Duration <= Bound
      BY <2>0, <2>1
    <3> HIDE DEF h
    <3>4. Duration + Spent + Horizon <= Bound
      BY <2>0, <2>1, <3>3
    <3>5. ASSUME NEW n \in Nat, n <= Duration + Spent + Horizon PROVE n \in 0..Bound
      BY <2>0, <2>1, <3>4, <3>5
    <3> QED
      BY <3>1, <3>2, <3>5 DEF NatRow, RowType
  <2>3. TypeInv
    <3> DEFINE h == Horizon * MaxMoves
    <3>1. h \in Nat /\ Spent <= h /\ h + Horizon + Duration <= Bound
      BY <2>0, <2>1
    <3> HIDE DEF h
    <3>2. mono \in 0..Bound
      BY <2>0, <2>1, <3>1
    <3>3. step \in 0..MaxMoves /\ tick.step \in 0..MaxMoves
          /\ tick.pc \in {"idle", "read", "asked"}
      <4>1. clock.generation \in 0..MaxMoves /\ step \in 0..clock.generation
            /\ tick.step \in 0..clock.generation
            /\ tick.pc \in {"idle", "read", "asked"}
        BY DEF TimerInv, ClockInv, ClockType
      <4> QED
        BY <2>0, <4>1
    <3> QED
      BY <2>2, <3>2, <3>3 DEF TypeInv, TimerInv, ClockInv, RowsInv
  <2>4. TimeTrue
    <3> SUFFICES ASSUME NEW i \in Ids, sure[i], Present[i] # NoRow
                 PROVE  Showing(Present[i]) =
                          IF Stopwatch(Present[i]) THEN ran[i]
                          ELSE Monus(Duration, ran[i])
      BY DEF TimeTrue
    <3>1. Present[i] \in NatRow /\ Told(Present[i], mono, ran[i])
      BY Presented DEF Kept, Held, Truth
    <3> QED
      BY <2>0, <3>1, ShowingIs DEF Told
  <2>5. AnchorsTrue
    <3> SUFFICES ASSUME loaded, step = clock.generation, NEW i \in Ids, sure[i],
                        Running(rows[i]), stored[i].anchor # 0
                 PROVE  Showing(PickedUp(stored[i], clock.wall)) = Showing(rows[i])
      BY DEF AnchorsTrue
    <3>1. /\ Truth(rows[i], mono, ran[i]) /\ Like(rows[i], stored[i])
          /\ rows[i] \in NatRow /\ rows[i] # NoRow
          /\ Kept(stored[i], Spent, clock.wall, mono) /\ stored[i] \in NatRow
      BY DEF TimerInv, TimeInv, RowsInv, Kept, Held, Running, NoRow
    <3>2. Running(stored[i]) /\ Pending(stored[i])
      BY <3>1 DEF Like, Running, Pending
    <3>3. Matches(stored[i], clock.wall, ran[i])
      BY <3>2 DEF TimerInv, AnchorInv
    <3> DEFINE row == stored[i]
               next == PickedUp(row, clock.wall)
    <3>4. row.shown \in Nat /\ row.anchor \in Nat
      BY <3>1 DEF NatRow
    <3>5. /\ next \in NatRow
          /\ Shown(next, mono) = IF Stopwatch(row)
                                 THEN row.shown + Monus(clock.wall, row.anchor)
                                 ELSE Monus(row.anchor, clock.wall)
      <4>1. Monus(clock.wall, row.anchor) \in Nat /\ Monus(row.anchor, clock.wall) \in Nat
        BY <2>0, <3>4 DEF Monus
      <4>2. CASE Stopwatch(row)
        <5>1. row.shown + Monus(clock.wall, row.anchor) \in Nat
          BY <3>4, <4>1
        <5>2. next = [row EXCEPT !.base = row.shown + Monus(clock.wall, row.anchor),
                                 !.at = mono]
          BY <4>2 DEF PickedUp
        <5>3. next \in NatRow /\ Running(next) /\ Stopwatch(next)
              /\ next.base = row.shown + Monus(clock.wall, row.anchor)
              /\ next.at = mono
          BY <2>0, <3>1, <3>2, <4>2, <5>1, <5>2 DEF NatRow, Running, Stopwatch
        <5> HIDE DEF next, row
        <5>4. next.base + Monus(mono, next.at)
                = row.shown + Monus(clock.wall, row.anchor)
          <6>1. PICK base \in Nat : base = row.shown + Monus(clock.wall, row.anchor)
            BY <5>1
          <6>2. Monus(mono, next.at) = 0
            BY <2>0, <5>3 DEF Monus
          <6> QED
            BY <5>3, <6>1, <6>2
        <5> QED
          BY <4>2, <5>3, <5>4 DEF Shown
      <4>3. CASE ~Stopwatch(row)
        <5>1. mono + Monus(row.anchor, clock.wall) \in Nat
          BY <2>0, <4>1
        <5>2. next = [row EXCEPT !.at = mono + Monus(row.anchor, clock.wall)]
          BY <4>3 DEF PickedUp
        <5>3. next \in NatRow /\ Running(next) /\ ~Stopwatch(next)
              /\ next.at = mono + Monus(row.anchor, clock.wall)
          BY <3>1, <3>2, <4>3, <5>1, <5>2 DEF NatRow, Running, Stopwatch
        <5> HIDE DEF next, row
        <5>4. Monus(next.at, mono) = Monus(row.anchor, clock.wall)
          <6>1. next.at = mono + Monus(row.anchor, clock.wall)
            BY <5>3
          <6>2. PICK left \in Nat : left = Monus(row.anchor, clock.wall)
            BY <4>1
          <6> QED
            BY <2>0, <6>1, <6>2 DEF Monus
        <5> QED
          BY <4>3, <5>3, <5>4 DEF Shown
      <4> QED
        BY <4>2, <4>3
    <3>6. Shown(next, mono) = Shown(rows[i], mono)
      <4>1. Told(rows[i], mono, ran[i]) /\ rows[i].kind = row.kind
        BY <3>1 DEF Truth, Like
      <4>2. CASE Stopwatch(row)
        BY <2>0, <3>3, <3>4, <3>5, <4>1, <4>2 DEF Told, Matches, Stopwatch, Monus
      <4>3. CASE ~Stopwatch(row)
        BY <3>3, <3>5, <4>1, <4>3 DEF Told, Matches, Stopwatch
      <4> QED
        BY <4>2, <4>3
    <3> QED
      BY <2>0, <3>1, <3>5, <3>6, ShowingIs
  <2> QED
    BY <2>3, <2>4, <2>5
<1> QED
  BY <1>1, TimerCorrect, PTL

(***************************************************************************)
(* Alarms: occurrences                                                     *)
(***************************************************************************)
LEMMA Divided ==
  ASSUME NEW a \in Nat, NEW d \in Nat \ {0}
  PROVE  a % d \in 0..(d - 1) /\ (a \div d) \in Nat /\ a = d * (a \div d) + (a % d)
OBVIOUS

LEMMA Wider ==
  ASSUME NEW d \in Nat \ {0}, NEW p \in Nat, NEW q \in Nat, p < q
  PROVE  d * p + d <= d * q
<1>1. PICK k \in Nat : q = p + 1 + k
  <2>1. q - p - 1 \in Nat /\ q = p + 1 + (q - p - 1)
    OBVIOUS
  <2> QED BY <2>1
<1>2. d * q = d * p + d + d * k /\ d * k \in Nat /\ d * p \in Nat
  BY <1>1
<1> QED BY <1>2

LEMMA Remainder ==
  ASSUME NEW d \in Nat \ {0}, NEW q \in Nat, NEW r \in 0..(d - 1)
  PROVE  (d * q + r) % d = r
<1> DEFINE a == d * q + r
<1>1. a \in Nat /\ d * q \in Nat
  OBVIOUS
<1>2. a % d \in 0..(d - 1) /\ (a \div d) \in Nat /\ a = d * (a \div d) + (a % d)
  BY <1>1, Divided
<1> DEFINE p == a \div d
           s == a % d
<1>3. d * p \in Nat /\ d * p + s = d * q + r /\ s \in 0..(d-1) /\ p \in Nat
  BY <1>2
<1> HIDE DEF p, s
<1>4. ~(p < q)
  <2>1. p < q => d * p + d <= d * q
    BY <1>3, Wider
  <2> QED BY <1>1, <1>3, <2>1
<1>5. ~(q < p)
  <2>1. q < p => d * q + d <= d * p
    BY <1>3, Wider
  <2> QED BY <1>1, <1>3, <2>1
<1>6. p = q
  BY <1>3, <1>4, <1>5
<1>7. s = r
  BY <1>1, <1>3, <1>6
<1> QED BY <1>7 DEF s

\* ny_alarm_next has a day to choose, whatever the instant.
LEMMA Occurrence ==
  ASSUME NEW d \in Nat \ {0}, NEW after \in Nat, NEW time \in 0..(d - 1)
  PROVE  \E t \in (after + 1)..(after + d) : t % d = time
<1> DEFINE q == after \div d
           r == after % d
<1>1. q \in Nat /\ r \in 0..(d - 1) /\ after = d * q + r
  BY Divided
<1> HIDE DEF q, r
<1>2. d * q \in Nat /\ d * (q + 1) = d * q + d
  BY <1>1
<1>3. CASE r < time
  <2>1. (d * q + time) % d = time
    BY <1>1, Remainder
  <2>2. d * q + time \in (after + 1)..(after + d)
    BY <1>1, <1>2, <1>3
  <2> QED BY <2>1, <2>2
<1>4. CASE ~(r < time)
  <2>1. (d * (q + 1) + time) % d = time
    BY <1>1, Remainder
  <2>2. d * (q + 1) + time \in (after + 1)..(after + d)
    BY <1>1, <1>2, <1>4
  <2> QED BY <2>1, <2>2
<1> QED BY <1>3, <1>4

LEMMA AlarmConstants ==
  /\ Horizon \in Nat /\ Horizon >= 1 /\ MaxMoves \in Nat /\ MaxRequests \in Nat
  /\ Grace \in Nat /\ Grace >= 1 /\ Day \in Nat \ {0} /\ Frame \in Nat
  /\ Grace < Day /\ Grace < Frame
  /\ \A t \in Times : t \in Nat /\ t >= 1 /\ t <= Horizon
BY ClockAssumption, AlarmAssumption DEF Times

LEMMA NextIs ==
  ASSUME NEW row, row.time \in 0..(Day - 1), NEW after \in Nat
  PROVE  LET next == NextAt(row, after) IN
         /\ next # 0 => clock.valid /\ row.enabled
         /\ next = 0 \/ (next \in Nat /\ next > after /\ next <= after + Day)
         /\ clock.valid /\ row.enabled => next # 0
<1>1. \E t \in (after + 1)..(after + Day) : t % Day = row.time
  BY Occurrence, AlarmConstants
<1>2. CASE clock.valid /\ row.enabled
  <2>1. NextAt(row, after) \in (after + 1)..(after + Day)
    BY <1>1, <1>2 DEF NextAt
  <2> QED
    BY <1>2, <2>1, AlarmConstants
<1>3. CASE ~(clock.valid /\ row.enabled)
  BY <1>3 DEF NextAt
<1> QED
  BY <1>2, <1>3

(***************************************************************************)
(* Alarms: what requests and ticks make of a row                           *)
(***************************************************************************)
LEMMA RowIs ==
  ASSUME NEW row \in AlarmRows
  PROVE  /\ row.enabled \in BOOLEAN /\ row.once \in BOOLEAN
         /\ row.time \in 0..(Day - 1) /\ row.due \in Nat /\ row.fired \in Nat
         /\ row.due <= Horizon + Day /\ row.fired <= Horizon
         /\ row = [status |-> row.status, enabled |-> row.enabled,
                   once |-> row.once, time |-> row.time, due |-> row.due,
                   fired |-> row.fired]
         /\ row # NoAlarm => row.status \in AlarmStatuses
         /\ row = NoAlarm => row.due = 0 /\ ~row.enabled /\ row.status = "none"
<1>1. CASE row = NoAlarm
  BY <1>1, AlarmConstants DEF NoAlarm
<1>2. CASE row # NoAlarm
  <2>1. row \in [status : AlarmStatuses, enabled : BOOLEAN, once : BOOLEAN,
                 time : 0..(Day - 1), due : 0..(Horizon + Day), fired : 0..Horizon]
    BY <1>2 DEF AlarmRows
  <2> QED
    BY <1>2, <2>1, AlarmConstants
<1> QED
  BY <1>1, <1>2

LEMMA FreshRow ==
  ASSUME NEW record \in Records, clock.wall \in Times, clock.wall + Day <= Horizon + Day
  PROVE  /\ Fresh(record) \in AlarmRows
         /\ ~Ringing(Fresh(record)) /\ Fresh(record).fired = 0
         /\ Fresh(record).due = 0 \/ (Fresh(record).due > clock.wall
                                      /\ Fresh(record).enabled)
<1> DEFINE row == [status |-> "scheduled", enabled |-> record.enabled,
                   once |-> record.once, time |-> record.time,
                   due |-> 0, fired |-> 0]
<1>1. /\ record.enabled \in BOOLEAN /\ record.once \in BOOLEAN
      /\ record.time \in 0..(Day - 1)
  BY AlarmAssumption
<1>2. /\ row.enabled = record.enabled /\ row.time = record.time
      /\ row.status = "scheduled"
  OBVIOUS
<1>3. clock.wall \in Nat /\ clock.wall >= 1 /\ clock.wall <= Horizon
  BY AlarmConstants
<1> DEFINE next == NextAt(row, clock.wall)
<1>4. /\ next # 0 => row.enabled
      /\ next = 0 \/ (next \in Nat /\ next > clock.wall /\ next <= clock.wall + Day)
  BY <1>1, <1>2, <1>3, NextIs
<1>5. Fresh(record) = [row EXCEPT !.due = next]
  BY DEF Fresh
<1> HIDE DEF next
<1>6. Fresh(record) = [status |-> "scheduled", enabled |-> record.enabled,
                       once |-> record.once, time |-> record.time,
                       due |-> next, fired |-> 0]
  BY <1>5
<1>7. next \in 0..(Horizon + Day)
  BY <1>3, <1>4, AlarmConstants
<1> HIDE DEF row
<1>8. Fresh(record) \in AlarmRows
  BY <1>1, <1>6, <1>7, AlarmConstants DEF AlarmRows, AlarmStatuses
<1> QED
  BY <1>2, <1>4, <1>6, <1>8 DEF Ringing

LEMMA WithDue ==
  ASSUME NEW row \in AlarmRows, row # NoAlarm, NEW due \in 0..(Horizon + Day)
  PROVE  LET next == [row EXCEPT !.due = due] IN
         /\ next \in AlarmRows
         /\ next.status = row.status /\ next.enabled = row.enabled
         /\ next.time = row.time /\ next.fired = row.fired /\ next.due = due
BY DEF AlarmRows

LEMMA WithStatus ==
  ASSUME NEW row \in AlarmRows, row # NoAlarm, NEW status \in AlarmStatuses
  PROVE  LET next == [row EXCEPT !.status = status] IN
         /\ next \in AlarmRows
         /\ next.status = status /\ next.enabled = row.enabled
         /\ next.time = row.time /\ next.fired = row.fired /\ next.due = row.due
BY DEF AlarmRows

LEMMA FiredRow ==
  ASSUME NEW row \in AlarmRows, row # NoAlarm, alarmTick.now \in 0..Horizon,
         row.due <= alarmTick.now
  PROVE  LET next == Fired(row) IN
         /\ next \in AlarmRows /\ next # NoAlarm
         /\ next.time = row.time /\ next.fired = row.due
         /\ next.status = IF alarmTick.now - row.due <= Grace THEN "ringing"
                          ELSE "missed"
<1> DEFINE status == IF alarmTick.now - row.due <= Grace THEN "ringing" ELSE "missed"
           enabled == row.enabled /\ ~row.once
<1>1. row.due \in 0..Horizon
  BY RowIs, AlarmConstants
<1>2. /\ row \in [status : AlarmStatuses, enabled : BOOLEAN, once : BOOLEAN,
                  time : 0..(Day - 1), due : 0..(Horizon + Day), fired : 0..Horizon]
      /\ status \in AlarmStatuses /\ enabled \in BOOLEAN /\ status # "none"
  BY DEF AlarmRows, AlarmStatuses
<1>3. Fired(row) = [row EXCEPT !.fired = row.due, !.enabled = enabled, !.status = status]
  BY <1>2 DEF Fired
<1> HIDE DEF status, enabled
<1> DEFINE next == [row EXCEPT !.fired = row.due, !.enabled = enabled, !.status = status]
<1>4. /\ next \in [status : AlarmStatuses, enabled : BOOLEAN, once : BOOLEAN,
                   time : 0..(Day - 1), due : 0..(Horizon + Day), fired : 0..Horizon]
      /\ next.status = status /\ next.time = row.time /\ next.fired = row.due
  BY <1>1, <1>2
<1>5. next # NoAlarm
  BY <1>2, <1>4 DEF NoAlarm
<1> QED
  BY <1>3, <1>4, <1>5 DEF AlarmRows, status

LEMMA TickedRow ==
  ASSUME NEW row \in AlarmRows, alarmTick.now \in 0..Horizon
  PROVE  LET next == AlarmTicked(row) IN
         /\ next \in AlarmRows
         /\ ~AlarmDue(row) =>
              /\ next.due = row.due /\ next.fired = row.fired
              /\ next.enabled = row.enabled
              /\ ~Ringing(row) => next = row
              /\ Ringing(row) => ~Snoozed(next)
         /\ AlarmDue(row) =>
              /\ ~Ringing(row)
              /\ \/ next.due = 0
                 \/ next.due > alarmTick.now
                 \/ Stale(row.due) /\ Snoozed(row) /\ next.due = alarmTick.now
              /\ next.due # 0 => next.enabled \/ Snoozed(next)
              /\ \/ next.fired = row.fired
                 \/ /\ ~Stale(row.due) /\ row.due # 0
                    /\ row.due <= alarmTick.now /\ next.fired = row.due
              /\ Ringing(next) => /\ row.due # 0 /\ row.due <= alarmTick.now
                                  /\ alarmTick.now - row.due <= Grace
                                  /\ next.fired = row.due
<1> DEFINE next == AlarmTicked(row)
           now == alarmTick.now
<1>1. now \in Nat /\ now <= Horizon
  BY AlarmConstants
<1>2. CASE Ringing(row)
  <2>1. row # NoAlarm /\ ~AlarmDue(row) /\ ~Snoozed(row)
    BY <1>2 DEF NoAlarm, Ringing, AlarmDue, Waits, Snoozed
  <2>2. next = row \/ next = [row EXCEPT !.status = "missed"]
    BY <1>2 DEF AlarmTicked
  <2>3. "missed" \in AlarmStatuses
    BY DEF AlarmStatuses
  <2>4. CASE next = row
    BY <1>2, <2>1, <2>4
  <2>5. CASE next = [row EXCEPT !.status = "missed"]
    <3>1. /\ next \in AlarmRows /\ next.status = "missed"
          /\ next.enabled = row.enabled /\ next.fired = row.fired
          /\ next.due = row.due
      BY <2>1, <2>3, <2>5, WithStatus
    <3> QED
      BY <1>2, <2>1, <3>1 DEF Snoozed
  <2> QED
    BY <2>2, <2>4, <2>5
<1>3. CASE ~Ringing(row) /\ ~AlarmDue(row)
  BY <1>3 DEF AlarmTicked
<1>4. CASE AlarmDue(row)
  <2>1. ~Ringing(row) /\ row # NoAlarm /\ (row.enabled \/ Snoozed(row))
        /\ (row.due <= now \/ Stale(row.due))
    BY <1>4 DEF AlarmDue, Waits, NoAlarm, Snoozed
  <2>2. row.time \in 0..(Day - 1)
    BY RowIs
  <2>3. CASE Stale(row.due)
    <3> DEFINE due == IF Snoozed(row) THEN now ELSE NextAt(row, now)
    <3>1. next = [row EXCEPT !.due = due]
      BY <1>4, <2>1, <2>3 DEF AlarmTicked
    <3>2. /\ due \in 0..(Horizon + Day)
          /\ due = 0 \/ due > now \/ (Snoozed(row) /\ due = now)
          /\ due # 0 => row.enabled \/ Snoozed(row)
      BY <1>1, <2>2, NextIs, AlarmConstants
    <3> HIDE DEF due
    <3>3. /\ next \in AlarmRows /\ next.status = row.status
          /\ next.enabled = row.enabled /\ next.fired = row.fired /\ next.due = due
      BY <2>1, <3>1, <3>2, WithDue
    <3> HIDE DEF next
    <3>4. ~Ringing(next) /\ (Snoozed(next) <=> Snoozed(row))
      BY <2>1, <3>3 DEF Ringing, Snoozed
    <3> QED
      BY <1>4, <2>1, <2>3, <3>2, <3>3, <3>4 DEF next
  <2>4. CASE ~Stale(row.due)
    <3>1. row.due <= now
      BY <2>1, <2>4
    <3> DEFINE fired == IF row.due = 0 THEN row ELSE Fired(row)
    <3>2. /\ fired \in AlarmRows /\ fired # NoAlarm /\ fired.time = row.time
          /\ row.due = 0 => fired = row
          /\ row.due # 0 => /\ fired.fired = row.due
                            /\ fired.status = IF now - row.due <= Grace
                                              THEN "ringing" ELSE "missed"
      BY <2>1, <3>1, FiredRow
    <3>3. next = [fired EXCEPT !.due = NextAt(fired, now)]
      BY <1>4, <2>1, <2>4 DEF AlarmTicked
    <3> HIDE DEF fired
    <3> DEFINE due == NextAt(fired, now)
    <3>4. /\ due \in 0..(Horizon + Day) /\ (due = 0 \/ due > now)
          /\ due # 0 => fired.enabled
      BY <1>1, <2>2, <3>2, NextIs, AlarmConstants
    <3> HIDE DEF due
    <3>5. /\ next \in AlarmRows /\ next.status = fired.status
          /\ next.enabled = fired.enabled /\ next.fired = fired.fired
          /\ next.due = due
      BY <3>2, <3>3, <3>4, WithDue DEF due
    <3> HIDE DEF next
    <3>6. Ringing(next) => row.due # 0 /\ now - row.due <= Grace
      BY <2>1, <3>2, <3>5 DEF Ringing
    <3> QED
      BY <1>4, <2>1, <2>4, <3>1, <3>2, <3>4, <3>5, <3>6 DEF next
  <2> QED
    BY <2>3, <2>4
<1> QED
  BY <1>2, <1>3, <1>4

(***************************************************************************)
(* Alarms: the invariant and the theorems                                  *)
(***************************************************************************)
LEMMA ClockIs ==
  ASSUME AlarmTypes, TickInv
  PROVE  /\ clock.wall \in Nat /\ clock.wall >= 1 /\ clock.wall <= Horizon
         /\ clock.before \in Nat /\ clock.before <= Horizon
         /\ clock.generation \in Nat /\ clock.generation <= moves
         /\ clock.valid \in BOOLEAN
         /\ moves \in Nat /\ moves <= MaxMoves /\ alarmStep \in Nat
         /\ alarmTick.now \in Nat /\ alarmTick.now <= Horizon
         /\ alarmTick.running \in BOOLEAN
         /\ \A i \in AlarmIds : /\ alarms[i] \in AlarmRows /\ alarms[i].due \in Nat
                                /\ alarms[i].fired \in Nat
                                /\ frame[i] \in Frames
<1>1. /\ clock.wall \in Times /\ clock.before \in 0..Horizon
      /\ clock.generation \in 0..MaxMoves /\ clock.valid \in BOOLEAN
      /\ moves \in 0..MaxMoves /\ alarmStep \in 0..MaxMoves
      /\ alarmTick.now \in 0..Horizon /\ alarmTick.running \in BOOLEAN
      /\ clock.generation <= moves
  BY DEF AlarmTypes, ClockType, TickInv
<1>2. ASSUME NEW i \in AlarmIds
      PROVE  /\ alarms[i] \in AlarmRows /\ alarms[i].due \in Nat
             /\ alarms[i].fired \in Nat /\ frame[i] \in Frames
  <2>1. alarms[i] \in AlarmRows /\ frame[i] \in Frames
    BY DEF AlarmTypes
  <2> QED
    BY <2>1, RowIs
<1> QED
  BY <1>1, <1>2, AlarmConstants

LEMMA AlarmInvInit ==
  ASSUME AlarmInit
  PROVE  AlarmInv
<1>1. /\ clock \in [wall : {1}, valid : BOOLEAN, generation : {0}, before : {0}]
      /\ moves = 0 /\ alarmTick = Idle /\ alarmStep = 0 /\ sounding = FALSE
      /\ requests = 0 /\ frame = [i \in AlarmIds |-> "other"] /\ back = FALSE
  BY DEF AlarmInit, ClockInit
<1>2. clock.wall = 1 /\ clock.wall \in Times /\ clock.generation = 0 /\ clock.before = 0
  BY <1>1, AlarmConstants DEF Times
<1>3. NoAlarm \in AlarmRows
  BY DEF AlarmRows
<1>4. ASSUME NEW i \in AlarmIds
      PROVE  /\ alarms[i] \in AlarmRows /\ alarms[i].fired = 0
             /\ alarms[i].due = 0 \/ (alarms[i].due > 0 /\ alarms[i].enabled)
  <2>1. alarms[i] = NoAlarm \/ \E record \in Records : alarms[i] = Fresh(record)
    BY DEF AlarmInit
  <2>2. CASE alarms[i] = NoAlarm
    BY <1>3, <2>2 DEF NoAlarm
  <2>3. ASSUME NEW record \in Records, alarms[i] = Fresh(record)
        PROVE  /\ alarms[i] \in AlarmRows /\ alarms[i].fired = 0
               /\ alarms[i].due = 0 \/ (alarms[i].due > 0 /\ alarms[i].enabled)
    <3>1. clock.wall + Day <= Horizon + Day
      BY <1>2, AlarmConstants
    <3> QED
      BY <1>2, <2>3, <3>1, FreshRow, RowIs
  <2> QED
    BY <2>1, <2>2, <2>3
<1>5. alarms \in [AlarmIds -> AlarmRows]
  <2>1. alarms = [i \in AlarmIds |-> alarms[i]]
    BY DEF AlarmInit
  <2> QED
    BY <1>4, <2>1
<1>6. AlarmTypes
  <2>1. ClockType
    BY <1>1, AlarmConstants DEF ClockType, Times
  <2>2. frame \in [AlarmIds -> Frames]
    BY <1>1 DEF Frames
  <2>3. alarmTick.running \in BOOLEAN /\ alarmTick.now \in 0..Horizon
    BY <1>1, AlarmConstants DEF Idle
  <2>4. alarmStep \in 0..MaxMoves /\ requests \in 0..MaxRequests
    BY <1>1, AlarmConstants
  <2>5. sounding \in BOOLEAN
    BY <1>1, Zenon
  <2> QED
    BY <1>5, <2>1, <2>2, <2>3, <2>4, <2>5 DEF AlarmTypes
<1>7. TickInv
  BY <1>1, <1>2, AlarmConstants DEF TickInv, Idle
<1>8. SetInv
  BY <1>4 DEF SetInv
<1>9. FarInv
  BY <1>1 DEF FarInv
<1>10. FiredInv
  <2>1. ~alarmTick.running /\ ~Moved
    BY <1>1, <1>2 DEF Idle, Moved
  <2>2. \A i \in AlarmIds : alarms[i].due = 0 \/ alarms[i].due > alarms[i].fired
    BY <1>4
  <2> QED
    BY <1>2, <1>4, <2>1, <2>2 DEF FiredInv
<1> QED
  BY <1>6, <1>7, <1>8, <1>9, <1>10 DEF AlarmInv

\* A request that makes a row of one that is, or of none
LEMMA AlarmEditKeeps ==
  ASSUME AlarmInv, NEW i \in AlarmIds, NEW row \in AlarmRows, AlarmEdit(i, row),
         ~Ringing(row), row.due # 0 => row.enabled \/ Snoozed(row),
         row.fired = 0 \/ row.fired = alarms[i].fired,
         \/ row.due = 0
         \/ row.due > clock.wall
         \/ row.due = alarms[i].due /\ row.fired = alarms[i].fired
  PROVE  AlarmInv'
<1>1. AlarmTypes /\ TickInv /\ SetInv /\ FarInv /\ FiredInv
  BY DEF AlarmInv
<1>2. /\ requests < MaxRequests /\ requests' = requests + 1
      /\ alarms' = [alarms EXCEPT ![i] = row]
      /\ frame' = [frame EXCEPT ![i] =
                     IF alarms[i].due = row.due THEN frame[i] ELSE "own"]
      /\ clock' = clock /\ moves' = moves /\ alarmTick' = alarmTick
      /\ alarmStep' = alarmStep /\ sounding' = sounding /\ back' = back
  BY DEF AlarmEdit
<1>3. /\ alarms \in [AlarmIds -> AlarmRows] /\ frame \in [AlarmIds -> Frames]
      /\ requests \in 0..MaxRequests
  BY <1>1 DEF AlarmTypes
<1>4. ASSUME NEW j \in AlarmIds
      PROVE  /\ alarms'[j] = IF j = i THEN row ELSE alarms[j]
             /\ frame'[j] = IF j = i /\ alarms[i].due # row.due THEN "own"
                            ELSE frame[j]
  BY <1>2, <1>3
<1>5. AlarmTypes'
  <2>1. alarms' \in [AlarmIds -> AlarmRows] /\ frame' \in [AlarmIds -> Frames]
    BY <1>2, <1>3 DEF Frames
  <2>2. requests' \in 0..MaxRequests
    BY <1>2, <1>3, AlarmConstants
  <2> QED
    BY <1>1, <1>2, <2>1, <2>2 DEF AlarmTypes, ClockType
<1>6. TickInv'
  BY <1>1, <1>2 DEF TickInv
<1>7. SetInv'
  BY <1>1, <1>4 DEF SetInv, Snoozed
<1>8. FarInv'
  <2> SUFFICES ASSUME NEW j \in AlarmIds, frame'[j] = "far"
               PROVE  ~Ringing(alarms'[j]) /\ (alarms'[j].due = 0 \/ TellTale(j)')
    BY DEF FarInv, Ringing
  <2>1. frame[j] = "far" /\ alarms'[j].due = alarms[j].due
    BY <1>4
  <2>2. ~Ringing(alarms[j]) /\ (alarms[j].due = 0 \/ TellTale(j))
    BY <1>1, <2>1 DEF FarInv
  <2>3. ~Ringing(alarms'[j])
    BY <1>4, <2>2
  <2>4. TellTale(j) => TellTale(j)'
    BY <1>2, <2>1 DEF TellTale, Moved
  <2> QED
    BY <2>1, <2>2, <2>3, <2>4
<1>9. FiredInv'
  <2> SUFFICES ASSUME ~back
               PROVE  /\ alarmTick.running => alarmTick.now <= clock.wall
                      /\ clock.before <= clock.wall
                      /\ \A j \in AlarmIds :
                           /\ alarms'[j].fired <= clock.wall
                           /\ alarmTick.running => alarms'[j].fired <= alarmTick.now
                           /\ Moved => alarms'[j].fired <= clock.before
                           /\ \/ alarms'[j].due = 0
                              \/ alarms'[j].due > alarms'[j].fired
                              \/ TooLate(alarms'[j].due)
    BY <1>2 DEF FiredInv, Moved, TooLate
  <2>1. /\ alarmTick.running => alarmTick.now <= clock.wall
        /\ clock.before <= clock.wall
    BY <1>1 DEF FiredInv
  <2>2. ASSUME NEW j \in AlarmIds
        PROVE  /\ alarms[j].fired <= clock.wall
               /\ alarmTick.running => alarms[j].fired <= alarmTick.now
               /\ Moved => alarms[j].fired <= clock.before
               /\ \/ alarms[j].due = 0
                  \/ alarms[j].due > alarms[j].fired
                  \/ TooLate(alarms[j].due)
    BY <1>1 DEF FiredInv
  <2>3. ASSUME NEW j \in AlarmIds, j # i
        PROVE  /\ alarms'[j].fired <= clock.wall
               /\ alarmTick.running => alarms'[j].fired <= alarmTick.now
               /\ Moved => alarms'[j].fired <= clock.before
               /\ \/ alarms'[j].due = 0
                  \/ alarms'[j].due > alarms'[j].fired
                  \/ TooLate(alarms'[j].due)
    BY <1>4, <2>2, <2>3
  <2>4. /\ row.fired <= clock.wall
        /\ alarmTick.running => row.fired <= alarmTick.now
        /\ Moved => row.fired <= clock.before
    BY <1>1, <2>2, ClockIs
  <2>5. row.due = 0 \/ row.due > row.fired \/ TooLate(row.due)
    <3>1. row.due \in Nat /\ row.fired \in Nat
      BY RowIs
    <3>2. CASE row.due > clock.wall
      BY <1>1, <2>4, <3>1, <3>2, ClockIs
    <3> QED
      BY <2>2, <3>2
  <2> QED
    BY <1>4, <2>1, <2>3, <2>4, <2>5
<1> QED
  BY <1>5, <1>6, <1>7, <1>8, <1>9 DEF AlarmInv

LEMMA AlarmInvRequest ==
  ASSUME AlarmInv, AlarmRequest
  PROVE  AlarmInv'
<1>1. PICK i \in AlarmIds :
        CreateOrUpdate(i) \/ DeleteAlarm(i) \/ Dismiss(i) \/ Snooze(i)
  BY DEF AlarmRequest
<1>2. AlarmTypes /\ TickInv /\ SetInv
  BY DEF AlarmInv
<1>3. alarms[i] \in AlarmRows /\ clock.wall \in Times
  BY <1>2 DEF AlarmTypes, ClockType
<1>4. Ringing(alarms[i]) => alarms[i] # NoAlarm /\ ~Snoozed(alarms[i])
  BY DEF Ringing, NoAlarm, Snoozed
<1>5. CASE CreateOrUpdate(i)
  <2>1. PICK record \in Records : AlarmEdit(i, Fresh(record))
    BY <1>5 DEF CreateOrUpdate
  <2>2. clock.wall + Day <= Horizon + Day
    BY <1>3, AlarmConstants
  <2>3. /\ Fresh(record) \in AlarmRows
        /\ ~Ringing(Fresh(record)) /\ Fresh(record).fired = 0
        /\ Fresh(record).due = 0 \/ (Fresh(record).due > clock.wall
                                     /\ Fresh(record).enabled)
    BY <1>3, <2>2, FreshRow
  <2> QED
    BY <2>1, <2>3, AlarmEditKeeps
<1>6. CASE DeleteAlarm(i)
  <2>1. NoAlarm \in AlarmRows /\ NoAlarm.fired = 0 /\ NoAlarm.due = 0 /\ ~Ringing(NoAlarm)
    BY DEF AlarmRows, NoAlarm, Ringing
  <2> QED
    BY <1>6, <2>1, AlarmEditKeeps DEF DeleteAlarm
<1>7. CASE Dismiss(i)
  <2> DEFINE row == [alarms[i] EXCEPT !.status = "dismissed"]
  <2>1. Ringing(alarms[i]) /\ AlarmEdit(i, row)
    BY <1>7 DEF Dismiss, Ringing
  <2>2. "dismissed" \in AlarmStatuses
    BY DEF AlarmStatuses
  <2>3. /\ row \in AlarmRows /\ row.status = "dismissed"
        /\ row.enabled = alarms[i].enabled /\ row.fired = alarms[i].fired
        /\ row.due = alarms[i].due
    BY <1>3, <1>4, <2>1, <2>2, WithStatus
  <2> HIDE DEF row
  <2>4. ~Ringing(row)
    BY <2>3 DEF Ringing
  <2>5. row.due # 0 => row.enabled
    BY <1>2, <1>4, <2>1, <2>3 DEF SetInv
  <2> QED
    BY <2>1, <2>3, <2>4, <2>5, AlarmEditKeeps
<1>8. CASE Snooze(i)
  <2> DEFINE due == clock.wall + Grace
             row == [alarms[i] EXCEPT !.status = "snoozed", !.due = due]
  <2>1. Ringing(alarms[i]) /\ AlarmEdit(i, row) /\ clock.wall + Grace <= Horizon
    BY <1>8 DEF Snooze, Ringing
  <2>2. due \in 0..(Horizon + Day) /\ due > clock.wall
    BY <1>3, <2>1, AlarmConstants
  <2>3. alarms[i] \in [status : AlarmStatuses, enabled : BOOLEAN, once : BOOLEAN,
                       time : 0..(Day - 1), due : 0..(Horizon + Day),
                       fired : 0..Horizon]
    BY <1>3, <1>4, <2>1 DEF AlarmRows
  <2> HIDE DEF due
  <2>4. /\ row \in AlarmRows /\ row.status = "snoozed" /\ row.fired = alarms[i].fired
        /\ row.due = due
    BY <2>2, <2>3 DEF AlarmRows, AlarmStatuses
  <2> HIDE DEF row
  <2>5. ~Ringing(row) /\ Snoozed(row)
    BY <2>4 DEF Ringing, Snoozed
  <2> QED
    BY <2>1, <2>2, <2>4, <2>5, AlarmEditKeeps
<1> QED
  BY <1>1, <1>5, <1>6, <1>7, <1>8

\* A tick that reads the clock, or ends with nothing written
LEMMA AlarmInvStart ==
  ASSUME AlarmInv, TickStart
  PROVE  AlarmInv'
<1>1. AlarmTypes /\ TickInv /\ SetInv /\ FarInv /\ FiredInv
  BY DEF AlarmInv
<1>2. /\ ~alarmTick.running
      /\ alarmTick' = [running |-> TRUE, now |-> clock.wall, late |-> FALSE,
                       owed |-> FALSE]
      /\ clock' = clock /\ moves' = moves /\ alarms' = alarms
      /\ alarmStep' = alarmStep /\ sounding' = sounding
      /\ requests' = requests /\ frame' = frame /\ back' = back
  BY DEF TickStart, alarmHistory
<1>3. alarmTick'.running /\ alarmTick'.now = clock.wall /\ clock.wall \in 0..Horizon
  BY <1>1, <1>2, ClockIs, AlarmConstants
<1>4. AlarmTypes'
  BY <1>1, <1>2, <1>3 DEF AlarmTypes, ClockType
<1>5. TickInv'
  BY <1>1, <1>2, <1>3 DEF TickInv
<1>6. SetInv'
  BY <1>1, <1>2 DEF SetInv, Snoozed
<1>7. FarInv'
  BY <1>1, <1>2, <1>3 DEF FarInv, TellTale, Ringing, Moved
<1>8. FiredInv'
  BY <1>1, <1>2, <1>3, ClockIs DEF FiredInv, TooLate, Moved
<1> QED
  BY <1>4, <1>5, <1>6, <1>7, <1>8 DEF AlarmInv

LEMMA AlarmInvUnwritten ==
  ASSUME AlarmInv, TickInvalid \/ TickFails
  PROVE  AlarmInv'
<1>1. AlarmTypes /\ TickInv /\ SetInv /\ FarInv /\ FiredInv
  BY DEF AlarmInv
<1>2. /\ alarmTick' = Idle /\ ~alarmTick'.running /\ alarmTick'.now = 0
      /\ clock' = clock /\ moves' = moves /\ alarms' = alarms
      /\ alarmStep' = alarmStep /\ sounding' = sounding
      /\ requests' = requests /\ frame' = frame /\ back' = back
  BY DEF TickInvalid, TickFails, Returns, Idle, alarmHistory
<1>3. AlarmTypes'
  <2>1. alarmTick'.running \in BOOLEAN /\ alarmTick'.now \in 0..Horizon
    BY <1>2, AlarmConstants DEF Idle
  <2> QED
    BY <1>1, <1>2, <2>1 DEF AlarmTypes, ClockType
<1>4. TickInv'
  BY <1>1, <1>2, AlarmConstants DEF TickInv, Idle
<1>5. SetInv'
  BY <1>1, <1>2 DEF SetInv, Snoozed
<1>6. FarInv'
  BY <1>1, <1>2 DEF FarInv, TellTale, Ringing, Moved
<1>7. FiredInv'
  BY <1>1, <1>2 DEF FiredInv, TooLate, Moved
<1> QED
  BY <1>3, <1>4, <1>5, <1>6, <1>7 DEF AlarmInv

\* What a tick can tell is due.
LEMMA FarIsDue ==
  ASSUME AlarmInv, alarmTick.running, NEW i \in AlarmIds, frame[i] = "far",
         alarms[i].due # 0
  PROVE  AlarmDue(alarms[i])
<1>1. ~Ringing(alarms[i]) /\ TellTale(i)
  BY DEF AlarmInv, FarInv
<1>2. alarms[i].enabled \/ Snoozed(alarms[i])
  BY DEF AlarmInv, SetInv
<1>3. Stale(alarms[i].due)
  BY <1>1 DEF TellTale, Stale
<1> QED
  BY <1>1, <1>2, <1>3 DEF AlarmDue, Waits

LEMMA AlarmInvNoneDue ==
  ASSUME AlarmInv, TickNoneDue
  PROVE  AlarmInv'
<1>1. AlarmTypes /\ TickInv /\ SetInv /\ FarInv /\ FiredInv
  BY DEF AlarmInv
<1>2. /\ alarmTick.running /\ \A i \in AlarmIds : ~AlarmDue(alarms[i])
      /\ alarmTick' = Idle /\ ~alarmTick'.running /\ alarmTick'.now = 0
      /\ clock' = clock /\ moves' = moves /\ alarms' = alarms
      /\ alarmStep' = clock.generation /\ sounding' \in BOOLEAN
      /\ requests' = requests /\ frame' = frame /\ back' = back
  BY DEF TickNoneDue, Returns, Sound, AnyRinging, Idle, alarmHistory
<1>3. AlarmTypes'
  <2>1. clock.generation \in 0..MaxMoves
    BY <1>1 DEF AlarmTypes, ClockType
  <2>2. alarmTick'.running \in BOOLEAN /\ alarmTick'.now \in 0..Horizon
    BY <1>2, AlarmConstants DEF Idle
  <2> QED
    BY <1>1, <1>2, <2>1, <2>2 DEF AlarmTypes, ClockType
<1>4. TickInv'
  BY <1>1, <1>2, AlarmConstants DEF TickInv, Idle
<1>5. SetInv'
  BY <1>1, <1>2 DEF SetInv, Snoozed
<1>6. FarInv'
  <2>1. ASSUME NEW i \in AlarmIds, frame[i] = "far"
        PROVE  ~Ringing(alarms[i]) /\ alarms[i].due = 0
    BY <1>1, <1>2, <2>1, FarIsDue DEF FarInv
  <2> QED
    BY <1>2, <2>1 DEF FarInv, Ringing
<1>7. FiredInv'
  BY <1>1, <1>2 DEF FiredInv, TooLate, Moved
<1> QED
  BY <1>3, <1>4, <1>5, <1>6, <1>7 DEF AlarmInv

LEMMA AlarmInvStored ==
  ASSUME AlarmInv, TickStored
  PROVE  AlarmInv'
<1>1. AlarmTypes /\ TickInv /\ SetInv /\ FarInv /\ FiredInv
  BY DEF AlarmInv
<1>2. /\ alarmTick.running
      /\ alarmTick' = Idle /\ ~alarmTick'.running /\ alarmTick'.now = 0
      /\ alarms' = [i \in AlarmIds |-> AlarmTicked(alarms[i])]
      /\ frame' = [i \in AlarmIds |-> IF ~AlarmDue(alarms[i]) THEN frame[i]
                                       ELSE IF alarmTick.late THEN "other"
                                       ELSE "own"]
      /\ clock' = clock /\ moves' = moves
      /\ alarmStep' = clock.generation /\ sounding' \in BOOLEAN
      /\ requests' = requests /\ back' = back
  BY DEF TickStored, Returns, Sound, AnyRinging, Idle
<1>3. alarmTick.now \in 0..Horizon
  BY <1>1 DEF AlarmTypes
<1> DEFINE Does(row, next) ==
  /\ next \in AlarmRows
  /\ ~AlarmDue(row) =>
       /\ next.due = row.due /\ next.fired = row.fired
       /\ next.enabled = row.enabled
       /\ ~Ringing(row) => next = row
       /\ Ringing(row) => ~Snoozed(next)
  /\ AlarmDue(row) =>
       /\ ~Ringing(row)
       /\ \/ next.due = 0
          \/ next.due > alarmTick.now
          \/ Stale(row.due) /\ Snoozed(row) /\ next.due = alarmTick.now
       /\ next.due # 0 => next.enabled \/ Snoozed(next)
       /\ \/ next.fired = row.fired
          \/ /\ ~Stale(row.due) /\ row.due # 0
             /\ row.due <= alarmTick.now /\ next.fired = row.due
<1>4. ASSUME NEW i \in AlarmIds
      PROVE  Does(alarms[i], alarms'[i])
  <2>1. alarms[i] \in AlarmRows /\ alarms'[i] = AlarmTicked(alarms[i])
    BY <1>1, <1>2, ClockIs
  <2> QED
    BY <1>3, <2>1, TickedRow
<1>5. AlarmTypes'
  <2>1. clock.generation \in 0..MaxMoves
    BY <1>1 DEF AlarmTypes, ClockType
  <2>2. alarms' \in [AlarmIds -> AlarmRows]
    <3>1. alarms' = [i \in AlarmIds |-> alarms'[i]]
      BY <1>2
    <3> QED
      BY <1>4, <3>1
  <2>3. frame' \in [AlarmIds -> Frames]
    BY <1>1, <1>2, ClockIs DEF Frames
  <2>4. alarmTick'.running \in BOOLEAN /\ alarmTick'.now \in 0..Horizon
    BY <1>2, AlarmConstants DEF Idle
  <2> QED
    BY <1>1, <1>2, <2>1, <2>2, <2>3, <2>4 DEF AlarmTypes, ClockType
<1>6. TickInv'
  BY <1>1, <1>2, AlarmConstants DEF TickInv, Idle
<1>7. SetInv'
  <2> SUFFICES ASSUME NEW i \in AlarmIds, alarms'[i].due # 0
               PROVE  alarms'[i].enabled \/ Snoozed(alarms'[i])
    BY DEF SetInv, Snoozed
  <2>1. alarms[i].due # 0 => alarms[i].enabled \/ Snoozed(alarms[i])
    BY <1>1 DEF SetInv
  <2>2. Ringing(alarms[i]) => ~Snoozed(alarms[i])
    BY DEF Ringing, Snoozed
  <2> QED
    BY <1>4, <2>1, <2>2
<1>8. FarInv'
  <2>1. ASSUME NEW i \in AlarmIds, frame'[i] = "far"
        PROVE  ~Ringing(alarms'[i]) /\ alarms'[i].due = 0
    <3>1. ~AlarmDue(alarms[i]) /\ frame[i] = "far"
      BY <1>2, <2>1
    <3>2. ~Ringing(alarms[i]) /\ alarms[i].due = 0
      BY <1>1, <1>2, <3>1, FarIsDue DEF FarInv
    <3> QED
      BY <1>4, <3>1, <3>2
  <2> QED
    BY <2>1 DEF FarInv, Ringing
<1>9. FiredInv'
  <2>1. ~Moved'
    BY <1>2 DEF Moved
  <2> SUFFICES ASSUME ~back
               PROVE  /\ clock.before <= clock.wall
                      /\ \A i \in AlarmIds :
                           /\ alarms'[i].fired <= clock.wall
                           /\ \/ alarms'[i].due = 0
                              \/ alarms'[i].due > alarms'[i].fired
                              \/ alarms'[i].due + Grace < clock.wall
    BY <1>2, <2>1 DEF FiredInv, TooLate
  <2>2. alarmTick.now <= clock.wall /\ clock.before <= clock.wall
    BY <1>1, <1>2 DEF FiredInv
  <2>3. ASSUME NEW i \in AlarmIds
        PROVE  /\ alarms'[i].fired <= clock.wall
               /\ \/ alarms'[i].due = 0
                  \/ alarms'[i].due > alarms'[i].fired
                  \/ alarms'[i].due + Grace < clock.wall
    <3>1. /\ alarms[i].fired <= alarmTick.now
          /\ Moved => alarms[i].fired <= clock.before
          /\ \/ alarms[i].due = 0
             \/ alarms[i].due > alarms[i].fired
             \/ alarms[i].due + Grace < clock.wall
      BY <1>1, <1>2 DEF FiredInv, TooLate
    <3>2. /\ alarms[i].fired \in Nat /\ alarms[i].due \in Nat
          /\ alarms'[i].fired \in Nat /\ alarms'[i].due \in Nat
          /\ alarmTick.now \in Nat /\ clock.wall \in Nat /\ clock.before \in Nat
      BY <1>1, <1>4, ClockIs, RowIs
    <3>3. CASE ~AlarmDue(alarms[i])
      BY <1>4, <2>2, <3>1, <3>2, <3>3
    <3>4. CASE AlarmDue(alarms[i])
      <4>1. alarms'[i].fired <= alarmTick.now
        BY <1>4, <3>1, <3>2, <3>4
      <4>2. CASE /\ Stale(alarms[i].due)
                 /\ alarms'[i].due = alarmTick.now
        <5>1. Moved /\ Distance(alarmTick.now, clock.before) > Frame
          BY <4>2 DEF Stale
        <5>2. CASE alarmTick.now > clock.before
          BY <1>4, <2>2, <3>1, <3>2, <3>4, <4>1, <4>2, <5>1, <5>2
        <5>3. CASE alarmTick.now <= clock.before
          BY <2>2, <3>2, <4>1, <4>2, <5>1, <5>3, AlarmConstants DEF Distance
        <5> QED
          BY <3>2, <5>2, <5>3
      <4> QED
        BY <1>4, <2>2, <3>2, <3>4, <4>1, <4>2
    <3> QED
      BY <3>3, <3>4
  <2> QED
    BY <2>2, <2>3
<1> QED
  BY <1>5, <1>6, <1>7, <1>8, <1>9 DEF AlarmInv

LEMMA AlarmInvTimePasses ==
  ASSUME AlarmInv, AlarmTimePasses
  PROVE  AlarmInv'
<1>1. AlarmTypes /\ TickInv /\ SetInv /\ FarInv /\ FiredInv
  BY DEF AlarmInv
<1>2. /\ ~alarmTick.running /\ clock.wall < Horizon /\ moves' = moves
      /\ clock' = [clock EXCEPT !.wall = clock.wall + 1]
      /\ alarmTick' = [alarmTick EXCEPT !.owed = TRUE]
      /\ alarms' = alarms /\ alarmStep' = alarmStep /\ sounding' = sounding
      /\ requests' = requests /\ back' = back
  BY DEF AlarmTimePasses, Passes
<1>3. /\ clock' \in [wall : Times, valid : BOOLEAN, generation : 0..MaxMoves,
                     before : 0..Horizon]
      /\ clock'.wall = clock.wall + 1 /\ clock'.before = clock.before
      /\ clock'.generation = clock.generation
  <2>1. clock \in [wall : Times, valid : BOOLEAN, generation : 0..MaxMoves,
                   before : 0..Horizon]
    BY <1>1 DEF AlarmTypes, ClockType
  <2>2. clock.wall + 1 \in Times
    BY <1>1, <1>2, ClockIs, AlarmConstants DEF Times
  <2> QED
    BY <1>2, <2>1, <2>2
<1>4. /\ alarmTick' \in [running : BOOLEAN, now : 0..Horizon, late : BOOLEAN,
                         owed : BOOLEAN]
      /\ ~alarmTick'.running
  BY <1>1, <1>2 DEF TickInv
<1>5. ASSUME NEW i \in AlarmIds
      PROVE  \/ frame'[i] = "other"
             \/ /\ frame'[i] = frame[i]
                /\ ~(/\ Moved /\ Distance(clock.wall, clock.before) > Frame
                     /\ Distance(clock'.wall, clock.before) <= Frame)
  BY DEF AlarmTimePasses, Blur
<1>6. AlarmTypes'
  <2>1. frame' \in [AlarmIds -> Frames]
    <3>1. frame' = [i \in AlarmIds |-> frame'[i]]
      BY DEF AlarmTimePasses, Blur
    <3> QED
      BY <1>1, <1>5, <3>1, ClockIs DEF Frames
  <2> QED
    BY <1>1, <1>2, <1>3, <1>4, <2>1 DEF AlarmTypes, ClockType
<1>7. TickInv'
  BY <1>1, <1>2, <1>3, <1>4 DEF TickInv
<1>8. SetInv'
  BY <1>1, <1>2 DEF SetInv, Snoozed
<1>9. FarInv'
  <2> SUFFICES ASSUME NEW i \in AlarmIds, frame'[i] = "far"
               PROVE  ~Ringing(alarms[i]) /\ (alarms[i].due = 0 \/ TellTale(i)')
    BY <1>2 DEF FarInv, Ringing
  <2>1. ~Ringing(alarms[i]) /\ (alarms[i].due = 0 \/ TellTale(i))
    BY <1>1, <1>5 DEF FarInv
  <2>2. TellTale(i) => TellTale(i)'
    <3>1. SUFFICES ASSUME TellTale(i)
                   PROVE  Distance(clock'.wall, clock.before) > Frame
      BY <1>2, <1>3, <1>4 DEF TellTale, Moved
    <3>2. Moved /\ Distance(clock.wall, clock.before) > Frame
      BY <3>1 DEF TellTale
    <3>3. ~(Distance(clock'.wall, clock.before) <= Frame)
      BY <1>5, <3>2
    <3> QED
      BY <1>1, <1>3, <3>3, ClockIs, AlarmConstants DEF Distance
  <2> QED
    BY <2>1, <2>2
<1>10. FiredInv'
  <2> SUFFICES ASSUME ~back
               PROVE  FiredInv'
    BY <1>2 DEF FiredInv
  <2>1. clock.before <= clock.wall
    BY <1>1 DEF FiredInv
  <2>2. ASSUME NEW i \in AlarmIds
        PROVE  /\ alarms[i].fired <= clock.wall
               /\ Moved => alarms[i].fired <= clock.before
               /\ \/ alarms[i].due = 0
                  \/ alarms[i].due > alarms[i].fired
                  \/ alarms[i].due + Grace < clock.wall
    BY <1>1 DEF FiredInv, TooLate
  <2>3. \A i \in AlarmIds : alarms[i].due \in Nat /\ alarms[i].fired \in Nat
    BY <1>1, ClockIs
  <2>4. clock.wall \in Nat /\ clock.before \in Nat
    BY <1>1, ClockIs
  <2> QED
    BY <1>2, <1>3, <1>4, <2>1, <2>2, <2>3, <2>4, AlarmConstants
       DEF FiredInv, TooLate, Moved
<1> QED
  BY <1>6, <1>7, <1>8, <1>9, <1>10 DEF AlarmInv

LEMMA AlarmInvRestart ==
  ASSUME AlarmInv, AlarmRestart
  PROVE  AlarmInv'
<1>1. AlarmTypes /\ TickInv /\ SetInv /\ FarInv /\ FiredInv
  BY DEF AlarmInv
<1>2. /\ moves < MaxMoves /\ moves' = moves + 1
      /\ alarmTick' = Idle /\ ~alarmTick'.running /\ alarmStep' = 0
      /\ sounding' = FALSE /\ frame' = [i \in AlarmIds |-> "other"]
      /\ back' = (back \/ clock'.wall < clock.wall)
      /\ alarms' = alarms /\ requests' = requests
  BY DEF AlarmRestart, Boots, Idle
<1>3. PICK trusted \in BOOLEAN :
        \E t \in IF trusted THEN {clock.wall} \cup {x \in Targets : x > clock.wall}
                 ELSE {1} :
          clock' = [wall |-> t, valid |-> trusted, generation |-> 0, before |-> 0]
  BY DEF AlarmRestart, Boots
<1>10. PICK t \in IF trusted THEN {clock.wall} \cup {x \in Targets : x > clock.wall}
             ELSE {1} :
           clock' = [wall |-> t, valid |-> trusted, generation |-> 0, before |-> 0]
  BY <1>3
<1>4. /\ t \in Times /\ clock'.wall = t /\ clock'.generation = 0
      /\ clock'.before = 0
      /\ clock' \in [wall : Times, valid : BOOLEAN, generation : 0..MaxMoves,
                     before : 0..Horizon]
  <2>1. clock.wall \in Times /\ 1 \in Times
    BY <1>1, AlarmConstants DEF AlarmTypes, ClockType, Times
  <2>2. t \in Times
    BY <1>10, <2>1 DEF Targets
  <2> QED
    BY <1>10, <2>2, AlarmConstants
<1>5. AlarmTypes'
  <2>1. alarmTick'.running \in BOOLEAN /\ alarmTick'.now \in 0..Horizon
    BY <1>2, AlarmConstants DEF Idle
  <2>2. moves' \in 0..MaxMoves /\ alarmStep' \in 0..MaxMoves
    BY <1>1, <1>2, ClockIs, AlarmConstants
  <2>3. sounding' \in BOOLEAN
    BY <1>2, Zenon
  <2>4. frame' \in [AlarmIds -> Frames]
    BY <1>2 DEF Frames
  <2> QED
    BY <1>1, <1>2, <1>4, <2>1, <2>2, <2>3, <2>4 DEF AlarmTypes, ClockType
<1>6. TickInv'
  <2>1. alarmTick' \in [running : BOOLEAN, now : 0..Horizon, late : BOOLEAN,
                        owed : BOOLEAN]
    BY <1>2, AlarmConstants DEF Idle
  <2>2. clock'.generation <= moves'
    BY <1>1, <1>2, <1>4, ClockIs
  <2> QED
    BY <2>1, <2>2 DEF TickInv
<1>7. SetInv'
  BY <1>1, <1>2 DEF SetInv, Snoozed
<1>8. FarInv'
  BY <1>2 DEF FarInv
<1>9. FiredInv'
  <2>1. ~Moved'
    BY <1>2, <1>4 DEF Moved
  <2> SUFFICES ASSUME ~back, ~(clock'.wall < clock.wall)
               PROVE  FiredInv'
    BY <1>2 DEF FiredInv
  <2>2. /\ clock'.wall >= clock.wall /\ clock.wall \in Nat /\ clock'.wall \in Nat
    BY <1>1, <1>4, ClockIs, AlarmConstants
  <2>3. ASSUME NEW i \in AlarmIds
        PROVE  /\ alarms[i].fired <= clock.wall
               /\ \/ alarms[i].due = 0
                  \/ alarms[i].due > alarms[i].fired
                  \/ alarms[i].due + Grace < clock.wall
    BY <1>1 DEF FiredInv, TooLate
  <2>4. \A i \in AlarmIds : alarms[i].due \in Nat /\ alarms[i].fired \in Nat
    BY <1>1, ClockIs
  <2> QED
    BY <1>2, <1>4, <2>1, <2>2, <2>3, <2>4, AlarmConstants DEF FiredInv, TooLate
<1> QED
  BY <1>5, <1>6, <1>7, <1>8, <1>9 DEF AlarmInv

LEMMA AlarmInvClockSet ==
  ASSUME AlarmInv, AlarmClockSet
  PROVE  AlarmInv'
<1>1. AlarmTypes /\ TickInv /\ SetInv /\ FarInv /\ FiredInv
  BY DEF AlarmInv
<1>2. PICK t \in Targets :
        /\ SetTo(t)
        /\ frame' = [i \in AlarmIds |->
                       IF \/ Distance(t, clock.wall) > Frame /\ Untold(i)
                          \/ Moved /\ frame[i] = "far"
                       THEN "other"
                       ELSE IF Distance(t, clock.wall) > Frame /\ frame[i] = "own"
                       THEN "far" ELSE frame[i]]
        /\ alarmTick' = [alarmTick EXCEPT !.late = alarmTick.running]
        /\ back' = (back \/ t < clock.wall)
        /\ alarms' = alarms /\ alarmStep' = alarmStep /\ sounding' = sounding
        /\ requests' = requests
  BY DEF AlarmClockSet
<1>3. /\ t \in Times /\ t \in Nat /\ t >= 1 /\ t <= Horizon
      /\ moves < MaxMoves /\ moves' = moves + 1
  BY <1>2, AlarmConstants DEF Targets, SetTo
<1>4. /\ clock' \in [wall : Times, valid : BOOLEAN, generation : 0..MaxMoves,
                     before : 0..Horizon]
      /\ clock'.wall = t
      /\ t = clock.wall => /\ clock'.before = clock.before
                           /\ clock'.generation = clock.generation
      /\ t # clock.wall => /\ clock'.before = clock.wall
                           /\ clock'.generation = clock.generation + 1
  <2>1. clock \in [wall : Times, valid : BOOLEAN, generation : 0..MaxMoves,
                   before : 0..Horizon]
    BY <1>1 DEF AlarmTypes, ClockType
  <2>2. CASE t = clock.wall
    BY <1>2, <1>3, <2>1, <2>2 DEF SetTo
  <2>3. CASE t # clock.wall
    <3>1. /\ clock.generation + 1 \in 0..MaxMoves /\ clock.wall \in 0..Horizon
      BY <1>1, <1>3, ClockIs, AlarmConstants
    <3>2. clock' = [wall |-> t, valid |-> TRUE, before |-> clock.wall,
                    generation |-> clock.generation + 1]
      BY <1>2, <2>3 DEF SetTo
    <3> QED
      BY <1>3, <2>3, <3>1, <3>2
  <2> QED
    BY <2>2, <2>3
<1>5. /\ alarmTick' \in [running : BOOLEAN, now : 0..Horizon, late : BOOLEAN,
                         owed : BOOLEAN]
      /\ alarmTick'.running = alarmTick.running /\ alarmTick'.now = alarmTick.now
  BY <1>1, <1>2 DEF TickInv
<1>6. AlarmTypes'
  <2>1. frame' \in [AlarmIds -> Frames]
    BY <1>1, <1>2, ClockIs DEF Frames
  <2>2. moves' \in 0..MaxMoves
    BY <1>1, <1>3, ClockIs, AlarmConstants
  <2> QED
    BY <1>1, <1>2, <1>4, <1>5, <2>1, <2>2 DEF AlarmTypes, ClockType
<1>7. TickInv'
  <2>1. clock'.generation <= moves'
    BY <1>1, <1>3, <1>4, ClockIs
  <2> QED
    BY <1>5, <2>1 DEF TickInv
<1>8. SetInv'
  BY <1>1, <1>2 DEF SetInv, Snoozed
<1>9. FarInv'
  <2> SUFFICES ASSUME NEW i \in AlarmIds, frame'[i] = "far"
               PROVE  ~Ringing(alarms[i]) /\ (alarms[i].due = 0 \/ TellTale(i)')
    BY <1>2 DEF FarInv, Ringing
  <2>1. \/ frame[i] = "far" /\ ~Moved
        \/ Distance(t, clock.wall) > Frame /\ ~Untold(i)
    BY <1>2
  <2>2. CASE frame[i] = "far" /\ ~Moved
    BY <1>1, <2>2 DEF FarInv, TellTale
  <2>3. CASE Distance(t, clock.wall) > Frame /\ ~Untold(i)
    <3>1. /\ ~Moved /\ ~alarmTick.running /\ ~Ringing(alarms[i])
          /\ ~(Distance(alarms[i].due, clock.wall) > Frame)
      BY <2>3 DEF Untold
    <3>2. Distance(alarms[i].due, clock.wall) <= Frame
      BY <1>1, <3>1, ClockIs, AlarmConstants DEF Distance
    <3>3. t # clock.wall
      BY <1>3, <2>3, AlarmConstants DEF Distance
    <3>4. Moved'
      BY <1>1, <1>2, <1>4, <3>1, <3>3, ClockIs DEF Moved
    <3>5. TellTale(i)'
      BY <1>2, <1>4, <1>5, <2>3, <3>1, <3>2, <3>3, <3>4 DEF TellTale
    <3> QED
      BY <3>1, <3>5
  <2> QED
    BY <2>1, <2>2, <2>3
<1>10. FiredInv'
  <2> SUFFICES ASSUME ~back, ~(t < clock.wall)
               PROVE  FiredInv'
    BY <1>2 DEF FiredInv
  <2>1. t >= clock.wall /\ clock.wall \in Nat /\ clock.before \in Nat
        /\ alarmTick.now \in Nat
    BY <1>1, <1>3, ClockIs
  <2>2. /\ alarmTick.running => alarmTick.now <= clock.wall
        /\ clock.before <= clock.wall
    BY <1>1 DEF FiredInv
  <2>3. /\ clock'.before <= clock'.wall
        /\ alarmTick.running => alarmTick.now <= clock'.wall
    BY <1>3, <1>4, <2>1, <2>2
  <2>4. ASSUME NEW i \in AlarmIds
        PROVE  /\ alarms[i].fired <= clock'.wall
               /\ alarmTick.running => alarms[i].fired <= alarmTick.now
               /\ Moved' => alarms[i].fired <= clock'.before
               /\ \/ alarms[i].due = 0
                  \/ alarms[i].due > alarms[i].fired
                  \/ TooLate(alarms[i].due)'
    <3>1. /\ alarms[i].fired <= clock.wall
          /\ alarmTick.running => alarms[i].fired <= alarmTick.now
          /\ Moved => alarms[i].fired <= clock.before
          /\ \/ alarms[i].due = 0
             \/ alarms[i].due > alarms[i].fired
             \/ TooLate(alarms[i].due)
      BY <1>1 DEF FiredInv
    <3>2. alarms[i].due \in Nat /\ alarms[i].fired \in Nat
      BY <1>1, ClockIs
    <3>3. TooLate(alarms[i].due) => TooLate(alarms[i].due)'
      BY <1>2, <1>4, <1>5, <2>1, <3>2, AlarmConstants DEF TooLate
    <3>4. Moved' => alarms[i].fired <= clock'.before
      BY <1>2, <1>4, <3>1 DEF Moved
    <3> QED
      BY <1>3, <1>4, <2>1, <3>1, <3>2, <3>3, <3>4
  <2> QED
    BY <1>2, <1>5, <2>3, <2>4 DEF FiredInv, TooLate
<1> QED
  BY <1>6, <1>7, <1>8, <1>9, <1>10 DEF AlarmInv

LEMMA AlarmInvStutter ==
  ASSUME AlarmInv, UNCHANGED alarmVars
  PROVE  AlarmInv'
BY DEF AlarmInv, AlarmTypes, ClockType, TickInv, SetInv, FarInv, FiredInv, TellTale,
       TooLate, Moved, Snoozed, Ringing, alarmVars, alarmService, alarmHistory

LEMMA AlarmInvStep ==
  ASSUME AlarmInv, [AlarmNext]_alarmVars
  PROVE  AlarmInv'
<1>1. CASE AlarmRequest
  BY <1>1, AlarmInvRequest
<1>2. CASE AlarmTick
  BY <1>2, AlarmInvStart, AlarmInvUnwritten, AlarmInvNoneDue, AlarmInvStored
     DEF AlarmTick
<1>3. CASE TickFails
  BY <1>3, AlarmInvUnwritten
<1>4. CASE AlarmTimePasses
  BY <1>4, AlarmInvTimePasses
<1>5. CASE AlarmClockSet
  BY <1>5, AlarmInvClockSet
<1>6. CASE AlarmRestart
  BY <1>6, AlarmInvRestart
<1>7. CASE UNCHANGED alarmVars
  BY <1>7, AlarmInvStutter
<1> QED
  BY <1>1, <1>2, <1>3, <1>4, <1>5, <1>6, <1>7 DEF AlarmNext

LEMMA AlarmInvCorrect == AlarmSpec => []AlarmInv
<1>1. AlarmInit => AlarmInv
  BY AlarmInvInit
<1>2. AlarmInv /\ [AlarmNext]_alarmVars => AlarmInv'
  BY AlarmInvStep
<1> QED
  BY <1>1, <1>2, PTL DEF AlarmSpec

\* What rows and ticks may hold, and that no alarm goes on depending on a
\* reading of the clock that a tick has seen it was moved away from.
THEOREM RowsKeptCorrect == AlarmSpec => []RowsKept
<1>1. AlarmInv => RowsKept
  <2> SUFFICES ASSUME AlarmInv
               PROVE  RowsKept
    OBVIOUS
  <2>1. ASSUME ~Moved, NEW i \in AlarmIds, alarms[i].due # 0
        PROVE  frame[i] # "far"
    BY <2>1 DEF AlarmInv, FarInv, TellTale
  <2> QED
    BY <2>1 DEF AlarmInv, RowsKept, Rescheduled
<1> QED
  BY <1>1, AlarmInvCorrect, PTL

\* Only a tick makes a row ring.
LEMMA RingingBegins ==
  ASSUME AlarmInv, [AlarmNext]_alarmVars, NEW i \in AlarmIds,
         ~Ringing(alarms[i]), Ringing(alarms'[i])
  PROVE  TickStored
<1>1. ASSUME AlarmRequest
      PROVE  FALSE
  <2>1. PICK j \in AlarmIds :
          CreateOrUpdate(j) \/ DeleteAlarm(j) \/ Dismiss(j) \/ Snooze(j)
    BY <1>1 DEF AlarmRequest
  <2>2. ASSUME NEW row, ~Ringing(row), AlarmEdit(j, row)
        PROVE  FALSE
    <3>1. alarms' = [alarms EXCEPT ![j] = row] /\ alarms \in [AlarmIds -> AlarmRows]
      BY <2>2 DEF AlarmEdit, AlarmInv, AlarmTypes
    <3> QED
      BY <2>2, <3>1
  <2>3. CASE CreateOrUpdate(j)
    <3>1. PICK record \in Records : AlarmEdit(j, Fresh(record))
      BY <2>3 DEF CreateOrUpdate
    <3>2. Fresh(record).status = "scheduled"
      BY DEF Fresh
    <3> QED
      BY <2>2, <3>1, <3>2 DEF Ringing
  <2>4. CASE DeleteAlarm(j)
    BY <2>2, <2>4 DEF DeleteAlarm, NoAlarm, Ringing
  <2>5. alarms[j] \in AlarmRows
    BY DEF AlarmInv, AlarmTypes
  <2>6. CASE Dismiss(j)
    <3>1. alarms[j] # NoAlarm /\ "dismissed" \in AlarmStatuses
      BY <2>6 DEF Dismiss, NoAlarm, AlarmStatuses
    <3>2. [alarms[j] EXCEPT !.status = "dismissed"].status = "dismissed"
      BY <2>5, <3>1, WithStatus
    <3> QED
      BY <2>2, <2>6, <3>2 DEF Dismiss, Ringing
  <2>7. CASE Snooze(j)
    <3>1. alarms[j] # NoAlarm
      BY <2>7 DEF Snooze, NoAlarm
    <3>2. [alarms[j] EXCEPT !.status = "snoozed",
                            !.due = clock.wall + Grace].status = "snoozed"
      BY <2>5, <3>1 DEF AlarmRows
    <3> QED
      BY <2>2, <2>7, <3>2 DEF Snooze, Ringing
  <2> QED
    BY <2>1, <2>3, <2>4, <2>6, <2>7
<1>2. ASSUME alarms' = alarms
      PROVE  FALSE
  BY <1>2
<1> QED
  BY <1>1, <1>2
     DEF AlarmNext, AlarmTick, TickStart, TickInvalid, TickNoneDue, TickFails,
         AlarmTimePasses, AlarmClockSet, AlarmRestart, alarmVars, alarmService

\* What has rung and was dismissed, snoozed or timed out does not ring again.
THEOREM NoSecondRingCorrect == AlarmSpec => NoSecondRing
<1>1. ASSUME AlarmInv, [AlarmNext]_alarmVars, NEW i \in AlarmIds,
             ~Ringing(alarms[i]), Ringing(alarms'[i])
      PROVE  back \/ alarms'[i].fired > alarms[i].fired
  <2>1. TickStored
    BY <1>1, RingingBegins
  <2>2. alarmTick.running /\ alarms'[i] = AlarmTicked(alarms[i])
    BY <2>1 DEF TickStored
  <2>3. /\ alarms[i] \in AlarmRows /\ alarmTick.now \in 0..Horizon
        /\ alarms[i].due \in Nat
    BY <1>1, ClockIs DEF AlarmInv, AlarmTypes
  <2>4. AlarmDue(alarms[i])
    BY <1>1, <2>2, <2>3, TickedRow
  <2>5. /\ alarms[i].due # 0 /\ alarms'[i].fired = alarms[i].due
        /\ alarmTick.now - alarms[i].due <= Grace
    BY <1>1, <2>2, <2>3, <2>4, TickedRow
  <2>6. ~TooLate(alarms[i].due)
    BY <2>2, <2>3, <2>5, AlarmConstants DEF TooLate
  <2>7. back \/ alarms[i].due > alarms[i].fired
    BY <1>1, <2>5, <2>6 DEF AlarmInv, FiredInv
  <2> QED
    BY <2>5, <2>7
<1>2. AlarmInv /\ [AlarmNext]_alarmVars =>
        [\A i \in AlarmIds : ~Ringing(alarms[i]) /\ Ringing(alarms'[i])
                               => back \/ alarms'[i].fired > alarms[i].fired]_alarmVars
  BY <1>1
<1> QED
  BY <1>2, AlarmInvCorrect, PTL DEF AlarmSpec, NoSecondRing

=============================================================================
