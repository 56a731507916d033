---------------------------- MODULE Availability ----------------------------
(***************************************************************************)
(* A coach's recurring hours and closed days: the editor that writes them, *)
(* and the calendar a student proposes from.                               *)
(*                                                                         *)
(* Time is counted in hours of UTC; a zone is a fixed offset.  The editor  *)
(* works in cells (a weekday and a local hour), the table in ranges, the   *)
(* calendar in instants, and each conversion is the code's.                *)
(* One page writes: a page's saves follow one another, the button being    *)
(* dead while one is under way.                                            *)
(***************************************************************************)
EXTENDS Integers, FiniteSets

CONSTANTS
  Cells,       \* the cells a coach may tick: [weekday, hour]
  Dates,       \* the local days a coach may close
  Offsets,     \* the offsets of the zones coaches live in, in hours
  Taken,       \* what stands in the calendar: sets of [startsAt, endsAt, state, expiresAt], in hours rounded outwards
  Instants,    \* the moments at which the calendar is looked at
  dayCount     \* how many days forward the calendar shows

GRID_START_HOUR == 7
GRID_END_HOUR == 23

\* Zones from Greenwich to twelve hours east of it; the holds of a calendar, taken from its hours, share none.
ASSUME AvailabilityAssumption ==
  /\ Cells \subseteq [weekday : 0..6, hour : GRID_START_HOUR..GRID_END_HOUR - 1]
  /\ Dates \subseteq Nat /\ Offsets \subseteq 0..12 /\ Instants \subseteq Nat /\ dayCount \in Nat
  /\ \A taken \in Taken :
       /\ \A s \in taken : {s.startsAt, s.endsAt, s.expiresAt} \subseteq Int /\ s.state \in {"BOOKED", "HELD", "MINE"}
       /\ \A s, t \in taken :
            s.state # "BOOKED" /\ t.state # "BOOKED" /\ s.startsAt < t.endsAt /\ t.startsAt < s.endsAt => s = t

VARIABLES
  zone,        \* CoachProfile.timezone
  clock,       \* the time
  rules,       \* the AvailabilityRule rows
  exceptions,  \* the dates of the AvailabilityException rows
  standing,    \* the scheduled bookings and the holds of open offers
  editor       \* the editor's page: ticked cells, those it was loaded with, those of the last save

availabilityVars == <<zone, clock, rules, exceptions, standing, editor>>

Hours(range) == range.startHour .. range.endHour - 1

Cell(w, h) == [weekday |-> w, hour |-> h]

\* The maximal runs of ticked hours: their first and last cells.
runs(cells) ==
  {p \in cells \X cells :
     /\ p[1].weekday = p[2].weekday /\ p[1].hour <= p[2].hour
     /\ \A h \in p[1].hour .. p[2].hour : Cell(p[1].weekday, h) \in cells
     /\ Cell(p[1].weekday, p[1].hour - 1) \notin cells /\ Cell(p[2].weekday, p[2].hour + 1) \notin cells}

\* Wrong: a range ends where its last hour starts.
cellsToShortRanges(cells) ==
  {[weekday |-> p[1].weekday, startHour |-> p[1].hour, endHour |-> p[2].hour] : p \in runs(cells)}

\* One row per run; a range ends where its last hour ends.
cellsToRanges(cells) ==
  {[weekday |-> p[1].weekday, startHour |-> p[1].hour, endHour |-> p[2].hour + 1] :
     p \in runs({c \in cells : GRID_START_HOUR <= c.hour /\ c.hour < GRID_END_HOUR})}

rangesToCells(ranges) ==
  UNION {{[weekday |-> r.weekday, hour |-> h] :
            h \in Hours(r) \cap (GRID_START_HOUR .. GRID_END_HOUR - 1)} : r \in ranges}

-------------------------------------------------------------------------------
(* The calendar *)

localDate(instant) == (instant + zone) \div 24
zonedToUtc(date, hour) == 24 * date + hour - zone
startOfDay(instant) == instant \div 24
dayShown(now, offset) == localDate(now + 24 * offset)

\* The weekday is read off the UTC day of the local noon.
weekdayOf(date) == (zonedToUtc(date, 12) \div 24) % 7

\* A meeting that was moved may begin or end within the hour, and stands in every hour it touches.
overlaps(s, startsAt) == startsAt < s.endsAt /\ s.startsAt < startsAt + 1

\* Bookings weigh more than holds, and a hold counts until it expires.
stateAt(now, startsAt) ==
  LET over == {s \in standing : overlaps(s, startsAt)}
      holds == {s \in over : s.state # "BOOKED" /\ s.expiresAt > now}
  IN  IF \E s \in over : s.state = "BOOKED" THEN "BOOKED"
      ELSE IF holds # {} THEN (CHOOSE s \in holds : TRUE).state
      ELSE "AVAILABLE"

\* The closed days the query returns: from the start of the UTC day, to the horizon.
exceptionsByDate(now) == {d \in exceptions : d >= startOfDay(now) /\ 24 * d <= now + 24 * dayCount}

slots(now, offset) ==
  LET date == dayShown(now, offset)
      starts == UNION {{zonedToUtc(date, h) : h \in Hours(r)} :
                         r \in {x \in rules : x.weekday = weekdayOf(date)}}
  IN  IF date \in exceptionsByDate(now) THEN {}
      ELSE {[startsAt |-> t, state |-> stateAt(now, t)] : t \in {x \in starts : x > now}}

getCoachCalendar(now) == [offset \in 0..dayCount-1 |-> slots(now, offset)]

\* A slot can be picked when it is free, or in the student's own open offer.
selectable(slot) == slot.state \in {"AVAILABLE", "MINE"}

-------------------------------------------------------------------------------
(* The editor *)

AvailabilityInit ==
  /\ zone \in Offsets /\ clock \in Instants /\ standing \in Taken
  /\ rules = {} /\ exceptions = {}
  /\ editor = [selected |-> {}, baseline |-> {}, saved |-> {}]

\* The page is opened: its grid and its baseline are what is stored.
OpenPage ==
  /\ editor' = [editor EXCEPT !.selected = rangesToCells(rules), !.baseline = rangesToCells(rules)]
  /\ UNCHANGED <<zone, clock, rules, exceptions, standing>>

toggle(c) ==
  /\ editor' = [editor EXCEPT !.selected = IF c \in @ THEN @ \ {c} ELSE @ \cup {c}]
  /\ UNCHANGED <<zone, clock, rules, exceptions, standing>>

toggleColumn(w) ==
  LET keys == {c \in Cells : c.weekday = w}
  IN  /\ editor' = [editor EXCEPT !.selected = IF keys \subseteq @ THEN @ \ keys ELSE @ \cup keys]
      /\ UNCHANGED <<zone, clock, rules, exceptions, standing>>

\* What the button offers depends on the grid the page was loaded with, not on the one last saved.
dirty == editor.selected # editor.baseline

\* Every row is deleted and the grid on screen written, in one transaction.
saveRecurringAvailability ==
  /\ dirty
  /\ rules' = cellsToRanges(editor.selected)
  /\ editor' = [editor EXCEPT !.saved = editor.selected]
  /\ UNCHANGED <<zone, clock, exceptions, standing>>

\* A date is closed from the present UTC day on; closing it twice changes nothing.
addBlackoutDate(d) ==
  /\ d >= startOfDay(clock)
  /\ exceptions' = exceptions \cup {d}
  /\ UNCHANGED <<zone, clock, rules, standing, editor>>

removeBlackoutDate(d) ==
  /\ d \in exceptions /\ d >= startOfDay(clock)
  /\ exceptions' = exceptions \ {d}
  /\ UNCHANGED <<zone, clock, rules, standing, editor>>

ClockMoves ==
  /\ clock' \in {t \in Instants : t > clock}
  /\ UNCHANGED <<zone, rules, exceptions, standing, editor>>

AvailabilityNext ==
  \/ OpenPage \/ saveRecurringAvailability \/ ClockMoves
  \/ \E c \in Cells : toggle(c)
  \/ \E w \in 0..6 : toggleColumn(w)
  \/ \E d \in Dates : addBlackoutDate(d) \/ removeBlackoutDate(d)

AvailabilitySpec == AvailabilityInit /\ [][AvailabilityNext]_availabilityVars

-------------------------------------------------------------------------------
(* Properties *)

\* What a student may pick is what the coach ticked and last saved, on the coach's own clock: every
\* hour that lies ahead, on a day not closed, with nothing standing in it, and no other hour.
CalendarIsTheGrid ==
  \A offset \in 0..dayCount-1 :
    LET day == localDate(clock) + offset
        free(t) == \A s \in standing : t \in s.startsAt..s.endsAt-1 =>
                     s.state # "BOOKED" /\ (s.expiresAt <= clock \/ s.state = "MINE")
    IN  {s.startsAt : s \in {x \in getCoachCalendar(clock)[offset] : selectable(x)}} =
        {t \in {24 * day + c.hour - zone : c \in {x \in editor.saved : x.weekday = day % 7}} :
           t > clock /\ day \notin exceptions /\ free(t)}

\* When the button says that the grid is saved, the grid on screen is the stored one.
SavedMeansSaved == ~dirty => editor.selected = editor.saved
===============================================================================
