------------------------------ MODULE Payroll ------------------------------
(***************************************************************************)
(* The same shifts, seen three ways by their employer: paid by the report  *)
(* of the backend (backend/internal/tip/handler.go), whose tips are split  *)
(* by split.go; listed beside that money in the web table, which fetches   *)
(* them itself (web/src/routes/table.tsx, lib/report.ts, lib/csv.ts); and  *)
(* drawn in the week grid (routes/calendar.tsx, lib/week.ts).              *)
(*                                                                         *)
(* Instants and days are numbers; a day has Day of them on the clock.  A   *)
(* zone is an offset that changes once.  Rates add nothing that the shares *)
(* do not show and are left out.                                           *)
(***************************************************************************)
EXTENDS Integers, Sequences, FiniteSetsExt, Functions, Folds

CONSTANTS
  Day,                 \* clock minutes of a day
  from, to,            \* the days on screen
  Open,                \* the end of a running shift
  Stories              \* what a behaviour holds, see Story

\* The zones, none of which changes by more than a day; the instants at which something
\* happens; the crew and its shifts; instants per minute, as far as pay is rounded; the
\* pools that may be entered.
Zone  == {z \in [before: Int, after: Int, at: Int] : z.after - z.before \in -Day .. Day}
Story == [zones: SUBSET Zone, times: SUBSET Int, crew: Nat, shifts: Nat,
          grain: Nat \ {0}, pools: SUBSET Nat]

ASSUME PayrollAssumption ==
  /\ Day \in Nat \ {0} /\ from \in Int /\ to \in Int /\ from <= to /\ Open \notin Int
  /\ Stories \subseteq Story

VARIABLES story, zone, now, shifts, pools

payVars == <<story, zone, now, shifts, pools>>

Crew      == 1 .. story.crew             \* by name
Days      == from .. to
Shift     == [who: Nat, in: Int, out: Int \cup {Open}]
Closed    == {i \in DOMAIN shifts : shifts[i].out # Open}
Running(w) == \E i \in DOMAIN shifts : shifts[i].who = w /\ shifts[i].out = Open
-----------------------------------------------------------------------------
(* The clock of a zone. *)

offset(t)    == IF t < zone.at THEN zone.before ELSE zone.after
Local(t)     == t + offset(t)
dayKey(t)    == Local(t) \div Day
minutes(t)   == Local(t) % Day

\* Mutant: one pass, as if the first guess were always right.
StartOfDayOnePass(d) == d * Day - offset(d * Day)
\* Two guesses at midnight; where there is none, the later of them.
startOfDay(d) ==
  LET guess     == d * Day - offset(d * Day)
      corrected == d * Day - offset(guess)
  IN IF dayKey(corrected) = d THEN corrected
     ELSE IF guess > corrected THEN guess ELSE corrected

\* Midnight comes twice: the clock is put back over it.
Rewound(d) == zone.at + zone.after <= d * Day /\ d * Day < zone.at + zone.before
\* There is none, and not for want of its first minute: the clock was put on before it.
Skipped(d) == zone.at + zone.before < d * Day /\ d * Day < zone.at + zone.after
-----------------------------------------------------------------------------
(* The report. *)

\* Mutant: the leftover goes to whoever comes first.
LeftoverInOrder(p, q) == p.idx < q.idx
\* The larger remainder, then the longer shift, then the order of the rows.
LeftoverFirst(p, q) ==
  \/ p.remainder > q.remainder
  \/ p.remainder = q.remainder /\ p.min > q.min
  \/ p.remainder = q.remainder /\ p.min = q.min /\ p.idx < q.idx

SplitByMinutes(amount, mins) ==
  LET total    == SumFunction(mins)
      Share(i) == (amount * mins[i]) \div total
      parts    == {[idx |-> i, remainder |-> (amount * mins[i]) % total, min |-> mins[i]]
                     : i \in {j \in DOMAIN mins : mins[j] > 0}}
      leftover == amount - MapThenSumSet(Share, DOMAIN mins)
      First(i) == \E p \in parts : /\ p.idx = i
                                   /\ Cardinality({q \in parts : LeftoverFirst(q, p)}) < leftover
  IN IF amount = 0 \/ total = 0 THEN [i \in DOMAIN mins |-> 0]
     ELSE [i \in DOMAIN mins |-> Share(i) + IF First(i) THEN 1 ELSE 0]

\* instantWindow: a day of slack around midnights that Go resolves to either side
\* of a change; the narrower window is taken.
InReport(i) ==
  /\ shifts[i].in >= from * Day - Min({zone.before, zone.after}) - Day
  /\ shifts[i].in < (to + 1) * Day - Max({zone.before, zone.after}) + Day

\* buildReport: closed shifts, under the local day they began on.
Paid(d, w) == {i \in Closed : shifts[i].who = w /\ InReport(i) /\ dayKey(shifts[i].in) = d}

\* Each shift to the nearest minute.
PaidMinutes(d, w) ==
  LET Rounded(i) == (shifts[i].out - shifts[i].in + story.grain \div 2) \div story.grain
  IN MapThenSumSet(Rounded, Paid(d, w))

\* buildDay: the rows of who worked, in the order of the crew, and their shares.
Worked(d) == {w \in Crew : Paid(d, w) # {}}
Mins(d)   == [w \in Worked(d) |-> PaidMinutes(d, w)]
Shares(d) == SplitByMinutes(pools[d], Mins(d))
-----------------------------------------------------------------------------
(* The table and its file. *)

\* shiftsByMemberDay, of the entries the table asks for: what a member's row lists.
Fetched(i) == shifts[i].in >= startOfDay(from) /\ shifts[i].in < startOfDay(to + 1)
Listed(d, w) == {i \in Closed : shifts[i].who = w /\ Fetched(i) /\ dayKey(shifts[i].in) = d}

\* reportToCsv: the tip column, with a line for a pool that reached nobody.
UnassignedTip(d) == IF pools[d] # SumFunction(Shares(d)) THEN pools[d] ELSE 0
TipColumn(d)     == SumFunction(Shares(d)) + UnassignedTip(d)
-----------------------------------------------------------------------------
(* The week grid. *)

\* The calendar's entries start a day early.
Drawable(i) == shifts[i].in >= startOfDay(from - 1) /\ shifts[i].in < startOfDay(to + 1)

\* Where a bar ends: a running shift goes on to now, or to the end of its day.
BarEnd(i) ==
  CASE shifts[i].out # Open -> [day |-> dayKey(shifts[i].out), min |-> minutes(shifts[i].out)]
    [] shifts[i].out = Open /\ dayKey(now) > dayKey(shifts[i].in) ->
         [day |-> dayKey(shifts[i].in), min |-> Day]
    [] shifts[i].out = Open /\ dayKey(now) <= dayKey(shifts[i].in) ->
         [day |-> dayKey(now), min |-> minutes(now)]

Segment(i, d, a, b) == [shift |-> i, day |-> d, startMin |-> a, endMin |-> b]

\* One piece per day; a shift the clock was put back over, or one from the
\* browser's future, keeps a piece of no length.
segmentsFor(i) ==
  LET d   == dayKey(shifts[i].in)
      m   == minutes(shifts[i].in)
      end == BarEnd(i)
  IN CASE end.day < d \/ (end.day = d /\ end.min < m) -> {Segment(i, d, m, m)}
       [] end.day = d /\ end.min >= m                 -> {Segment(i, d, m, end.min)}
       [] end.day > d ->
            {Segment(i, d, m, Day)}
              \cup {Segment(i, e, 0, Day) : e \in d + 1 .. end.day - 1}
              \cup (IF end.min > 0 THEN {Segment(i, end.day, 0, end.min)} ELSE {})

Bars(d) == UNION {{g \in segmentsFor(i) : g.day = d} : i \in {j \in DOMAIN shifts : Drawable(j)}}

\* By start, then end; ties stay newest first.
Before(p, q) ==
  \/ p.startMin < q.startMin
  \/ p.startMin = q.startMin /\ p.endMin < q.endMin
  \/ p.startMin = q.startMin /\ p.endMin = q.endMin /\ p.shift > q.shift

\* Mutant: a bar that starts when another ends overlaps it.
FreeLanesStrict(ends, bar) == {l \in DOMAIN ends : ends[l] < bar.startMin}
FreeLanes(ends, bar) == {l \in DOMAIN ends : ends[l] <= bar.startMin}

\* Each bar takes the first free lane; with none still running, lanes start anew.
Place(bar, acc) ==
  LET over  == FreeLanes(acc.ends, bar) = DOMAIN acc.ends
      ends  == IF over THEN << >> ELSE acc.ends
      free  == FreeLanes(ends, bar)
      lane  == IF free = {} THEN Len(ends) + 1 ELSE Min(free)
      group == IF over THEN acc.group + 1 ELSE acc.group
  IN [ends   |-> IF free = {} THEN Append(ends, bar.endMin) ELSE [ends EXCEPT ![lane] = bar.endMin],
      group  |-> group,
      placed |-> acc.placed \cup {[bar |-> bar, lane |-> lane, group |-> group]}]

\* layoutWeek: the bars of a day with their lanes, placed one after another.
LastOf(bars) == CHOOSE b \in bars : \A c \in bars : c = b \/ Before(c, b)
Placed(bars) ==
  MapThenFoldSet(Place, [ends |-> << >>, group |-> 0, placed |-> {}], LAMBDA b : b, LastOf,
                 bars)
assignLanes(d) == Placed(Bars(d)).placed
\* A group shares its lane count.
LaneCount(p, placed) == Max({q.lane : q \in {o \in placed : o.group = p.group}})
-----------------------------------------------------------------------------
PayInit ==
  /\ story \in Stories /\ zone \in story.zones
  /\ now \in story.times /\ \A t \in story.times : now <= t
  /\ shifts = << >> /\ pools = [d \in Days |-> 0]

Later(t) == t \in story.times /\ t >= now /\ now' = t

ClockIn(w, t) ==
  /\ Later(t) /\ Len(shifts) < story.shifts /\ ~Running(w)
  /\ shifts' = Append(shifts, [who |-> w, in |-> t, out |-> Open])
  /\ UNCHANGED <<story, zone, pools>>

ClockOut(i, t) ==
  /\ Later(t) /\ i \in DOMAIN shifts \ Closed /\ t > shifts[i].in
  /\ shifts' = [shifts EXCEPT ![i].out = t]
  /\ UNCHANGED <<story, zone, pools>>

\* PUT of a day's pool; an unset one and a pool of nothing read alike here.
SetTip(d, c) ==
  /\ c \in story.pools /\ c # pools[d] /\ pools' = [pools EXCEPT ![d] = c]
  /\ UNCHANGED <<story, zone, now, shifts>>

\* Time passes by itself where something runs.
Tick(t) ==
  /\ Later(t) /\ t # now /\ Closed # DOMAIN shifts
  /\ UNCHANGED <<story, zone, shifts, pools>>

PayNext ==
  \/ \E t \in story.times : Tick(t) \/ \E w \in Crew : ClockIn(w, t)
  \/ \E t \in story.times, i \in DOMAIN shifts : ClockOut(i, t)
  \/ \E d \in Days, c \in story.pools : SetTip(d, c)

PaySpec == PayInit /\ [][PayNext]_payVars
-----------------------------------------------------------------------------
PayTypeOK ==
  /\ story \in Stories /\ zone \in story.zones /\ now \in story.times
  /\ shifts \in Seq(Shift) /\ pools \in [Days -> Nat]

\* A member's row lists exactly the shifts it pays, whatever the clocks do between
\* the days of the range, unless they were changed over the midnight that begins or
\* ends it (table.tsx: the two agree row for row).
RowsListWhatTheyPay ==
  ~Rewound(from) /\ ~Skipped(from) /\ ~Rewound(to + 1) =>
    \A d \in Days, w \in Crew : Listed(d, w) = Paid(d, w)

\* Only the first day of the range is affected, a late end only widens the window
\* (lib/week.ts on startOfDay).
LateEndsOnlyWiden ==
  ~Rewound(from) /\ ~Skipped(from) =>
    \A d \in Days, w \in Crew : Listed(d, w) = Paid(d, w)

\* The tips of a day are in the file to the cent, each share within a cent of its
\* proportion, and no longer day gets less (split.go, lib/csv.ts).
EveryCentIsShared ==
  \A d \in Days :
    LET total == SumFunction(Mins(d)) IN
    /\ TipColumn(d) = pools[d]
    /\ total > 0 => \A i \in DOMAIN Mins(d) :
         /\ Shares(d)[i] * total < pools[d] * Mins(d)[i] + total
         /\ pools[d] * Mins(d)[i] < Shares(d)[i] * total + total
         /\ \A j \in DOMAIN Mins(d) : Mins(d)[i] > Mins(d)[j] => Shares(d)[i] >= Shares(d)[j]

\* The clock minutes of a shift that the grid is to show.
Wall(i) ==
  LET a == Local(shifts[i].in)
  IN IF shifts[i].out # Open THEN a .. Local(shifts[i].out) - 1
     ELSE a .. Min({Local(now), (dayKey(shifts[i].in) + 1) * Day}) - 1

\* A shift of up to a day on the clock is drawn over exactly its minutes, unless the
\* clocks were changed over a midnight that bounds what is fetched (lib/week.ts).
ShiftsAreDrawn ==
  ~Rewound(from - 1) /\ ~Skipped(from - 1) /\ ~Rewound(to + 1) =>
    \A i \in DOMAIN shifts : Cardinality(Wall(i)) <= Day =>
      \A d \in Days, x \in 0 .. Day - 1 :
        (d * Day + x \in Wall(i)) =
          (\E g \in Bars(d) : g.shift = i /\ g.startMin <= x /\ x < g.endMin)

\* And every bar has its place: overlapping ones side by side, in no more lanes than
\* there are bars at the beginning of one of them.
WeekShowsEveryShift ==
  /\ ShiftsAreDrawn
  /\ \A d \in Days : LET placed == assignLanes(d) IN
       /\ Bars(d) = {p.bar : p \in placed}
       /\ \A p, q \in placed : p # q =>
            /\ p.bar # q.bar
            /\ p.bar.startMin < q.bar.endMin /\ q.bar.startMin < p.bar.endMin =>
                 p.lane # q.lane /\ p.group = q.group
       /\ \A p \in placed : \E q \in placed : q.group = p.group /\
            LaneCount(p, placed) =
              Cardinality({o \in placed : /\ o.group = p.group
                                          /\ \/ o = q
                                             \/ /\ o.bar.startMin <= q.bar.startMin
                                                /\ q.bar.startMin < o.bar.endMin})

\* No bar hides another that starts with it (lib/week.ts: stays clickable).
BarsStayClickable ==
  \A d \in Days : \A p, q \in assignLanes(d) :
    p # q /\ p.bar.startMin = q.bar.startMin => p.lane # q.lane
=============================================================================
