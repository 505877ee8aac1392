--------------------------- MODULE MCBreadcrumbs ---------------------------
(***************************************************************************)
(* Instances of Breadcrumbs for TLC: two places two units of time apart.   *)
(***************************************************************************)
EXTENDS Breadcrumbs

CONSTANTS home, away

MCTravelTime == [p \in Locs \X Locs |-> IF p[1] = p[2] THEN 0 ELSE 2]

Point(t, l)   == [at |-> t, loc |-> l]
In(t, l)      == [kind |-> "in", fix |-> Point(t, l)]
Out(t, l)     == [kind |-> "out", fix |-> Point(t, l)]
Pings(fixes)  == [kind |-> "pings", fixes |-> fixes]

\* Two shifts; the worker is anywhere at any time.  The second shift has time
\* for an honest journey before its clock-in.
DayTracks ==
  {<<In(0, r[1]), Pings({Point(1, r[2]), Point(3, r[3])}), Pings({Point(4, r[4])}),
     Out(5, r[4]), In(7, r[5]), Pings({Point(8, r[6])})>> : r \in [1 .. 6 -> Locs]}

\* A shift whose batches may be sent twice, and a second one after it.
RetryTracks ==
  {<<In(0, home), Pings({Point(1, l), Point(3, home)}), Pings({Point(4, m)}),
     Out(5, home), In(6, home)>> : l, m \in Locs}

\* Days in order, and days on which answers are lost and taps overtake.
MCDays ==
  [track: DayTracks, live: {FALSE}, losses: {0}] \cup
  [track: RetryTracks, live: {TRUE}, losses: {2}]

\* Nothing is lost, but the worker taps while the queue holds pings.
OvertakenDays == [track: DayTracks, live: {TRUE}, losses: {0}]
=============================================================================
