---------------------------- MODULE Breadcrumbs ----------------------------
(***************************************************************************)
(* Background pings: the handler POST /v1/pings (entry/handler.go Pings,   *)
(* speedAnomaly; entry/store.go LastPing, AddPings, TouchLastPing, Flag)   *)
(* under the phone that feeds it (mobile/src/stores/outbox.ts).            *)
(*                                                                         *)
(* One worker's day is a track: clock-ins, batches of fixes and clock-outs *)
(* in the order the phone captures them.  Batches always go through the    *)
(* phone's first-in first-out queue; a tap goes through it too, or live,   *)
(* past whatever is queued.  The phone sends the head of the queue and     *)
(* waits; when no answer comes it gives up and sends it again, while the   *)
(* first attempt may still be running on the server.  Clock taps are single*)
(* steps here (TimeEntries has their detail), pings are not: every access  *)
(* to the database is an action.                                           *)
(***************************************************************************)
EXTENDS Integers, FiniteSets, SequencesExt

CONSTANTS
  Locs, TravelTime,   \* TravelTime[a, b]: the shortest time from a to b that
                      \* stays under SPEED_ANOMALY_KMH
  Days,               \* the days considered, see Day
  Slots, None

VARIABLES
  day, captured,      \* the day, and how much of its track has happened
  queue, awaiting,    \* the outbox: track indices; the slot the phone waits on
  losses,
  shifts, pings,      \* the documents, in insertion order
  req                 \* the requests being served

vars == <<day, captured, queue, awaiting, losses, shifts, pings, req>>

Fix   == [at: Nat, loc: Locs]
Tap   == [kind: {"in", "out"}, fix: Fix]
Batch == [kind: {"pings"}, fixes: SUBSET Fix]

\* A day: what happens, whether a tap may overtake the queue, and a bound on
\* the answers the phone does not get.
Day   == [track: Seq(Tap \cup Batch), live: BOOLEAN, losses: Nat]
track == day.track

ASSUME TravelAssumption ==
  /\ TravelTime \in [Locs \X Locs -> Nat]
  /\ \A a, b \in Locs : TravelTime[a, b] = TravelTime[b, a] /\ TravelTime[a, a] = 0

ASSUME DayAssumption ==
  /\ Days \subseteq Day
  /\ \A d \in Days : \A k \in DOMAIN d.track :
       d.track[k].kind = "pings" => IsFiniteSet(d.track[k].fixes)

ASSUME NoneAssumption == None \notin Slots \cup Nat

Idle    == [step |-> "idle"]
Request == [step: {"open", "walk", "add", "touch", "flag", "answer"}, batch: Nat,
            fixes: Seq(Fix), shift: Nat, anomaly: BOOLEAN]

Shift == [from: Nat, open: BOOLEAN, in: Fix, speed: BOOLEAN, lastPing: Nat \cup {None}]
Ping  == [shift: Nat, batch: Nat, fix: Fix]

Running == {i \in DOMAIN shifts : shifts[i].open}
Crumbs(i) == {pings[k].fix : k \in {j \in DOMAIN pings : pings[j].shift = i}}

\* Mutant: a journey that takes exactly the least time is flagged too.
SpeedAnomalyAtLimit(p, q) == q.at > p.at /\ q.at - p.at <= TravelTime[p.loc, q.loc]
\* SpeedAnomaly: a non-positive interval is unmeasurable, not suspicious.
SpeedAnomaly(p, q) == q.at > p.at /\ q.at - p.at < TravelTime[p.loc, q.loc]

\* pingFixes: the batch in time order; equal times keep their unknown order.
InTimeOrder(fixes) ==
  {seq \in SetToSeqs(fixes) : \A j, k \in DOMAIN seq : j < k => seq[j].at <= seq[k].at}

\* LastPing: the newest breadcrumbs on record; the clock-in before the first.
\* Mutant: the clock-in whatever is on record.
LastKnownClockIn(i) == {shifts[i].in}
LastKnown(i) ==
  IF Crumbs(i) = {} THEN {shifts[i].in}
  ELSE {p \in Crumbs(i) : \A q \in Crumbs(i) : q.at <= p.at}

\* speedAnomaly: walk the batch from the last known point.
Anomalous(prev, fixes) ==
  LET path == <<prev>> \o fixes
  IN  \E k \in DOMAIN fixes : SpeedAnomaly(path[k], path[k + 1])
-----------------------------------------------------------------------------
(* The phone. *)

\* What the server does with a tap; one it refuses is gone.
Apply(n) ==
  \/ /\ track[n].kind = "in" /\ Running = {}
     /\ shifts' = Append(shifts, [from |-> n, open |-> TRUE, in |-> track[n].fix,
                                  speed |-> FALSE, lastPing |-> None])
  \/ /\ track[n].kind = "out"
     /\ shifts' = [i \in DOMAIN shifts |-> [shifts[i] EXCEPT !.open = FALSE]]
  \/ track[n].kind = "in" /\ Running # {} /\ UNCHANGED shifts

Capture ==
  /\ captured < Len(track)
  /\ captured' = captured + 1
  /\ queue' = Append(queue, captured + 1)
  /\ UNCHANGED <<day, awaiting, losses, shifts, pings, req>>

TapLive ==
  /\ day.live /\ captured < Len(track)
  /\ Apply(captured + 1)
  /\ captured' = captured + 1
  /\ UNCHANGED <<day, queue, awaiting, losses, pings, req>>

FlushTap ==
  /\ queue # << >> /\ awaiting = None
  /\ Apply(Head(queue))
  /\ queue' = Tail(queue)
  /\ UNCHANGED <<day, captured, awaiting, losses, pings, req>>

SendPings(s) ==
  /\ queue # << >> /\ awaiting = None /\ req[s] = Idle
  /\ track[Head(queue)].kind = "pings"
  /\ \E fixes \in InTimeOrder(track[Head(queue)].fixes) :
       req' = [req EXCEPT ![s] = [step |-> "open", batch |-> Head(queue),
                                  fixes |-> fixes, shift |-> 0, anomaly |-> FALSE]]
  /\ awaiting' = s
  /\ UNCHANGED <<day, captured, queue, losses, shifts, pings>>

\* The phone gives up waiting; the item stays queued and the handler runs on.
TimeOut ==
  /\ awaiting # None /\ losses < day.losses
  /\ awaiting' = None
  /\ losses' = losses + 1
  /\ UNCHANGED <<day, captured, queue, shifts, pings, req>>
-----------------------------------------------------------------------------
(* The handler. *)

At(s, step) == req[s].step = step

Hangup(s) == awaiting' = IF awaiting = s THEN None ELSE awaiting

\* Mutant: no running shift is an error, which the phone retries.
PingsOpenRefusing(s) ==
  /\ At(s, "open")
  /\ \/ /\ Running = {}
        /\ req' = [req EXCEPT ![s] = Idle]
        /\ Hangup(s)
     \/ \E i \in Running :
          /\ req' = [req EXCEPT ![s] = [@ EXCEPT !.step = "walk", !.shift = i]]
          /\ UNCHANGED awaiting
  /\ UNCHANGED <<day, captured, queue, losses, shifts, pings>>

\* OpenEntry: a batch without a running shift, or without a fix, is accepted and
\* dropped.
PingsOpen(s) ==
  /\ At(s, "open")
  /\ \/ /\ Running = {} \/ req[s].fixes = << >>
        /\ req' = [req EXCEPT ![s] = [@ EXCEPT !.step = "answer"]]
     \/ \E i \in Running :
          /\ req[s].fixes # << >>
          /\ req' = [req EXCEPT ![s] = [@ EXCEPT !.step = "walk", !.shift = i]]
  /\ UNCHANGED <<day, captured, queue, awaiting, losses, shifts, pings>>

PingsWalk(s) ==
  /\ At(s, "walk")
  /\ \E prev \in LastKnown(req[s].shift) :
       req' = [req EXCEPT ![s] = [@ EXCEPT !.step = "add",
                                    !.anomaly = Anomalous(prev, req[s].fixes)]]
  /\ UNCHANGED <<day, captured, queue, awaiting, losses, shifts, pings>>

Documents(s, n) ==
  [k \in 1 .. n |-> [shift |-> req[s].shift, batch |-> req[s].batch, fix |-> req[s].fixes[k]]]

AddPings(s) ==
  /\ At(s, "add")
  /\ pings' = pings \o Documents(s, Len(req[s].fixes))
  /\ req' = [req EXCEPT ![s] = [@ EXCEPT !.step = "touch"]]
  /\ UNCHANGED <<day, captured, queue, awaiting, losses, shifts>>

\* Mutant: $set instead of $max.
Overwritten(old, at) == at
\* $max, which also writes a missing field.
Latest(old, at) == IF old = None \/ at > old THEN at ELSE old

TouchLastPing(s) ==
  LET i == req[s].shift
      newest == req[s].fixes[Len(req[s].fixes)].at
  IN  /\ At(s, "touch")
      /\ shifts' = [shifts EXCEPT ![i].lastPing = Latest(@, newest)]
      /\ req' = [req EXCEPT ![s] =
                   [@ EXCEPT !.step = IF req[s].anomaly THEN "flag" ELSE "answer"]]
      /\ UNCHANGED <<day, captured, queue, awaiting, losses, pings>>

Flag(s) ==
  /\ At(s, "flag")
  /\ shifts' = [shifts EXCEPT ![req[s].shift] = [@ EXCEPT !.speed = TRUE]]
  /\ req' = [req EXCEPT ![s] = [@ EXCEPT !.step = "answer"]]
  /\ UNCHANGED <<day, captured, queue, awaiting, losses, pings>>

\* Only an answer takes a batch off the queue.
Reply(s) ==
  /\ At(s, "answer")
  /\ req' = [req EXCEPT ![s] = Idle]
  /\ queue' = IF awaiting = s THEN Tail(queue) ELSE queue
  /\ Hangup(s)
  /\ UNCHANGED <<day, captured, losses, shifts, pings>>

\* Mutant: the phone takes a dead connection for an answer.
DieSettled(s) ==
  /\ req[s] # Idle /\ losses < day.losses
  /\ losses' = losses + 1
  /\ req' = [req EXCEPT ![s] = Idle]
  /\ queue' = IF awaiting = s THEN Tail(queue) ELSE queue
  /\ Hangup(s)
  /\ UNCHANGED <<day, captured, shifts, pings>>

\* The process, the database or the connection dies under the request; an
\* InsertMany may have stored the first fixes of the batch.
Die(s) ==
  /\ req[s] # Idle /\ losses < day.losses
  /\ losses' = losses + 1
  /\ req' = [req EXCEPT ![s] = Idle]
  /\ Hangup(s)
  /\ \/ UNCHANGED pings
     \/ \E n \in 1 .. Len(req[s].fixes) - 1 :
          At(s, "add") /\ pings' = pings \o Documents(s, n)
  /\ UNCHANGED <<day, captured, queue, shifts>>

Init ==
  /\ day \in Days /\ captured = 0
  /\ queue = << >> /\ awaiting = None /\ losses = 0
  /\ shifts = << >> /\ pings = << >>
  /\ req = [s \in Slots |-> Idle]

Handle(s) ==
  \/ PingsOpen(s) \/ PingsWalk(s) \/ AddPings(s) \/ TouchLastPing(s) \/ Flag(s) \/ Reply(s)

Phone == Capture \/ TapLive \/ FlushTap \/ TimeOut

Next == Phone \/ \E s \in Slots : SendPings(s) \/ Handle(s) \/ Die(s)

Spec == Init /\ [][Next]_vars

\* The flush loop keeps going (sync.ts starts it on every foreground, reconnect
\* and retry timer) and the server finishes what it started unless it dies.
Fairness ==
  /\ WF_vars(FlushTap \/ \E s \in Slots : SendPings(s))
  /\ \A s \in Slots : WF_vars(Handle(s))

FairSpec == Spec /\ Fairness
-----------------------------------------------------------------------------
TypeOK ==
  /\ day \in Days /\ captured \in 0 .. Len(track)
  /\ queue \in Seq(1 .. captured) /\ awaiting \in Slots \cup {None}
  /\ losses \in 0 .. day.losses
  /\ shifts \in Seq(Shift) /\ pings \in Seq(Ping)
  /\ req \in [Slots -> Request \cup {Idle}]
  /\ \A k \in DOMAIN pings : pings[k].shift \in DOMAIN shifts
  /\ \A s \in Slots :
       req[s].step \in {"walk", "add", "touch", "flag"} => req[s].shift \in DOMAIN shifts

Quiet == queue = << >> /\ \A s \in Slots : req[s] = Idle
Delivered == Quiet /\ captured = Len(track)

\* "Last seen" never moves back, whichever attempt finishes last.
LastSeenNeverRegresses ==
  [][\A i \in DOMAIN shifts :
       shifts[i].lastPing # None => shifts'[i].lastPing >= shifts[i].lastPing]_vars

\* Once the phone has got rid of everything, "last seen" of the running shift
\* is its newest breadcrumb, even if a handler died half-way or was given up:
\* the retry that was answered has repeated the missing step.  (After a second
\* loss a first attempt may still be half done when the shift has moved on.)
LastSeenCatchesUp ==
  Quiet /\ losses <= 1 => \A i \in Running : \A p \in Crumbs(i) :
    shifts[i].lastPing # None /\ p.at <= shifts[i].lastPing

\* Accepting a batch that has no shift keeps the outbox from retrying it, and
\* everything queued behind it, for ever (handler.go Pings).
EveryBatchSettles == queue # << >> ~> queue = << >>

\* Nobody can have travelled from p to the later q.
Impossible(p, q) == p.at < q.at /\ q.at < p.at + TravelTime[p.loc, q.loc]

\* Neighbouring points of a shift that nobody can have travelled between.
Jumps(points) ==
  {pq \in points \X points :
     Impossible(pq[1], pq[2]) /\ \A r \in points : r.at <= pq[1].at \/ r.at >= pq[2].at}

\* The fixes captured while the worker was on shift i.
Own(i) ==
  LET from == shifts[i].from
      later == {n \in from + 1 .. Len(track) : track[n].kind = "in"}
      own   == {n \in from + 1 .. Len(track) :
                  track[n].kind = "pings" /\ \A m \in later : n < m}
  IN  {shifts[i].in} \cup UNION {track[n].fixes : n \in own}

\* The worker clocks out of a shift before the next, and the phone takes one fix
\* at a time.
Fixes(n) == IF track[n].kind = "pings" THEN track[n].fixes ELSE {track[n].fix}
DayInOrder ==
  /\ \A j, k \in DOMAIN track : j < k /\ track[j].kind = "in" /\ track[k].kind = "in" =>
       \E m \in j + 1 .. k - 1 : track[m].kind = "out"
  /\ \A j, k \in DOMAIN track : j < k => \A p \in Fixes(j), q \in Fixes(k) : p.at < q.at
  /\ \A k \in DOMAIN track : \A p, q \in Fixes(k) : p.at = q.at => p = q

\* The order of the day is kept: no answer is lost, no tap overtakes the queue.
InOrder == losses = 0 /\ ~day.live /\ DayInOrder

\* On a day in order an impossible jump on a shift's track is flagged, also
\* across the seam between what was stored and a new batch (handler.go
\* speedAnomaly).
JumpsAreFlagged ==
  InOrder /\ Delivered => \A i \in DOMAIN shifts :
    Jumps({shifts[i].in} \cup Crumbs(i)) # {} => shifts[i].speed

\* A speed flag is about this shift: an impossible jump between points of it.
\* That is what outbox.ts says of every batch, the misfiled one included.
FlagIsEarned ==
  \A i \in DOMAIN shifts :
    shifts[i].speed => \E p, q \in Own(i) : Impossible(p, q)

\* It is true of a day in order.
FlagIsEarnedInOrder == InOrder => FlagIsEarned
=============================================================================
