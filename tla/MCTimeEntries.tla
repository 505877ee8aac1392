--------------------------- MODULE MCTimeEntries ---------------------------
(***************************************************************************)
(* Instances of TimeEntries for TLC.                                       *)
(***************************************************************************)
EXTENDS TimeEntries

CONSTANTS u1, u2, acme, bistro, site, edge, far

Tap(kind, u, k, t, l, e) ==
  [kind |-> kind, user |-> u, key |-> k, at |-> t, loc |-> l, emp |-> e,
   quality |-> "good"]

\* edge is near both other places, which are not near each other.
MCNear ==
  {p \in Locs \X Locs : p[1] = p[2] \/ edge \in {p[1], p[2]}}

\* One phone taps in, out, in again and out again; every tap may be received
\* any number of times, two at once.
RetryEvents == {Tap("in",  u1, "a", 0, site, None), Tap("out", u1, "A", 1, site, None),
                Tap("in",  u1, "b", 2, site, None), Tap("out", u1, "B", 3, site, None)}

\* A personal shift closed at another place than it began, and requests to
\* book it to either employer, two at once.
BookingEvents == {Tap("in",  u1, "a", 0, edge, None), Tap("out", u1, "A", 1, site, None),
                  Tap("assign", u1, "x", 0, site, acme), Tap("assign", u1, "y", 0, site, bistro)}

\* One request at a time: shifts at an employer, fixes of every quality, age
\* and place, another worker's entry, and the late close of an early shift.
RuleEvents ==
  {[Tap("in", u1, "a", 0, l, acme) EXCEPT !.quality = q] : l \in {site, far}, q \in Quality}
  \cup {Tap("out", u1, "A", t, l, None) : t \in {0, 1}, l \in {site, far}}
  \cup {Tap("in", u2, "a", 5, far, None), Tap("assign", u2, "x", 0, site, acme)}

WorkplaceEvents == BookingEvents \cup RuleEvents

\* Every member active and the two employers apart, to begin with.
WorkplaceInit ==
  /\ Init
  /\ active = Employers \X Users
  /\ anchor = [e \in Employers |-> IF e = acme THEN site ELSE far]
WorkplaceSpec == WorkplaceInit /\ [][Next]_vars

\* A behaviour tells one of the two stories: a story is followed no further
\* where it takes an event of the other, another slot, or too long.
Tells(events, slots, until) ==
  /\ now <= until
  /\ \A s \in Slots : req[s] # Idle => s \in slots /\ req[s].ev \in events
  /\ \A i \in DOMAIN entries :
       \E ev \in events : ev.kind = "in" /\ ev.user = entries[i].user /\ ev.loc = entries[i].inLoc

OneStory ==
  \/ Tells(BookingEvents, Slots, 0) /\ Employers \X {u2} \subseteq active
  \/ Tells(RuleEvents, {1}, MaxNow) /\ {bistro} \X Users \subseteq active /\ bistro \notin moved
=============================================================================
