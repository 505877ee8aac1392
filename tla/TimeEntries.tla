---------------------------- MODULE TimeEntries ----------------------------
(***************************************************************************)
(* The time-entry service: backend/internal/entry/{handler,store,geo}.go   *)
(* over the time_entries collection.                                       *)
(*                                                                         *)
(* Every HTTP request is a process in a slot of Slots.  A handler talks to *)
(* MongoDB several times; each read or write of a document is one action,  *)
(* so any other request may run between two of them.  What happens in      *)
(* memory between two accesses belongs to the action before it.  There are *)
(* no transactions: the only protection is the two unique indexes of       *)
(* mongox/indexes.go and the filters of the conditional updates.           *)
(*                                                                         *)
(* An event of Events is a tap captured by a phone, with the key           *)
(* (client_id) it is sent under; the same event may be received any number *)
(* of times, live or replayed from the outbox, in any order, and two       *)
(* receptions may be served at once.                                       *)
(***************************************************************************)
EXTENDS LocationRules, Sequences, FiniteSets

CONSTANTS Users, Employers, Keys, Slots, None,
          Events,        \* the taps, see Event
          MaxNow         \* bound: the last instant of the server's clock

VARIABLES
  entries,   \* the time_entries documents, by insertion order
  req,       \* what each slot is serving
  now,       \* the server's clock
  active,    \* pairs <<employer, user>> with an active membership
  anchor,    \* each employer's clock-in centre
  moved,     \* employers whose centre was moved (each moves at most once)
  lateEnds   \* history: the ends <<i, "in">> and <<i, "out">> of shifts whose
             \* fix was late when it was judged; no document says so directly

vars == <<entries, req, now, active, anchor, moved, lateEnds>>

Event == [kind: {"in", "out", "assign"}, user: Users, key: Keys, at: Nat,
          loc: Locs, emp: Employers \cup {None}, quality: Quality]

ASSUME BoundAssumption == MaxNow \in Nat

ASSUME EventsAssumption ==
  /\ Events \subseteq Event
  /\ \A ev \in Events : ev.kind = "assign" => ev.emp # None
  /\ None \notin Employers /\ None \notin Keys
  /\ None \notin Nat /\ None \notin Locs

Flags == {"backdated", "speed_anomaly"}

Entry == [user: Users, key: Keys, emp: Employers \cup {None},
          status: {"open", "closed"}, verified: BOOLEAN, flags: SUBSET Flags,
          inAt: Nat, inLoc: Locs,
          closeKey: Keys \cup {None}, outAt: Nat \cup {None},
          outLoc: Locs \cup {None}]

Conflicts == {"OPEN_ENTRY_EXISTS", "NO_OPEN_ENTRY"}
Refusals  == Conflicts \cup {"INVALID", "NOT_MEMBER", "NOT_FOUND"}
                       \cup (FixCodes \ {"OK"})
Codes     == {"", "OK", "CREATED"} \cup Refusals

Steps == {"judge", "write", "reread", "answer"}

\* id and emp are what the handler read of a document and still holds, age how
\* old the fix was when it was judged.
Request == [step: Steps \cup {"open"}, ev: Events, queued: BOOLEAN, id: Nat,
            emp: Employers \cup {None}, age: Int, verified: BOOLEAN,
            code: Codes]
Idle    == [step |-> "idle"]
-----------------------------------------------------------------------------
(* Reads of the collection. *)

ByClientID(u, k)      == {i \in DOMAIN entries : entries[i].user = u /\ entries[i].key = k}
ByCloseClientID(u, k) == {i \in DOMAIN entries : /\ entries[i].user = u
                                                 /\ entries[i].closeKey = k
                                                 /\ entries[i].status = "closed"}
OpenEntry(u)          == {i \in DOMAIN entries : entries[i].user = u /\ entries[i].status = "open"}

\* Mutant: one index is missing.
DuplicateClientID(u, k) == ByClientID(u, k) # {}

\* The unique indexes (user_id, client_id) and (user_id) where status is open.
DuplicateKey(u, k) == ByClientID(u, k) \cup OpenEntry(u) # {}

\* anchor(): the centre a clock-in is measured against, none when personal.
AnchorsAtClockIn(e) == IF e = None THEN {} ELSE {anchor[e]}

\* closeAnchor(): a personal shift is measured against where it started.
AnchorsAtClose(e, start) == IF e = None THEN {start} ELSE {anchor[e]}

\* withinAnchor(): both ends of the shift lie within the centre's radius.
OnSiteAtStart(e, centre) == WithinAnchor(e.inLoc, centre)   \* mutant: one end only
OnSite(e, centre) == WithinAnchor(e.inLoc, centre) /\ WithinAnchor(e.outLoc, centre)

\* Mutant: a running shift is stored with a blank close key, not without one.
NewEntryBlankKey(ev, flags) ==
  [user |-> ev.user, key |-> ev.key, emp |-> ev.emp, status |-> "open",
   verified |-> TRUE, flags |-> flags,
   inAt |-> ev.at, inLoc |-> ev.loc,
   closeKey |-> "", outAt |-> None, outLoc |-> None]

NewEntry(ev, flags) ==
  [user |-> ev.user, key |-> ev.key, emp |-> ev.emp, status |-> "open",
   verified |-> TRUE, flags |-> flags,
   inAt |-> ev.at, inLoc |-> ev.loc,
   closeKey |-> None, outAt |-> None, outLoc |-> None]

\* Mutant: $set of the flags instead of $addToSet.
ClosedEntrySetFlags(e, ev, flags) ==
  [e EXCEPT !.status = "closed", !.closeKey = ev.key, !.outAt = ev.at,
            !.outLoc = ev.loc, !.flags = flags]

ClosedEntry(e, ev, flags) ==
  [e EXCEPT !.status = "closed", !.closeKey = ev.key, !.outAt = ev.at,
            !.outLoc = ev.loc,
            !.flags = @ \cup flags]
\* Flag(): an advisory verdict, added at most once.
Flagged(e, flag) == [e EXCEPT !.flags = @ \cup {flag}]
-----------------------------------------------------------------------------
(* What a handler does to its own request. *)

Begin(s, ev, queued, step) ==
  req' = [req EXCEPT ![s] =
    [step |-> step, ev |-> ev, queued |-> queued, id |-> 0, emp |-> None,
     age |-> 0, verified |-> FALSE, code |-> ""]]

BeginAnswered(s, ev, queued, code, id) ==
  req' = [req EXCEPT ![s] =
    [step |-> "answer", ev |-> ev, queued |-> queued, id |-> id, emp |-> None,
     age |-> 0, verified |-> FALSE, code |-> code]]

Answer(s, code, id) ==
  req' = [req EXCEPT ![s] = [@ EXCEPT !.step = "answer", !.code = code, !.id = id]]

Proceed(s, step) == req' = [req EXCEPT ![s] = [@ EXCEPT !.step = step]]

At(s, kind, step) == req[s].step = step /\ req[s].ev.kind = kind

World == <<now, active, anchor, moved>>

RecordLate(i, end, age) ==
  lateEnds' = IF age > MaxClockSkew THEN lateEnds \cup {<<i, end>>} ELSE lateEnds
-----------------------------------------------------------------------------
(* POST /v1/entries/clock-in *)

\* Parse the body, then the idempotency lookup: a hit answers with the entry.
ClockIn(s, ev, queued) ==
  /\ req[s] = Idle /\ ev.kind = "in"
  /\ \/ \E i \in ByClientID(ev.user, ev.key) : BeginAnswered(s, ev, queued, "OK", i)
     \/ ByClientID(ev.user, ev.key) = {} /\ Begin(s, ev, queued, "judge")
  /\ UNCHANGED <<entries, lateEnds, World>>

\* anchor() reads the membership and the employer, then ValidateFix and
\* backdatedFlags read the clock.
ClockInJudge(s) ==
  LET ev   == req[s].ev
      code == IF ev.emp # None /\ <<ev.emp, ev.user>> \notin active
              THEN "NOT_MEMBER"
              ELSE ValidateFix(ev, now, req[s].queued, AnchorsAtClockIn(ev.emp))
  IN  /\ At(s, "in", "judge")
      /\ IF code = "OK"
         THEN req' = [req EXCEPT ![s] = [@ EXCEPT !.step = "write",
                                           !.age = now - ev.at]]
         ELSE Answer(s, code, 0)
      /\ UNCHANGED <<entries, lateEnds, World>>

\* InsertOne under the unique indexes.
ClockInInsert(s) ==
  LET ev == req[s].ev IN
  /\ At(s, "in", "write")
  /\ IF DuplicateKey(ev.user, ev.key)
     THEN Proceed(s, "reread") /\ UNCHANGED <<entries, lateEnds>>
     ELSE /\ entries' = Append(entries, NewEntry(ev, BackdatedFlags(req[s].queued, req[s].age)))
          /\ RecordLate(Len(entries) + 1, "in", req[s].age)
          /\ Answer(s, "CREATED", Len(entries) + 1)
  /\ UNCHANGED World

\* Mutant: what is in the way is taken for the replay's own entry.
ClockInRereadOpen(s) ==
  LET ev == req[s].ev IN
  /\ At(s, "in", "reread")
  /\ \/ \E i \in ByClientID(ev.user, ev.key) \cup OpenEntry(ev.user) : Answer(s, "OK", i)
     \/ DuplicateKey(ev.user, ev.key) = FALSE /\ Answer(s, "OPEN_ENTRY_EXISTS", 0)
  /\ UNCHANGED <<entries, lateEnds, World>>

\* The insert was refused: re-reading by key tells a replay from a second shift.
ClockInReread(s) ==
  LET ev == req[s].ev IN
  /\ At(s, "in", "reread")
  /\ \/ \E i \in ByClientID(ev.user, ev.key) : Answer(s, "OK", i)
     \/ ByClientID(ev.user, ev.key) = {} /\ Answer(s, "OPEN_ENTRY_EXISTS", 0)
  /\ UNCHANGED <<entries, lateEnds, World>>
-----------------------------------------------------------------------------
(* POST /v1/entries/clock-out *)

\* Parse the body, then the idempotency lookup over closed entries.
ClockOut(s, ev, queued) ==
  /\ req[s] = Idle /\ ev.kind = "out"
  /\ \/ \E i \in ByCloseClientID(ev.user, ev.key) : BeginAnswered(s, ev, queued, "OK", i)
     \/ ByCloseClientID(ev.user, ev.key) = {} /\ Begin(s, ev, queued, "open")
  /\ UNCHANGED <<entries, lateEnds, World>>

\* Find the running shift; the close must be strictly after its clock-in.
ClockOutOpen(s) ==
  LET ev == req[s].ev IN
  /\ At(s, "out", "open")
  /\ \/ OpenEntry(ev.user) = {} /\ Proceed(s, "reread")
     \/ \E i \in OpenEntry(ev.user) :
          IF ev.at > entries[i].inAt
          THEN req' = [req EXCEPT ![s] = [@ EXCEPT !.step = "judge", !.id = i,
                                            !.emp = entries[i].emp]]
          ELSE Answer(s, "INVALID", 0)
  /\ UNCHANGED <<entries, lateEnds, World>>

\* closeAnchor() and ValidateClose, from the entry as it was read; membership
\* is not checked again.
ClockOutJudge(s) ==
  LET ev   == req[s].ev
      code == ValidateClose(ev, now, req[s].queued,
                AnchorsAtClose(req[s].emp, entries[req[s].id].inLoc))
  IN  /\ At(s, "out", "judge")
      /\ IF code = "OK"
         THEN req' = [req EXCEPT ![s] = [@ EXCEPT !.step = "write",
                                           !.age = now - ev.at]]
         ELSE Answer(s, code, 0)
      /\ UNCHANGED <<entries, lateEnds, World>>

\* Mutant: the update is filtered on _id alone.
ClockOutUpdateUnfiltered(s) ==
  LET i == req[s].id IN
  /\ At(s, "out", "write")
  /\ entries' = [entries EXCEPT ![i] = ClosedEntry(@, req[s].ev, {})]
  /\ Answer(s, "OK", i)
  /\ UNCHANGED <<lateEnds, World>>

\* UpdateOne filtered on status open; no match means another request closed it.
ClockOutUpdate(s) ==
  LET ev == req[s].ev
      i  == req[s].id
  IN  /\ At(s, "out", "write")
      /\ IF entries[i].status = "open"
         THEN /\ entries' = [entries EXCEPT ![i] = 
                   ClosedEntry(@, ev, BackdatedFlags(req[s].queued, req[s].age))]
              /\ RecordLate(i, "out", req[s].age)
              /\ Answer(s, "OK", i)
         ELSE Proceed(s, "reread") /\ UNCHANGED <<entries, lateEnds>>
      /\ UNCHANGED World

\* Mutant: a conflict without looking the key up again.
ClockOutConflict(s) ==
  /\ At(s, "out", "reread")
  /\ Answer(s, "NO_OPEN_ENTRY", 0)
  /\ UNCHANGED <<entries, lateEnds, World>>

\* closedOrConflict(): nothing to close is a replay if this key closed a shift.
ClockOutReread(s) ==
  LET ev == req[s].ev IN
  /\ At(s, "out", "reread")
  /\ \/ \E i \in ByCloseClientID(ev.user, ev.key) : Answer(s, "OK", i)
     \/ ByCloseClientID(ev.user, ev.key) = {} /\ Answer(s, "NO_OPEN_ENTRY", 0)
  /\ UNCHANGED <<entries, lateEnds, World>>
-----------------------------------------------------------------------------
(* PATCH /v1/entries/{id}: assign an employer to a personal entry *)

AssignRefusal(ev, e) ==
  CASE e.user # ev.user                           -> "NOT_FOUND"
    [] e.user = ev.user /\ (e.emp # None \/ e.status # "closed") -> "INVALID"
    [] OTHER                                      -> "OK"

\* ByID is scoped to the owner; only a closed personal entry can be assigned.
Assign(s, ev, i) ==
  /\ req[s] = Idle /\ ev.kind = "assign"
  /\ IF AssignRefusal(ev, entries[i]) = "OK"
     THEN req' = [req EXCEPT ![s] =
            [step |-> "judge", ev |-> ev, queued |-> FALSE, id |-> i, emp |-> None,
             age |-> 0, verified |-> FALSE, code |-> ""]]
     ELSE BeginAnswered(s, ev, FALSE, AssignRefusal(ev, entries[i]), 0)
  /\ UNCHANGED <<entries, lateEnds, World>>

\* anchor() checks the membership and reads the centre; withinAnchor()
\* re-measures both fixes against it.
AssignJudge(s) ==
  LET ev == req[s].ev
      e  == entries[req[s].id]
  IN  /\ At(s, "assign", "judge")
      /\ IF <<ev.emp, ev.user>> \in active
         THEN req' = [req EXCEPT ![s] = [@ EXCEPT !.step = "write",
                                           !.verified = OnSite(e, anchor[ev.emp])]]
         ELSE Answer(s, "NOT_MEMBER", 0)
      /\ UNCHANGED <<entries, lateEnds, World>>

\* UpdateOne filtered on employer_id nil: the loser of a race is told so.
AssignUpdate(s) ==
  LET i == req[s].id IN
  /\ At(s, "assign", "write")
  /\ IF entries[i].emp = None
     THEN /\ entries' = [entries EXCEPT ![i] =
               [@ EXCEPT !.emp = req[s].ev.emp, !.verified = req[s].verified]]
          /\ Answer(s, "OK", i)
     ELSE Answer(s, "INVALID", 0) /\ UNCHANGED entries
  /\ UNCHANGED <<lateEnds, World>>
-----------------------------------------------------------------------------
(* The end of a request, and the world around the service. *)

\* The response leaves; the client may or may not receive it.
Reply(s) ==
  /\ req[s] # Idle /\ req[s].step = "answer"
  /\ req' = [req EXCEPT ![s] = Idle]
  /\ UNCHANGED <<entries, lateEnds, World>>

\* A database or KMS error, a dropped connection or a dead process ends the
\* request between two of its accesses; what it wrote stays written.
Fail(s) ==
  /\ req[s] # Idle /\ req[s].step # "answer"
  /\ req' = [req EXCEPT ![s] = Idle]
  /\ UNCHANGED <<entries, lateEnds, World>>

Tick ==
  /\ now < MaxNow
  /\ now' = now + 1
  /\ UNCHANGED <<entries, req, active, anchor, moved, lateEnds>>

\* The owner adds, revives or removes a member.
ChangeMembership(e, u) ==
  /\ active' = IF <<e, u>> \in active THEN active \ {<<e, u>>}
                                      ELSE active \cup {<<e, u>>}
  /\ UNCHANGED <<entries, req, now, anchor, moved, lateEnds>>

\* The owner moves the employer's clock-in centre.
MoveAnchor(e, l) ==
  /\ e \notin moved /\ l # anchor[e]
  /\ anchor' = [anchor EXCEPT ![e] = l]
  /\ moved' = moved \cup {e}
  /\ UNCHANGED <<entries, req, now, active, lateEnds>>

\* The pings handler's Flag: it found shift i running some time ago and adds
\* the speed verdict now, whatever has happened to the shift since.
FlagSpeed(i) ==
  /\ entries' = [entries EXCEPT ![i] = Flagged(@, "speed_anomaly")]
  /\ UNCHANGED <<req, lateEnds, World>>

Init ==
  /\ entries = << >>
  /\ req = [s \in Slots |-> Idle]
  /\ now = 0
  /\ active \in SUBSET (Employers \X Users)
  /\ anchor \in [Employers -> Locs]
  /\ moved = {}
  /\ lateEnds = {}

Serve(s) ==
  \/ \E ev \in Events, queued \in BOOLEAN : ClockIn(s, ev, queued) \/ ClockOut(s, ev, queued)
  \/ \E ev \in Events, i \in DOMAIN entries : Assign(s, ev, i)
  \/ ClockInJudge(s) \/ ClockInInsert(s) \/ ClockInReread(s)
  \/ ClockOutOpen(s) \/ ClockOutJudge(s) \/ ClockOutUpdate(s) \/ ClockOutReread(s)
  \/ AssignJudge(s) \/ AssignUpdate(s)
  \/ Reply(s) \/ Fail(s)

Environment ==
  \/ Tick
  \/ \E e \in Employers, u \in Users : ChangeMembership(e, u)
  \/ \E e \in Employers, l \in Locs : MoveAnchor(e, l)
  \/ \E i \in DOMAIN entries : FlagSpeed(i)

Next == Environment \/ \E s \in Slots : Serve(s)

Spec == Init /\ [][Next]_vars
-----------------------------------------------------------------------------
TypeOK ==
  /\ entries \in Seq(Entry)
  /\ req \in [Slots -> Request \cup {Idle}]
  /\ now \in 0 .. MaxNow
  /\ active \subseteq Employers \X Users
  /\ anchor \in [Employers -> Locs]
  /\ moved \subseteq Employers
  /\ lateEnds \subseteq (DOMAIN entries) \X {"in", "out"}

\* A worker never has two shifts running, whatever requests race
\* (the partial unique index of mongox/indexes.go, its only enforcement).
OneOpenShift ==
  \A i, j \in DOMAIN entries :
    /\ entries[i].user = entries[j].user
    /\ entries[i].status = "open" /\ entries[j].status = "open"
    => i = j

\* However often a clock-in is retried, live or from the outbox, its key
\* stands for one shift (handler.go clockIn, store.go ClockIn).
RetryOpensOneShift ==
  \A i, j \in DOMAIN entries :
    entries[i].user = entries[j].user /\ entries[i].key = entries[j].key => i = j

\* The employer sees "backdated" on a shift exactly when one of its ends was
\* asserted past the freshness rule: the flag rides in the write it describes,
\* survives the other writes, and is never put on a fix measured in time.
BackdatedIffLate ==
  \A i \in DOMAIN entries :
    "backdated" \in entries[i].flags <=> {<<i, "in">>, <<i, "out">>} \cap lateEnds # {}

\* A shift booked to an employer is verified exactly when both its fixes lie
\* within the radius of the centre, as long as that centre has not moved:
\* whether it was clocked in there or assigned later, and against which
\* employer, is decided on reads made before the write.
VerifiedIffOnSite ==
  \A i \in DOMAIN entries :
    LET e == entries[i] IN
    e.status = "closed" /\ e.emp \in Employers \ moved =>
      (e.verified <=> \A l \in {e.inLoc, e.outLoc} : WithinAnchor(l, anchor[e.emp]))

\* Nobody stays clocked in forever: a good fix where the shift started would
\* close it, at any later time, even replayed from a queue and even after the
\* membership ended, unless the employer has moved away (ValidateClose has no
\* age ceiling, closeAnchor ignores membership, Assign wants a closed entry).
ClosableWhereItStarted ==
  \A i \in DOMAIN entries :
    LET e   == entries[i]
        fix == [at |-> e.inAt + 1, loc |-> e.inLoc, quality |-> "good"]
        t   == IF now > fix.at THEN now ELSE fix.at
    IN  e.status = "open" /\ e.emp \notin moved =>
          ValidateClose(fix, t, TRUE, AnchorsAtClose(e.emp, e.inLoc)) = "OK"

Recorded(ev) ==
  \E i \in DOMAIN entries :
    entries[i].user = ev.user /\ CASE ev.kind = "in"  -> entries[i].key = ev.key
                                   [] ev.kind = "out" -> entries[i].closeKey = ev.key
                                   [] OTHER           -> FALSE

\* A success is true: the entry it carries is in the collection under the key
\* of the request, closed if the request closed it, booked as it asked.
SuccessMeansRecorded ==
  \A s \in Slots :
    req[s] # Idle /\ req[s].code \in {"OK", "CREATED"} =>
      LET e == entries[req[s].id]
          ev == req[s].ev
      IN  /\ req[s].id \in DOMAIN entries /\ e.user = ev.user
          /\ ev.kind = "in"  => e.key = ev.key
          /\ ev.kind = "out" => e.closeKey = ev.key /\ e.status = "closed"
          /\ ev.kind = "assign" => e.emp = ev.emp

Refuses(s, codes) ==
  /\ req'[s] # Idle /\ req'[s].code \in codes
  /\ req[s] # Idle => req[s].step # "answer"

\* A 409 is never given for a tap that is on record: the re-read after a
\* refused insert or update separates a replay from a genuine conflict.
ConflictMeansUnrecorded ==
  [][\A s \in Slots : Refuses(s, Conflicts) => ~Recorded(req'[s].ev)]_vars

\* What handler.go says of the idempotency lookup: a replay returns the
\* original entry rather than fail the rules a second time.
ReplayIsNeverRefused ==
  [][\A s \in Slots : Refuses(s, Refusals) => ~Recorded(req'[s].ev)]_vars

\* The collection changes only by the four atomic steps of ShiftLedger, each
\* legal when it happens although it was decided on earlier reads.
Times == 0 .. MaxNow + MaxClockSkew
Ledger == INSTANCE ShiftLedger WITH ledger <- entries
ImplementsShiftLedger == Ledger!Spec
=============================================================================
