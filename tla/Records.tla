------------------------------ MODULE Records ------------------------------
(***************************************************************************)
(* The worker's records: the History tab (mobile/src/app/(tabs)/(history)/ *)
(* history.tsx) with the list it is built from (lib/history.ts), and the   *)
(* screen of one shift above it (app/entry/[id].tsx, lib/entryDetail.ts),  *)
(* where a finished personal shift is assigned to an employer.             *)
(*                                                                         *)
(* Both screens fetch the list for themselves and can have several GETs    *)
(* under way, beside live taps, the queue being worked and the PATCH of an *)
(* assignment.  Shifts are numbered in the order they are begun; a number  *)
(* stands for the clock-in's client_id.  All lie in the screens' 30 days,  *)
(* and are begun as personal ones, which are the ones that can be assigned.*)
(* The counters loadGen are marks on the GETs: still current or not.       *)
(***************************************************************************)
EXTENDS Integers, FiniteSets, SequencesExt

CONSTANTS
  Employers, Personal,
  MaxShifts,           \* bound: shifts in a behaviour
  Conditions           \* the conditions considered, see Condition

\* What a behaviour holds: the finished personal shifts on record at launch, and
\* those up to `last` that may still be begun; whether shifts are opened; the
\* worker's memberships; and whether a live tap may be under way while History is
\* looked at.
Condition == [past: 0 .. MaxShifts, last: 0 .. MaxShifts, opens: BOOLEAN,
              memberships: SUBSET Employers, overlap: BOOLEAN]

ASSUME RecordsAssumption ==
  MaxShifts \in Nat /\ Personal \notin Employers /\ Conditions \subseteq Condition

VARIABLES
  given,               \* the conditions of this behaviour
  begun,               \* how many shifts have been begun
  server,              \* what the server has of each shift
  tap,                 \* the live tap under way
  queue, needsAttention, \* the outbox: items, and the records of dropped ones
  openEntry,           \* the clock store
  focused, timer,      \* History: on screen; its debounced reload is armed
  entries, error,      \* History: the list, and its error line
  id, entry, loaded, detailError, \* the detail screen
  picking, assigning, assignFailed, assigned, \* its assign control
  loads                \* the GETs of each screen

clock   == <<given, begun, tap, openEntry>>
outbox  == <<queue, needsAttention>>
list    == <<focused, timer, entries, error>>
detail  == <<id, entry, loaded, detailError, picking, assigning, assignFailed, assigned>>
vars    == <<clock, server, outbox, list, detail, loads>>

Shifts  == 1 .. MaxShifts
Absent  == [status |-> "absent"]
Shift   == [status: {"open", "closed"}, employer: {Personal} \cup Employers, verified: BOOLEAN]
Item    == [shift: Shifts, kind: {"in", "out"}]
Idle    == [item |-> "none"]
NoEntry == [shift |-> 0, known |-> FALSE]   \* known: the server has given it an id
NotLoaded == << >>
Screens == {"history", "detail"}
Window  == [Shifts -> {Absent} \cup Shift]
Load    == [pull: BOOLEAN, current: BOOLEAN, answer: {NotLoaded} \cup Window]
Request == [employer: Employers, reply: {"", "ok", "refused"}]
-----------------------------------------------------------------------------
(* The server, in short. *)

Accepts(i) ==
  IF i.kind = "in" THEN \A s \in Shifts : server[s] = Absent \/ server[s].status # "open"
  ELSE server[i.shift] # Absent /\ server[i.shift].status = "open"

Recorded(i) ==
  [server EXCEPT ![i.shift] =
     IF i.kind = "in" THEN [status |-> "open", employer |-> Personal, verified |-> TRUE]
     ELSE [server[i.shift] EXCEPT !.status = "closed"]]

\* Mutant: an assigned shift can be assigned once more.
AnyClosed(s) == server[s] # Absent /\ server[s].status = "closed"
\* Only a closed personal shift; both fixes are measured again, and nothing is
\* rejected on distance.
Assignable(s) == server[s] # Absent /\ server[s].status = "closed" /\ server[s].employer = Personal
-----------------------------------------------------------------------------
(* The screens' GETs. *)

Outdated(ls) == {[l EXCEPT !.current = FALSE] : l \in ls}

\* ++loadGen, and the GET.  A second reload out of date could only be thrown
\* away; a pull shows its spinner until it is answered.
Issued(s, pull) ==
  [loads EXCEPT ![s] = {l \in Outdated(@) : pull \/ l.pull}
                         \cup {[pull |-> pull, current |-> TRUE, answer |-> NotLoaded]}]
refreshing(s) == \E l \in loads[s] : l.pull

\* mine === loadGen.current
Current(l) == l.current

LoadServed(s) ==
  /\ \E l \in loads[s] :
       /\ l.answer = NotLoaded
       /\ loads' = [loads EXCEPT ![s] = (@ \ {l}) \cup {[l EXCEPT !.answer = server]}]
  /\ UNCHANGED <<clock, server, outbox, list, detail>>

\* findEntry: out of the window; or the open entry, if it has an id.
findEntry(w) ==
  IF w[id] # Absent THEN w[id]
  ELSE IF openEntry = [shift |-> id, known |-> TRUE]
       THEN [server[id] EXCEPT !.status = "open"]
       ELSE Absent

HistoryLoaded ==
  /\ \E l \in loads["history"] :
       /\ l.answer # NotLoaded
       /\ loads' = [loads EXCEPT !["history"] = @ \ {l}]
       /\ IF Current(l) THEN entries' = l.answer /\ error' = FALSE
                        ELSE UNCHANGED <<entries, error>>
  /\ UNCHANGED <<clock, server, outbox, focused, timer, detail>>

DetailLoaded ==
  /\ \E l \in loads["detail"] :
       /\ l.answer # NotLoaded
       /\ loads' = [loads EXCEPT !["detail"] = @ \ {l}]
       /\ IF Current(l)
          THEN entry' = findEntry(l.answer) /\ detailError' = FALSE /\ loaded' = TRUE
          ELSE UNCHANGED <<entry, detailError, loaded>>
  /\ UNCHANGED <<clock, server, outbox, list, id, picking, assigning, assignFailed, assigned>>

\* What was shown stays.
LoadFails(s) ==
  /\ \E l \in loads[s] :
       /\ loads' = [loads EXCEPT ![s] = @ \ {l}]
       /\ error' = (error \/ (s = "history" /\ Current(l)))
       /\ detailError' = (detailError \/ (s = "detail" /\ Current(l)))
       /\ loaded' = (loaded \/ (s = "detail" /\ Current(l)))
  /\ UNCHANGED <<clock, server, outbox, focused, timer, entries, id, entry, picking, assigning,
                 assignFailed, assigned>>
-----------------------------------------------------------------------------
(* Taps and the queue: what changes under the screens. *)

\* Mutant: the reload follows the focus only.
FocusOnly(q) == timer' = timer
\* The focus effect runs again when the queue's depth has changed.
Rearmed(q) == timer' = (timer \/ (focused /\ Len(q) # Len(queue)))

\* The optimistic write of a live clock-in or clock-out, on the clock tab.
Tap ==
  /\ tap = Idle /\ ~focused /\ id = 0
  /\ \/ /\ openEntry = NoEntry /\ begun < given.last
        /\ begun' = begun + 1
        /\ tap' = [item |-> [shift |-> begun', kind |-> "in"], revert |-> NoEntry]
        /\ openEntry' = [shift |-> begun', known |-> FALSE]
     \/ /\ openEntry # NoEntry
        /\ tap' = [item |-> [shift |-> openEntry.shift, kind |-> "out"],
                   revert |-> openEntry]
        /\ openEntry' = NoEntry /\ UNCHANGED begun
  /\ UNCHANGED <<given, server, outbox, list, detail, loads>>

\* setOpen, setClosed; a refusal puts back what was there.
TapAnswered ==
  /\ tap # Idle /\ tap' = Idle
  /\ IF Accepts(tap.item)
     THEN /\ server' = Recorded(tap.item)
          /\ openEntry' = IF tap.item.kind = "out" THEN NoEntry
                          ELSE [shift |-> tap.item.shift, known |-> TRUE]
     ELSE openEntry' = tap.revert /\ UNCHANGED server
  /\ UNCHANGED <<given, begun, outbox, list, detail, loads>>

TapLost ==
  /\ tap # Idle /\ tap' = Idle
  /\ queue' = Append(queue, tap.item) /\ Rearmed(queue')
  /\ UNCHANGED <<given, begun, openEntry, server, needsAttention, focused, entries, error,
                 detail, loads>>

\* drain(): the head is recorded, or dropped with a record; the reconcile shows
\* what the server has open.
Drained(accepted) ==
  /\ queue # << >>
  /\ queue' = Tail(queue) /\ Rearmed(queue')
  /\ server' = IF accepted THEN Recorded(Head(queue)) ELSE server
  /\ needsAttention' = IF accepted THEN needsAttention ELSE needsAttention \cup {Head(queue)}
  /\ openEntry' = IF queue' # << >> \/ tap # Idle THEN openEntry
                  ELSE LET open == {s \in Shifts :
                                      server'[s] # Absent /\ server'[s].status = "open"}
                       IN IF open = {} THEN NoEntry
                          ELSE [shift |-> CHOOSE s \in open : TRUE, known |-> TRUE]
  /\ UNCHANGED <<given, begun, tap, focused, entries, error, detail, loads>>

Sync == \/ queue # << >> /\ Accepts(Head(queue)) /\ Drained(TRUE)
        \/ Drained(FALSE)

\* Dismiss all.
clearAttention ==
  /\ focused /\ needsAttention # {} /\ needsAttention' = {}
  /\ UNCHANGED <<clock, server, queue, list, detail, loads>>
-----------------------------------------------------------------------------
(* History. *)

Focus ==
  /\ ~focused /\ id = 0 /\ (given.overlap \/ tap = Idle)
  /\ focused' = TRUE /\ timer' = TRUE
  /\ UNCHANGED <<clock, server, outbox, entries, error, detail, loads>>

Blur ==
  /\ focused /\ focused' = FALSE /\ timer' = FALSE
  /\ UNCHANGED <<clock, server, outbox, entries, error, detail, loads>>

\* After 300 ms without another change.
Reload ==
  /\ timer /\ timer' = FALSE /\ loads' = Issued("history", FALSE)
  /\ UNCHANGED <<clock, server, outbox, focused, entries, error, detail>>

\* onRefresh, and the error line's Try again.
Refresh ==
  /\ focused /\ ~refreshing("history") /\ loads' = Issued("history", TRUE)
  /\ UNCHANGED <<clock, server, outbox, list, detail>>

\* withOpenEntry: deduplicated on the clock-in's client_id.
Listed ==
  {s \in Shifts : entries # NotLoaded /\ entries[s] # Absent}
    \cup (IF openEntry = NoEntry THEN {} ELSE {openEntry.shift})

\* A record is joined on its clock-in's key: a close's own is one that no row carries.
entryClientId(a) == a.shift

\* buildHistory: the records on each row, and those with no row.
RowAttention(s) == {a \in needsAttention : entryClientId(a) = s}
Unmatched == {a \in needsAttention : entryClientId(a) \notin Listed}

\* The list's rows, as EntryRow words them; one that the server has not seen
\* does not open.
Row(s) ==
  LET e == IF entries # NotLoaded THEN entries[s] ELSE Absent
  IN [shift |-> s,
      running |-> e = Absent \/ e.status = "open",
      warned |-> RowAttention(s) # {},
      opens |-> e # Absent \/ openEntry.known]

\* The header: the count waiting, the records, and the error with its retry.
Header ==
  (IF Len(queue) > 0 THEN {"waiting"} ELSE {})
    \cup (IF needsAttention = {} THEN {}
          ELSE {"dismiss", IF Unmatched # {} THEN "messages" ELSE "marked below"})
    \cup (IF error THEN {"error", "try again"} ELSE {})

Empty ==
  CASE entries = NotLoaded /\ ~error -> "skeleton"
    [] error                         -> "nothing"
    [] OTHER                         -> "no shifts"
-----------------------------------------------------------------------------
(* The shift's own screen. *)

OpenDetail(s) ==
  /\ given.opens /\ focused /\ s \in Listed /\ Row(s).opens
  /\ id' = s /\ focused' = FALSE /\ timer' = FALSE
  /\ loads' = Issued("detail", FALSE)
  /\ UNCHANGED <<clock, server, outbox, entries, error, entry, loaded, detailError, picking,
                 assigning, assignFailed, assigned>>

\* Answers to an unmounted screen change nothing; History has the focus again.
Back ==
  /\ id # 0 /\ id' = 0
  /\ entry' = Absent /\ loaded' = FALSE /\ detailError' = FALSE
  /\ picking' = FALSE /\ assigning' = {} /\ assignFailed' = "" /\ assigned' = Personal
  /\ loads' = [loads EXCEPT !["detail"] = {}]
  /\ focused' = TRUE /\ timer' = TRUE
  /\ UNCHANGED <<clock, server, outbox, entries, error>>

\* onRefresh, and the error box's Try again.
DetailRefresh ==
  /\ id # 0 /\ ~refreshing("detail") /\ assignFailed' = "" /\ loads' = Issued("detail", TRUE)
  /\ UNCHANGED <<clock, server, outbox, list, id, entry, loaded, detailError, picking, assigning,
                 assigned>>

\* body(): a failed load is never "no such shift".
Body ==
  CASE ~loaded                                     -> "loading"
    [] loaded /\ entry # Absent                    -> "record"
    [] loaded /\ entry = Absent /\ detailError     -> "nothing"
    [] loaded /\ entry = Absent /\ ~detailError    -> "missing"

\* locationBadge
Badge ==
  CASE entry.employer = Personal                       -> "not checked"
    [] entry.employer # Personal /\ ~entry.verified    -> "not verified"
    [] entry.employer # Personal /\ entry.verified     -> "verified"

\* What is under the record.
AssignControl ==
  CASE entry = Absent                                                    -> "none"
    [] entry # Absent /\ assigned # Personal                             -> "assigned"
    [] entry # Absent /\ assigned = Personal /\ entry.employer # Personal -> "none"
    [] entry # Absent /\ assigned = Personal /\ entry.employer = Personal ->
         CASE entry.status # "closed"                    -> "not yet"
           [] entry.status = "closed" /\ given.memberships = {} -> "no employers"
           [] entry.status = "closed" /\ given.memberships # {} ->
                IF picking THEN "employers" ELSE "button"

Pick ==
  /\ AssignControl = "button" /\ picking' = TRUE
  /\ UNCHANGED <<clock, server, outbox, list, id, entry, loaded, detailError, assigning,
                 assignFailed, assigned, loads>>

\* `disabled` lands a render late: a second employer can be tapped.
Assign(m) ==
  /\ AssignControl = "employers" /\ m \in given.memberships
  /\ \A r \in assigning : r.reply = "" /\ r.employer # m
  /\ assigning' = assigning \cup {[employer |-> m, reply |-> ""]}
  /\ assignFailed' = ""
  /\ UNCHANGED <<clock, server, outbox, list, id, entry, loaded, detailError, picking, assigned,
                 loads>>

\* The server measures again; or it refuses: a membership that has ended, or a
\* shift that is no longer personal.
AssignServed(r) ==
  /\ r \in assigning /\ r.reply = ""
  /\ \/ /\ Assignable(id)
        /\ \E v \in BOOLEAN :
             server' = [server EXCEPT ![id].employer = r.employer, ![id].verified = v]
        /\ assigning' = (assigning \ {r}) \cup {[r EXCEPT !.reply = "ok"]}
     \/ assigning' = (assigning \ {r}) \cup {[r EXCEPT !.reply = "refused"]} /\ UNCHANGED server
  /\ UNCHANGED <<clock, outbox, list, id, entry, loaded, detailError, picking, assignFailed,
                 assigned, loads>>

\* Mutant: a load under way is not retired.
KeepsLoads == UNCHANGED loads
\* loadGen.current++
RetiresLoads == loads' = [loads EXCEPT !["detail"] = Outdated(@)]

\* setEntry(updated): the answer is the assigned shift.
AssignDone(r) ==
  /\ r \in assigning /\ r.reply = "ok" /\ assigning' = assigning \ {r}
  /\ RetiresLoads
  /\ entry' = server[id] /\ picking' = FALSE /\ assigned' = r.employer
  /\ UNCHANGED <<clock, server, outbox, list, id, loaded, detailError, assignFailed>>

\* A refusal, or an answer that was lost or cannot be read: never queued.
AssignFailed(r) ==
  /\ r \in assigning /\ assigning' = assigning \ {r}
  /\ assignFailed' = IF r.reply = "refused" THEN "refused" ELSE "unknown"
  /\ UNCHANGED <<clock, server, outbox, list, id, entry, loaded, detailError, picking, assigned,
                 loads>>
-----------------------------------------------------------------------------
Init ==
  /\ given \in Conditions /\ begun = given.past
  /\ tap = Idle /\ openEntry = NoEntry
  /\ server = [s \in Shifts |-> IF s > given.past THEN Absent
                ELSE [status |-> "closed", employer |-> Personal, verified |-> TRUE]]
  /\ queue = << >> /\ needsAttention = {}
  /\ focused = FALSE /\ timer = FALSE /\ entries = NotLoaded /\ error = FALSE
  /\ id = 0 /\ entry = Absent /\ loaded = FALSE /\ detailError = FALSE
  /\ picking = FALSE /\ assigning = {} /\ assignFailed = "" /\ assigned = Personal
  /\ loads = [s \in Screens |-> {}]

Loads == (\E s \in Screens : LoadServed(s)) \/ HistoryLoaded \/ DetailLoaded

Next ==
  \/ Tap \/ TapAnswered \/ TapLost \/ Sync \/ clearAttention
  \/ Focus \/ Blur \/ Reload \/ Refresh
  \/ Loads \/ \E s \in Screens : LoadFails(s)
  \/ \E s \in Shifts : OpenDetail(s)
  \/ Back \/ DetailRefresh \/ Pick \/ \E m \in Employers : Assign(m)
  \/ \E r \in assigning : AssignServed(r) \/ AssignDone(r) \/ AssignFailed(r)

Spec == Init /\ [][Next]_vars

\* GETs are answered, timers fire, live taps and the queue get their answers.
FairSpec ==
  Spec /\ WF_vars(Loads) /\ WF_vars(Reload) /\ WF_vars(TapAnswered) /\ WF_vars(Sync)
-----------------------------------------------------------------------------
TypeOK ==
  /\ given \in Conditions /\ begun \in 0 .. MaxShifts /\ server \in Window
  /\ tap = Idle \/ (tap.item \in Item /\ tap.revert \in [shift: {0} \cup Shifts, known: BOOLEAN])
  /\ queue \in Seq(Item) /\ needsAttention \subseteq Item
  /\ openEntry \in [shift: {0} \cup Shifts, known: BOOLEAN]
  /\ focused \in BOOLEAN /\ timer \in BOOLEAN /\ error \in BOOLEAN
  /\ entries \in {NotLoaded} \cup Window
  /\ id \in {0} \cup Shifts /\ entry \in {Absent} \cup Shift
  /\ loaded \in BOOLEAN /\ detailError \in BOOLEAN /\ picking \in BOOLEAN
  /\ assigning \subseteq Request /\ assignFailed \in {"", "refused", "unknown"}
  /\ assigned \in {Personal} \cup Employers
  /\ loads \in [Screens -> SUBSET Load]

\* How far a shift has come; it never goes back.
Stage(e) ==
  IF e = Absent THEN 0
  ELSE (IF e.status = "open" THEN 1 ELSE 2) + (IF e.employer = Personal THEN 0 ELSE 2)

\* What a screen has shown of a shift it does not take back: an older list never
\* replaces a newer one, and a shift once assigned is not personal again
\* (history.tsx and entry/[id].tsx on loadGen).
ScreensNeverGoBack ==
  [][/\ entries # NotLoaded => \A s \in Shifts : Stage(entries[s]) <= Stage(entries'[s])
     /\ id # 0 /\ id' = id => Stage(entry) <= Stage(entry')]_vars

\* A shift that the screen says it assigned is shown as the server has it and for the
\* employer that is named, whichever others were tapped and whatever GETs were under
\* way (entry/[id].tsx: would otherwise overwrite the assigned entry).
AssignedIsRecorded ==
  assigned # Personal => id # 0 /\ entry = server[id] /\ entry.employer = assigned

\* The list catches up with the server while it is looked at, unless a GET has
\* failed and says so (history.tsx: 9.1 has to call nothing here).
HistoryCatchesUp ==
  focused ~> (~focused \/ error \/ entries = server)
=============================================================================
