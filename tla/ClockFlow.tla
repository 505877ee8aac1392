----------------------------- MODULE ClockFlow -----------------------------
(***************************************************************************)
(* What the phone shows against what the server has: the clock store       *)
(* (mobile/src/stores/clock.ts), the live taps that write it optimistically*)
(* (lib/clockFlow.ts), and the sync that works the queue and reconciles the*)
(* store afterwards (lib/sync.ts), over one worker's account on the server.*)
(*                                                                         *)
(* Every request is served at one moment and answered at a later one, so   *)
(* taps, the replay of queued taps and the GETs that refresh the screen    *)
(* overtake each other.  Committed taps are numbered in the order they     *)
(* are made; a number stands for the tap's client_id, its capture time and,*)
(* for a clock-in, the shift it starts.  0 is no shift, and in the queue a *)
(* batch of pings.  The queue is the one of Outbox, read from disk, and its*)
(* items are removed from the head, where the one in flight always is;     *)
(* stores/clock.ts's counter writeGen is a mark on every GET under way:    *)
(* still current or not.                                                   *)
(***************************************************************************)
EXTENDS Integers, FiniteSets, SequencesExt

CONSTANTS
  MaxTaps,             \* bound: taps in a behaviour
  Conditions           \* the conditions considered, see Condition

\* What can happen in a behaviour: how many taps, answers to taps and replays
\* that never arrive or arrive unreadable (UNKNOWN), taps the location rules
\* refuse, kills by the OS, GETs that fail, further mounts of the clock tab and
\* background deliveries of pings; and what may be under way together with a tap.
Condition == [taps: 0 .. MaxTaps, losses: Nat, garbled: Nat, refusals: Nat, kills: Nat,
              failedReads: Nat, remounts: Nat, deliveries: Nat,
              overlap: SUBSET {"taps", "syncs", "gets"}]

ASSUME BoundAssumption == MaxTaps \in Nat /\ Conditions \subseteq Condition

VARIABLES
  given,               \* the conditions of this behaviour
  open, recorded,      \* the server: the running shift, and the taps on record
  kinds,               \* history: the kind of each tap
  live,                \* what the clock-in sheet and the clock button are doing
  openEntry, pending,  \* the clock store: the shift shown; pendingSince, a tap
  queue, dropped,      \* the outbox, and the items it reports as dropped
  told, forgotten,     \* history: live taps whose refusal was shown; those under
                       \* way when the app was killed
  flush,               \* the drain: idle, or the item it has sent
  sync,                \* lib/sync.ts's run()
  gets,                \* the GET /v1/entries of the sync and of the screen
  launched,            \* what has been started since the app was
  faults               \* how often each bounded fault has happened

phone == <<openEntry, pending, gets>>
fates == <<dropped, told, forgotten>>
vars  == <<given, open, recorded, kinds, live, phone, queue, fates, flush,
           sync, launched, faults>>

Taps     == 1 .. MaxTaps
Verdicts == {"ok", "conflict", "refused", "garbled"}

\* A request on its way has no verdict yet.
Quiet    == [step |-> "quiet"]
LiveTap  == [step: {"reading"}] \cup
            [step: {"sent"}, tap: Taps, verdict: Verdicts \cup {""}, revert: {0} \cup Taps]
Pings    == 0
Drain    == [tap: {Pings} \cup Taps, verdict: Verdicts \cup {""}]
SyncRun  == [step: {"flush", "reconcile"}, before: 0 .. MaxTaps, after: 0 .. MaxTaps,
             pendingBefore: {0} \cup Taps]
Unserved == -1
Get      == [current: BOOLEAN, answer: {Unserved, 0} \cup Taps]

Buttons  == {"sheet", "button"}
Readers  == {"sync", "screen"}

Fault(kind) == faults[kind] < given[kind] /\ faults' = [faults EXCEPT ![kind] = @ + 1]
-----------------------------------------------------------------------------
(* The clock store. *)

\* Every write bumps writeGen: answers to the GETs under way are out of date.
Outdated == [w \in Readers |-> IF gets[w] = Quiet THEN Quiet
                               ELSE [gets[w] EXCEPT !.current = FALSE]]

\* Mutant: the entry is set, the flag is not cleared.
SetOpenKeepsPill(e) == openEntry' = e /\ UNCHANGED pending
\* setOpen, setClosed and reset clear the pill, setPending sets it.
SetOpen(e) == openEntry' = e /\ pending' = 0
SetPending(e, t) == openEntry' = e /\ pending' = t

\* hydrateFromServer: the newest ticket outdates the others.  A second GET of
\* the screen replaces the first, which could only be thrown away.
Issue(w) == [Outdated EXCEPT ![w] = [current |-> TRUE, answer |-> Unserved]]

GetServed(w) ==
  /\ gets[w] # Quiet /\ gets[w].answer = Unserved
  /\ gets' = [gets EXCEPT ![w].answer = open]
  /\ UNCHANGED <<given, open, recorded, kinds, live, openEntry, pending, queue, fates,
                 flush, sync, launched, faults>>

\* Only a current answer is shown.  It does not bump the counter.
Shown(w) == IF gets[w].current THEN gets[w].answer ELSE openEntry

ScreenGetAnswered ==
  /\ gets["screen"] # Quiet /\ gets["screen"].answer # Unserved
  /\ openEntry' = Shown("screen")
  /\ gets' = [gets EXCEPT !["screen"] = Quiet]
  /\ UNCHANGED <<given, open, recorded, kinds, live, pending, queue, fates, flush, sync,
                 launched, faults>>

\* A failed GET leaves the store alone.
GetFails(w) ==
  /\ gets[w] # Quiet /\ Fault("failedReads")
  /\ gets' = [gets EXCEPT ![w] = Quiet]
  /\ sync' = IF w = "sync" THEN Quiet ELSE sync
  /\ UNCHANGED <<given, open, recorded, kinds, live, openEntry, pending, queue, fates, flush,
                 launched>>
-----------------------------------------------------------------------------
(* The server, one request at a time: entry/handler.go in short (TimeEntries
   has the detail). *)

\* Mutant: a replay finds the running shift and is told so.
VerdictNoReplay(t) ==
  CASE kinds[t] = "in" /\ open # 0 -> "conflict"
    [] kinds[t] = "out" /\ open = 0 -> "conflict"
    [] kinds[t] = "out" /\ open > t -> "refused"
    [] OTHER -> "ok"
\* A replay is answered like the original; a close must come after its start.
Verdict(t) ==
  CASE t \in recorded -> "ok"
    [] t \notin recorded /\ kinds[t] = "in" /\ open # 0 -> "conflict"
    [] t \notin recorded /\ kinds[t] = "out" /\ open = 0 -> "conflict"
    [] t \notin recorded /\ kinds[t] = "out" /\ open > t -> "refused"
    [] OTHER -> "ok"

\* The server rules on tap t, and v is what its answer will say.
Rule(t, v) ==
  \/ /\ v = Verdict(t)
     /\ recorded' = IF v = "ok" THEN recorded \cup {t} ELSE recorded
     /\ open' = IF v = "ok" /\ t \notin recorded
                THEN IF kinds[t] = "in" THEN t ELSE 0
                ELSE open
     /\ UNCHANGED faults
  \/ /\ v = "refused" /\ t \notin recorded /\ Fault("refusals")
     /\ UNCHANGED <<open, recorded>>
-----------------------------------------------------------------------------
(* Live taps. *)

Busy(b) == live[b] # Quiet

NothingUnderWay ==
  /\ launched = Readers /\ flush = Quiet /\ sync = Quiet
  /\ gets = [w \in Readers |-> Quiet] /\ \A b \in Buttons : ~Busy(b)

\* The button says "Clock in", which opens the sheet, or "Clock out".  Each has
\* a guard of its own, and the sheet can be swiped away while it works.
Press(b) ==
  /\ ~Busy(b) /\ "screen" \in launched /\ Len(kinds) < given.taps
  /\ "taps" \in given.overlap \/ \A a \in Buttons : ~Busy(a)
  /\ "syncs" \in given.overlap \/ (flush = Quiet /\ sync = Quiet)
  /\ "gets" \in given.overlap \/ gets = [w \in Readers |-> Quiet]
  /\ b = "sheet" <=> openEntry = 0
  /\ live' = [live EXCEPT ![b] = [step |-> "reading"]]
  /\ UNCHANGED <<given, open, recorded, kinds, phone, queue, fates, flush, sync, launched,
                 faults>>

\* No fix, a mocked one, or a dialog backed out of; or nothing left to close.
Abort(b) ==
  /\ live[b] = [step |-> "reading"]
  /\ live' = [live EXCEPT ![b] = Quiet]
  /\ UNCHANGED <<given, open, recorded, kinds, phone, queue, fates, flush, sync, launched,
                 faults>>

\* The fix is in: the optimistic write, and the request.  A clock-out reads the
\* entry again, and reverts to that one.
Commit(b) ==
  LET t == Len(kinds) + 1 IN
  /\ live[b] = [step |-> "reading"] /\ t <= given.taps
  /\ b = "button" => openEntry # 0
  /\ kinds' = Append(kinds, IF b = "sheet" THEN "in" ELSE "out")
  /\ live' = [live EXCEPT ![b] = [step |-> "sent", tap |-> t, verdict |-> "",
                revert |-> IF b = "sheet" THEN 0 ELSE openEntry]]
  /\ SetPending(IF b = "sheet" THEN t ELSE 0, t)
  /\ gets' = Outdated
  /\ UNCHANGED <<given, open, recorded, queue, fates, flush, sync, launched, faults>>

Sent(b) == Busy(b) /\ live[b].step = "sent"

TapServed(b) ==
  /\ Sent(b) /\ live[b].verdict = ""
  /\ \E v \in Verdicts :
       Rule(live[b].tap, v) /\ live' = [live EXCEPT ![b].verdict = v]
  /\ UNCHANGED <<given, kinds, phone, queue, fates, flush, sync, launched>>

\* A success body is cut off on the way back (api/client.ts, UNKNOWN).
TapGarbled(b) ==
  /\ Sent(b) /\ live[b].verdict = "ok" /\ Fault("garbled")
  /\ live' = [live EXCEPT ![b].verdict = "garbled"]
  /\ UNCHANGED <<given, open, recorded, kinds, phone, queue, fates, flush, sync, launched>>

\* The server has ruled in favour: setOpen(entry), setClosed(entry).
TapAccepted(b) ==
  /\ Sent(b) /\ live[b].verdict = "ok"
  /\ SetOpen(IF b = "sheet" THEN live[b].tap ELSE 0)
  /\ gets' = Outdated
  /\ live' = [live EXCEPT ![b] = Quiet]
  /\ UNCHANGED <<given, open, recorded, kinds, queue, fates, flush, sync, launched, faults>>

\* Reverted and shown; HYDRATE_CODES read the server's view again.
TapRefused(b) ==
  /\ Sent(b) /\ live[b].verdict \in {"conflict", "refused", "garbled"}
  /\ SetOpen(live[b].revert)
  /\ gets' = IF live[b].verdict = "refused" THEN Outdated ELSE Issue("screen")
  /\ told' = told \cup {live[b].tap}
  /\ live' = [live EXCEPT ![b] = Quiet]
  /\ UNCHANGED <<given, open, recorded, kinds, queue, dropped, forgotten, flush, sync, launched,
                 faults>>

\* A retryable failure, before or after the server ruled: the tap is queued and
\* the optimistic entry stands.
TapLost(b) ==
  /\ Sent(b) /\ Fault("losses")
  /\ queue' = Append(queue, live[b].tap)
  /\ live' = [live EXCEPT ![b] = Quiet]
  /\ UNCHANGED <<given, open, recorded, kinds, phone, fates, flush, sync, launched>>
-----------------------------------------------------------------------------
(* The queue and the sync. *)

Idle == Quiet

ClockItems(q) == Cardinality({i \in DOMAIN q : q[i] # Pings})

\* Mutant: the depth of the queue is compared without looking at drops.
FlushEndsNoRead(q) ==
  /\ flush' = Idle
  /\ sync' = IF sync # Idle /\ sync.step = "flush" THEN Idle ELSE sync
  /\ UNCHANGED gets
\* The drain is over, with q left; a sync that waited for it compares depths.
FlushEnds(q) ==
  /\ flush' = Idle
  /\ IF sync # Idle /\ sync.step = "flush" /\ ClockItems(q) < sync.before
     THEN /\ sync' = [sync EXCEPT !.step = "reconcile", !.after = ClockItems(q)]
          /\ gets' = Issue("sync")
     ELSE /\ sync' = IF sync # Idle /\ sync.step = "flush" THEN Idle ELSE sync
          /\ UNCHANGED gets

\* The drain goes on to the head of q: no other code runs in between.
FlushNext(q) ==
  IF q = << >> THEN FlushEnds(q)
  ELSE flush' = [tap |-> Head(q), verdict |-> ""] /\ UNCHANGED <<sync, gets>>

\* Mutant: without a pill the queue is not looked at.
NothingPending == flush = Idle /\ (queue = << >> \/ pending = 0)
NothingQueued == flush = Idle /\ queue = << >>

\* syncNow: joins a run under way, and a drain under way.  With nothing queued
\* it ends where it starts.
SyncStart ==
  /\ sync = Idle
  /\ "syncs" \in given.overlap \/ \A b \in Buttons : ~Busy(b)
  /\ launched' = launched \cup {"sync"}
  /\ IF NothingQueued
     THEN UNCHANGED <<flush, sync>>
     ELSE /\ sync' = [step |-> "flush", before |-> ClockItems(queue), after |-> 0,
                      pendingBefore |-> pending]
          /\ flush' = IF flush = Idle THEN [tap |-> Head(queue), verdict |-> ""] ELSE flush
  /\ UNCHANGED <<given, open, recorded, kinds, live, phone, queue, fates, faults>>

\* A delivery to location/tracking.ts: the pings are queued, and the queue is
\* worked, with nothing to follow.
Delivery ==
  /\ openEntry # 0 /\ Fault("deliveries")
  /\ queue' = Append(queue, Pings)
  /\ flush' = IF flush = Idle THEN [tap |-> Head(queue'), verdict |-> ""] ELSE flush
  /\ UNCHANGED <<given, open, recorded, kinds, live, phone, fates, sync, launched>>

Flushing == flush # Idle

FlushServed ==
  /\ Flushing /\ flush.verdict = ""
  /\ \E v \in Verdicts :
       /\ IF flush.tap = Pings THEN v = "ok" /\ UNCHANGED <<open, recorded, faults>>
                               ELSE Rule(flush.tap, v)
       /\ flush' = [flush EXCEPT !.verdict = v]
  /\ UNCHANGED <<given, kinds, live, phone, queue, fates, sync, launched>>

FlushGarbled ==
  /\ Flushing /\ flush.tap # Pings /\ flush.verdict = "ok" /\ Fault("garbled")
  /\ flush' = [flush EXCEPT !.verdict = "garbled"]
  /\ UNCHANGED <<given, open, recorded, kinds, live, phone, queue, fates, sync, launched>>

\* Mutant: a conflict is taken for a replay of what was done before.
DropsNoConflict(v) == v \in {"garbled", "refused"}
\* What is not accepted and not retryable is dropped, and reported.
Drops(v) == v # "ok"

FlushAnswered ==
  /\ Flushing /\ flush.verdict # ""
  /\ queue' = Tail(queue)
  /\ dropped' = IF Drops(flush.verdict) THEN dropped \cup {flush.tap} ELSE dropped
  /\ FlushNext(queue')
  /\ UNCHANGED <<given, open, recorded, kinds, live, openEntry, pending, told, forgotten,
                 launched, faults>>

\* A retryable failure ends the drain where it stands.
FlushLost ==
  /\ Flushing /\ Fault("losses")
  /\ FlushEnds(queue)
  /\ UNCHANGED <<given, open, recorded, kinds, live, openEntry, pending, queue, fates, launched>>

\* The reconcile: the answer, if current, and then the pill, if nothing is owed
\* and it is still the one from before the drain.  Clearing it is a write.
Reconciled ==
  /\ gets["sync"] # Quiet /\ gets["sync"].answer # Unserved
  /\ openEntry' = Shown("sync")
  /\ IF sync.after = 0 /\ pending # 0 /\ pending = sync.pendingBefore
     THEN pending' = 0 /\ gets' = [Outdated EXCEPT !["sync"] = Quiet]
     ELSE gets' = [gets EXCEPT !["sync"] = Quiet] /\ UNCHANGED pending
  /\ sync' = Idle
  /\ UNCHANGED <<given, open, recorded, kinds, live, queue, fates, flush, launched, faults>>
-----------------------------------------------------------------------------
(* The app's life. *)

\* The clock tab mounts at launch, and again when the gate has shown a spinner.
Mounted ==
  /\ launched' = launched \cup {"screen"}
  /\ gets' = Issue("screen")
  /\ UNCHANGED <<given, open, recorded, kinds, live, openEntry, pending, queue, fates,
                 flush, sync>>
Mount   == "screen" \notin launched /\ Mounted /\ UNCHANGED faults
Remount == "screen" \in launched /\ Mounted /\ Fault("remounts")

\* Memory is lost, the queue is not; nothing on disk tells of a live tap.
Kill ==
  /\ Fault("kills")
  /\ forgotten' = forgotten \cup {live[b].tap : b \in {a \in Buttons : Sent(a)}}
  /\ live' = [b \in Buttons |-> Quiet]
  /\ openEntry' = 0 /\ pending' = 0 /\ gets' = [w \in Readers |-> Quiet]
  /\ flush' = Idle /\ sync' = Idle /\ launched' = {}
  /\ UNCHANGED <<given, open, recorded, kinds, queue, dropped, told>>

Init ==
  /\ given \in Conditions
  /\ open = 0 /\ recorded = {} /\ kinds = << >>
  /\ live = [b \in Buttons |-> Quiet]
  /\ openEntry = 0 /\ pending = 0 /\ gets = [w \in Readers |-> Quiet]
  /\ queue = << >> /\ dropped = {} /\ told = {} /\ forgotten = {}
  /\ flush = Idle /\ sync = Idle /\ launched = {}
  /\ faults = [losses |-> 0, garbled |-> 0, refusals |-> 0, kills |-> 0, failedReads |-> 0,
               remounts |-> 0, deliveries |-> 0]

TapSteps(b) == TapServed(b) \/ TapAccepted(b) \/ TapRefused(b)
GetSteps == (\E w \in Readers : GetServed(w)) \/ ScreenGetAnswered \/ Reconciled
FlushSteps == FlushServed \/ FlushAnswered

Next ==
  \/ \E b \in Buttons : \/ Press(b) \/ Abort(b) \/ Commit(b) \/ TapSteps(b)
                        \/ TapGarbled(b) \/ TapLost(b)
  \/ SyncStart \/ Delivery \/ FlushSteps \/ FlushGarbled \/ FlushLost
  \/ GetSteps \/ \E w \in Readers : GetFails(w)
  \/ Mount \/ Remount \/ Kill

Spec == Init /\ [][Next]_vars

\* Requests are answered, a sync comes again with every reconnect and every
\* return to the foreground, and the worker opens the app again.
FairSpec ==
  /\ Spec
  /\ \A b \in Buttons : WF_vars(TapSteps(b))
  /\ WF_vars(GetSteps) /\ WF_vars(FlushSteps) /\ WF_vars(SyncStart)
  /\ WF_vars(Mount)
-----------------------------------------------------------------------------
TypeOK ==
  /\ given \in Conditions
  /\ open \in {0} \cup Taps /\ recorded \subseteq Taps
  /\ kinds \in Seq({"in", "out"}) /\ Len(kinds) <= MaxTaps
  /\ live \in [Buttons -> {Quiet} \cup LiveTap]
  /\ openEntry \in {0} \cup Taps /\ pending \in {0} \cup Taps
  /\ queue \in Seq({Pings} \cup Taps) /\ dropped \cup told \cup forgotten \subseteq Taps
  /\ flush \in {Idle} \cup Drain /\ sync \in {Idle} \cup SyncRun
  /\ gets \in [Readers -> {Quiet} \cup Get]
  /\ launched \subseteq Readers
  /\ gets["sync"] # Quiet <=> sync # Idle /\ sync.step = "reconcile"

AtRest == NothingUnderWay /\ queue = << >>

\* When the phone has come to rest it shows what the server has: whatever was
\* accepted, refused, lost or unreadable, and however answers overtook each
\* other (clock.ts writeGen, sync.ts's reconcile).
ScreenShowsServer == AtRest => openEntry = open

\* The pill "waiting for connection" does not outlive the wait (outbox.ts and
\* sync.ts on clearing pendingSince after a drain).
PillIsTrue == AtRest => pending = 0

\* Taps, syncs and GETs have waited for each other, every GET was answered, the
\* clock tab stayed mounted, and no delivery worked the queue behind a sync.
Undisturbed ==
  /\ given.overlap = {}
  /\ faults.failedReads = 0 /\ faults.remounts = 0 /\ faults.deliveries = 0

\* Undisturbed, both are so, across losses, refusals and kills of the app.
ScreenSettles == Undisturbed => ScreenShowsServer
PillSettles   == Undisturbed => PillIsTrue

\* No tap vanishes: the server has it, the worker has been told, or it is on its
\* way (design.md 5.3).  Only a kill while its request is out forgets one.
NothingVanishes ==
  \A t \in 1 .. Len(kinds) :
    \/ t \in recorded \cup dropped \cup told \cup forgotten \cup ToSet(queue)
    \/ \E b \in Buttons : Sent(b) /\ live[b].tap = t

\* A message about a tap the server did take is only ever the one that says its
\* answer could not be read (clockFlow.ts, HYDRATE_CODES).
RefusalsAreTrue ==
  (dropped \cup told) \cap recorded # {} => faults.garbled > 0

\* Losing the signal costs no shift: where no rule is broken the queue reports
\* nothing dropped (outbox.ts drain: order is what stops a signal problem from
\* losing a shift).
SignalCostsNoShift == faults.refusals = 0 /\ faults.garbled = 0 => dropped = {}

\* Every tap is settled in the end, whatever was lost on the way.  (Where syncs
\* wait for taps, a worker who keeps pressing and backing out holds them up.)
EveryTapSettles ==
  \A t \in Taps : "syncs" \in given.overlap /\ t <= Len(kinds)
                   ~> t \in recorded \cup dropped \cup told \cup forgotten
=============================================================================
