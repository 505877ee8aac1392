-------------------------- MODULE ClockFlowProofs --------------------------
(***************************************************************************)
(* Theorems about ClockFlow for every number of taps and every set of      *)
(* conditions: taps, replays, GETs, syncs and kills in any number and in   *)
(* any order.                                                              *)
(***************************************************************************)
EXTENDS ClockFlow, TLAPS, FiniteSetTheorems

FaultKinds ==
  {"losses", "garbled", "refusals", "kills", "failedReads", "remounts", "deliveries"}

Gone == dropped \cup told

\* The highest number in use is that of the latest tap.
Numbered ==
  /\ open <= Len(kinds)
  /\ \A t \in recorded \cup Gone \cup ToSet(queue) : t <= Len(kinds)
  /\ \A b \in Buttons : Sent(b) => live[b].tap <= Len(kinds)

\* Each tap is in one place: in one live request, once in the queue, or given
\* up with a message.
OnePlace ==
  /\ \A i, j \in DOMAIN queue : queue[i] = queue[j] /\ queue[i] # Pings => i = j
  /\ Gone \cap ToSet(queue) = {}
  /\ \A b \in Buttons : Sent(b) => live[b].tap \notin Gone \cup ToSet(queue)
  /\ \A a, b \in Buttons : Sent(a) /\ Sent(b) /\ live[a].tap = live[b].tap => a = b

\* What an answer on its way says of tap t is still so when it arrives.
Says(t, verdict, done, spoilt) ==
  /\ verdict = "ok" => t \in done
  /\ verdict \in {"conflict", "refused"} => t \notin done
  /\ verdict = "garbled" => spoilt > 0
StillTrue(t, verdict) == Says(t, verdict, recorded, faults.garbled)

\* The drain's item is the head of the queue; pings are accepted.
HeadInFlight ==
  flush # Idle =>
    /\ queue # << >> /\ flush.tap = queue[1]
    /\ flush.tap = Pings => flush.verdict \in {"", "ok"}
    /\ flush.tap # Pings => StillTrue(flush.tap, flush.verdict)

\* A live tap's first ruling is on a tap the server has not seen.
LiveAnswers ==
  \A b \in Buttons : Sent(b) =>
    /\ StillTrue(live[b].tap, live[b].verdict)
    /\ live[b].verdict = "" => live[b].tap \notin recorded
    /\ kinds[live[b].tap] = IF b = "sheet" THEN "in" ELSE "out"

Safe == RefusalsAreTrue /\ NothingVanishes

Typed == TypeOK /\ faults \in [FaultKinds -> Nat]
Core  == Numbered /\ OnePlace /\ HeadInFlight /\ LiveAnswers /\ Safe

IndInv == Typed /\ Core
-----------------------------------------------------------------------------
(* Undisturbed *)

Current(w) == gets[w] # Quiet /\ gets[w].current
SomeSent == \E b \in Buttons : Sent(b)

\* A tap is alone on the phone.
Alone ==
  \A b \in Buttons : Busy(b) =>
    /\ sync = Idle /\ flush = Idle /\ \A w \in Readers : gets[w] = Quiet
    /\ "screen" \in launched /\ \A a \in Buttons : Busy(a) => a = b

\* Every drain is a sync's, whose notes on the queue and the pill are right.
Synced ==
  /\ \A i \in DOMAIN queue : queue[i] # Pings
  /\ flush # Idle <=> sync # Idle /\ sync.step = "flush"
  /\ sync # Idle => sync.pendingBefore = pending
  /\ sync # Idle /\ sync.step = "flush" => sync.before > 0
  /\ sync # Idle /\ sync.step = "reconcile" => (sync.after = 0 <=> queue = << >>)

\* With nothing queued, what is shown is what the server has, or a GET that will
\* still be believed is under way; and such a GET has the truth.
Fresh ==
  queue = << >> =>
    /\ "screen" \in launched /\ ~SomeSent =>
         openEntry = open \/ \E w \in Readers : Current(w)
    /\ \A w \in Readers : Current(w) /\ gets[w].answer # Unserved => gets[w].answer = open

\* While a tap is out nothing else changes the server's shift: what the tap will
\* leave on the screen is what the server has.
Foreseen ==
  \A b \in Buttons :
    /\ Busy(b) /\ ~Sent(b) /\ b = "sheet" => openEntry = 0
    /\ Sent(b) /\ queue = << >> /\ live[b].verdict \in {"", "refused"} =>
         live[b].revert = open
    /\ Sent(b) /\ queue = << >> /\ live[b].verdict = "ok" =>
         open = IF b = "sheet" THEN live[b].tap ELSE 0

\* The pill is up for a tap under way, a queue, or until the reconcile clears it;
\* the reconcile does not cut off another GET that is needed.
Pill ==
  /\ pending # 0 => SomeSent \/ queue # << >> \/ sync # Idle
  /\ "screen" \notin launched => pending = 0
  /\ sync # Idle /\ sync.step = "reconcile" /\ ~gets["sync"].current => pending = 0

Calm == Alone /\ Synced /\ Fresh /\ Foreseen /\ Pill

CalmInv == IndInv /\ (Undisturbed => Calm)
-----------------------------------------------------------------------------
(* What the parts of the state look like *)

LEMMA FaultEffect ==
  ASSUME faults \in [FaultKinds -> Nat], NEW k \in FaultKinds, Fault(k)
  PROVE  /\ faults' \in [FaultKinds -> Nat]
         /\ \A j \in FaultKinds : faults'[j] >= faults[j]
         /\ faults'[k] > 0
<1>1. faults' = [faults EXCEPT ![k] = faults[k] + 1]
  BY Zenon DEF Fault
<1>2. QED
  BY <1>1

LEMMA ReadingShape ==
  LiveTap = [step: {"reading"}] \cup
            [step: {"sent"}, tap: Taps, verdict: Verdicts \cup {""}, revert: {0} \cup Taps]
BY DEF LiveTap

LEMMA SentShape ==
  ASSUME TypeOK, NEW b \in Buttons, Sent(b)
  PROVE  /\ live[b] \in [step: {"sent"}, tap: Taps, verdict: Verdicts \cup {""},
                         revert: {0} \cup Taps]
         /\ live[b].tap \in Taps /\ live[b].verdict \in Verdicts \cup {""}
         /\ live[b].revert \in {0} \cup Taps /\ live[b].step = "sent"
<1>1. live[b] \in LiveTap /\ live[b].step = "sent"
  BY DEF TypeOK, Sent, Busy
<1>2. live[b] \notin [step: {"reading"}]
  BY <1>1
<1>3. QED
  BY <1>1, <1>2 DEF LiveTap

LEMMA GivenShape ==
  ASSUME TypeOK
  PROVE  given.taps \in 0 .. MaxTaps
BY BoundAssumption DEF TypeOK, Condition

LEMMA QuietStep == Quiet.step = "quiet"
BY DEF Quiet

LEMMA VerdictField ==
  ASSUME NEW r \in [step: {"sent"}, tap: Taps, verdict: Verdicts \cup {""},
                    revert: {0} \cup Taps], NEW v \in Verdicts
  PROVE  /\ [r EXCEPT !.verdict = v] \in [step: {"sent"}, tap: Taps,
              verdict: Verdicts \cup {""}, revert: {0} \cup Taps]
         /\ [r EXCEPT !.verdict = v].step = "sent"
         /\ [r EXCEPT !.verdict = v].tap = r.tap
         /\ [r EXCEPT !.verdict = v].verdict = v
         /\ [r EXCEPT !.verdict = v].revert = r.revert
OBVIOUS

\* A verdict is written into a live tap.
LEMMA VerdictWritten ==
  ASSUME TypeOK, NEW b \in Buttons, Sent(b), NEW v \in Verdicts,
         live' = [live EXCEPT ![b].verdict = v]
  PROVE  /\ live' \in [Buttons -> {Quiet} \cup LiveTap]
         /\ \A a \in Buttons : a # b => live'[a] = live[a]
         /\ Sent(b)' /\ live'[b].tap = live[b].tap /\ live'[b].verdict = v
         /\ live'[b].revert = live[b].revert
<1> DEFINE w == [live[b] EXCEPT !.verdict = v]
<1>1. live[b] \in [step: {"sent"}, tap: Taps, verdict: Verdicts \cup {""},
                   revert: {0} \cup Taps]
  BY SentShape
<1>2. /\ w \in [step: {"sent"}, tap: Taps, verdict: Verdicts \cup {""},
                revert: {0} \cup Taps]
      /\ w.step = "sent" /\ w.tap = live[b].tap
      /\ w.verdict = v /\ w.revert = live[b].revert
  BY <1>1, VerdictField, Zenon
<1>3. live \in [Buttons -> {Quiet} \cup LiveTap]
  BY DEF TypeOK
<1>4. live' = [live EXCEPT ![b] = w]
  BY Zenon
<1> HIDE DEF w
<1>5. w \in LiveTap
  BY <1>2 DEF LiveTap
<1>6. w # Quiet
  BY <1>2, QuietStep
<1>7. live'[b] = w /\ \A a \in Buttons : a # b => live'[a] = live[a]
  BY <1>3, <1>4
<1>8. live' \in [Buttons -> {Quiet} \cup LiveTap]
  BY <1>3, <1>4, <1>5
<1>9. QED
  BY <1>2, <1>6, <1>7, <1>8 DEF Sent, Busy

\* A live tap moves to another record.
LEMMA LiveSet ==
  ASSUME TypeOK, NEW b \in Buttons, NEW w \in {Quiet} \cup LiveTap,
         live' = [live EXCEPT ![b] = w]
  PROVE  /\ live' \in [Buttons -> {Quiet} \cup LiveTap]
         /\ live'[b] = w /\ \A a \in Buttons : a # b => live'[a] = live[a]
BY DEF TypeOK

\* A request under way.
LEMMA GetShape ==
  ASSUME TypeOK, NEW w \in Readers, gets[w] # Quiet
  PROVE  /\ gets[w] \in Get
         /\ gets[w].current \in BOOLEAN /\ gets[w].answer \in {Unserved, 0} \cup Taps
         /\ gets[w] = [current |-> gets[w].current, answer |-> gets[w].answer]
BY DEF TypeOK, Get

LEMMA GetIsNotQuiet ==
  ASSUME NEW g \in Get
  PROVE  g # Quiet
BY DEF Get, Quiet

\* Every write outdates the GETs under way, and changes nothing else of them.
LEMMA OutdatedGets ==
  ASSUME TypeOK
  PROVE  /\ Outdated \in [Readers -> {Quiet} \cup Get]
         /\ \A w \in Readers : gets[w] = Quiet => Outdated[w] = Quiet
         /\ \A w \in Readers : gets[w] # Quiet =>
              /\ Outdated[w] # Quiet /\ ~Outdated[w].current
              /\ Outdated[w].answer = gets[w].answer
<1>1. ASSUME NEW w \in Readers, gets[w] # Quiet
      PROVE  /\ Outdated[w] \in Get /\ Outdated[w] # Quiet /\ ~Outdated[w].current
             /\ Outdated[w].answer = gets[w].answer
  <2>1. Outdated[w] = [gets[w] EXCEPT !.current = FALSE]
    BY <1>1 DEF Outdated
  <2>2. Outdated[w] = [current |-> FALSE, answer |-> gets[w].answer]
    BY <1>1, <2>1, GetShape, Zenon
  <2>3. gets[w].answer \in {Unserved, 0} \cup Taps
    BY <1>1, GetShape
  <2>4. Outdated[w] \in Get
    BY <2>2, <2>3 DEF Get
  <2>5. Outdated[w].current = FALSE /\ Outdated[w].answer = gets[w].answer
    BY <2>2
  <2>6. Outdated[w] # Quiet
    BY <2>4, GetIsNotQuiet
  <2>7. QED
    BY <2>4, <2>5, <2>6, Zenon
<1>2. ASSUME NEW w \in Readers, gets[w] = Quiet
      PROVE  Outdated[w] = Quiet
  BY <1>2 DEF Outdated
<1>3. DOMAIN Outdated = Readers /\ Outdated = [w \in Readers |-> Outdated[w]]
  BY DEF Outdated
<1>4. QED
  BY <1>1, <1>2, <1>3

\* A GET is issued: the others are outdated.
LEMMA IssuedGets ==
  ASSUME TypeOK, NEW w \in Readers
  PROVE  /\ Issue(w) \in [Readers -> {Quiet} \cup Get]
         /\ Issue(w)[w] \in Get /\ Issue(w)[w] # Quiet /\ Issue(w)[w].current
         /\ Issue(w)[w].answer = Unserved
         /\ \A v \in Readers : v # w => Issue(w)[v] = Outdated[v]
<1> DEFINE g == [current |-> TRUE, answer |-> Unserved]
<1>1. g \in Get /\ g.current = TRUE /\ g.answer = Unserved
  BY DEF Get
<1>2. Issue(w) = [Outdated EXCEPT ![w] = g]
  BY DEF Issue
<1>3. Outdated \in [Readers -> {Quiet} \cup Get]
  BY OutdatedGets
<1> HIDE DEF g
<1>4. g # Quiet
  BY <1>1, GetIsNotQuiet
<1>5. Issue(w)[w] = g /\ \A v \in Readers : v # w => Issue(w)[v] = Outdated[v]
  BY <1>2, <1>3
<1>6. Issue(w) \in [Readers -> {Quiet} \cup Get]
  BY <1>1, <1>2, <1>3
<1>7. QED
  BY <1>1, <1>4, <1>5, <1>6

\* A drain's item, and its verdict.
LEMMA FlushShape ==
  ASSUME TypeOK, flush # Idle
  PROVE  /\ flush \in Drain /\ flush.tap \in {Pings} \cup Taps
         /\ flush.verdict \in Verdicts \cup {""}
BY DEF TypeOK, Drain

LEMMA DrainIsNotIdle ==
  ASSUME NEW d \in Drain
  PROVE  d # Idle
<1>1. DOMAIN d = {"tap", "verdict"}
  BY DEF Drain
<1>2. DOMAIN Quiet = {"step"}
  BY DEF Quiet
<1>3. QED
  BY <1>1, <1>2 DEF Idle

LEMMA DrainVerdictField ==
  ASSUME NEW d \in Drain, NEW v \in Verdicts
  PROVE  /\ [d EXCEPT !.verdict = v] \in Drain
         /\ [d EXCEPT !.verdict = v].tap = d.tap
         /\ [d EXCEPT !.verdict = v].verdict = v
BY DEF Drain

\* A verdict is written into the drain.
LEMMA DrainVerdict ==
  ASSUME TypeOK, flush # Idle, NEW v \in Verdicts, flush' = [flush EXCEPT !.verdict = v]
  PROVE  /\ flush' \in Drain /\ flush' # Idle
         /\ flush'.tap = flush.tap /\ flush'.verdict = v
BY FlushShape, DrainVerdictField, DrainIsNotIdle

\* The next item is sent.
LEMMA DrainSends ==
  ASSUME NEW t \in {Pings} \cup Taps
  PROVE  LET d == [tap |-> t, verdict |-> ""]
         IN  d \in Drain /\ d # Idle /\ d.tap = t /\ d.verdict = ""
<1> DEFINE d == [tap |-> t, verdict |-> ""]
<1>1. d \in Drain /\ d.tap = t /\ d.verdict = ""
  BY DEF Drain
<1>2. QED
  BY <1>1, DrainIsNotIdle

\* A sync under way.
LEMMA SyncShape ==
  ASSUME TypeOK, sync # Idle
  PROVE  /\ sync \in SyncRun /\ sync.step \in {"flush", "reconcile"}
         /\ sync.before \in 0 .. MaxTaps /\ sync.after \in 0 .. MaxTaps
         /\ sync.pendingBefore \in {0} \cup Taps
BY DEF TypeOK, SyncRun

LEMMA SyncIsNotIdle ==
  ASSUME NEW r \in SyncRun
  PROVE  r # Idle
<1>1. r.step # "quiet"
  BY DEF SyncRun
<1>2. QED
  BY <1>1, QuietStep DEF Idle

LEMMA SyncStepField ==
  ASSUME NEW r \in SyncRun, NEW u \in {"flush", "reconcile"}, NEW n \in 0 .. MaxTaps
  PROVE  LET x == [r EXCEPT !.step = u, !.after = n]
         IN  /\ x \in SyncRun /\ x.step = u /\ x.after = n
             /\ x.pendingBefore = r.pendingBefore /\ x.before = r.before
<1> DEFINE y == [r EXCEPT !.step = u]
           x == [r EXCEPT !.step = u, !.after = n]
<1>1. /\ y \in SyncRun /\ y.step = u
      /\ y.pendingBefore = r.pendingBefore /\ y.before = r.before
  BY DEF SyncRun
<1>2. x = [y EXCEPT !.after = n]
  BY Zenon
<1> HIDE DEF y, x
<1>3. /\ [y EXCEPT !.after = n] \in SyncRun /\ [y EXCEPT !.after = n].step = y.step
      /\ [y EXCEPT !.after = n].after = n
      /\ [y EXCEPT !.after = n].pendingBefore = y.pendingBefore
      /\ [y EXCEPT !.after = n].before = y.before
  BY <1>1 DEF SyncRun
<1>4. QED
  BY <1>1, <1>2, <1>3 DEF x

\* The number of clock items: each is a tap of its own, so the bound on taps
\* bounds it, and it is 0 where there are none.
LEMMA ClockItemsCount ==
  ASSUME NEW q \in Seq({Pings} \cup Taps),
         \A i, j \in DOMAIN q : q[i] = q[j] /\ q[i] # Pings => i = j
  PROVE  /\ ClockItems(q) \in 0 .. MaxTaps
         /\ ClockItems(q) = 0 <=> \A i \in DOMAIN q : q[i] = Pings
<1> DEFINE D == {i \in DOMAIN q : q[i] # Pings}
           f == [i \in D |-> q[i]]
<1>1. f \in Injection(D, Taps)
  BY DEF Injection, IsInjective
<1>2. MaxTaps \in Nat
  BY BoundAssumption
<1>3. IsFiniteSet(Taps) /\ Cardinality(Taps) = MaxTaps
  BY <1>2, FS_Interval DEF Taps
<1>4. IsFiniteSet(D) /\ Cardinality(D) <= MaxTaps
  BY <1>1, <1>3, FS_Injection
<1>5. Cardinality(D) \in Nat /\ (Cardinality(D) = 0 <=> D = {})
  BY <1>4, FS_CardinalityType, FS_EmptySet
<1>6. ClockItems(q) = Cardinality(D)
  BY DEF ClockItems
<1> HIDE DEF D
<1>7. ClockItems(q) \in 0 .. MaxTaps /\ (ClockItems(q) = 0 <=> D = {})
  BY <1>2, <1>4, <1>5, <1>6
<1>8. QED
  BY <1>7 DEF D
-----------------------------------------------------------------------------
(* Sequences *)

LEMMA Appended ==
  ASSUME NEW S, NEW q \in Seq(S), NEW t \in S
  PROVE  /\ Append(q, t) \in Seq(S) /\ Append(q, t) # << >>
         /\ DOMAIN Append(q, t) = 1 .. (Len(q) + 1) /\ DOMAIN q = 1 .. Len(q)
         /\ \A i \in DOMAIN q : Append(q, t)[i] = q[i]
         /\ Append(q, t)[Len(q) + 1] = t
         /\ ToSet(Append(q, t)) = ToSet(q) \cup {t}
<1>1. /\ Append(q, t) \in Seq(S) /\ Append(q, t) # << >>
      /\ DOMAIN Append(q, t) = 1 .. (Len(q) + 1) /\ DOMAIN q = 1 .. Len(q)
      /\ Len(q) \in Nat
      /\ \A i \in DOMAIN q : Append(q, t)[i] = q[i]
      /\ Append(q, t)[Len(q) + 1] = t
  OBVIOUS
<1>2. ToSet(Append(q, t)) = ToSet(q) \cup {t}
  BY <1>1 DEF ToSet
<1>3. QED
  BY <1>1, <1>2

LEMMA Tailed ==
  ASSUME NEW S, NEW q \in Seq(S), q # << >>
  PROVE  /\ Tail(q) \in Seq(S) /\ Head(q) = q[1] /\ q[1] \in S /\ q[1] \in ToSet(q)
         /\ \A i \in DOMAIN Tail(q) : i \in Nat /\ i + 1 \in DOMAIN q /\ Tail(q)[i] = q[i + 1]
         /\ ToSet(q) = ToSet(Tail(q)) \cup {q[1]}
         /\ 1 \in DOMAIN q
<1>1. /\ Tail(q) \in Seq(S) /\ Head(q) = q[1] /\ q[1] \in S /\ 1 \in DOMAIN q
      /\ Len(q) \in Nat /\ Len(q) > 0
      /\ DOMAIN q = 1 .. Len(q) /\ DOMAIN Tail(q) = 1 .. (Len(q) - 1)
      /\ \A i \in DOMAIN Tail(q) : Tail(q)[i] = q[i + 1]
  OBVIOUS
<1>2. \A i \in DOMAIN q : i = 1 \/ (i - 1 \in DOMAIN Tail(q) /\ Tail(q)[i - 1] = q[i])
  BY <1>1
<1>3. \A i \in DOMAIN Tail(q) : i \in Nat /\ i + 1 \in DOMAIN q
  BY <1>1
<1>4. ToSet(q) = ToSet(Tail(q)) \cup {q[1]}
  <2>1. ASSUME NEW i \in DOMAIN q PROVE q[i] \in ToSet(Tail(q)) \cup {q[1]}
    BY <1>2 DEF ToSet
  <2>2. ASSUME NEW i \in DOMAIN Tail(q) PROVE Tail(q)[i] \in ToSet(q)
    BY <1>1, <1>3 DEF ToSet
  <2>3. QED
    BY <1>1, <2>1, <2>2 DEF ToSet
<1>5. QED
  BY <1>1, <1>3, <1>4 DEF ToSet
-----------------------------------------------------------------------------
(* Steps that leave the taps and the server alone *)

\* The drain is where it was, over, or has just sent the head of the queue.
FlushKept ==
  \/ flush' = flush \/ flush' = Idle
  \/ queue # << >> /\ flush'.tap = queue[1] /\ flush'.verdict = ""

\* The bounded faults only ever grow in number.
FaultsKept ==
  faults' \in [FaultKinds -> Nat] /\ \A k \in FaultKinds : faults'[k] >= faults[k]

LEMMA GarbledMonotone ==
  ASSUME IndInv, FaultsKept
  PROVE  /\ faults["garbled"] \in Nat /\ faults'["garbled"] \in Nat
         /\ faults["garbled"] > 0 => faults'["garbled"] > 0
BY DEF IndInv, Typed, FaultsKept, FaultKinds

LEMMA CoreKept ==
  ASSUME IndInv, FlushKept, FaultsKept,
         \A b \in Buttons : Sent(b)' <=> Sent(b),
         \A b \in Buttons : Sent(b) => live'[b] = live[b],
         UNCHANGED <<open, recorded, kinds, queue, fates>>
  PROVE  Core'
<1>0. faults \in [FaultKinds -> Nat] /\ TypeOK
  BY DEF IndInv, Typed
<1>1. Numbered'
  BY DEF IndInv, Core, Numbered, Gone, fates
<1>2. OnePlace'
  BY DEF IndInv, Core, OnePlace, Gone, fates
<1>3. ASSUME NEW t, NEW v, Says(t, v, recorded, faults["garbled"])
      PROVE  Says(t, v, recorded', faults'["garbled"])
  BY <1>3, GarbledMonotone DEF Says
<1>4. HeadInFlight'
  BY <1>3 DEF IndInv, Core, HeadInFlight, FlushKept, StillTrue, Says
<1>5. LiveAnswers'
  BY <1>3 DEF IndInv, Core, LiveAnswers, StillTrue
<1>6. Safe'
  <2>1. RefusalsAreTrue'
    BY GarbledMonotone DEF IndInv, Core, Safe, RefusalsAreTrue, fates
  <2>2. NothingVanishes'
    BY DEF IndInv, Core, Safe, NothingVanishes, fates
  <2>3. QED
    BY <2>1, <2>2 DEF Safe
<1>7. QED
  BY <1>1, <1>2, <1>4, <1>5, <1>6 DEF Core

LEMMA NoFault ==
  ASSUME IndInv, UNCHANGED faults
  PROVE  FaultsKept
BY DEF IndInv, Typed, FaultsKept, FaultKinds

LEMMA OneFault ==
  ASSUME IndInv, NEW k \in FaultKinds, Fault(k)
  PROVE  FaultsKept /\ faults'[k] > 0
BY FaultEffect DEF IndInv, Typed, FaultsKept, FaultKinds

\* A button that is idle or reading the position carries no tap.
LEMMA NotSent ==
  /\ ~(Quiet # Quiet /\ Quiet.step = "sent")
  /\ ~([step |-> "reading"].step = "sent")
  /\ [step |-> "reading"] \in LiveTap
BY DEF LiveTap

LEMMA PressStep ==
  ASSUME IndInv, NEW b \in Buttons, Press(b)
  PROVE  IndInv'
<1> DEFINE w == [step |-> "reading"]
<1>0. TypeOK
  BY DEF IndInv, Typed
<1>1. /\ live' = [live EXCEPT ![b] = w] /\ ~Busy(b)
      /\ UNCHANGED <<given, open, recorded, kinds, phone, queue, fates, flush, sync,
                     launched, faults>>
  BY Zenon DEF Press
<1>2. w \in LiveTap /\ w.step # "sent"
  BY NotSent
<1> HIDE DEF w
<1>3. /\ live' \in [Buttons -> {Quiet} \cup LiveTap] /\ live'[b] = w
      /\ \A a \in Buttons : a # b => live'[a] = live[a]
  BY <1>0, <1>1, <1>2, LiveSet
<1>4. Typed'
  BY <1>1, <1>3 DEF IndInv, Typed, TypeOK, phone, fates
<1>5. \A a \in Buttons : (Sent(a)' <=> Sent(a)) /\ (Sent(a) => live'[a] = live[a])
  BY <1>1, <1>2, <1>3 DEF Sent, Busy
<1>6. FlushKept /\ FaultsKept
  BY <1>1, NoFault DEF FlushKept
<1>7. Core'
  BY <1>1, <1>5, <1>6, CoreKept
<1>8. QED
  BY <1>4, <1>7 DEF IndInv

LEMMA AbortStep ==
  ASSUME IndInv, NEW b \in Buttons, Abort(b)
  PROVE  IndInv'
<1>0. TypeOK
  BY DEF IndInv, Typed
<1>1. /\ live' = [live EXCEPT ![b] = Quiet] /\ live[b] = [step |-> "reading"]
      /\ UNCHANGED <<given, open, recorded, kinds, phone, queue, fates, flush, sync,
                     launched, faults>>
  BY Zenon DEF Abort
<1>2. live[b].step # "sent"
  BY <1>1, NotSent
<1>3. /\ live' \in [Buttons -> {Quiet} \cup LiveTap] /\ live'[b] = Quiet
      /\ \A a \in Buttons : a # b => live'[a] = live[a]
  BY <1>0, <1>1, LiveSet
<1>4. Typed'
  BY <1>1, <1>3 DEF IndInv, Typed, TypeOK, phone, fates
<1>5. \A a \in Buttons : (Sent(a)' <=> Sent(a)) /\ (Sent(a) => live'[a] = live[a])
  BY <1>2, <1>3 DEF Sent, Busy
<1>6. FlushKept /\ FaultsKept
  BY <1>1, NoFault DEF FlushKept
<1>7. Core'
  BY <1>1, <1>5, <1>6, CoreKept
<1>8. QED
  BY <1>4, <1>7 DEF IndInv

LEMMA GetServedStep ==
  ASSUME IndInv, NEW w \in Readers, GetServed(w)
  PROVE  /\ IndInv'
         /\ gets[w] # Quiet /\ gets[w].answer = Unserved
         /\ gets'[w] # Quiet /\ gets'[w].answer = open
         /\ gets'[w].current = gets[w].current
         /\ \A v \in Readers : v # w => gets'[v] = gets[v]
<1> DEFINE g == [gets[w] EXCEPT !.answer = open]
<1>0. TypeOK
  BY DEF IndInv, Typed
<1>1. /\ gets[w] # Quiet /\ gets[w].answer = Unserved /\ gets' = [gets EXCEPT ![w] = g]
      /\ UNCHANGED <<given, open, recorded, kinds, live, openEntry, pending, queue, fates,
                     flush, sync, launched, faults>>
  BY Zenon DEF GetServed
<1>2. gets[w] \in Get /\ open \in {Unserved, 0} \cup Taps
  BY <1>0, <1>1, GetShape DEF TypeOK
<1>3. g \in Get /\ g.answer = open /\ g.current = gets[w].current
  BY <1>2 DEF Get
<1> HIDE DEF g
<1>4. g # Quiet
  BY <1>3, GetIsNotQuiet
<1>5. /\ gets' \in [Readers -> {Quiet} \cup Get] /\ gets'[w] = g
      /\ \A v \in Readers : v # w => gets'[v] = gets[v]
  BY <1>0, <1>1, <1>3 DEF TypeOK
<1>6. gets'["sync"] # Quiet <=> gets["sync"] # Quiet
  BY <1>1, <1>4, <1>5 DEF Readers
<1>7. Typed'
  BY <1>1, <1>5, <1>6 DEF IndInv, Typed, TypeOK, fates
<1>8. \A a \in Buttons : (Sent(a)' <=> Sent(a)) /\ (Sent(a) => live'[a] = live[a])
  BY <1>1 DEF Sent, Busy
<1>9. FlushKept /\ FaultsKept
  BY <1>1, NoFault DEF FlushKept
<1>10. Core'
  BY <1>1, <1>8, <1>9, CoreKept
<1>11. QED
  BY <1>1, <1>3, <1>4, <1>5, <1>7, <1>10 DEF IndInv

\* What a GET's answer leaves on the screen is a shift or none.
LEMMA ShownShape ==
  ASSUME TypeOK, NEW w \in Readers, gets[w] # Quiet, gets[w].answer # Unserved
  PROVE  Shown(w) \in {0} \cup Taps
BY GetShape DEF Shown, TypeOK

LEMMA ScreenGetAnsweredStep ==
  ASSUME IndInv, ScreenGetAnswered
  PROVE  IndInv'
<1>0. TypeOK /\ "screen" \in Readers
  BY DEF IndInv, Typed, Readers
<1>1. /\ gets["screen"] # Quiet /\ gets["screen"].answer # Unserved
      /\ openEntry' = Shown("screen") /\ gets' = [gets EXCEPT !["screen"] = Quiet]
      /\ UNCHANGED <<given, open, recorded, kinds, live, pending, queue, fates, flush, sync,
                     launched, faults>>
  BY Zenon DEF ScreenGetAnswered
<1>2. openEntry' \in {0} \cup Taps
  BY <1>0, <1>1, ShownShape
<1>3. gets' \in [Readers -> {Quiet} \cup Get] /\ gets'["sync"] = gets["sync"]
  BY <1>0, <1>1 DEF TypeOK, Readers
<1>4. Typed'
  BY <1>1, <1>2, <1>3 DEF IndInv, Typed, TypeOK, fates
<1>5. \A a \in Buttons : (Sent(a)' <=> Sent(a)) /\ (Sent(a) => live'[a] = live[a])
  BY <1>1 DEF Sent, Busy
<1>6. FlushKept /\ FaultsKept
  BY <1>1, NoFault DEF FlushKept
<1>7. Core'
  BY <1>1, <1>5, <1>6, CoreKept
<1>8. QED
  BY <1>4, <1>7 DEF IndInv

LEMMA GetFailsStep ==
  ASSUME IndInv, NEW w \in Readers, GetFails(w)
  PROVE  IndInv' /\ faults'["failedReads"] > 0
<1>0. TypeOK /\ "failedReads" \in FaultKinds
  BY DEF IndInv, Typed, FaultKinds
<1>1. /\ gets[w] # Quiet /\ Fault("failedReads") /\ gets' = [gets EXCEPT ![w] = Quiet]
      /\ sync' = IF w = "sync" THEN Quiet ELSE sync
      /\ UNCHANGED <<given, open, recorded, kinds, live, openEntry, pending, queue, fates,
                     flush, launched>>
  BY Zenon DEF GetFails
<1>2. /\ gets' \in [Readers -> {Quiet} \cup Get] /\ gets'[w] = Quiet
      /\ \A v \in Readers : v # w => gets'[v] = gets[v]
  BY <1>0, <1>1 DEF TypeOK
<1>3. /\ sync' \in {Idle} \cup SyncRun
      /\ gets'["sync"] # Quiet <=> sync' # Idle /\ sync'.step = "reconcile"
  BY <1>0, <1>1, <1>2 DEF TypeOK, Idle, Readers
<1>4. FlushKept /\ FaultsKept /\ faults'["failedReads"] > 0
  BY <1>0, <1>1, OneFault DEF FlushKept
<1>5. Typed'
  BY <1>0, <1>1, <1>2, <1>3, <1>4 DEF Typed, TypeOK, FaultsKept, fates
<1>6. \A a \in Buttons : (Sent(a)' <=> Sent(a)) /\ (Sent(a) => live'[a] = live[a])
  BY <1>1 DEF Sent, Busy
<1>7. Core'
  BY <1>1, <1>4, <1>6, CoreKept
<1>8. QED
  BY <1>4, <1>5, <1>7 DEF IndInv

LEMMA MountedStep ==
  ASSUME IndInv, Mounted, FaultsKept
  PROVE  IndInv'
<1>0. TypeOK /\ "screen" \in Readers
  BY DEF IndInv, Typed, Readers
<1>1. /\ launched' = launched \cup {"screen"} /\ gets' = Issue("screen")
      /\ UNCHANGED <<given, open, recorded, kinds, live, openEntry, pending, queue, fates,
                     flush, sync>>
  BY Zenon DEF Mounted
<1>2. /\ gets' \in [Readers -> {Quiet} \cup Get]
      /\ gets'["sync"] # Quiet <=> gets["sync"] # Quiet
  BY <1>0, <1>1, IssuedGets, OutdatedGets DEF Readers
<1>3. Typed'
  BY <1>0, <1>1, <1>2 DEF Typed, TypeOK, FaultsKept, fates, Readers
<1>4. \A a \in Buttons : (Sent(a)' <=> Sent(a)) /\ (Sent(a) => live'[a] = live[a])
  BY <1>1 DEF Sent, Busy
<1>5. FlushKept
  BY <1>1 DEF FlushKept
<1>6. Core'
  BY <1>1, <1>4, <1>5, CoreKept
<1>7. QED
  BY <1>3, <1>6 DEF IndInv

\* The queue's clock items are counted.
LEMMA QueueCount ==
  ASSUME IndInv
  PROVE  /\ ClockItems(queue) \in 0 .. MaxTaps
         /\ ClockItems(queue) = 0 <=> \A i \in DOMAIN queue : queue[i] = Pings
<1>1. queue \in Seq({Pings} \cup Taps)
  BY DEF IndInv, Typed, TypeOK
<1>2. \A i, j \in DOMAIN queue : queue[i] = queue[j] /\ queue[i] # Pings => i = j
  BY DEF IndInv, Core, OnePlace
<1>3. QED
  BY <1>1, <1>2, ClockItemsCount

\* The notes a sync starts with.
LEMMA SyncNotes ==
  ASSUME NEW n \in 0 .. MaxTaps, NEW t \in {0} \cup Taps
  PROVE  LET r == [step |-> "flush", before |-> n, after |-> 0, pendingBefore |-> t]
         IN  /\ r \in SyncRun /\ r # Idle /\ r.step = "flush" /\ r.before = n
             /\ r.after = 0 /\ r.pendingBefore = t
<1> DEFINE r == [step |-> "flush", before |-> n, after |-> 0, pendingBefore |-> t]
<1>1. /\ r \in SyncRun /\ r.step = "flush" /\ r.before = n
      /\ r.after = 0 /\ r.pendingBefore = t
  BY BoundAssumption DEF SyncRun
<1>2. QED
  BY <1>1, SyncIsNotIdle

\* A sync starts on what is queued, or ends where it starts.
SyncBegins ==
  /\ sync' \in SyncRun /\ sync' # Idle /\ sync'.step = "flush"
  /\ sync'.before = ClockItems(queue) /\ sync'.pendingBefore = pending
  /\ flush' \in Drain /\ flush' # Idle
  /\ flush = Idle => queue # << >> /\ flush'.tap = queue[1] /\ flush'.verdict = ""
  /\ flush # Idle => flush' = flush

LEMMA SyncStartStep ==
  ASSUME IndInv, SyncStart
  PROVE  /\ IndInv' /\ sync = Idle
         /\ "syncs" \in given.overlap \/ \A b \in Buttons : ~Busy(b)
         /\ launched' = launched \cup {"sync"}
         /\ UNCHANGED <<given, open, recorded, kinds, live, phone, queue, fates, faults>>
         /\ \/ UNCHANGED <<flush, sync>> /\ NothingQueued
            \/ SyncBegins
<1> DEFINE r == [step |-> "flush", before |-> ClockItems(queue), after |-> 0,
                 pendingBefore |-> pending]
           d == [tap |-> Head(queue), verdict |-> ""]
<1>0. TypeOK
  BY DEF IndInv, Typed
<1>1. /\ sync = Idle /\ launched' = launched \cup {"sync"}
      /\ "syncs" \in given.overlap \/ \A b \in Buttons : ~Busy(b)
      /\ \/ NothingQueued /\ UNCHANGED <<flush, sync>>
         \/ ~NothingQueued /\ sync' = r /\ flush' = IF flush = Idle THEN d ELSE flush
      /\ UNCHANGED <<given, open, recorded, kinds, live, phone, queue, fates, faults>>
  BY Zenon DEF SyncStart
<1>2. ASSUME ~NothingQueued, sync' = r, flush' = IF flush = Idle THEN d ELSE flush
      PROVE  SyncBegins
  <2>1. /\ r \in SyncRun /\ r # Idle /\ r.step = "flush"
        /\ r.before = ClockItems(queue) /\ r.pendingBefore = pending
    BY <1>0, QueueCount, SyncNotes DEF TypeOK
  <2>2. ASSUME flush = Idle
        PROVE  /\ queue # << >> /\ d.tap = queue[1] /\ d.verdict = ""
               /\ d \in Drain /\ d # Idle
    <3>1. queue # << >> /\ queue \in Seq({Pings} \cup Taps)
      BY <1>0, <1>2, <2>2 DEF NothingQueued, TypeOK
    <3>2. Head(queue) = queue[1] /\ queue[1] \in {Pings} \cup Taps
      BY <3>1, Tailed
    <3>3. QED
      BY <3>1, <3>2, DrainSends
  <2> HIDE DEF r, d
  <2>3. flush # Idle => flush \in Drain
    BY <1>0 DEF TypeOK
  <2>4. QED
    BY <1>2, <2>1, <2>2, <2>3 DEF SyncBegins
<1> HIDE DEF r, d
<1>3. \/ UNCHANGED <<flush, sync>> /\ NothingQueued
      \/ SyncBegins
  BY <1>1, <1>2
<1>4. flush' \in {Idle} \cup Drain /\ sync' \in {Idle} \cup SyncRun /\ FlushKept
  BY <1>0, <1>3 DEF SyncBegins, TypeOK, FlushKept
<1>5. /\ gets'["sync"] # Quiet <=> sync' # Idle /\ sync'.step = "reconcile"
      /\ gets' = gets
  BY <1>0, <1>1, <1>3 DEF SyncBegins, TypeOK, phone
<1>6. Typed'
  BY <1>0, <1>1, <1>4, <1>5 DEF IndInv, Typed, TypeOK, phone, fates, Readers
<1>7. \A a \in Buttons : (Sent(a)' <=> Sent(a)) /\ (Sent(a) => live'[a] = live[a])
  BY <1>1 DEF Sent, Busy
<1>8. Core'
  BY <1>1, <1>4, <1>7, CoreKept, NoFault
<1>9. QED
  BY <1>1, <1>3, <1>6, <1>8 DEF IndInv

LEMMA ReconciledStep ==
  ASSUME IndInv, Reconciled
  PROVE  /\ IndInv'
         /\ gets["sync"] # Quiet /\ gets["sync"].answer # Unserved
         /\ openEntry' = Shown("sync") /\ sync' = Idle
         /\ UNCHANGED <<given, open, recorded, kinds, live, queue, fates, flush, launched,
                        faults>>
         /\ IF sync.after = 0 /\ pending # 0 /\ pending = sync.pendingBefore
            THEN pending' = 0 /\ gets'["screen"] = Outdated["screen"]
            ELSE UNCHANGED pending /\ gets'["screen"] = gets["screen"]
         /\ gets'["sync"] = Quiet
<1>0. TypeOK /\ "sync" \in Readers /\ "screen" \in Readers
  BY DEF IndInv, Typed, Readers
<1>1. /\ gets["sync"] # Quiet /\ gets["sync"].answer # Unserved
      /\ openEntry' = Shown("sync") /\ sync' = Idle
      /\ IF sync.after = 0 /\ pending # 0 /\ pending = sync.pendingBefore
         THEN pending' = 0 /\ gets' = [Outdated EXCEPT !["sync"] = Quiet]
         ELSE gets' = [gets EXCEPT !["sync"] = Quiet] /\ UNCHANGED pending
      /\ UNCHANGED <<given, open, recorded, kinds, live, queue, fates, flush, launched,
                     faults>>
  BY Zenon DEF Reconciled
<1>2. openEntry' \in {0} \cup Taps /\ pending' \in {0} \cup Taps
  BY <1>0, <1>1, ShownShape DEF TypeOK
<1>3. gets' \in [Readers -> {Quiet} \cup Get] /\ gets'["sync"] = Quiet
  BY <1>0, <1>1, OutdatedGets DEF TypeOK
<1>4. Typed'
  BY <1>1, <1>2, <1>3 DEF IndInv, Typed, TypeOK, fates
<1>5. \A a \in Buttons : (Sent(a)' <=> Sent(a)) /\ (Sent(a) => live'[a] = live[a])
  BY <1>1 DEF Sent, Busy
<1>6. FlushKept /\ FaultsKept
  BY <1>1, NoFault DEF FlushKept
<1>7. Core'
  BY <1>1, <1>5, <1>6, CoreKept
<1>8. gets = [w \in Readers |-> gets[w]]
  BY <1>0 DEF TypeOK
<1>9. /\ gets' = [gets EXCEPT !["sync"] = Quiet] => gets'["screen"] = gets["screen"]
      /\ gets' = [Outdated EXCEPT !["sync"] = Quiet] => gets'["screen"] = Outdated["screen"]
  BY <1>0, <1>8, OutdatedGets
<1>10. QED
  BY <1>1, <1>3, <1>4, <1>7, <1>9 DEF IndInv
-----------------------------------------------------------------------------
(* The server's rulings *)

LEMMA VerdictShape ==
  ASSUME NEW t
  PROVE  /\ Verdict(t) \in {"ok", "conflict", "refused"}
         /\ t \in recorded => Verdict(t) = "ok"
BY DEF Verdict

\* A ruling records the tap or leaves everything as it was.
LEMMA Ruled ==
  ASSUME IndInv, NEW t \in Taps, t <= Len(kinds), NEW v, Rule(t, v)
  PROVE  /\ v \in {"ok", "conflict", "refused"} /\ FaultsKept
         /\ v = "ok" => recorded' = recorded \cup {t}
         /\ v # "ok" => t \notin recorded /\ UNCHANGED <<open, recorded>>
         /\ t \in recorded => UNCHANGED <<open, recorded>>
         /\ v = "ok" /\ t \notin recorded => open' = IF kinds[t] = "in" THEN t ELSE 0
         /\ recorded' \subseteq Taps /\ open' \in {0} \cup Taps /\ open' <= Len(kinds)
<1>1. CASE /\ v = Verdict(t)
           /\ recorded' = IF v = "ok" THEN recorded \cup {t} ELSE recorded
           /\ open' = IF v = "ok" /\ t \notin recorded
                      THEN IF kinds[t] = "in" THEN t ELSE 0
                      ELSE open
           /\ UNCHANGED faults
  <2>1. FaultsKept
    BY <1>1, NoFault
  <2>2. open <= Len(kinds) /\ Len(kinds) \in Nat /\ open \in {0} \cup Taps
        /\ recorded \subseteq Taps
    BY DEF IndInv, Core, Numbered, Typed, TypeOK
  <2>3. QED
    BY <1>1, <2>1, <2>2, VerdictShape
<1>2. CASE v = "refused" /\ t \notin recorded /\ Fault("refusals")
           /\ UNCHANGED <<open, recorded>>
  <2>1. FaultsKept
    BY <1>2, OneFault DEF FaultKinds
  <2>2. open <= Len(kinds) /\ open \in {0} \cup Taps /\ recorded \subseteq Taps
    BY DEF IndInv, Core, Numbered, Typed, TypeOK
  <2>3. QED
    BY <1>2, <2>1, <2>2
<1>3. QED
  BY <1>1, <1>2, Zenon DEF Rule

\* A ruling on one tap leaves what was said of the others true.
LEMMA OthersStillTrue ==
  ASSUME IndInv, FaultsKept, NEW t, recorded \subseteq recorded',
         recorded' \subseteq recorded \cup {t},
         NEW u, u # t, NEW v, Says(u, v, recorded, faults["garbled"])
  PROVE  Says(u, v, recorded', faults'["garbled"])
BY GarbledMonotone DEF Says

LEMMA TapServedStep ==
  ASSUME IndInv, NEW b \in Buttons, TapServed(b)
  PROVE  /\ IndInv'
         /\ Sent(b) /\ live[b].verdict = ""
         /\ \A a \in Buttons : a # b => live'[a] = live[a]
         /\ Sent(b)' /\ live'[b].tap = live[b].tap /\ live'[b].revert = live[b].revert
         /\ live'[b].verdict \in {"ok", "conflict", "refused"}
         /\ live'[b].verdict # "ok" => UNCHANGED open
         /\ live'[b].verdict = "ok" => open' = IF b = "sheet" THEN live[b].tap ELSE 0
         /\ UNCHANGED <<given, kinds, phone, queue, fates, flush, sync, launched>>
         /\ FaultsKept
<1>0. TypeOK
  BY DEF IndInv, Typed
<1>1. PICK v \in Verdicts : Rule(live[b].tap, v) /\ live' = [live EXCEPT ![b].verdict = v]
  BY Zenon DEF TapServed
<1>2. /\ Sent(b) /\ live[b].verdict = ""
      /\ UNCHANGED <<given, kinds, phone, queue, fates, flush, sync, launched>>
  BY Zenon DEF TapServed
<1> DEFINE t == live[b].tap
<1>3. t \in Taps /\ t <= Len(kinds) /\ t \notin recorded
  BY <1>0, <1>2, SentShape DEF IndInv, Core, Numbered, LiveAnswers
<1>4. /\ v \in {"ok", "conflict", "refused"} /\ FaultsKept
      /\ v = "ok" => recorded' = recorded \cup {t}
      /\ v # "ok" => UNCHANGED <<open, recorded>>
      /\ v = "ok" => open' = IF kinds[t] = "in" THEN t ELSE 0
      /\ recorded' \subseteq Taps /\ open' \in {0} \cup Taps /\ open' <= Len(kinds)
  BY <1>1, <1>3, Ruled
<1>5. /\ live' \in [Buttons -> {Quiet} \cup LiveTap]
      /\ \A a \in Buttons : a # b => live'[a] = live[a]
      /\ Sent(b)' /\ live'[b].tap = t /\ live'[b].verdict = v
      /\ live'[b].revert = live[b].revert
  BY <1>0, <1>1, <1>2, VerdictWritten
<1> HIDE DEF t
<1>6. \A a \in Buttons : (Sent(a)' <=> Sent(a)) /\ (Sent(a) => live'[a].tap = live[a].tap)
  BY <1>2, <1>5 DEF Sent, Busy, t
<1>7. Typed'
  BY <1>0, <1>2, <1>4, <1>5 DEF Typed, TypeOK, FaultsKept, phone, fates
<1>8. Numbered'
  BY <1>2, <1>3, <1>4, <1>6 DEF IndInv, Core, Numbered, Gone, fates
<1>9. OnePlace'
  BY <1>2, <1>6 DEF IndInv, Core, OnePlace, Gone, fates
<1>10. \A a \in Buttons : a # b /\ Sent(a) => live[a].tap # t
  BY <1>2 DEF IndInv, Core, OnePlace, t
<1>11. recorded \subseteq recorded' /\ recorded' \subseteq recorded \cup {t}
  BY <1>4
<1>12. HeadInFlight'
  <2>1. flush # Idle => flush.tap # t
    <3>1. queue # << >> => queue[1] \in ToSet(queue)
      BY <1>0, Tailed DEF TypeOK
    <3>2. QED
      BY <1>2, <3>1 DEF IndInv, Core, OnePlace, HeadInFlight, t
  <2>2. ASSUME flush # Idle, flush.tap # Pings
        PROVE  Says(flush.tap, flush.verdict, recorded', faults'["garbled"])
    <3>1. Says(flush.tap, flush.verdict, recorded, faults["garbled"])
      BY <2>2 DEF IndInv, Core, HeadInFlight, StillTrue
    <3>2. QED
      BY <1>4, <1>11, <2>1, <2>2, <3>1, OthersStillTrue
  <2>3. flush' = flush /\ queue' = queue
    BY <1>2
  <2>4. QED
    BY <2>2, <2>3 DEF IndInv, Core, HeadInFlight, StillTrue
<1>13. LiveAnswers'
  <2>1. Says(t, v, recorded', faults'["garbled"])
    BY <1>3, <1>4 DEF Says
  <2>2. ASSUME NEW a \in Buttons, Sent(a)', a # b
        PROVE  /\ Says(live'[a].tap, live'[a].verdict, recorded', faults'["garbled"])
               /\ live'[a].verdict = "" => live'[a].tap \notin recorded'
    <3>1. Sent(a) /\ live'[a] = live[a] /\ live[a].tap # t
      BY <1>5, <1>6, <1>10, <2>2
    <3>2. /\ Says(live[a].tap, live[a].verdict, recorded, faults["garbled"])
          /\ live[a].verdict = "" => live[a].tap \notin recorded
      BY <3>1 DEF IndInv, Core, LiveAnswers, StillTrue
    <3>3. Says(live[a].tap, live[a].verdict, recorded', faults'["garbled"])
      BY <1>4, <1>11, <3>1, <3>2, OthersStillTrue
    <3>4. QED
      BY <1>11, <3>1, <3>2, <3>3
  <2>3. \A a \in Buttons : Sent(a)' =>
           kinds'[live'[a].tap] = IF a = "sheet" THEN "in" ELSE "out"
    BY <1>2, <1>6 DEF IndInv, Core, LiveAnswers
  <2>4. v # ""
    BY <1>4
  <2>5. QED
    BY <1>5, <2>1, <2>2, <2>3, <2>4 DEF LiveAnswers, StillTrue
<1>14. Safe'
  <2>1. RefusalsAreTrue'
    <3>1. t \notin Gone
      BY <1>2 DEF IndInv, Core, OnePlace, t
    <3>2. QED
      BY <1>2, <1>4, <1>11, <3>1, GarbledMonotone
         DEF IndInv, Core, Safe, RefusalsAreTrue, fates, Gone
  <2>2. NothingVanishes'
    BY <1>2, <1>6, <1>11 DEF IndInv, Core, Safe, NothingVanishes, fates
  <2>3. QED
    BY <2>1, <2>2 DEF Safe
<1>15. kinds[t] = IF b = "sheet" THEN "in" ELSE "out"
  BY <1>2 DEF IndInv, Core, LiveAnswers, t
<1>16. IndInv'
  BY <1>7, <1>8, <1>9, <1>12, <1>13, <1>14 DEF IndInv, Core
<1>17. v = "ok" => open' = IF b = "sheet" THEN t ELSE 0
  BY <1>4, <1>15
<1>18. QED
  BY <1>2, <1>4, <1>5, <1>16, <1>17 DEF t

LEMMA TapGarbledStep ==
  ASSUME IndInv, NEW b \in Buttons, TapGarbled(b)
  PROVE  /\ IndInv' /\ Sent(b)
         /\ \A a \in Buttons : a # b => live'[a] = live[a]
         /\ Sent(b)' /\ live'[b].verdict = "garbled"
         /\ FaultsKept
         /\ UNCHANGED <<given, open, recorded, kinds, phone, queue, fates, flush, sync,
                        launched>>
<1>0. TypeOK
  BY DEF IndInv, Typed
<1>1. /\ Sent(b) /\ live[b].verdict = "ok" /\ Fault("garbled")
      /\ live' = [live EXCEPT ![b].verdict = "garbled"]
      /\ UNCHANGED <<given, open, recorded, kinds, phone, queue, fates, flush, sync, launched>>
  BY Zenon DEF TapGarbled
<1>2. "garbled" \in Verdicts /\ "garbled" \in FaultKinds
  BY DEF Verdicts, FaultKinds
<1>3. /\ live' \in [Buttons -> {Quiet} \cup LiveTap]
      /\ \A a \in Buttons : a # b => live'[a] = live[a]
      /\ Sent(b)' /\ live'[b].tap = live[b].tap /\ live'[b].verdict = "garbled"
  BY <1>0, <1>1, <1>2, VerdictWritten
<1>4. FaultsKept /\ faults'["garbled"] > 0
  BY <1>1, <1>2, OneFault
<1>5. Typed'
  BY <1>0, <1>1, <1>3, <1>4 DEF Typed, TypeOK, FaultsKept, phone, fates
<1>6. \A a \in Buttons : (Sent(a)' <=> Sent(a)) /\ (Sent(a) => live'[a].tap = live[a].tap)
  BY <1>1, <1>3 DEF Sent, Busy
<1>7. Numbered' /\ OnePlace'
  BY <1>1, <1>6 DEF IndInv, Core, Numbered, OnePlace, Gone, fates
<1>8. HeadInFlight'
  BY <1>1, <1>4 DEF IndInv, Core, HeadInFlight, StillTrue, Says
<1>9. LiveAnswers'
  <2>1. \A a \in Buttons : Sent(a)' =>
           /\ live'[a].verdict = "" => live'[a].tap \notin recorded'
           /\ kinds'[live'[a].tap] = IF a = "sheet" THEN "in" ELSE "out"
    <3>1. ASSUME NEW a \in Buttons, Sent(a)'
          PROVE  /\ live'[a].verdict = "" => live'[a].tap \notin recorded'
                 /\ kinds'[live'[a].tap] = IF a = "sheet" THEN "in" ELSE "out"
      <4>1. Sent(a) /\ live'[a].tap = live[a].tap /\ kinds' = kinds /\ recorded' = recorded
            /\ (live'[a].verdict = "" => live[a].verdict = "")
        BY <1>1, <1>3, <1>6, <3>1
      <4>2. QED
        BY <4>1 DEF IndInv, Core, LiveAnswers
    <3>2. QED
      BY <3>1
  <2>2. \A a \in Buttons : Sent(a)' =>
           Says(live'[a].tap, live'[a].verdict, recorded', faults'["garbled"])
    BY <1>1, <1>3, <1>4, <1>6 DEF IndInv, Core, LiveAnswers, StillTrue, Says
  <2>3. QED
    BY <2>1, <2>2 DEF LiveAnswers, StillTrue
<1>10. Safe'
  BY <1>1, <1>4, <1>6 DEF IndInv, Core, Safe, NothingVanishes, RefusalsAreTrue, fates
<1>11. QED
  BY <1>1, <1>3, <1>4, <1>5, <1>7, <1>8, <1>9, <1>10 DEF IndInv, Core

\* A live tap is done with: its button is idle, the others' requests go on.
LEMMA TapDone ==
  ASSUME IndInv, NEW b \in Buttons, live' = [live EXCEPT ![b] = Quiet]
  PROVE  /\ live' \in [Buttons -> {Quiet} \cup LiveTap] /\ ~Busy(b)' /\ ~Sent(b)'
         /\ \A a \in Buttons : a # b => live'[a] = live[a]
         /\ \A a \in Buttons : Sent(a)' <=> a # b /\ Sent(a)
         /\ \A a \in Buttons : Sent(a)' => live'[a] = live[a]
<1>0. TypeOK
  BY DEF IndInv, Typed
<1>1. /\ live' \in [Buttons -> {Quiet} \cup LiveTap] /\ live'[b] = Quiet
      /\ \A a \in Buttons : a # b => live'[a] = live[a]
  BY <1>0, LiveSet
<1>2. QED
  BY <1>1 DEF Sent, Busy

LEMMA TapAcceptedStep ==
  ASSUME IndInv, NEW b \in Buttons, TapAccepted(b)
  PROVE  IndInv'
<1>0. TypeOK
  BY DEF IndInv, Typed
<1>1. /\ Sent(b) /\ live[b].verdict = "ok" /\ gets' = Outdated /\ pending' = 0
      /\ openEntry' = IF b = "sheet" THEN live[b].tap ELSE 0
      /\ live' = [live EXCEPT ![b] = Quiet]
      /\ UNCHANGED <<given, open, recorded, kinds, queue, fates, flush, sync, launched, faults>>
  BY Zenon DEF TapAccepted, SetOpen
<1>2. /\ live' \in [Buttons -> {Quiet} \cup LiveTap]
      /\ \A a \in Buttons : Sent(a)' <=> a # b /\ Sent(a)
      /\ \A a \in Buttons : Sent(a)' => live'[a] = live[a]
  BY <1>1, TapDone
<1>3. gets' \in [Readers -> {Quiet} \cup Get] /\ (gets'["sync"] # Quiet <=> gets["sync"] # Quiet)
  BY <1>0, <1>1, OutdatedGets DEF Readers
<1>4. openEntry' \in {0} \cup Taps /\ live[b].tap \in recorded
  BY <1>0, <1>1, SentShape DEF IndInv, Core, LiveAnswers, StillTrue, Says
<1>5. Typed'
  BY <1>0, <1>1, <1>2, <1>3, <1>4 DEF IndInv, Typed, TypeOK, fates
<1>6. Numbered' /\ OnePlace' /\ HeadInFlight' /\ LiveAnswers'
  BY <1>1, <1>2 DEF IndInv, Core, Numbered, OnePlace, HeadInFlight, LiveAnswers, StillTrue,
                    Gone, fates
<1>7. RefusalsAreTrue'
  BY <1>1 DEF IndInv, Core, Safe, RefusalsAreTrue, fates
<1>8. NothingVanishes'
  BY <1>1, <1>2, <1>4 DEF IndInv, Core, Safe, NothingVanishes, fates
<1>9. QED
  BY <1>5, <1>6, <1>7, <1>8 DEF IndInv, Core, Safe

LEMMA TapRefusedStep ==
  ASSUME IndInv, NEW b \in Buttons, TapRefused(b)
  PROVE  IndInv'
<1>0. TypeOK /\ "screen" \in Readers
  BY DEF IndInv, Typed, Readers
<1>1. /\ Sent(b) /\ live[b].verdict \in {"conflict", "refused", "garbled"}
      /\ openEntry' = live[b].revert /\ pending' = 0
      /\ gets' = IF live[b].verdict = "refused" THEN Outdated ELSE Issue("screen")
      /\ told' = told \cup {live[b].tap}
      /\ live' = [live EXCEPT ![b] = Quiet]
      /\ UNCHANGED <<given, open, recorded, kinds, queue, dropped, forgotten, flush, sync,
                     launched, faults>>
  BY Zenon DEF TapRefused, SetOpen
<1> DEFINE t == live[b].tap
<1>2. /\ live' \in [Buttons -> {Quiet} \cup LiveTap]
      /\ \A a \in Buttons : Sent(a)' <=> a # b /\ Sent(a)
      /\ \A a \in Buttons : Sent(a)' => live'[a] = live[a]
  BY <1>1, TapDone
<1>3. /\ gets' \in [Readers -> {Quiet} \cup Get]
      /\ gets'["sync"] # Quiet <=> gets["sync"] # Quiet
  BY <1>0, <1>1, OutdatedGets, IssuedGets DEF Readers
<1>4. /\ openEntry' \in {0} \cup Taps /\ t \in Taps /\ t <= Len(kinds)
      /\ t \notin ToSet(queue)
      /\ \A a \in Buttons : Sent(a)' => live[a].tap # t
  BY <1>0, <1>1, <1>2, SentShape DEF IndInv, Core, Numbered, OnePlace
<1>5. t \in recorded => faults["garbled"] > 0
  BY <1>1 DEF IndInv, Core, LiveAnswers, StillTrue, Says
<1>6. Typed'
  BY <1>0, <1>1, <1>2, <1>3, <1>4 DEF IndInv, Typed, TypeOK
<1>7. Numbered' /\ OnePlace' /\ HeadInFlight' /\ LiveAnswers'
  <2>1. Gone' = Gone \cup {t}
    BY <1>1 DEF Gone
  <2>2. Numbered' /\ OnePlace'
    BY <1>1, <1>2, <1>4, <2>1 DEF IndInv, Core, Numbered, OnePlace
  <2>3. HeadInFlight' /\ LiveAnswers'
    BY <1>1, <1>2 DEF IndInv, Core, HeadInFlight, LiveAnswers, StillTrue
  <2>4. QED
    BY <2>2, <2>3
<1>8. RefusalsAreTrue'
  BY <1>1, <1>5 DEF IndInv, Core, Safe, RefusalsAreTrue
<1>9. NothingVanishes'
  BY <1>1, <1>2 DEF IndInv, Core, Safe, NothingVanishes
<1>10. QED
  BY <1>6, <1>7, <1>8, <1>9 DEF IndInv, Core, Safe

LEMMA TapLostStep ==
  ASSUME IndInv, NEW b \in Buttons, TapLost(b)
  PROVE  IndInv'
<1>0. TypeOK /\ "losses" \in FaultKinds
  BY DEF IndInv, Typed, FaultKinds
<1>1. /\ Sent(b) /\ Fault("losses") /\ queue' = Append(queue, live[b].tap)
      /\ live' = [live EXCEPT ![b] = Quiet]
      /\ UNCHANGED <<given, open, recorded, kinds, phone, fates, flush, sync, launched>>
  BY Zenon DEF TapLost
<1> DEFINE t == live[b].tap
<1>2. /\ live' \in [Buttons -> {Quiet} \cup LiveTap]
      /\ \A a \in Buttons : Sent(a)' <=> a # b /\ Sent(a)
      /\ \A a \in Buttons : Sent(a)' => live'[a] = live[a]
  BY <1>1, TapDone
<1>3. FaultsKept
  BY <1>0, <1>1, OneFault
<1>4. /\ t \in Taps /\ t <= Len(kinds) /\ t \notin ToSet(queue) /\ t \notin Gone
      /\ \A a \in Buttons : Sent(a)' => live[a].tap # t
  BY <1>0, <1>1, <1>2, SentShape DEF IndInv, Core, Numbered, OnePlace
<1>5. /\ queue \in Seq({Pings} \cup Taps) /\ t \in {Pings} \cup Taps /\ queue' = Append(queue, t)
  BY <1>0, <1>1, <1>4 DEF TypeOK
<1> HIDE DEF t
<1>6. /\ queue' \in Seq({Pings} \cup Taps) /\ queue' # << >> /\ Len(queue) \in Nat
      /\ DOMAIN queue' = 1 .. (Len(queue) + 1) /\ DOMAIN queue = 1 .. Len(queue)
      /\ \A i \in DOMAIN queue : queue'[i] = queue[i] /\ queue[i] \in ToSet(queue)
      /\ queue'[Len(queue) + 1] = t
      /\ ToSet(queue') = ToSet(queue) \cup {t}
  BY <1>5, Appended DEF ToSet
<1>7. Typed'
  BY <1>0, <1>1, <1>2, <1>3, <1>6 DEF Typed, TypeOK, FaultsKept, phone, fates
<1>8. Numbered'
  BY <1>1, <1>2, <1>4, <1>6 DEF IndInv, Core, Numbered, Gone, fates
<1>9. OnePlace'
  <2>1. \A i, j \in DOMAIN queue' : queue'[i] = queue'[j] /\ queue'[i] # Pings => i = j
    BY <1>4, <1>6 DEF IndInv, Core, OnePlace
  <2>2. QED
    BY <1>1, <1>2, <1>4, <1>6, <2>1 DEF IndInv, Core, OnePlace, Gone, fates
<1>10. HeadInFlight'
  <2>1. queue # << >> => queue'[1] = queue[1]
    BY <1>5, <1>6
  <2>2. QED
    BY <1>1, <1>3, <1>6, <2>1, GarbledMonotone DEF IndInv, Core, HeadInFlight, StillTrue, Says
<1>11. LiveAnswers'
  BY <1>1, <1>2, <1>3, GarbledMonotone DEF IndInv, Core, LiveAnswers, StillTrue, Says
<1>12. RefusalsAreTrue'
  BY <1>1, <1>3, GarbledMonotone DEF IndInv, Core, Safe, RefusalsAreTrue, fates
<1>13. NothingVanishes'
  BY <1>1, <1>2, <1>6 DEF IndInv, Core, Safe, NothingVanishes, fates, t
<1>14. QED
  BY <1>7, <1>8, <1>9, <1>10, <1>11, <1>12, <1>13 DEF IndInv, Core, Safe

LEMMA CommitStep ==
  ASSUME IndInv, NEW b \in Buttons, Commit(b)
  PROVE  /\ IndInv'
         /\ Busy(b) /\ ~Sent(b) /\ Sent(b)' /\ live'[b].verdict = ""
         /\ \A a \in Buttons : a # b => live'[a] = live[a]
         /\ b = "button" => openEntry # 0
         /\ live'[b].revert = IF b = "sheet" THEN 0 ELSE openEntry
         /\ gets' = Outdated
         /\ UNCHANGED <<given, open, recorded, queue, fates, flush, sync, launched, faults>>
<1> DEFINE t == Len(kinds) + 1
           k == IF b = "sheet" THEN "in" ELSE "out"
           w == [step |-> "sent", tap |-> t, verdict |-> "",
                 revert |-> IF b = "sheet" THEN 0 ELSE openEntry]
<1>0. TypeOK
  BY DEF IndInv, Typed
<1>1. /\ live[b] = [step |-> "reading"] /\ t <= given.taps
      /\ b = "button" => openEntry # 0
      /\ kinds' = Append(kinds, k) /\ live' = [live EXCEPT ![b] = w]
      /\ openEntry' = IF b = "sheet" THEN t ELSE 0
      /\ pending' = t /\ gets' = Outdated
      /\ UNCHANGED <<given, open, recorded, queue, fates, flush, sync, launched, faults>>
  BY Zenon DEF Commit, SetPending
<1>2. /\ kinds \in Seq({"in", "out"}) /\ k \in {"in", "out"} /\ Len(kinds) \in Nat
      /\ given.taps \in 0 .. MaxTaps /\ MaxTaps \in Nat
  BY <1>0, GivenShape, BoundAssumption DEF TypeOK
<1>3. t \in Taps /\ t <= MaxTaps
  <2>1. t <= given.taps
    BY <1>1, Zenon
  <2>2. QED
    BY <1>2, <2>1 DEF Taps
<1>4. /\ kinds' \in Seq({"in", "out"}) /\ Len(kinds') = t /\ kinds'[t] = k
      /\ \A i \in 1 .. Len(kinds) : kinds'[i] = kinds[i]
  <2>1. kinds' = Append(kinds, k)
    BY <1>1, Zenon
  <2> HIDE DEF k
  <2>2. QED
    BY <1>2, <2>1
<1>5. /\ w \in LiveTap /\ w.step = "sent" /\ w.tap = t /\ w.verdict = ""
      /\ w.revert = IF b = "sheet" THEN 0 ELSE openEntry
  BY <1>0, <1>3 DEF LiveTap, TypeOK
<1>6. live[b].step = "reading"
  <2>1. live[b] = [step |-> "reading"]
    BY <1>1, Zenon
  <2>2. QED
    BY <2>1
<1> HIDE DEF t, k, w
<1>7. w # Quiet
  BY <1>5, QuietStep
<1>8. /\ live' \in [Buttons -> {Quiet} \cup LiveTap] /\ live'[b] = w
      /\ \A a \in Buttons : a # b => live'[a] = live[a]
  BY <1>0, <1>1, <1>5, LiveSet
<1>9. Sent(b)' /\ ~Sent(b) /\ \A a \in Buttons : a # b => (Sent(a)' <=> Sent(a))
  BY <1>5, <1>6, <1>7, <1>8 DEF Sent, Busy
<1>10. gets' \in [Readers -> {Quiet} \cup Get] /\ (gets'["sync"] # Quiet <=> gets["sync"] # Quiet)
  BY <1>0, <1>1, OutdatedGets DEF Readers
<1>11. openEntry' \in {0} \cup Taps /\ pending' \in {0} \cup Taps
  BY <1>1, <1>3
<1>12. Typed'
  BY <1>0, <1>1, <1>3, <1>4, <1>8, <1>10, <1>11 DEF IndInv, Typed, TypeOK, fates
<1>13. t = Len(kinds) + 1
  BY DEF t
<1>14. Numbered /\ OnePlace /\ HeadInFlight /\ LiveAnswers
       /\ RefusalsAreTrue /\ NothingVanishes
  BY DEF IndInv, Core, Safe
<1>15. /\ \A u \in recorded \cup Gone \cup ToSet(queue) : u # t
       /\ \A a \in Buttons : Sent(a) => live[a].tap # t
       /\ open \in Int
       /\ recorded \cup Gone \subseteq Int
       /\ ToSet(queue) \subseteq Int
       /\ \A a \in Buttons : Sent(a) => live[a].tap \in 1 .. Len(kinds)
  <2>1. recorded \cup Gone \subseteq Int /\ open \in Int
    <3>1. Taps \subseteq Int /\ 0 \in Int
      BY DEF Taps
    <3>2. recorded \subseteq Taps /\ dropped \cup told \cup forgotten \subseteq Taps
          /\ open \in {0} \cup Taps
      BY <1>0 DEF TypeOK
    <3>3. QED
      BY <3>1, <3>2 DEF Gone
  <2>2. ToSet(queue) \subseteq Int
    BY <1>0 DEF TypeOK, ToSet, Taps, Pings
  <2>3. \A a \in Buttons : Sent(a) => live[a].tap \in 1 .. Len(kinds)
    <3>1. ASSUME NEW a \in Buttons, Sent(a) PROVE live[a].tap \in Taps
      BY <1>0, <3>1, SentShape
    <3>2. QED
      BY <1>2, <1>14, <3>1 DEF Numbered, Taps
  <2>4. QED
    BY <1>2, <1>13, <1>14, <2>1, <2>2, <2>3 DEF Numbered
<1>16. Numbered'
  <2>1. \A u \in recorded \cup Gone \cup ToSet(queue) : u <= t
    BY <1>2, <1>13, <1>14, <1>15 DEF Numbered
  <2>2. ASSUME NEW a \in Buttons, Sent(a)' PROVE live'[a].tap <= t
    <3>1. CASE a = b
      <4>1. live'[a].tap = t
        BY <1>5, <1>8, <3>1
      <4>2. t \in Int
        BY <1>2, <1>13
      <4>3. QED
        BY <4>1, <4>2
    <3>2. CASE a # b
      <4>1. live'[a] = live[a] /\ live[a].tap \in 1 .. Len(kinds)
        BY <1>8, <1>9, <1>15, <2>2, <3>2
      <4>2. QED
        BY <1>2, <1>13, <4>1
    <3>3. QED
      BY <3>1, <3>2
  <2>3. QED
    BY <1>1, <1>2, <1>4, <1>13, <1>14, <1>15, <2>1, <2>2 DEF Numbered, Gone, fates
<1>17. OnePlace'
  <2>1. Gone' = Gone /\ queue' = queue
    BY <1>1 DEF Gone, fates
  <2>2. \A a \in Buttons : Sent(a)' => live'[a].tap \notin Gone \cup ToSet(queue)
    BY <1>5, <1>8, <1>9, <1>14, <1>15 DEF OnePlace
  <2>3. \A a \in Buttons : Sent(a)' /\ a # b => live'[a].tap # t /\ live'[a] = live[a] /\ Sent(a)
    BY <1>8, <1>9, <1>15
  <2>4. QED
    BY <1>5, <1>8, <1>14, <2>1, <2>2, <2>3 DEF OnePlace
<1>18. HeadInFlight'
  BY <1>1, <1>14 DEF HeadInFlight, StillTrue
<1>19. LiveAnswers'
  <2>1. ASSUME NEW a \in Buttons, Sent(a)', a # b
        PROVE  /\ Says(live'[a].tap, live'[a].verdict, recorded, faults["garbled"])
               /\ live'[a].verdict = "" => live'[a].tap \notin recorded
               /\ kinds'[live'[a].tap] = IF a = "sheet" THEN "in" ELSE "out"
    BY <1>4, <1>8, <1>9, <1>14, <1>15, <2>1 DEF LiveAnswers, StillTrue
  <2>2. Says(t, "", recorded, faults["garbled"]) /\ t \notin recorded
    BY <1>15 DEF Says
  <2>3. QED
    BY <1>1, <1>4, <1>5, <1>8, <2>1, <2>2 DEF LiveAnswers, StillTrue, k
<1>20. RefusalsAreTrue'
  BY <1>1, <1>14 DEF RefusalsAreTrue, fates
<1>21. NothingVanishes'
  <2>1. \A u \in 1 .. Len(kinds') : u = t \/ u \in 1 .. Len(kinds)
    BY <1>2, <1>4, <1>13
  <2>2. \A a \in Buttons : Sent(a) => Sent(a)' /\ live'[a].tap = live[a].tap
    BY <1>8, <1>9
  <2>3. Sent(b)' /\ live'[b].tap = t
    BY <1>5, <1>8, <1>9
  <2>4. recorded' = recorded /\ dropped' = dropped /\ told' = told /\ forgotten' = forgotten
        /\ queue' = queue
    BY <1>1 DEF fates
  <2>5. QED
    BY <1>14, <2>1, <2>2, <2>3, <2>4 DEF NothingVanishes
<1>22. IndInv'
  BY <1>12, <1>16, <1>17, <1>18, <1>19, <1>20, <1>21 DEF IndInv, Core, Safe
<1>23. Busy(b)
  BY <1>6, QuietStep DEF Busy
<1>24. QED
  BY <1>1, <1>5, <1>8, <1>9, <1>22, <1>23
-----------------------------------------------------------------------------
(* The queue and the drain *)

LEMMA DeliveryStep ==
  ASSUME IndInv, Delivery
  PROVE  IndInv' /\ faults'["deliveries"] > 0
<1> DEFINE d == [tap |-> Head(queue'), verdict |-> ""]
<1>0. TypeOK /\ "deliveries" \in FaultKinds
  BY DEF IndInv, Typed, FaultKinds
<1>1. /\ Fault("deliveries") /\ queue' = Append(queue, Pings)
      /\ flush' = IF flush = Idle THEN d ELSE flush
      /\ UNCHANGED <<given, open, recorded, kinds, live, phone, fates, sync, launched>>
  BY Zenon DEF Delivery
<1>2. FaultsKept /\ faults'["deliveries"] > 0
  BY <1>0, <1>1, OneFault
<1>3. queue \in Seq({Pings} \cup Taps) /\ Pings \in {Pings} \cup Taps
  BY <1>0 DEF TypeOK
<1>4. /\ queue' \in Seq({Pings} \cup Taps) /\ queue' # << >> /\ Len(queue) \in Nat
      /\ DOMAIN queue' = 1 .. (Len(queue) + 1) /\ DOMAIN queue = 1 .. Len(queue)
      /\ \A i \in DOMAIN queue : queue'[i] = queue[i]
      /\ queue'[Len(queue) + 1] = Pings
      /\ ToSet(queue') = ToSet(queue) \cup {Pings}
  <2>1. queue' = Append(queue, Pings)
    BY <1>1, Zenon
  <2>2. QED
    BY <1>3, <2>1, Appended
<1>5. Head(queue') = queue'[1] /\ queue'[1] \in {Pings} \cup Taps
  BY <1>4, Tailed
<1>6. d \in Drain /\ d # Idle /\ d.tap = queue'[1] /\ d.verdict = ""
  BY <1>5, DrainSends
<1> HIDE DEF d
<1>7. queue # << >> => queue'[1] = queue[1]
  BY <1>3, <1>4
<1>8. flush' \in {Idle} \cup Drain
  BY <1>0, <1>1, <1>6 DEF TypeOK
<1>9. Typed'
  BY <1>0, <1>1, <1>2, <1>4, <1>8 DEF Typed, TypeOK, FaultsKept, phone, fates
<1>10. \A a \in Buttons : (Sent(a)' <=> Sent(a)) /\ live'[a] = live[a]
  BY <1>1 DEF Sent, Busy
<1>11. Pings \notin Gone /\ \A a \in Buttons : Sent(a) => live[a].tap # Pings
  <2>1. Pings \notin Taps
    BY DEF Pings, Taps
  <2>2. QED
    BY <1>0, <2>1, SentShape DEF TypeOK, Gone
<1>12. Numbered'
  <2>1. Len(kinds) \in Nat
    BY <1>0 DEF TypeOK
  <2>2. Pings <= Len(kinds)
    BY <2>1 DEF Pings
  <2>3. QED
    BY <1>1, <1>4, <1>10, <2>2 DEF IndInv, Core, Numbered, Gone, fates
<1>13. OnePlace'
  <2>1. \A i, j \in DOMAIN queue' : queue'[i] = queue'[j] /\ queue'[i] # Pings => i = j
    BY <1>4 DEF IndInv, Core, OnePlace
  <2>2. QED
    BY <1>1, <1>4, <1>10, <1>11, <2>1 DEF IndInv, Core, OnePlace, Gone, fates
<1>14. HeadInFlight'
  <2>1. CASE flush # Idle
    BY <1>1, <1>2, <1>4, <1>7, <2>1, GarbledMonotone
       DEF IndInv, Core, HeadInFlight, StillTrue, Says
  <2>2. CASE flush = Idle
    BY <1>1, <1>4, <1>6, <2>2 DEF HeadInFlight, StillTrue, Says
  <2>3. QED
    BY <2>1, <2>2
<1>15. LiveAnswers'
  BY <1>1, <1>2, <1>10, GarbledMonotone DEF IndInv, Core, LiveAnswers, StillTrue, Says
<1>16. RefusalsAreTrue'
  BY <1>1, <1>2, GarbledMonotone DEF IndInv, Core, Safe, RefusalsAreTrue, fates
<1>17. NothingVanishes'
  BY <1>1, <1>4, <1>10 DEF IndInv, Core, Safe, NothingVanishes, fates
<1>18. QED
  BY <1>2, <1>9, <1>12, <1>13, <1>14, <1>15, <1>16, <1>17 DEF IndInv, Core, Safe

LEMMA FlushServedStep ==
  ASSUME IndInv, FlushServed
  PROVE  /\ IndInv' /\ FaultsKept /\ flush # Idle /\ flush' # Idle
         /\ UNCHANGED <<given, kinds, live, phone, queue, fates, sync, launched>>
<1>0. TypeOK
  BY DEF IndInv, Typed
<1>1. PICK v \in Verdicts :
        /\ IF flush.tap = Pings THEN v = "ok" /\ UNCHANGED <<open, recorded, faults>>
                                ELSE Rule(flush.tap, v)
        /\ flush' = [flush EXCEPT !.verdict = v]
  BY Zenon DEF FlushServed
<1>2. /\ flush # Idle /\ flush.verdict = ""
      /\ UNCHANGED <<given, kinds, live, phone, queue, fates, sync, launched>>
  BY Zenon DEF FlushServed, Flushing
<1> DEFINE t == flush.tap
<1>3. /\ t \in {Pings} \cup Taps /\ queue # << >> /\ t = queue[1] /\ t \in ToSet(queue)
      /\ t <= Len(kinds)
  BY <1>0, <1>2, FlushShape, Tailed DEF IndInv, Core, HeadInFlight, TypeOK, Numbered
<1>4. /\ flush' \in Drain /\ flush' # Idle /\ flush'.tap = t /\ flush'.verdict = v
  BY <1>0, <1>1, <1>2, DrainVerdict
<1>5. /\ FaultsKept /\ recorded \subseteq recorded' /\ recorded' \subseteq recorded \cup {t}
      /\ recorded' \subseteq Taps /\ open' \in {0} \cup Taps /\ open' <= Len(kinds)
      /\ t = Pings => v = "ok"
      /\ t # Pings => Says(t, v, recorded', faults'["garbled"])
  <2>1. CASE t = Pings
    BY <1>0, <1>1, <2>1, NoFault DEF IndInv, Core, Numbered, TypeOK
  <2>2. CASE t # Pings
    <3>1. /\ v \in {"ok", "conflict", "refused"} /\ FaultsKept
          /\ v = "ok" => recorded' = recorded \cup {t}
          /\ v # "ok" => t \notin recorded /\ UNCHANGED <<open, recorded>>
          /\ recorded' \subseteq Taps /\ open' \in {0} \cup Taps /\ open' <= Len(kinds)
      BY <1>1, <1>3, <2>2, Ruled
    <3>2. QED
      BY <2>2, <3>1 DEF Says
  <2>3. QED
    BY <2>1, <2>2
<1> HIDE DEF t
<1>6. \A a \in Buttons : (Sent(a)' <=> Sent(a)) /\ live'[a] = live[a]
  BY <1>2 DEF Sent, Busy
<1>7. Typed'
  BY <1>0, <1>2, <1>4, <1>5 DEF Typed, TypeOK, FaultsKept, phone, fates
<1>8. Numbered'
  BY <1>2, <1>3, <1>5, <1>6 DEF IndInv, Core, Numbered, Gone, fates
<1>9. OnePlace'
  BY <1>2, <1>6 DEF IndInv, Core, OnePlace, Gone, fates
<1>10. HeadInFlight'
  BY <1>2, <1>3, <1>4, <1>5 DEF HeadInFlight, StillTrue
<1>11. LiveAnswers'
  <2>1. ASSUME NEW a \in Buttons, Sent(a)
        PROVE  /\ Says(live[a].tap, live[a].verdict, recorded', faults'["garbled"])
               /\ live[a].verdict = "" => live[a].tap \notin recorded'
    <3>1. /\ Says(live[a].tap, live[a].verdict, recorded, faults["garbled"])
          /\ live[a].verdict = "" => live[a].tap \notin recorded
      BY <2>1 DEF IndInv, Core, LiveAnswers, StillTrue
    <3>2. live[a].tap # t
      BY <1>3, <2>1 DEF IndInv, Core, OnePlace
    <3>3. Says(live[a].tap, live[a].verdict, recorded', faults'["garbled"])
      <4>1. FaultsKept /\ recorded \subseteq recorded' /\ recorded' \subseteq recorded \cup {t}
        BY <1>5
      <4>2. QED
        BY <3>1, <3>2, <4>1, GarbledMonotone DEF Says
    <3>4. QED
      BY <1>5, <3>1, <3>2, <3>3
  <2>2. kinds' = kinds
    BY <1>2
  <2>3. QED
    BY <1>6, <2>1, <2>2 DEF IndInv, Core, LiveAnswers, StillTrue
<1>12. RefusalsAreTrue'
  <2>1. t \notin Gone
    BY <1>3 DEF IndInv, Core, OnePlace
  <2>2. QED
    BY <1>2, <1>5, <2>1, GarbledMonotone DEF IndInv, Core, Safe, RefusalsAreTrue, fates, Gone
<1>13. NothingVanishes'
  BY <1>2, <1>5, <1>6 DEF IndInv, Core, Safe, NothingVanishes, fates
<1>14. QED
  BY <1>2, <1>4, <1>5, <1>7, <1>8, <1>9, <1>10, <1>11, <1>12, <1>13 DEF IndInv, Core, Safe

LEMMA FlushGarbledStep ==
  ASSUME IndInv, FlushGarbled
  PROVE  /\ IndInv' /\ FaultsKept /\ flush # Idle /\ flush' # Idle
         /\ UNCHANGED <<given, open, recorded, kinds, live, phone, queue, fates, sync, launched>>
<1>0. TypeOK /\ "garbled" \in Verdicts /\ "garbled" \in FaultKinds
  BY DEF IndInv, Typed, Verdicts, FaultKinds
<1>1. /\ flush # Idle /\ flush.tap # Pings /\ flush.verdict = "ok" /\ Fault("garbled")
      /\ flush' = [flush EXCEPT !.verdict = "garbled"]
      /\ UNCHANGED <<given, open, recorded, kinds, live, phone, queue, fates, sync, launched>>
  BY Zenon DEF FlushGarbled, Flushing
<1>2. FaultsKept /\ faults'["garbled"] > 0
  BY <1>0, <1>1, OneFault
<1>3. flush' \in Drain /\ flush' # Idle /\ flush'.tap = flush.tap /\ flush'.verdict = "garbled"
  BY <1>0, <1>1, DrainVerdict
<1>4. Typed'
  BY <1>0, <1>1, <1>2, <1>3 DEF Typed, TypeOK, FaultsKept, phone, fates
<1>5. \A a \in Buttons : (Sent(a)' <=> Sent(a)) /\ live'[a] = live[a]
  BY <1>1 DEF Sent, Busy
<1>6. Numbered' /\ OnePlace'
  BY <1>1, <1>5 DEF IndInv, Core, Numbered, OnePlace, Gone, fates
<1>7. HeadInFlight'
  BY <1>1, <1>2, <1>3 DEF IndInv, Core, HeadInFlight, StillTrue, Says
<1>8. LiveAnswers'
  BY <1>1, <1>2, <1>5, GarbledMonotone DEF IndInv, Core, LiveAnswers, StillTrue, Says
<1>9. Safe'
  BY <1>1, <1>2, <1>5 DEF IndInv, Core, Safe, NothingVanishes, RefusalsAreTrue, fates
<1>10. QED
  BY <1>1, <1>2, <1>3, <1>4, <1>6, <1>7, <1>8, <1>9 DEF IndInv, Core

\* What the end of a drain does to the sync and its GET: a reconcile when the
\* drain brought the count down, the end of a sync that waited, or nothing.
ReconcileStarts(q) ==
  /\ sync # Idle /\ sync.step = "flush" /\ ClockItems(q) < sync.before
  /\ sync' # Idle /\ sync'.step = "reconcile" /\ sync'.after = ClockItems(q)
  /\ sync'.pendingBefore = sync.pendingBefore
  /\ gets' = Issue("sync")
SyncEnds(q) ==
  /\ sync # Idle /\ sync.step = "flush" /\ ClockItems(q) >= sync.before
  /\ sync' = Idle /\ gets' = gets
SyncWaitsNot == (sync = Idle \/ sync.step # "flush") /\ sync' = sync /\ gets' = gets

LEMMA FlushEnded ==
  ASSUME IndInv, NEW q, ClockItems(q) \in 0 .. MaxTaps, FlushEnds(q)
  PROVE  /\ flush' = Idle
         /\ sync' \in {Idle} \cup SyncRun /\ gets' \in [Readers -> {Quiet} \cup Get]
         /\ gets'["sync"] # Quiet <=> sync' # Idle /\ sync'.step = "reconcile"
         /\ ReconcileStarts(q) \/ SyncEnds(q) \/ SyncWaitsNot
<1> DEFINE n == ClockItems(q)
           r == [sync EXCEPT !.step = "reconcile", !.after = n]
<1>0. TypeOK /\ "sync" \in Readers /\ n \in 0 .. MaxTaps
  BY DEF IndInv, Typed, Readers
<1>1. CASE sync # Idle /\ sync.step = "flush" /\ n < sync.before
  <2>1. flush' = Idle /\ sync' = r /\ gets' = Issue("sync")
    BY <1>1, Zenon DEF FlushEnds
  <2>2. /\ r \in SyncRun /\ r.step = "reconcile" /\ r.after = n
        /\ r.pendingBefore = sync.pendingBefore
    BY <1>0, <1>1, SyncShape, SyncStepField
  <2> HIDE DEF r
  <2>3. r # Idle
    BY <2>2, SyncIsNotIdle
  <2>4. Issue("sync") \in [Readers -> {Quiet} \cup Get] /\ Issue("sync")["sync"] # Quiet
    BY <1>0, IssuedGets
  <2>5. QED
    BY <1>1, <2>1, <2>2, <2>3, <2>4 DEF ReconcileStarts
<1>2. CASE sync # Idle /\ sync.step = "flush" /\ ~(n < sync.before)
  <2>1. flush' = Idle /\ sync' = Idle /\ gets' = gets
    BY <1>2, Zenon DEF FlushEnds
  <2>2. gets["sync"] = Quiet
    BY <1>0, <1>2 DEF TypeOK
  <2>3. n \in Int /\ sync.before \in Int
    BY <1>0, <1>2, SyncShape
  <2> HIDE DEF n
  <2>4. n >= sync.before
    BY <1>2, <2>3
  <2>5. QED
    BY <1>0, <1>2, <2>1, <2>2, <2>4 DEF SyncEnds, TypeOK, n
<1>3. CASE ~(sync # Idle /\ sync.step = "flush")
  <2>1. flush' = Idle /\ sync' = sync /\ gets' = gets
    BY <1>3, Zenon DEF FlushEnds
  <2>2. QED
    BY <1>0, <1>3, <2>1 DEF SyncWaitsNot, TypeOK
<1>4. QED
  BY <1>1, <1>2, <1>3

\* The drain goes on to the head of what is left, or ends.
LEMMA FlushWent ==
  ASSUME IndInv, NEW q \in Seq({Pings} \cup Taps), ClockItems(q) \in 0 .. MaxTaps,
         FlushNext(q)
  PROVE  /\ sync' \in {Idle} \cup SyncRun /\ gets' \in [Readers -> {Quiet} \cup Get]
         /\ gets'["sync"] # Quiet <=> sync' # Idle /\ sync'.step = "reconcile"
         /\ \/ /\ q # << >> /\ flush' \in Drain /\ flush' # Idle /\ flush'.tap = q[1]
               /\ flush'.verdict = "" /\ UNCHANGED <<sync, gets>>
            \/ /\ q = << >> /\ flush' = Idle
               /\ ReconcileStarts(q) \/ SyncEnds(q) \/ SyncWaitsNot
<1> DEFINE d == [tap |-> Head(q), verdict |-> ""]
<1>0. TypeOK
  BY DEF IndInv, Typed
<1>1. CASE q = << >>
  <2>1. FlushEnds(q)
    BY <1>1, Zenon DEF FlushNext
  <2>2. QED
    BY <1>1, <2>1, FlushEnded
<1>2. CASE q # << >>
  <2>1. flush' = d /\ UNCHANGED <<sync, gets>>
    BY <1>2, Zenon DEF FlushNext
  <2>2. Head(q) = q[1] /\ q[1] \in {Pings} \cup Taps
    BY <1>2, Tailed
  <2>3. d \in Drain /\ d # Idle /\ d.tap = q[1] /\ d.verdict = ""
    BY <2>2, DrainSends
  <2> HIDE DEF d
  <2>4. QED
    BY <1>0, <1>2, <2>1, <2>3 DEF TypeOK
<1>3. QED
  BY <1>1, <1>2

LEMMA FlushAnsweredStep ==
  ASSUME IndInv, FlushAnswered
  PROVE  /\ IndInv' /\ flush # Idle /\ queue' = Tail(queue) /\ queue # << >>
         /\ \/ /\ queue' # << >> /\ flush' # Idle /\ UNCHANGED <<sync, gets>>
            \/ /\ queue' = << >> /\ flush' = Idle
               /\ ReconcileStarts(queue') \/ SyncEnds(queue') \/ SyncWaitsNot
         /\ UNCHANGED <<given, open, recorded, kinds, live, openEntry, pending, launched,
                        faults>>
<1> DEFINE q == Tail(queue)
           t == flush.tap
<1>0. TypeOK
  BY DEF IndInv, Typed
<1>1. /\ flush # Idle /\ flush.verdict # "" /\ queue' = q /\ FlushNext(q)
      /\ dropped' = IF Drops(flush.verdict) THEN dropped \cup {t} ELSE dropped
      /\ UNCHANGED <<given, open, recorded, kinds, live, openEntry, pending, told, forgotten,
                     launched, faults>>
  BY Zenon DEF FlushAnswered, Flushing
<1>2. queue \in Seq({Pings} \cup Taps) /\ queue # << >> /\ t = queue[1]
  BY <1>0, <1>1 DEF IndInv, Core, HeadInFlight, TypeOK
<1>3. /\ q \in Seq({Pings} \cup Taps) /\ t \in {Pings} \cup Taps /\ t \in ToSet(queue)
      /\ \A i \in DOMAIN q : i \in Nat /\ i + 1 \in DOMAIN queue /\ q[i] = queue[i + 1]
      /\ ToSet(queue) = ToSet(q) \cup {t}
      /\ 1 \in DOMAIN queue
  BY <1>2, Tailed
<1> HIDE DEF q, t
<1>4. \A i, j \in DOMAIN q : q[i] = q[j] /\ q[i] # Pings => i = j
  <2>1. \A i, j \in DOMAIN queue : queue[i] = queue[j] /\ queue[i] # Pings => i = j
    BY DEF IndInv, Core, OnePlace
  <2>2. SUFFICES ASSUME NEW i \in DOMAIN q, NEW j \in DOMAIN q, q[i] = q[j], q[i] # Pings
                 PROVE  i = j
    OBVIOUS
  <2>3. i + 1 = j + 1
    BY <1>3, <2>1, <2>2
  <2>4. QED
    BY <1>3, <2>3
<1>5. t # Pings => t \notin ToSet(q)
  <2>1. SUFFICES ASSUME t # Pings, NEW i \in DOMAIN q, q[i] = t
                 PROVE  FALSE
    BY DEF ToSet
  <2>2. i \in Nat /\ i + 1 \in DOMAIN queue /\ queue[i + 1] = queue[1] /\ queue[1] # Pings
    BY <1>2, <1>3, <2>1
  <2>3. i \in 1 .. Len(q)
    BY <1>3
  <2>4. i + 1 # 1
    BY <2>3
  <2>5. QED
    BY <1>3, <2>2, <2>4 DEF IndInv, Core, OnePlace
<1>6. ClockItems(q) \in 0 .. MaxTaps
  BY <1>3, <1>4, ClockItemsCount
<1>7. /\ sync' \in {Idle} \cup SyncRun /\ gets' \in [Readers -> {Quiet} \cup Get]
      /\ gets'["sync"] # Quiet <=> sync' # Idle /\ sync'.step = "reconcile"
      /\ \/ /\ q # << >> /\ flush' \in Drain /\ flush' # Idle /\ flush'.tap = q[1]
            /\ flush'.verdict = "" /\ UNCHANGED <<sync, gets>>
         \/ /\ q = << >> /\ flush' = Idle
            /\ ReconcileStarts(q) \/ SyncEnds(q) \/ SyncWaitsNot
  BY <1>1, <1>3, <1>6, FlushWent
<1>8. /\ flush.verdict \in {"ok", "conflict", "refused", "garbled"}
      /\ t = Pings => flush.verdict = "ok"
      /\ t # Pings => Says(t, flush.verdict, recorded, faults["garbled"])
  BY <1>0, <1>1, FlushShape DEF IndInv, Core, HeadInFlight, StillTrue, Verdicts, t
<1>9. \/ dropped' = dropped /\ (t # Pings => t \in recorded)
      \/ /\ dropped' = dropped \cup {t} /\ t # Pings
         /\ t \in recorded => faults["garbled"] > 0
  BY <1>1, <1>8 DEF Drops, Says
<1>10. flush' \in {Idle} \cup Drain
  BY <1>7
<1>11. Typed'
  <2>1. t # Pings => t \in Taps
    BY <1>3
  <2>2. dropped' \subseteq Taps
    BY <1>0, <1>9, <2>1 DEF TypeOK
  <2>3. QED
    BY <1>0, <1>1, <1>3, <1>7, <1>10, <2>2 DEF IndInv, Typed, TypeOK
<1>12. \A a \in Buttons : (Sent(a)' <=> Sent(a)) /\ live'[a] = live[a]
  BY <1>1 DEF Sent, Busy
<1>13. Gone' \subseteq Gone \cup {t} /\ (t = Pings => Gone' = Gone) /\ Gone \subseteq Gone'
  BY <1>1, <1>9 DEF Gone
<1>14. Numbered'
  BY <1>1, <1>3, <1>12, <1>13 DEF IndInv, Core, Numbered
<1>15. OnePlace'
  <2>1. Gone' \cap ToSet(q) = {}
    BY <1>3, <1>5, <1>13 DEF IndInv, Core, OnePlace
  <2>2. \A a \in Buttons : Sent(a) => live[a].tap \notin Gone' \cup ToSet(q)
    BY <1>3, <1>13 DEF IndInv, Core, OnePlace
  <2>3. QED
    BY <1>1, <1>4, <1>12, <2>1, <2>2 DEF IndInv, Core, OnePlace
<1>16. HeadInFlight'
  BY <1>1, <1>7 DEF HeadInFlight, StillTrue, Says
<1>17. LiveAnswers'
  BY <1>1, <1>12 DEF IndInv, Core, LiveAnswers, StillTrue
<1>18. RefusalsAreTrue'
  BY <1>1, <1>9 DEF IndInv, Core, Safe, RefusalsAreTrue
<1>19. NothingVanishes'
  <2>1. ASSUME NEW u \in ToSet(queue), u \in 1 .. Len(kinds)
        PROVE  u \in recorded \cup dropped' \cup ToSet(q)
    <3>1. u # Pings
      BY <2>1 DEF Pings
    <3>2. QED
      BY <1>3, <1>9, <2>1, <3>1
  <2>2. QED
    BY <1>1, <1>9, <1>12, <2>1 DEF IndInv, Core, Safe, NothingVanishes
<1>20. IndInv'
  BY <1>11, <1>14, <1>15, <1>16, <1>17, <1>18, <1>19 DEF IndInv, Core, Safe
<1>21. QED
  BY <1>1, <1>2, <1>7, <1>20 DEF q

LEMMA FlushLostStep ==
  ASSUME IndInv, FlushLost
  PROVE  /\ IndInv' /\ FaultsKept /\ flush # Idle /\ flush' = Idle
         /\ ReconcileStarts(queue) \/ SyncEnds(queue) \/ SyncWaitsNot
         /\ UNCHANGED <<given, open, recorded, kinds, live, openEntry, pending, queue,
                        fates, launched>>
<1>0. TypeOK /\ "losses" \in FaultKinds
  BY DEF IndInv, Typed, FaultKinds
<1>1. /\ flush # Idle /\ Fault("losses") /\ FlushEnds(queue)
      /\ UNCHANGED <<given, open, recorded, kinds, live, openEntry, pending, queue, fates,
                     launched>>
  BY Zenon DEF FlushLost, Flushing
<1>2. FaultsKept
  BY <1>0, <1>1, OneFault
<1>3. ClockItems(queue) \in 0 .. MaxTaps
  BY QueueCount
<1>4. /\ flush' = Idle
      /\ sync' \in {Idle} \cup SyncRun /\ gets' \in [Readers -> {Quiet} \cup Get]
      /\ gets'["sync"] # Quiet <=> sync' # Idle /\ sync'.step = "reconcile"
      /\ ReconcileStarts(queue) \/ SyncEnds(queue) \/ SyncWaitsNot
  BY <1>1, <1>3, FlushEnded
<1>5. Typed'
  BY <1>0, <1>1, <1>2, <1>4 DEF Typed, TypeOK, FaultsKept, fates
<1>6. \A a \in Buttons : (Sent(a)' <=> Sent(a)) /\ (Sent(a) => live'[a] = live[a])
  BY <1>1 DEF Sent, Busy
<1>7. Core'
  BY <1>1, <1>2, <1>4, <1>6, CoreKept DEF FlushKept
<1>8. QED
  BY <1>1, <1>2, <1>4, <1>5, <1>7 DEF IndInv

LEMMA KillStep ==
  ASSUME IndInv, Kill
  PROVE  /\ IndInv' /\ FaultsKept
         /\ flush' = Idle /\ sync' = Idle /\ launched' = {} /\ openEntry' = 0 /\ pending' = 0
         /\ \A w \in Readers : gets'[w] = Quiet
         /\ \A b \in Buttons : ~Busy(b)'
         /\ UNCHANGED <<given, open, recorded, kinds, queue>>
<1> DEFINE lost == {live[b].tap : b \in {a \in Buttons : Sent(a)}}
<1>0. TypeOK /\ "kills" \in FaultKinds
  BY DEF IndInv, Typed, FaultKinds
<1>1. /\ Fault("kills") /\ forgotten' = forgotten \cup lost
      /\ live' = [b \in Buttons |-> Quiet] /\ gets' = [w \in Readers |-> Quiet]
      /\ openEntry' = 0 /\ pending' = 0
      /\ flush' = Idle /\ sync' = Idle /\ launched' = {}
      /\ UNCHANGED <<given, open, recorded, kinds, queue, dropped, told>>
  BY Zenon DEF Kill
<1>2. FaultsKept
  BY <1>0, <1>1, OneFault
<1>3. lost \subseteq Taps
  BY <1>0, SentShape
<1>4. "sync" \in Readers /\ \A w \in Readers : gets'[w] = Quiet
  BY <1>1 DEF Readers
<1>5. \A b \in Buttons : ~Busy(b)' /\ ~Sent(b)'
  BY <1>1 DEF Busy, Sent
<1>6. /\ live' \in [Buttons -> {Quiet} \cup LiveTap]
      /\ gets' \in [Readers -> {Quiet} \cup Get]
  BY <1>1
<1>7. Typed'
  BY <1>0, <1>1, <1>2, <1>3, <1>4, <1>6 DEF Typed, TypeOK, FaultsKept
<1>8. Numbered' /\ OnePlace' /\ HeadInFlight' /\ LiveAnswers'
  BY <1>1, <1>5 DEF IndInv, Core, Numbered, OnePlace, HeadInFlight, LiveAnswers, Gone
<1>9. RefusalsAreTrue'
  BY <1>1, <1>2, GarbledMonotone DEF IndInv, Core, Safe, RefusalsAreTrue
<1>10. NothingVanishes'
  BY <1>1 DEF IndInv, Core, Safe, NothingVanishes
<1>11. QED
  BY <1>1, <1>2, <1>4, <1>5, <1>7, <1>8, <1>9, <1>10 DEF IndInv, Core, Safe
-----------------------------------------------------------------------------
(* Every behaviour *)

LEMMA InitIndInv ==
  ASSUME Init
  PROVE  IndInv
<1>1. /\ given \in Conditions /\ open = 0 /\ recorded = {} /\ kinds = << >>
      /\ openEntry = 0 /\ pending = 0 /\ queue = << >>
      /\ dropped = {} /\ told = {} /\ forgotten = {}
      /\ flush = Idle /\ sync = Idle /\ launched = {}
  BY Zenon DEF Init
<1>2. /\ live \in [Buttons -> {Quiet} \cup LiveTap]
      /\ gets \in [Readers -> {Quiet} \cup Get] /\ gets["sync"] = Quiet
      /\ \A b \in Buttons : ~Busy(b) /\ ~Sent(b)
  BY DEF Init, Readers, Busy, Sent
<1>3. faults \in [FaultKinds -> Nat]
  BY DEF Init, FaultKinds
<1>4. MaxTaps \in Nat /\ 0 <= MaxTaps
  BY BoundAssumption
<1>5. kinds \in Seq({"in", "out"}) /\ Len(kinds) = 0 /\ queue \in Seq({Pings} \cup Taps)
      /\ DOMAIN queue = {} /\ ToSet(queue) = {}
  BY <1>1 DEF ToSet
<1>6. Typed
  BY <1>1, <1>2, <1>3, <1>4, <1>5 DEF Typed, TypeOK
<1>7. Numbered /\ OnePlace /\ HeadInFlight /\ LiveAnswers
  BY <1>1, <1>2, <1>5 DEF Numbered, OnePlace, HeadInFlight, LiveAnswers, Gone
<1>8. RefusalsAreTrue /\ NothingVanishes
  BY <1>1, <1>5 DEF RefusalsAreTrue, NothingVanishes
<1>9. QED
  BY <1>6, <1>7, <1>8 DEF IndInv, Core, Safe

\* A step of the phone, or none, keeps the invariant.
LEMMA NextIndInv ==
  ASSUME IndInv, [Next]_vars
  PROVE  IndInv'
<1>1. ASSUME NEW b \in Buttons, Press(b) \/ Abort(b) \/ Commit(b) PROVE IndInv'
  BY <1>1, PressStep, AbortStep, CommitStep
<1>2. ASSUME NEW b \in Buttons, TapSteps(b) \/ TapGarbled(b) \/ TapLost(b) PROVE IndInv'
  BY <1>2, TapServedStep, TapAcceptedStep, TapRefusedStep, TapGarbledStep, TapLostStep
     DEF TapSteps
<1>3. ASSUME SyncStart \/ Delivery \/ FlushSteps \/ FlushGarbled \/ FlushLost PROVE IndInv'
  BY <1>3, SyncStartStep, DeliveryStep, FlushServedStep, FlushAnsweredStep,
     FlushGarbledStep, FlushLostStep DEF FlushSteps
<1>4. ASSUME GetSteps \/ \E w \in Readers : GetFails(w) PROVE IndInv'
  BY <1>4, GetServedStep, ScreenGetAnsweredStep, ReconciledStep, GetFailsStep DEF GetSteps
<1>5. ASSUME Mount \/ Remount \/ Kill PROVE IndInv'
  <2>1. ASSUME Mount PROVE IndInv'
    BY <2>1, NoFault, MountedStep DEF Mount
  <2>2. ASSUME Remount PROVE IndInv'
    <3>1. Mounted /\ Fault("remounts") /\ "remounts" \in FaultKinds
      BY <2>2 DEF Remount, FaultKinds
    <3>2. QED
      BY <3>1, OneFault, MountedStep
  <2>3. QED
    BY <1>5, <2>1, <2>2, KillStep
<1>6. ASSUME UNCHANGED vars PROVE IndInv'
  <2>1. UNCHANGED <<given, open, recorded, kinds, live, openEntry, pending, gets, queue,
                    dropped, told, forgotten, flush, sync, launched, faults>>
    BY <1>6 DEF vars, phone, fates
  <2>2. Typed'
    BY <2>1 DEF IndInv, Typed, TypeOK
  <2>3. Core'
    BY <2>1, NoFault, CoreKept DEF FlushKept, fates, Sent, Busy
  <2>4. QED
    BY <2>2, <2>3 DEF IndInv
<1>7. QED
  BY <1>1, <1>2, <1>3, <1>4, <1>5, <1>6 DEF Next

\* Whatever overtakes whatever, each tap is in one place and what an answer on
\* its way says stays true until it arrives (lib/clockFlow.ts, outbox.ts drain).
THEOREM TapsAccountedFor == Spec => []IndInv
<1>1. Init => IndInv
  BY InitIndInv
<1>2. IndInv /\ [Next]_vars => IndInv'
  BY NextIndInv
<1>3. QED
  BY <1>1, <1>2, PTL DEF Spec

\* The state always has the shape TypeOK says (all of the clock store, the queue
\* and the requests under way).
THEOREM TypeCorrect == Spec => []TypeOK
<1>1. IndInv => TypeOK
  BY DEF IndInv, Typed
<1>2. QED
  BY <1>1, TapsAccountedFor, PTL

\* No tap vanishes: it is recorded, reported, queued or under way (design.md 5.3);
\* only a kill while its request is out forgets one.
THEOREM NoTapVanishes == Spec => []NothingVanishes
<1>1. IndInv => NothingVanishes
  BY DEF IndInv, Core, Safe
<1>2. QED
  BY <1>1, TapsAccountedFor, PTL

\* A message about a tap the server did take is only ever about an answer that
\* could not be read (clockFlow.ts, HYDRATE_CODES).
THEOREM RefusalsTrue == Spec => []RefusalsAreTrue
<1>1. IndInv => RefusalsAreTrue
  BY DEF IndInv, Core, Safe
<1>2. QED
  BY <1>1, TapsAccountedFor, PTL
-----------------------------------------------------------------------------
(* Undisturbed behaviours come to rest on the truth *)

\* What is undisturbed was so before.
LEMMA WasUndisturbed ==
  ASSUME IndInv, FaultsKept, UNCHANGED given, Undisturbed'
  PROVE  Undisturbed
BY DEF IndInv, Typed, FaultsKept, FaultKinds, Undisturbed

LEMMA CalmPress ==
  ASSUME IndInv, Calm, Undisturbed, NEW b \in Buttons, Press(b)
  PROVE  Calm'
<1> DEFINE w == [step |-> "reading"]
<1>0. TypeOK
  BY DEF IndInv, Typed
<1>1. /\ live' = [live EXCEPT ![b] = w]
      /\ "screen" \in launched /\ (b = "sheet" <=> openEntry = 0)
      /\ "taps" \in given.overlap \/ \A a \in Buttons : ~Busy(a)
      /\ "syncs" \in given.overlap \/ (flush = Quiet /\ sync = Quiet)
      /\ "gets" \in given.overlap \/ gets = [v \in Readers |-> Quiet]
      /\ UNCHANGED <<given, open, recorded, kinds, phone, queue, fates, flush, sync,
                     launched, faults>>
  BY Zenon DEF Press
<1>2. w \in LiveTap /\ w.step # "sent"
  BY NotSent
<1> HIDE DEF w
<1>3. /\ live'[b] = w /\ \A a \in Buttons : a # b => live'[a] = live[a]
  BY <1>0, <1>1, <1>2, LiveSet
<1>4. given.overlap = {}
  BY DEF Undisturbed
<1>5. /\ \A a \in Buttons : ~Busy(a) /\ ~Sent(a)
      /\ flush = Idle /\ sync = Idle /\ \A v \in Readers : gets[v] = Quiet
  BY <1>1, <1>4 DEF Idle, Sent
<1>6. \A a \in Buttons : ~Sent(a)' /\ (Busy(a)' => a = b)
  BY <1>2, <1>3, <1>5 DEF Sent, Busy
<1>7. Alone'
  BY <1>1, <1>5, <1>6 DEF Alone, phone
<1>8. Synced'
  BY <1>1 DEF Calm, Synced, phone
<1>9. Fresh'
  BY <1>1, <1>5, <1>6 DEF Calm, Fresh, SomeSent, Current, phone
<1>10. Foreseen'
  BY <1>1, <1>6 DEF Foreseen, phone
<1>11. Pill'
  BY <1>1, <1>5, <1>6 DEF Calm, Pill, SomeSent, phone
<1>12. QED
  BY <1>7, <1>8, <1>9, <1>10, <1>11 DEF Calm

LEMMA CalmAbort ==
  ASSUME IndInv, Calm, NEW b \in Buttons, Abort(b)
  PROVE  Calm'
<1>0. TypeOK
  BY DEF IndInv, Typed
<1>1. /\ live' = [live EXCEPT ![b] = Quiet] /\ live[b] = [step |-> "reading"]
      /\ UNCHANGED <<given, open, recorded, kinds, phone, queue, fates, flush, sync,
                     launched, faults>>
  BY Zenon DEF Abort
<1>2. live[b].step # "sent"
  BY <1>1, NotSent
<1>3. /\ live'[b] = Quiet /\ \A a \in Buttons : a # b => live'[a] = live[a]
  BY <1>0, <1>1, LiveSet
<1>4. \A a \in Buttons : (Sent(a)' <=> Sent(a)) /\ (Busy(a)' => Busy(a) /\ live'[a] = live[a])
  BY <1>2, <1>3 DEF Sent, Busy
<1>5. Alone' /\ Synced'
  BY <1>1, <1>4 DEF Calm, Alone, Synced, phone
<1>6. SomeSent' <=> SomeSent
  BY <1>4 DEF SomeSent
<1>7. Fresh' /\ Pill'
  BY <1>1, <1>6 DEF Calm, Fresh, Pill, Current, phone
<1>8. Foreseen'
  BY <1>1, <1>4 DEF Calm, Foreseen, phone, Sent
<1>9. QED
  BY <1>5, <1>7, <1>8 DEF Calm

\* What holds while a button is busy.
LEMMA BusyAlone ==
  ASSUME Calm, NEW b \in Buttons, Busy(b)
  PROVE  /\ sync = Idle /\ flush = Idle /\ \A w \in Readers : gets[w] = Quiet
         /\ "screen" \in launched /\ \A a \in Buttons : Busy(a) => a = b
BY DEF Calm, Alone

LEMMA CalmCommit ==
  ASSUME IndInv, Calm, NEW b \in Buttons, Commit(b)
  PROVE  Calm'
<1>0. TypeOK
  BY DEF IndInv, Typed
<1>1. /\ Busy(b) /\ ~Sent(b) /\ Sent(b)' /\ live'[b].verdict = ""
      /\ \A a \in Buttons : a # b => live'[a] = live[a]
      /\ b = "button" => openEntry # 0
      /\ live'[b].revert = IF b = "sheet" THEN 0 ELSE openEntry
      /\ gets' = Outdated
      /\ UNCHANGED <<given, open, recorded, queue, fates, flush, sync, launched, faults>>
  BY CommitStep
<1>2. /\ sync = Idle /\ flush = Idle /\ "screen" \in launched
      /\ \A w \in Readers : gets[w] = Quiet
      /\ \A a \in Buttons : Busy(a) => a = b
  BY <1>1, BusyAlone
<1>3. \A w \in Readers : gets'[w] = Quiet
  BY <1>0, <1>1, <1>2, OutdatedGets
<1>4. \A a \in Buttons : Busy(a)' => a = b
  BY <1>1, <1>2 DEF Busy
<1>5. SomeSent'
  BY <1>1 DEF SomeSent
<1>6. Alone'
  BY <1>1, <1>2, <1>3, <1>4 DEF Alone
<1>7. Synced'
  BY <1>1, <1>2 DEF Calm, Synced
<1>8. Fresh'
  BY <1>3, <1>5 DEF Fresh, Current
<1>9. queue = << >> => open = openEntry
  BY <1>1, <1>2 DEF Calm, Fresh, SomeSent, Current, Sent
<1>10. b = "sheet" => openEntry = 0
  BY <1>1 DEF Calm, Foreseen
<1>11. Foreseen'
  <2>1. \A a \in Buttons : Sent(a)' => a = b
    BY <1>4 DEF Sent
  <2>2. queue' = << >> => live'[b].revert = open'
    BY <1>1, <1>9, <1>10
  <2>3. QED
    BY <1>1, <1>4, <2>1, <2>2 DEF Foreseen
<1>12. Pill'
  BY <1>1, <1>2, <1>5 DEF Pill
<1>13. QED
  BY <1>6, <1>7, <1>8, <1>11, <1>12 DEF Calm

LEMMA CalmTapServed ==
  ASSUME IndInv, Calm, NEW b \in Buttons, TapServed(b)
  PROVE  Calm'
<1>1. /\ Sent(b) /\ live[b].verdict = ""
      /\ \A a \in Buttons : a # b => live'[a] = live[a]
      /\ Sent(b)' /\ live'[b].tap = live[b].tap /\ live'[b].revert = live[b].revert
      /\ live'[b].verdict # "ok" => UNCHANGED open
      /\ live'[b].verdict = "ok" => open' = IF b = "sheet" THEN live[b].tap ELSE 0
      /\ live'[b].verdict \in {"ok", "conflict", "refused"}
      /\ UNCHANGED <<given, kinds, phone, queue, fates, flush, sync, launched>>
  BY TapServedStep
<1>2. Busy(b)
  BY <1>1 DEF Sent
<1>3. /\ sync = Idle /\ flush = Idle /\ "screen" \in launched
      /\ \A w \in Readers : gets[w] = Quiet
      /\ \A a \in Buttons : Busy(a) => a = b
  BY <1>2, BusyAlone
<1>4. \A a \in Buttons : Busy(a)' => a = b
  BY <1>1, <1>3 DEF Busy
<1>5. SomeSent'
  BY <1>1 DEF SomeSent
<1>6. Alone' /\ Synced' /\ Fresh' /\ Pill'
  BY <1>1, <1>3, <1>4, <1>5 DEF Calm, Alone, Synced, Fresh, Pill, Current, phone
<1>7. queue = << >> => live[b].revert = open
  BY <1>1 DEF Calm, Foreseen
<1>8. \A a \in Buttons : Sent(a)' => a = b
  BY <1>4 DEF Sent
<1>9. Foreseen'
  BY <1>1, <1>4, <1>7, <1>8 DEF Foreseen
<1>10. QED
  BY <1>6, <1>9 DEF Calm

LEMMA CalmTapGarbled ==
  ASSUME IndInv, Calm, NEW b \in Buttons, TapGarbled(b)
  PROVE  Calm'
<1>1. /\ Sent(b) /\ \A a \in Buttons : a # b => live'[a] = live[a]
      /\ Sent(b)' /\ live'[b].verdict = "garbled"
      /\ UNCHANGED <<given, open, recorded, kinds, phone, queue, fates, flush, sync, launched>>
  BY TapGarbledStep
<1>2. Busy(b)
  BY <1>1 DEF Sent
<1>3. /\ sync = Idle /\ flush = Idle /\ "screen" \in launched
      /\ \A w \in Readers : gets[w] = Quiet
      /\ \A a \in Buttons : Busy(a) => a = b
  BY <1>2, BusyAlone
<1>4. \A a \in Buttons : Busy(a)' \/ Sent(a)' => a = b
  BY <1>1, <1>3 DEF Busy, Sent
<1>5. SomeSent'
  BY <1>1 DEF SomeSent
<1>6. Alone' /\ Synced' /\ Fresh' /\ Pill'
  BY <1>1, <1>3, <1>4, <1>5 DEF Calm, Alone, Synced, Fresh, Pill, Current, phone
<1>7. Foreseen'
  BY <1>1, <1>4 DEF Foreseen
<1>8. QED
  BY <1>6, <1>7 DEF Calm

\* Once its tap is done with, a button leaves no other busy.
LEMMA NoneBusy ==
  ASSUME IndInv, Calm, NEW b \in Buttons, Sent(b), live' = [live EXCEPT ![b] = Quiet]
  PROVE  /\ \A a \in Buttons : ~Busy(a)' /\ ~Sent(a)'
         /\ ~SomeSent' /\ Alone' /\ Foreseen'
         /\ sync = Idle /\ flush = Idle /\ \A w \in Readers : gets[w] = Quiet
<1>1. Busy(b)
  BY DEF Sent
<1>2. /\ sync = Idle /\ flush = Idle /\ "screen" \in launched
      /\ \A w \in Readers : gets[w] = Quiet
      /\ \A a \in Buttons : Busy(a) => a = b
  BY <1>1, BusyAlone
<1>3. ~Busy(b)' /\ \A a \in Buttons : a # b => live'[a] = live[a]
  BY TapDone
<1>4. \A a \in Buttons : ~Busy(a)' /\ ~Sent(a)'
  BY <1>2, <1>3 DEF Busy, Sent
<1>5. QED
  BY <1>2, <1>4 DEF SomeSent, Alone, Foreseen

LEMMA CalmTapAccepted ==
  ASSUME IndInv, Calm, NEW b \in Buttons, TapAccepted(b)
  PROVE  Calm'
<1>0. TypeOK
  BY DEF IndInv, Typed
<1>1. /\ Sent(b) /\ live[b].verdict = "ok" /\ gets' = Outdated /\ pending' = 0
      /\ openEntry' = IF b = "sheet" THEN live[b].tap ELSE 0
      /\ live' = [live EXCEPT ![b] = Quiet]
      /\ UNCHANGED <<given, open, recorded, kinds, queue, fates, flush, sync, launched, faults>>
  BY Zenon DEF TapAccepted, SetOpen
<1>2. /\ ~SomeSent' /\ Alone' /\ Foreseen'
      /\ sync = Idle /\ flush = Idle /\ \A w \in Readers : gets[w] = Quiet
  BY <1>1, NoneBusy
<1>3. \A w \in Readers : gets'[w] = Quiet
  BY <1>0, <1>1, <1>2, OutdatedGets
<1>4. queue = << >> => open = openEntry'
  BY <1>1 DEF Calm, Foreseen
<1>5. Synced' /\ Fresh' /\ Pill'
  BY <1>1, <1>2, <1>3, <1>4 DEF Calm, Synced, Fresh, Pill, Current
<1>6. QED
  BY <1>2, <1>5 DEF Calm

LEMMA CalmTapRefused ==
  ASSUME IndInv, Calm, NEW b \in Buttons, TapRefused(b)
  PROVE  Calm'
<1>0. TypeOK /\ "screen" \in Readers
  BY DEF IndInv, Typed, Readers
<1>1. /\ Sent(b) /\ live[b].verdict \in {"conflict", "refused", "garbled"}
      /\ openEntry' = live[b].revert /\ pending' = 0
      /\ gets' = IF live[b].verdict = "refused" THEN Outdated ELSE Issue("screen")
      /\ live' = [live EXCEPT ![b] = Quiet]
      /\ UNCHANGED <<given, open, recorded, kinds, queue, dropped, forgotten, flush, sync,
                     launched, faults>>
  BY Zenon DEF TapRefused, SetOpen
<1>2. /\ ~SomeSent' /\ Alone' /\ Foreseen'
      /\ sync = Idle /\ flush = Idle /\ \A w \in Readers : gets[w] = Quiet
  BY <1>1, NoneBusy
<1>3. \A w \in Readers : Outdated[w] = Quiet
  BY <1>0, <1>2, OutdatedGets
<1>4. Synced' /\ Pill'
  BY <1>1, <1>2 DEF Calm, Synced, Pill
<1>5. Fresh'
  <2>1. CASE live[b].verdict = "refused"
    <3>1. queue = << >> => open = openEntry'
      BY <1>1, <2>1 DEF Calm, Foreseen
    <3>2. QED
      BY <1>1, <1>3, <2>1, <3>1 DEF Fresh, Current
  <2>2. CASE live[b].verdict # "refused"
    <3>1. /\ gets'["screen"] # Quiet /\ gets'["screen"].current
          /\ gets'["screen"].answer = Unserved
          /\ \A w \in Readers : w # "screen" => gets'[w] = Quiet
      BY <1>0, <1>1, <1>3, <2>2, IssuedGets
    <3>2. QED
      BY <1>0, <3>1 DEF Fresh, Current
  <2>3. QED
    BY <2>1, <2>2
<1>6. QED
  BY <1>2, <1>4, <1>5 DEF Calm

LEMMA CalmTapLost ==
  ASSUME IndInv, Calm, NEW b \in Buttons, TapLost(b)
  PROVE  Calm'
<1>0. TypeOK
  BY DEF IndInv, Typed
<1>1. /\ Sent(b) /\ queue' = Append(queue, live[b].tap)
      /\ live' = [live EXCEPT ![b] = Quiet]
      /\ UNCHANGED <<given, open, recorded, kinds, phone, fates, flush, sync, launched>>
  BY Zenon DEF TapLost
<1>2. /\ ~SomeSent' /\ Alone' /\ Foreseen'
      /\ sync = Idle /\ flush = Idle /\ \A w \in Readers : gets[w] = Quiet
  BY <1>1, NoneBusy
<1>3. live[b].tap \in Taps /\ live[b].tap # Pings
  <2>1. Pings \notin Taps
    BY DEF Pings, Taps
  <2>2. live[b].tap \in Taps
    BY <1>0, <1>1, SentShape
  <2>3. QED
    BY <2>1, <2>2
<1>4. queue \in Seq({Pings} \cup Taps) /\ live[b].tap \in {Pings} \cup Taps
  BY <1>0, <1>3 DEF TypeOK
<1>5. /\ queue' # << >> /\ Len(queue) \in Nat
      /\ DOMAIN queue' = 1 .. (Len(queue) + 1) /\ DOMAIN queue = 1 .. Len(queue)
      /\ \A i \in DOMAIN queue : queue'[i] = queue[i]
      /\ queue'[Len(queue) + 1] = live[b].tap
  BY <1>1, <1>4, Appended
<1>6. \A i \in DOMAIN queue' : queue'[i] # Pings
  BY <1>3, <1>5 DEF Calm, Synced
<1>7. Synced' /\ Fresh' /\ Pill'
  BY <1>1, <1>2, <1>5, <1>6 DEF Calm, Synced, Fresh, Pill, phone
<1>8. QED
  BY <1>2, <1>7 DEF Calm

\* With something queued, and no pings, there is something to count.
LEMMA QueueCounts ==
  ASSUME IndInv, Calm
  PROVE  /\ ClockItems(queue) \in 0 .. MaxTaps
         /\ ClockItems(queue) = 0 <=> queue = << >>
<1>1. queue \in Seq({Pings} \cup Taps)
  BY DEF IndInv, Typed, TypeOK
<1>2. queue # << >> => 1 \in DOMAIN queue
  BY <1>1, Tailed
<1>3. \A i \in DOMAIN queue : queue[i] # Pings
  BY DEF Calm, Synced
<1>4. queue = << >> => DOMAIN queue = {}
  OBVIOUS
<1>5. QED
  BY <1>2, <1>3, <1>4, QueueCount

LEMMA CalmSyncStart ==
  ASSUME IndInv, Calm, Undisturbed, SyncStart
  PROVE  Calm'
<1>1. /\ sync = Idle /\ launched' = launched \cup {"sync"}
      /\ "syncs" \in given.overlap \/ \A b \in Buttons : ~Busy(b)
      /\ UNCHANGED <<given, open, recorded, kinds, live, phone, queue, fates, faults>>
      /\ (UNCHANGED <<flush, sync>> /\ NothingQueued) \/ SyncBegins
  BY SyncStartStep
<1>2. \A b \in Buttons : ~Busy(b)' /\ ~Sent(b)' /\ ~Sent(b)
  BY <1>1 DEF Undisturbed, Busy, Sent
<1>3. flush = Idle
  BY <1>1 DEF Calm, Synced
<1>4. Alone' /\ Foreseen' /\ ~SomeSent /\ ~SomeSent'
  BY <1>2 DEF Alone, Foreseen, SomeSent
<1>5. Fresh'
  BY <1>1, <1>4 DEF Calm, Fresh, Current, phone
<1>6. Synced'
  <2>1. CASE UNCHANGED <<flush, sync>>
    BY <1>1, <2>1 DEF Calm, Synced, phone
  <2>2. CASE SyncBegins
    <3>1. sync'.before > 0
      <4>1. queue # << >> /\ sync'.before = ClockItems(queue)
        BY <1>3, <2>2 DEF SyncBegins
      <4>2. ClockItems(queue) \in 0 .. MaxTaps /\ ClockItems(queue) # 0
        BY <4>1, QueueCounts
      <4>3. QED
        BY <4>1, <4>2
    <3>2. QED
      BY <1>1, <2>2, <3>1 DEF Calm, Synced, SyncBegins, phone
  <2>3. QED
    BY <1>1, <2>1, <2>2
<1>7. Pill'
  BY <1>1, <1>4 DEF Calm, Pill, SyncBegins, phone
<1>8. QED
  BY <1>4, <1>5, <1>6, <1>7 DEF Calm

\* While the queue is worked nothing is busy, and there is something queued.
LEMMA Working ==
  ASSUME IndInv, Calm, flush # Idle
  PROVE  /\ \A b \in Buttons : ~Busy(b) /\ ~Sent(b)
         /\ queue # << >> /\ sync # Idle /\ sync.step = "flush" /\ sync.before > 0
BY DEF Calm, Alone, Synced, IndInv, Core, HeadInFlight, Sent

LEMMA CalmRuling ==
  ASSUME IndInv, Calm, flush # Idle, flush' # Idle,
         UNCHANGED <<given, kinds, live, phone, queue, fates, sync, launched>>
  PROVE  Calm'
<1>1. /\ \A b \in Buttons : ~Busy(b)' /\ ~Sent(b)'
      /\ queue' # << >>
  BY Working DEF Busy, Sent
<1>2. Alone' /\ Foreseen' /\ Fresh'
  BY <1>1 DEF Alone, Foreseen, Fresh
<1>3. Synced'
  BY Working DEF Calm, Synced, phone
<1>4. Pill'
  BY <1>1 DEF Calm, Pill, phone
<1>5. QED
  BY <1>2, <1>3, <1>4 DEF Calm

\* The drain ends, and the sync reconciles if that brought the count down.
LEMMA CalmFlushAnswered ==
  ASSUME IndInv, Calm, FlushAnswered
  PROVE  Calm'
<1>0. TypeOK /\ "sync" \in Readers
  BY DEF IndInv, Typed, Readers
<1>1. /\ flush # Idle /\ queue' = Tail(queue) /\ queue # << >>
      /\ \/ /\ queue' # << >> /\ flush' # Idle /\ UNCHANGED <<sync, gets>>
         \/ /\ queue' = << >> /\ flush' = Idle
            /\ ReconcileStarts(queue') \/ SyncEnds(queue') \/ SyncWaitsNot
      /\ UNCHANGED <<given, open, recorded, kinds, live, openEntry, pending, launched,
                     faults>>
  BY FlushAnsweredStep
<1>2. /\ \A b \in Buttons : ~Busy(b)' /\ ~Sent(b)' /\ ~Sent(b)
      /\ sync # Idle /\ sync.step = "flush" /\ sync.before > 0
  BY <1>1, Working DEF Busy, Sent
<1>3. Alone' /\ Foreseen' /\ ~SomeSent'
  BY <1>2 DEF Alone, Foreseen, SomeSent
<1>4. queue \in Seq({Pings} \cup Taps)
  BY <1>0 DEF TypeOK
<1>5. \A i \in DOMAIN queue' : queue'[i] # Pings
  BY <1>1, <1>4, Tailed DEF Calm, Synced
<1>6. CASE queue' # << >> /\ flush' # Idle /\ UNCHANGED <<sync, gets>>
  BY <1>1, <1>2, <1>3, <1>5, <1>6 DEF Calm, Synced, Fresh, Pill
<1>7. CASE /\ queue' = << >> /\ flush' = Idle
           /\ ReconcileStarts(queue') \/ SyncEnds(queue') \/ SyncWaitsNot
  <2>1. ClockItems(queue') = 0
    <3>1. {i \in DOMAIN << >> : << >>[i] # Pings} = {}
      OBVIOUS
    <3>2. QED
      BY <1>7, <3>1, FS_EmptySet DEF ClockItems
  <2>2. ReconcileStarts(queue')
    <3>1. ~SyncWaitsNot
      BY <1>2 DEF SyncWaitsNot
    <3>2. ~(0 >= sync.before)
      <4>1. sync.before \in Int
        BY <1>0, <1>2, SyncShape
      <4>2. QED
        BY <1>2, <4>1
    <3>3. QED
      BY <1>7, <2>1, <3>1, <3>2 DEF SyncEnds
  <2>3. /\ sync' # Idle /\ sync'.step = "reconcile" /\ sync'.after = 0
        /\ sync'.pendingBefore = sync.pendingBefore /\ gets' = Issue("sync")
    BY <2>1, <2>2 DEF ReconcileStarts
  <2>4. /\ gets'["sync"] # Quiet /\ gets'["sync"].current /\ gets'["sync"].answer = Unserved
        /\ \A w \in Readers : w # "sync" => gets'[w] = Quiet \/ ~gets'[w].current
    BY <1>0, <2>3, IssuedGets, OutdatedGets
  <2>5. Synced'
    BY <1>1, <1>2, <1>5, <1>7, <2>3 DEF Calm, Synced
  <2>6. Fresh'
    BY <1>0, <2>4 DEF Fresh, Current
  <2>7. Pill'
    BY <1>1, <1>3, <2>3, <2>4 DEF Calm, Pill
  <2>8. QED
    BY <1>3, <2>5, <2>6, <2>7 DEF Calm
<1>8. QED
  BY <1>1, <1>6, <1>7

LEMMA CalmFlushLost ==
  ASSUME IndInv, Calm, FlushLost
  PROVE  Calm'
<1>0. TypeOK /\ "sync" \in Readers
  BY DEF IndInv, Typed, Readers
<1>1. /\ flush # Idle /\ flush' = Idle
      /\ ReconcileStarts(queue) \/ SyncEnds(queue) \/ SyncWaitsNot
      /\ UNCHANGED <<given, open, recorded, kinds, live, openEntry, pending, queue, fates,
                     launched>>
  BY FlushLostStep
<1>2. /\ \A b \in Buttons : ~Busy(b)' /\ ~Sent(b)'
      /\ queue # << >> /\ sync # Idle /\ sync.step = "flush"
  BY <1>1, Working DEF Busy, Sent
<1>3. Alone' /\ Foreseen' /\ Fresh'
  BY <1>1, <1>2 DEF Alone, Foreseen, Fresh
<1>4. ClockItems(queue) # 0
  BY <1>2, QueueCounts
<1>5. Synced'
  BY <1>1, <1>2, <1>4 DEF Calm, Synced, ReconcileStarts, SyncEnds, SyncWaitsNot
<1>6. Pill'
  <2>1. gets' = Issue("sync") => gets'["sync"].current
    BY <1>0, IssuedGets
  <2>2. QED
    BY <1>1, <1>2, <2>1 DEF Calm, Pill, ReconcileStarts, SyncEnds, SyncWaitsNot
<1>7. QED
  BY <1>3, <1>5, <1>6 DEF Calm

LEMMA CalmGetServed ==
  ASSUME IndInv, Calm, NEW w \in Readers, GetServed(w)
  PROVE  Calm'
<1>1. /\ gets[w] # Quiet /\ gets'[w] # Quiet /\ gets'[w].answer = open
      /\ gets'[w].current = gets[w].current
      /\ \A v \in Readers : v # w => gets'[v] = gets[v]
  BY GetServedStep
<1>2. UNCHANGED <<given, open, recorded, kinds, live, openEntry, pending, queue, fates,
                  flush, sync, launched, faults>>
  BY Zenon DEF GetServed
<1>3. \A b \in Buttons : ~Busy(b)' /\ ~Sent(b)' /\ ~Sent(b)
  BY <1>1, <1>2 DEF Calm, Alone, Busy, Sent
<1>4. Alone' /\ Foreseen' /\ ~SomeSent /\ ~SomeSent'
  BY <1>3 DEF Alone, Foreseen, SomeSent
<1>5. Synced'
  BY <1>2 DEF Calm, Synced
<1>6. \A v \in Readers : Current(v)' <=> Current(v)
  BY <1>1 DEF Current
<1>7. Fresh'
  <2>1. queue = << >> => \A v \in Readers :
          Current(v)' /\ gets'[v].answer # Unserved => gets'[v].answer = open
    BY <1>1, <1>6 DEF Calm, Fresh
  <2>2. QED
    BY <1>2, <1>4, <1>6, <2>1 DEF Calm, Fresh
<1>8. gets'["sync"].current = gets["sync"].current
  BY <1>1 DEF Readers
<1>9. Pill'
  BY <1>2, <1>4, <1>8 DEF Calm, Pill
<1>10. QED
  BY <1>4, <1>5, <1>7, <1>9 DEF Calm

LEMMA CalmScreenGetAnswered ==
  ASSUME IndInv, Calm, ScreenGetAnswered
  PROVE  Calm'
<1>0. TypeOK /\ "screen" \in Readers
  BY DEF IndInv, Typed, Readers
<1>1. /\ gets["screen"] # Quiet /\ gets["screen"].answer # Unserved
      /\ openEntry' = Shown("screen") /\ gets' = [gets EXCEPT !["screen"] = Quiet]
      /\ UNCHANGED <<given, open, recorded, kinds, live, pending, queue, fates, flush, sync,
                     launched, faults>>
  BY Zenon DEF ScreenGetAnswered
<1>2. gets'["screen"] = Quiet /\ \A v \in Readers : v # "screen" => gets'[v] = gets[v]
  BY <1>0, <1>1 DEF TypeOK
<1>3. \A b \in Buttons : ~Busy(b)' /\ ~Sent(b)' /\ ~Sent(b)
  BY <1>0, <1>1 DEF Calm, Alone, Busy, Sent
<1>4. Alone' /\ Foreseen' /\ ~SomeSent /\ ~SomeSent'
  BY <1>3 DEF Alone, Foreseen, SomeSent
<1>5. Synced'
  BY <1>1 DEF Calm, Synced
<1>6. Fresh'
  <2>1. \A v \in Readers : Current(v)' => Current(v) /\ gets'[v] = gets[v]
    BY <1>2 DEF Current
  <2>2. CASE gets["screen"].current
    <3>1. queue = << >> => openEntry' = open
      BY <1>0, <1>1, <2>2 DEF Calm, Fresh, Current, Shown
    <3>2. QED
      BY <1>1, <2>1, <3>1 DEF Calm, Fresh
  <2>3. CASE ~gets["screen"].current
    <3>1. openEntry' = openEntry
      BY <1>1, <2>3 DEF Shown
    <3>2. \A v \in Readers : Current(v) => Current(v)'
      BY <1>2, <2>3 DEF Current
    <3>3. QED
      BY <1>1, <1>4, <2>1, <3>1, <3>2 DEF Calm, Fresh
  <2>4. QED
    BY <2>2, <2>3
<1>7. gets'["sync"] = gets["sync"]
  BY <1>2 DEF Readers
<1>8. Pill'
  BY <1>1, <1>4, <1>7 DEF Calm, Pill
<1>9. QED
  BY <1>4, <1>5, <1>6, <1>8 DEF Calm

LEMMA CalmReconciled ==
  ASSUME IndInv, Calm, Reconciled
  PROVE  Calm'
<1>0. TypeOK /\ "screen" \in Readers /\ "sync" \in Readers
  BY DEF IndInv, Typed, Readers
<1>1. /\ gets["sync"] # Quiet /\ gets["sync"].answer # Unserved
      /\ openEntry' = Shown("sync") /\ sync' = Idle
      /\ UNCHANGED <<given, open, recorded, kinds, live, queue, fates, flush, launched,
                     faults>>
      /\ IF sync.after = 0 /\ pending # 0 /\ pending = sync.pendingBefore
         THEN pending' = 0 /\ gets'["screen"] = Outdated["screen"]
         ELSE UNCHANGED pending /\ gets'["screen"] = gets["screen"]
      /\ gets'["sync"] = Quiet
  BY ReconciledStep
<1>2. sync # Idle /\ sync.step = "reconcile"
  BY <1>0, <1>1 DEF TypeOK
<1>3. \A b \in Buttons : ~Busy(b)' /\ ~Sent(b)' /\ ~Sent(b)
  BY <1>0, <1>1 DEF Calm, Alone, Busy, Sent
<1>4. Alone' /\ Foreseen' /\ ~SomeSent /\ ~SomeSent'
  BY <1>3 DEF Alone, Foreseen, SomeSent
<1>5. Synced'
  BY <1>1, <1>2 DEF Calm, Synced
<1>6. \A v \in Readers : Current(v)' => v = "screen" /\ Current(v) /\ gets'[v] = gets[v]
  <2>1. \A v \in Readers : v = "screen" \/ v = "sync"
    BY DEF Readers
  <2>2. Current("screen")' => gets'["screen"] = gets["screen"]
    BY <1>0, <1>1, OutdatedGets DEF Current
  <2>3. QED
    BY <1>1, <2>1, <2>2 DEF Current
<1>7. Fresh'
  <2>1. CASE gets["sync"].current
    <3>1. queue = << >> => openEntry' = open
      BY <1>0, <1>1, <2>1 DEF Calm, Fresh, Current, Shown
    <3>2. QED
      BY <1>1, <1>6, <3>1 DEF Calm, Fresh
  <2>2. CASE ~gets["sync"].current
    <3>1. openEntry' = openEntry /\ gets'["screen"] = gets["screen"]
      BY <1>1, <1>2, <2>2 DEF Calm, Pill, Shown
    <3>2. \A v \in Readers : Current(v) => Current(v)'
      BY <2>2, <3>1 DEF Current, Readers
    <3>3. QED
      BY <1>1, <1>4, <1>6, <3>1, <3>2 DEF Calm, Fresh
  <2>3. QED
    BY <2>1, <2>2
<1>8. Pill'
  <2>1. pending' # 0 => queue' # << >>
    BY <1>1, <1>2 DEF Calm, Synced
  <2>2. "screen" \notin launched' => pending' = 0
    BY <1>1 DEF Calm, Pill
  <2>3. QED
    BY <1>1, <2>1, <2>2 DEF Pill
<1>9. QED
  BY <1>4, <1>5, <1>7, <1>8 DEF Calm

LEMMA CalmMount ==
  ASSUME IndInv, Calm, Mount
  PROVE  Calm'
<1>0. TypeOK /\ "screen" \in Readers
  BY DEF IndInv, Typed, Readers
<1>1. /\ "screen" \notin launched /\ launched' = launched \cup {"screen"}
      /\ gets' = Issue("screen")
      /\ UNCHANGED <<given, open, recorded, kinds, live, openEntry, pending, queue, fates,
                     flush, sync, faults>>
  BY Zenon DEF Mount, Mounted
<1>2. \A b \in Buttons : ~Busy(b)' /\ ~Sent(b)'
  BY <1>1 DEF Calm, Alone, Busy, Sent
<1>3. Alone' /\ Foreseen'
  BY <1>2 DEF Alone, Foreseen
<1>4. Synced'
  BY <1>1 DEF Calm, Synced
<1>5. /\ gets'["screen"] # Quiet /\ gets'["screen"].current
      /\ gets'["screen"].answer = Unserved
      /\ \A w \in Readers : w # "screen" => gets'[w] = Quiet \/ ~gets'[w].current
  BY <1>0, <1>1, IssuedGets, OutdatedGets
<1>6. Fresh'
  BY <1>0, <1>5 DEF Fresh, Current
<1>7. Pill'
  BY <1>1 DEF Calm, Pill
<1>8. QED
  BY <1>3, <1>4, <1>6, <1>7 DEF Calm

LEMMA CalmKill ==
  ASSUME IndInv, Calm, Kill
  PROVE  Calm'
<1>1. /\ flush' = Idle /\ sync' = Idle /\ launched' = {} /\ openEntry' = 0 /\ pending' = 0
      /\ \A w \in Readers : gets'[w] = Quiet
      /\ \A b \in Buttons : ~Busy(b)'
      /\ UNCHANGED <<given, open, recorded, kinds, queue>>
  BY KillStep
<1>2. \A b \in Buttons : ~Sent(b)'
  BY <1>1 DEF Sent
<1>3. Alone' /\ Foreseen' /\ Fresh' /\ Pill'
  BY <1>1, <1>2 DEF Alone, Foreseen, Fresh, Pill, Current
<1>4. Synced'
  BY <1>1 DEF Calm, Synced
<1>5. QED
  BY <1>3, <1>4 DEF Calm

\* The bounded faults only grow, in every step.
LEMMA FaultsGrow ==
  ASSUME IndInv, Next
  PROVE  FaultsKept /\ UNCHANGED given
<1>1. ASSUME NEW b \in Buttons,
             \/ Press(b) \/ Abort(b) \/ Commit(b) \/ TapSteps(b) \/ TapGarbled(b) \/ TapLost(b)
      PROVE  FaultsKept /\ UNCHANGED given
  <2>1. ASSUME Press(b) \/ Abort(b) \/ Commit(b) \/ TapAccepted(b) \/ TapRefused(b)
        PROVE  UNCHANGED <<faults, given>>
    BY <2>1, Zenon DEF Press, Abort, Commit, TapAccepted, TapRefused
  <2>2. ASSUME TapLost(b) PROVE Fault("losses") /\ UNCHANGED given
    BY <2>2, Zenon DEF TapLost
  <2>3. "losses" \in FaultKinds
    BY DEF FaultKinds
  <2>4. QED
    BY <1>1, <2>1, <2>2, <2>3, NoFault, OneFault, TapServedStep, TapGarbledStep DEF TapSteps
<1>2. ASSUME SyncStart \/ Delivery \/ FlushSteps \/ FlushGarbled \/ FlushLost
      PROVE  FaultsKept /\ UNCHANGED given
  <2>1. ASSUME SyncStart \/ FlushAnswered
        PROVE  UNCHANGED <<faults, given>>
    BY <2>1, Zenon DEF SyncStart, FlushAnswered
  <2>2. ASSUME Delivery PROVE Fault("deliveries") /\ UNCHANGED given
    BY <2>2, Zenon DEF Delivery
  <2>3. "deliveries" \in FaultKinds
    BY DEF FaultKinds
  <2>4. QED
    BY <1>2, <2>1, <2>2, <2>3, NoFault, OneFault, FlushServedStep, FlushGarbledStep,
       FlushLostStep DEF FlushSteps
<1>3. ASSUME GetSteps \/ (\E w \in Readers : GetFails(w)) \/ Mount \/ Remount \/ Kill
      PROVE  FaultsKept /\ UNCHANGED given
  <2>1. ASSUME GetSteps \/ Mount
        PROVE  UNCHANGED <<faults, given>>
    BY <2>1, Zenon DEF GetSteps, GetServed, ScreenGetAnswered, Reconciled, Mount, Mounted
  <2>2. ASSUME NEW w \in Readers, GetFails(w) PROVE Fault("failedReads") /\ UNCHANGED given
    BY <2>2, Zenon DEF GetFails
  <2>3. ASSUME Remount PROVE Fault("remounts") /\ UNCHANGED given
    BY <2>3, Zenon DEF Remount, Mounted
  <2>4. "failedReads" \in FaultKinds /\ "remounts" \in FaultKinds
    BY DEF FaultKinds
  <2>5. QED
    BY <1>3, <2>1, <2>2, <2>3, <2>4, NoFault, OneFault, KillStep
<1>4. QED
  BY <1>1, <1>2, <1>3 DEF Next

\* An undisturbed step keeps everything calm.
LEMMA NextCalm ==
  ASSUME IndInv, Calm, Undisturbed, Undisturbed', Next
  PROVE  Calm'
<1>1. ASSUME NEW b \in Buttons,
             \/ Press(b) \/ Abort(b) \/ Commit(b) \/ TapSteps(b) \/ TapGarbled(b) \/ TapLost(b)
      PROVE  Calm'
  BY <1>1, CalmPress, CalmAbort, CalmCommit, CalmTapServed, CalmTapAccepted, CalmTapRefused,
     CalmTapGarbled, CalmTapLost DEF TapSteps
<1>2. ASSUME SyncStart \/ Delivery \/ FlushSteps \/ FlushGarbled \/ FlushLost
      PROVE  Calm'
  <2>1. ASSUME Delivery PROVE FALSE
    BY <2>1, DeliveryStep DEF Undisturbed
  <2>2. ASSUME FlushServed PROVE Calm'
    BY <2>2, FlushServedStep, CalmRuling
  <2>3. ASSUME FlushGarbled PROVE Calm'
    <3>1. flush # Idle /\ flush' # Idle
          /\ UNCHANGED <<given, kinds, live, phone, queue, fates, sync, launched>>
      BY <2>3, FlushGarbledStep
    <3>2. QED
      BY <3>1, CalmRuling
  <2>4. QED
    BY <1>2, <2>1, <2>2, <2>3, CalmSyncStart, CalmFlushAnswered, CalmFlushLost DEF FlushSteps
<1>3. ASSUME GetSteps \/ (\E w \in Readers : GetFails(w)) \/ Mount \/ Remount \/ Kill
      PROVE  Calm'
  <2>1. ASSUME NEW w \in Readers, GetFails(w) PROVE FALSE
    BY <2>1, GetFailsStep DEF Undisturbed
  <2>2. ASSUME Remount PROVE FALSE
    <3>1. Fault("remounts") /\ "remounts" \in FaultKinds
      BY <2>2, Zenon DEF Remount, FaultKinds
    <3>2. QED
      BY <3>1, OneFault DEF Undisturbed
  <2>3. QED
    BY <1>3, <2>1, <2>2, CalmGetServed, CalmScreenGetAnswered, CalmReconciled, CalmMount,
       CalmKill DEF GetSteps
<1>4. QED
  BY <1>1, <1>2, <1>3 DEF Next

LEMMA InitCalm ==
  ASSUME Init
  PROVE  Calm
<1>1. /\ openEntry = 0 /\ pending = 0 /\ queue = << >>
      /\ flush = Idle /\ sync = Idle /\ launched = {}
  BY Zenon DEF Init
<1>2. /\ \A w \in Readers : gets[w] = Quiet
      /\ \A b \in Buttons : ~Busy(b) /\ ~Sent(b)
  BY DEF Init, Busy, Sent
<1>3. Alone
  BY <1>2, Zenon DEF Alone
<1>4. Synced
  <2>1. DOMAIN queue = {}
    BY <1>1
  <2>2. QED
    BY <1>1, <2>1, Zenon DEF Synced
<1>5. Fresh
  <2>1. \A w \in Readers : ~Current(w)
    BY <1>2, Zenon DEF Current
  <2>2. "screen" \notin launched
    BY <1>1
  <2>3. QED
    BY <2>1, <2>2, Zenon DEF Fresh
<1>6. Foreseen
  BY <1>2, Zenon DEF Foreseen
<1>7. Pill
  BY <1>1, Zenon DEF Pill
<1>8. QED
  BY <1>3, <1>4, <1>5, <1>6, <1>7 DEF Calm

\* As long as nothing disturbs it, the phone's screen, pill, queue and requests
\* fit together at every moment, across losses, refusals and kills.
THEOREM CalmThroughout == Spec => []CalmInv
<1>1. Init => CalmInv
  BY InitIndInv, InitCalm DEF CalmInv
<1>2. CalmInv /\ [Next]_vars => CalmInv'
  <2> SUFFICES ASSUME CalmInv, [Next]_vars PROVE CalmInv'
    OBVIOUS
  <2>1. IndInv /\ IndInv'
    BY NextIndInv DEF CalmInv
  <2>2. CASE Next
    <3>1. Undisturbed' => Undisturbed
      BY <2>1, <2>2, FaultsGrow, WasUndisturbed
    <3>2. QED
      BY <2>1, <2>2, <3>1, NextCalm DEF CalmInv
  <2>3. CASE UNCHANGED vars
    <3>1. UNCHANGED <<given, open, recorded, kinds, live, openEntry, pending, gets, queue,
                      dropped, told, forgotten, flush, sync, launched, faults>>
      BY <2>3 DEF vars, phone, fates
    <3>2. Undisturbed' <=> Undisturbed
      BY <3>1 DEF Undisturbed
    <3>3. Calm' <=> Calm
      BY <3>1 DEF Calm, Alone, Synced, Fresh, Foreseen, Pill, Current, SomeSent, Sent, Busy
    <3>4. QED
      BY <2>1, <3>2, <3>3 DEF CalmInv
  <2>4. QED
    BY <2>2, <2>3
<1>3. QED
  BY <1>1, <1>2, PTL DEF Spec

\* At rest after undisturbed steps the screen shows the shift the server has
\* running, or none (clock.ts writeGen, sync.ts's reconcile).
THEOREM ScreenIsSettled == Spec => []ScreenSettles
<1>1. CalmInv => ScreenSettles
  <2> SUFFICES ASSUME CalmInv, Undisturbed, AtRest PROVE openEntry = open
    BY DEF ScreenSettles, ScreenShowsServer
  <2>1. /\ "screen" \in launched /\ queue = << >> /\ ~SomeSent
        /\ \A w \in Readers : gets[w] = Quiet
    BY DEF AtRest, NothingUnderWay, Readers, SomeSent, Sent
  <2>2. QED
    BY <2>1 DEF CalmInv, Calm, Fresh, Current
<1>2. QED
  BY <1>1, CalmThroughout, PTL

\* At rest after undisturbed steps the pill "waiting for connection" is down
\* (sync.ts on clearing pendingSince after a drain).
THEOREM PillIsSettled == Spec => []PillSettles
<1>1. CalmInv => PillSettles
  BY DEF CalmInv, Calm, Pill, PillSettles, PillIsTrue, AtRest, NothingUnderWay, SomeSent,
         Sent, Idle
<1>2. QED
  BY <1>1, CalmThroughout, PTL
=============================================================================
