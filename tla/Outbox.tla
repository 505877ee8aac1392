------------------------------- MODULE Outbox -------------------------------
(***************************************************************************)
(* The phone's offline queue, mobile/src/stores/outbox.ts, with the code   *)
(* that feeds it (lib/clockFlow.ts), works it (lib/sync.ts) and clears it  *)
(* (lib/signOut.ts, app/_layout.tsx).                                      *)
(*                                                                         *)
(* The queue lives in memory and is written to AsyncStorage on every       *)
(* change; the writes are not awaited, so they land later and in order. At *)
(* launch the stored blob is read back and merged with what has been queued*)
(* since.  The OS may kill the app, the read may fail, answers may be lost,*)
(* and another worker may sign in on the same phone: the queue has one     *)
(* device-wide key.  An item is a clock tap; items are numbered in the     *)
(* order they are tapped, and only one tap is under way at a time.  What   *)
(* the server makes of an item is TimeEntries; here it accepts it once, or *)
(* refuses it, or its answer is lost.                                      *)
(***************************************************************************)
EXTENDS Integers, FiniteSets, SequencesExt

CONSTANTS
  Users, None,
  MaxAttention,        \* MAX_ATTENTION, the cap on the list of dropped items
  MaxWrites,           \* bound: writes on their way to storage at once
  Conditions           \* the conditions considered, see Condition

\* What can happen in a behaviour: how many taps, answers that never arrive,
\* kills by the OS, failed launch reads, sessions ended by a 401 and sign-outs;
\* and whether a kill may hit while storage is being worked, a tap be queued
\* before the launch read lands, a sign-out overtake a live tap.
Hazards == {"killInFlight", "earlyTap", "tapAcrossSignOut"}
FaultKinds == {"losses", "kills", "readErrors", "expiries", "signOuts"}
Condition == [taps: Nat, losses: Nat, kills: Nat, readErrors: Nat, expiries: Nat,
              signOuts: Nat, allows: SUBSET Hazards]

ASSUME BoundAssumption ==
  /\ {MaxAttention, MaxWrites} \subseteq Nat
  /\ Conditions \subseteq Condition
  /\ None \notin Users

VARIABLES
  given,               \* the conditions of this behaviour
  session,             \* who is signed in
  tap,                 \* the live tap under way, 0 for none
  items, attention,    \* the store: queued items, and records of dropped ones
  writes, disk,        \* blobs on their way to storage, and the stored blob
  reading,             \* <<blob>> while a launch read is to deliver it, << >> after
  draining,            \* whether a flush is under way
  sending, sendAs,     \* its item in flight, 0 for none, and under whose token
  owner,               \* history: who made each tap
  recorded,            \* the server's record: pairs <<item, user>>
  settled, refused,    \* history: items answered; those whose last answer refused them
  wiped, read,         \* history: items cleared by a sign-out; records dismissed
  kept,                \* history: items that have been on disk
  faults               \* how often each bounded fault has happened

store   == <<items, attention, writes>>
history == <<owner, recorded, settled, refused, wiped, read, kept>>
vars == <<given, session, tap, store, disk, reading, draining, sending, sendAs, history, faults>>

Blob(i, a) == [items |-> i, attention |-> a]
EmptyBlob  == Blob(<< >>, << >>)
Hydrated   == << >>

\* filter: what is in T, in the order it stands.
Select(seq, T) ==
  LET chosen[k \in 0 .. Len(seq)] ==
        IF k = 0 THEN << >>
        ELSE IF seq[k] \in T THEN Append(chosen[k - 1], seq[k]) ELSE chosen[k - 1]
  IN  chosen[Len(seq)]

Without(seq, n) == Select(seq, ToSet(seq) \ {n})

\* uniqueByClientId over the stored list followed by the current one.
\* Mutant: what was queued since the launch goes first.
MergedCurrentFirst(stored, current) ==
  current \o Select(stored, ToSet(stored) \ ToSet(current))
Merged(stored, current) ==
  stored \o Select(current, ToSet(current) \ ToSet(stored))

\* set(): every change of the store is written out.
Set(i, a) ==
  /\ Len(writes) < MaxWrites
  /\ items' = i /\ attention' = a /\ writes' = Append(writes, Blob(i, a))

Fault(kind) ==
  /\ faults[kind] < given[kind]
  /\ faults' = [faults EXCEPT ![kind] = @ + 1]
Allowed(hazard) == hazard \in given.allows
-----------------------------------------------------------------------------
(* A live tap: clockInNow, clockOutNow. *)

Tap ==
  /\ session # None /\ tap = 0 /\ Len(owner) < given.taps
  /\ owner' = Append(owner, session)
  /\ tap' = Len(owner) + 1
  /\ UNCHANGED <<given, session, store, disk, reading, draining, sending, sendAs,
                 recorded, settled, refused, wiped, read, kept, faults>>

\* The server has ruled, one way or the other.
TapAnswered ==
  /\ tap # 0
  /\ recorded' \in {recorded, recorded \cup {<<tap, owner[tap]>>}}
  /\ settled' = settled \cup {tap}
  /\ tap' = 0
  /\ UNCHANGED <<given, session, store, disk, reading, draining, sending, sendAs,
                 owner, refused, wiped, read, kept, faults>>

\* A retryable failure: the request may have landed; the item is queued.
TapLost ==
  /\ tap # 0 /\ Fault("losses")
  /\ Allowed("earlyTap") \/ reading = Hydrated
  /\ recorded' \in {recorded, recorded \cup {<<tap, owner[tap]>>}}
  /\ Set(Append(items, tap), attention)
  /\ tap' = 0
  /\ UNCHANGED <<given, session, disk, reading, draining, sending, sendAs,
                 owner, settled, refused, wiped, read, kept>>
-----------------------------------------------------------------------------
(* Storage and launch. *)

WriteLands ==
  /\ writes # << >>
  /\ disk' = Head(writes)
  /\ writes' = Tail(writes)
  /\ kept' = kept \cup ToSet(disk'.items)
  /\ UNCHANGED <<given, session, tap, items, attention, reading, draining, sending, sendAs,
                 owner, recorded, settled, refused, wiped, read, faults>>

\* merge, then the write that puts the union back on disk, then markHydrated.
Rehydrate ==
  /\ Len(reading) = 1
  /\ Set(Merged(reading[1].items, items), Merged(reading[1].attention, attention))
  /\ reading' = Hydrated
  /\ UNCHANGED <<given, session, tap, disk, draining, sending, sendAs, history, faults>>

\* A failed read releases the flush too and writes nothing.
ReadFails ==
  /\ Len(reading) = 1 /\ Fault("readErrors")
  /\ reading' = Hydrated
  /\ UNCHANGED <<given, session, tap, store, disk, draining, sending, sendAs, history>>

\* The OS kills the app and the worker opens it again: what was not stored is
\* gone, a tap under way is forgotten, the session stays in the keychain.
Kill ==
  /\ Fault("kills")
  /\ Allowed("killInFlight") \/ (reading = Hydrated /\ writes = << >>)
  /\ items' = << >> /\ attention' = << >> /\ writes' = << >>
  /\ reading' = <<disk>>
  /\ tap' = 0 /\ draining' = FALSE /\ sending' = 0 /\ sendAs' = None
  /\ UNCHANGED <<given, session, disk, history>>
-----------------------------------------------------------------------------
(* flush() and drain(). *)

\* One flush at a time; a second caller joins it.
Flush ==
  /\ session # None /\ ~draining
  /\ draining' = TRUE
  /\ UNCHANGED <<given, session, tap, store, disk, reading, sending, sendAs, history, faults>>

\* The head of the queue, once rehydrated; no token or no item ends the flush.
Send ==
  /\ draining /\ reading = Hydrated /\ sending = 0
  /\ IF items = << >> \/ session = None
     THEN draining' = FALSE /\ UNCHANGED <<given, sending, sendAs>>
     ELSE sending' = Head(items) /\ sendAs' = session /\ UNCHANGED draining
  /\ UNCHANGED <<given, session, tap, store, disk, reading, history, faults>>

\* Removed by key against the current queue, whatever has happened since.
Accepted ==
  /\ sending # 0
  /\ recorded' = recorded \cup {<<sending, sendAs>>}
  /\ settled' = settled \cup {sending} /\ refused' = refused \ {sending}
  /\ Set(Without(items, sending), attention)
  /\ sending' = 0 /\ sendAs' = None
  /\ UNCHANGED <<given, session, tap, disk, reading, draining, owner, wiped, read, kept, faults>>

\* Mutant: no record is made.
RecordNothing(n) == attention
\* attentionFor, and a cap that keeps the oldest records.
Record(n) == IF Len(attention) < MaxAttention THEN Append(attention, n) ELSE attention

\* A refusal no retry can fix: dropped and recorded in one write.
Refused ==
  /\ sending # 0 /\ <<sending, sendAs>> \notin recorded
  /\ settled' = settled \cup {sending}
  /\ refused' = refused \cup {sending}
  /\ Set(Without(items, sending), Record(sending))
  /\ sending' = 0 /\ sendAs' = None
  /\ UNCHANGED <<given, session, tap, disk, reading, draining, owner, recorded, wiped, read,
                 kept, faults>>

\* Mutant: the loop drops an item whose answer was lost.
SendLostDrops ==
  /\ sending # 0 /\ Fault("losses")
  /\ Set(Without(items, sending), attention)
  /\ sending' = 0 /\ sendAs' = None /\ draining' = FALSE
  /\ UNCHANGED <<given, session, tap, disk, reading, history>>

\* A retryable failure stops the flush where it stands; the write may have landed.
SendLost ==
  /\ sending # 0 /\ Fault("losses")
  /\ recorded' \in {recorded, recorded \cup {<<sending, sendAs>>}}
  /\ sending' = 0 /\ sendAs' = None /\ draining' = FALSE
  /\ UNCHANGED <<given, session, tap, store, disk, reading, owner, settled, refused, wiped,
                 read, kept>>

\* clearAttention: the worker has read the records.
Dismiss ==
  /\ attention # << >>
  /\ read' = read \cup ToSet(attention)
  /\ Set(items, << >>)
  /\ UNCHANGED <<given, session, tap, disk, reading, draining, sending, sendAs,
                 owner, recorded, settled, refused, wiped, kept, faults>>
-----------------------------------------------------------------------------
(* Sessions. *)

SignIn(u) ==
  /\ session = None
  /\ session' = u
  /\ UNCHANGED <<given, tap, store, disk, reading, draining, sending, sendAs, history, faults>>

\* A 401 ends the session and keeps the queue (app/_layout.tsx).
Expire ==
  /\ session # None /\ Fault("expiries")
  /\ session' = None
  /\ UNCHANGED <<given, tap, store, disk, reading, draining, sending, sendAs, history>>

\* Every copy of the store on the phone: in memory, on disk, on its way there.
Copies  == {Blob(items, attention), disk} \cup ToSet(writes) \cup ToSet(reading)
OnPhone == UNION {ToSet(b.items) : b \in Copies}
Records == UNION {ToSet(b.attention) : b \in Copies}

\* Mutants: the launch read is not cancelled; it is, without markHydrated.
ClearKeepingRead == Set(<< >>, << >>) /\ UNCHANGED reading
ClearHoldingGate == Set(<< >>, << >>) /\ reading' = reading \o reading
\* Empty the store, its storage and a launch read under way; open the gate.
ClearForSignOut == Set(<< >>, << >>) /\ reading' = Hydrated

\* Sign-out: the credentials are gone, then the phone is wiped.
SignOut ==
  /\ session # None /\ session' = None /\ Fault("signOuts")
  /\ Allowed("tapAcrossSignOut") \/ tap = 0
  /\ wiped' = wiped \cup OnPhone /\ read' = read \cup Records
  /\ ClearForSignOut
  /\ UNCHANGED <<given, tap, disk, draining, sending, sendAs,
                 owner, recorded, settled, refused, kept>>

Init ==
  /\ given \in Conditions
  /\ session = None /\ tap = 0
  /\ items = << >> /\ attention = << >> /\ writes = << >>
  /\ disk = EmptyBlob /\ reading = <<EmptyBlob>>
  /\ draining = FALSE /\ sending = 0 /\ sendAs = None
  /\ owner = << >> /\ recorded = {} /\ settled = {} /\ refused = {}
  /\ wiped = {} /\ read = {} /\ kept = {}
  /\ faults = [losses |-> 0, kills |-> 0, readErrors |-> 0, expiries |-> 0, signOuts |-> 0]

Answers == TapAnswered \/ Accepted \/ Refused

Next ==
  \/ Tap \/ TapLost \/ Answers
  \/ WriteLands \/ Rehydrate \/ ReadFails \/ Kill
  \/ Flush \/ Send \/ SendLost \/ Dismiss
  \/ Expire \/ SignOut \/ \E u \in Users : SignIn(u)

Spec == Init /\ [][Next]_vars

\* Storage and the network answer in the end, a trigger of lib/sync.ts always
\* comes again, and a phone is not left signed out for ever.
FairSpec ==
  /\ Spec
  /\ WF_vars(Answers) /\ WF_vars(Flush) /\ WF_vars(Send)
  /\ WF_vars(Rehydrate) /\ WF_vars(WriteLands)
  /\ WF_vars(\E u \in Users : SignIn(u))
-----------------------------------------------------------------------------
Items == 1 .. Len(owner)
Blobs == [items: Seq(Items), attention: Seq(Items)]

TypeOK ==
  /\ given \in Conditions
  /\ session \in Users \cup {None} /\ sendAs \in Users \cup {None}
  /\ tap \in Items \cup {0} /\ sending \in Items \cup {0}
  /\ items \in Seq(Items) /\ attention \in Seq(Items) /\ Len(attention) <= MaxAttention
  /\ writes \in Seq(Blobs) /\ disk \in Blobs /\ reading \in Seq(Blobs)
  /\ draining \in BOOLEAN /\ (sending # 0 => draining)
  /\ owner \in Seq(Users) /\ recorded \subseteq Items \X Users
  /\ settled \cup refused \cup wiped \cup read \cup kept \subseteq Items
  /\ faults \in [FaultKinds -> Nat]

\* The only ways out of the queue are a server's answer and a sign-out: an item
\* that has reached the disk is on the phone until then, whatever is lost,
\* killed or merged (outbox.ts, the store's own comment).
KeptUntilAnswered == kept \ (settled \cup wiped) \subseteq OnPhone

\* Storage can be read at launch.  And no kill comes between a tap that is queued
\* before the launch read has landed, which writes the list without the stored
\* items, and the write of the union (outbox.ts onRehydrateStorage).
StorageHolds ==
  faults.readErrors = 0 /\ ~(Allowed("earlyTap") /\ Allowed("killInFlight"))

\* It is so as long as storage holds.
KeptIfRead == StorageHolds => KeptUntilAnswered

\* The queue holds each tap once, in the order they were made, across kills,
\* rehydrations and taps made before the launch read lands: a clock-out never
\* overtakes its clock-in.
QueueInTapOrder == \A j, k \in DOMAIN items : j < k => items[j] < items[k]

\* Every stored tap the queue drops leaves a record for the worker to read, as
\* long as they fit the list, whatever is killed: removal and record are one
\* write (outbox.ts drain, design.md 5.3: never silently vanishing).
DropsLeaveARecord ==
  StorageHolds /\ Cardinality(refused) <= MaxAttention =>
    (kept \cap refused) \ (read \cup wiped) \subseteq OnPhone \cup Records

\* The phone changes hands by a sign-out only: a 401 keeps the queue, a tap still
\* under way is not in it, and a kill may come before the sign-out's write has
\* landed (lib/signOut.ts, the residual it names).
HandoverHolds ==
  /\ faults.expiries = 0 /\ ~Allowed("tapAcrossSignOut")
  /\ Allowed("killInFlight") => faults.signOuts = 0

\* Hours are recorded under the account of the worker who made the tap, also
\* when the phone changes hands: in memory, on disk, on its way there and on its
\* way back, nothing of the queue is left (clearForSignOut).
HoursStayWithTheirOwner ==
  HandoverHolds => \A p \in recorded : owner[p[1]] = p[2]

\* Whatever is queued is worked off (or wiped) in the end: no lost answer,
\* kill, failed read or sign-out leaves the flush wedged shut.
QueueDrains == items # << >> ~> items = << >>
=============================================================================
