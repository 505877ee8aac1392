------------------------- MODULE TimeEntriesProofs -------------------------
(***************************************************************************)
(* Theorems about TimeEntries for every set of users, employers, taps and  *)
(* handlers: that it implements the ledger, then what it tells and rules   *)
(* (the answer a worker gets, the flags and the "verified" an employer     *)
(* sees, and that a running shift can be closed where it started).         *)
(***************************************************************************)
EXTENDS TimeEntries, TLAPS

\* What a handler holds between two accesses is still true of the collection
\* es: the shift it found is there and its owner's; a close is after the
\* clock-in, judged against the employer the shift still has if it is still
\* running; a shift to be assigned is finished.
Held(r, es) ==
  /\ r.step \in {"judge", "write"} /\ r.ev.kind \in {"out", "assign"} =>
       /\ r.id \in DOMAIN es
       /\ es[r.id].user = r.ev.user
  /\ r.step \in {"judge", "write"} /\ r.ev.kind = "out" =>
       /\ r.ev.at > es[r.id].inAt
       /\ es[r.id].status = "open" => es[r.id].emp = r.emp
  /\ r.step \in {"judge", "write"} /\ r.ev.kind = "assign" =>
       es[r.id].status = "closed"
  /\ r.step = "write" /\ r.ev.kind = "out" /\ r.emp = None =>
       <<r.ev.loc, es[r.id].inLoc>> \in Near
  /\ r.step = "write" /\ r.ev.kind \in {"in", "out"} => r.ev.at \in Times

HeldOK == \A s \in Slots : Held(req[s], entries)

IndInv == TypeOK /\ HeldOK

\* How the collection may change under a handler that is not looking.
Later(es, fs) ==
  /\ DOMAIN es \subseteq DOMAIN fs
  /\ \A i \in DOMAIN es :
       /\ fs[i].user = es[i].user
       /\ fs[i].key = es[i].key
       /\ fs[i].inAt = es[i].inAt
       /\ fs[i].inLoc = es[i].inLoc
       /\ es[i].status = "closed" => fs[i].status = "closed"
       /\ fs[i].status = "open" => fs[i].emp = es[i].emp

LEMMA ElementOfSeq ==
  ASSUME NEW S, NEW q \in Seq(S), NEW i \in DOMAIN q
  PROVE  q[i] \in S
OBVIOUS

LEMMA EntryStatus ==
  ASSUME NEW es \in Seq(Entry)
  PROVE  \A i \in DOMAIN es : es[i].status \in {"open", "closed"}
<1>1. \A i \in DOMAIN es : es[i] \in Entry
  BY ElementOfSeq
<1>2. QED
  BY <1>1 DEF Entry

LEMMA HeldStable ==
  ASSUME NEW r \in Request \cup {Idle}, NEW es, NEW fs, Held(r, es), Later(es, fs),
         \A i \in DOMAIN es : es[i].status \in {"open", "closed"},
         \A i \in DOMAIN fs : fs[i].status \in {"open", "closed"}
  PROVE  Held(r, fs)
BY DEF Held, Later, Request, Idle

LEMMA VerdictIsCode ==
  ASSUME NEW fix, NEW t, NEW queued, NEW anchors, NEW maxAge
  PROVE  Verdict(fix, t, queued, anchors, maxAge) \in FixCodes
BY DEF Verdict, Freshness, FixCodes

\* A fix that passes the rules was not captured after the last instant the
\* clock can show, and lies near every centre it was measured against.
LEMMA VerdictOK ==
  ASSUME NEW fix, NEW t \in 0 .. MaxNow, NEW queued, NEW anchors, NEW maxAge,
         fix.at \in Nat,
         Verdict(fix, t, queued, anchors, maxAge) = "OK",
         fix.quality \in Quality
  PROVE  /\ fix.at \in Times
         /\ \A a \in anchors : WithinAnchor(fix.loc, a)
<1>1. Freshness(t, fix.at, queued, maxAge) = "OK"
  BY DEF Verdict, Quality
<1>2. t - fix.at >= -MaxClockSkew
  BY <1>1, SkewAssumption, BoundAssumption DEF Freshness
<1>3. fix.at \in Times
  BY <1>2, SkewAssumption, BoundAssumption DEF Times
<1>4. \A a \in anchors : WithinAnchor(fix.loc, a)
  BY <1>1 DEF Verdict, Quality
<1>5. QED
  BY <1>3, <1>4

\* A step of slot s that leaves a well-formed request there and moves the
\* collection on keeps the invariant.
LEMMA SlotStep ==
  ASSUME IndInv, NEW s \in Slots, NEW R \in Request \cup {Idle},
         req' = [req EXCEPT ![s] = R],
         entries' \in Seq(Entry), Later(entries, entries'), Held(R, entries'),
         lateEnds' \subseteq (DOMAIN entries') \X {"in", "out"},
         UNCHANGED World
  PROVE  IndInv'
<1>1. TypeOK'
  BY DEF IndInv, TypeOK, World
<1>2. \A i \in DOMAIN entries : entries[i].status \in {"open", "closed"}
  BY EntryStatus DEF IndInv, TypeOK
<1>3. \A i \in DOMAIN entries' : entries'[i].status \in {"open", "closed"}
  BY EntryStatus
<1>4. ASSUME NEW t \in Slots PROVE Held(req'[t], entries')
  <2>1. CASE t = s
    BY <2>1 DEF IndInv, TypeOK
  <2>2. CASE t # s
    <3>1. req'[t] = req[t] /\ req[t] \in Request \cup {Idle}
      BY <2>2 DEF IndInv, TypeOK
    <3>2. Held(req[t], entries)
      BY DEF IndInv, HeldOK
    <3>3. QED
      BY <3>1, <3>2, <1>2, <1>3, HeldStable
  <2>3. QED
    BY <2>1, <2>2
<1>5. QED
  BY <1>1, <1>4 DEF IndInv, HeldOK

LEMMA LaterReflexive == ASSUME NEW es PROVE Later(es, es)
BY DEF Later

\* The same for a step that writes nothing.
LEMMA ReadStep ==
  ASSUME IndInv, NEW s \in Slots, NEW R \in Request \cup {Idle},
         req' = [req EXCEPT ![s] = R], Held(R, entries),
         UNCHANGED <<entries, lateEnds, World>>
  PROVE  IndInv'
<1>1. entries' = entries /\ lateEnds' = lateEnds
  OBVIOUS
<1>2. Later(entries, entries')
  BY <1>1, LaterReflexive
<1>3. entries' \in Seq(Entry) /\ lateEnds' \subseteq (DOMAIN entries') \X {"in", "out"}
  BY <1>1 DEF IndInv, TypeOK
<1>4. QED
  BY <1>1, <1>2, <1>3, SlotStep

-----------------------------------------------------------------------------
(* Clock-in *)

LEMMA RecordsInRequest ==
  ASSUME IndInv, NEW s \in Slots, req[s] # Idle
  PROVE  /\ req[s] \in Request
         /\ req[s].ev \in Events /\ req[s].ev \in Event
         /\ Held(req[s], entries)
BY EventsAssumption DEF IndInv, TypeOK, HeldOK, Request

LEMMA ClockInKeepsInv ==
  ASSUME IndInv, NEW s \in Slots, NEW ev \in Events, NEW queued \in BOOLEAN,
         ClockIn(s, ev, queued)
  PROVE  IndInv'
<1>1. CASE \E i \in ByClientID(ev.user, ev.key) : BeginAnswered(s, ev, queued, "OK", i)
  <2>1. PICK i \in ByClientID(ev.user, ev.key) : BeginAnswered(s, ev, queued, "OK", i)
    BY <1>1
  <2>2. i \in Nat
    BY DEF ByClientID, IndInv, TypeOK
  <2> DEFINE R == [step |-> "answer", ev |-> ev, queued |-> queued, id |-> i, emp |-> None,
                   age |-> 0, verified |-> FALSE, code |-> "OK"]
  <2>3. R \in Request /\ Held(R, entries)
    BY <2>2 DEF Request, Steps, Codes, Held
  <2>4. QED
    BY <2>1, <2>3, ReadStep DEF BeginAnswered, ClockIn
<1>2. CASE Begin(s, ev, queued, "judge")
  <2> DEFINE R == [step |-> "judge", ev |-> ev, queued |-> queued, id |-> 0, emp |-> None,
                   age |-> 0, verified |-> FALSE, code |-> ""]
  <2>1. R \in Request /\ Held(R, entries)
    BY DEF Request, Steps, Codes, Held, ClockIn
  <2>2. QED
    BY <1>2, <2>1, ReadStep DEF Begin, ClockIn
<1>3. QED
  BY <1>1, <1>2 DEF ClockIn

\* Answering frees the handler of everything it held.
LEMMA AnsweredHolds ==
  ASSUME NEW r \in Request, NEW code \in Codes, NEW id \in Nat, NEW es
  PROVE  /\ [r EXCEPT !.step = "answer", !.code = code, !.id = id] \in Request
         /\ Held([r EXCEPT !.step = "answer", !.code = code, !.id = id], es)
<1> DEFINE R == [r EXCEPT !.step = "answer", !.code = code, !.id = id]
<1>1. R \in Request /\ R.step = "answer"
  BY DEF Request, Steps
<1>2. QED
  BY <1>1 DEF Held

LEMMA AnswerStep ==
  ASSUME IndInv, NEW s \in Slots, req[s] # Idle, NEW code \in Codes, NEW id \in Nat,
         Answer(s, code, id), UNCHANGED <<entries, lateEnds, World>>
  PROVE  IndInv'
<1> DEFINE R == [req[s] EXCEPT !.step = "answer", !.code = code, !.id = id]
<1>1. R \in Request /\ Held(R, entries)
  BY RecordsInRequest, AnsweredHolds
<1>2. req' = [req EXCEPT ![s] = R]
  BY DEF Answer
<1>3. QED
  BY <1>1, <1>2, ReadStep

\* So does going on to look the key up again.
LEMMA RereadStep ==
  ASSUME IndInv, NEW s \in Slots, req[s] # Idle,
         Proceed(s, "reread"), UNCHANGED <<entries, lateEnds, World>>
  PROVE  IndInv'
<1> DEFINE R == [req[s] EXCEPT !.step = "reread"]
<1>1. R \in Request /\ R.step = "reread"
  BY RecordsInRequest DEF Request, Steps
<1>2. Held(R, entries)
  BY <1>1 DEF Held
<1>3. req' = [req EXCEPT ![s] = R]
  BY DEF Proceed
<1>4. QED
  BY <1>1, <1>2, <1>3, ReadStep

LEMMA BusyAt ==
  ASSUME NEW s \in Slots, NEW kind, NEW step, step # "idle", At(s, kind, step)
  PROVE  req[s] # Idle /\ req[s].step = step /\ req[s].ev.kind = kind
BY DEF At, Idle

LEMMA ClockInJudgeKeepsInv ==
  ASSUME IndInv, NEW s \in Slots, ClockInJudge(s)
  PROVE  IndInv'
<1> DEFINE ev == req[s].ev
           code == IF ev.emp # None /\ <<ev.emp, ev.user>> \notin active
                   THEN "NOT_MEMBER"
                   ELSE ValidateFix(ev, now, req[s].queued, AnchorsAtClockIn(ev.emp))
           R == [req[s] EXCEPT !.step = "write", !.age = now - ev.at]
<1>1. req[s] # Idle /\ req[s].step = "judge" /\ ev.kind = "in"
  BY BusyAt DEF ClockInJudge
<1>2. req[s] \in Request /\ ev \in Event
  BY <1>1, RecordsInRequest
<1>3. now \in 0 .. MaxNow /\ ev.at \in Nat /\ ev.quality \in Quality
  BY <1>2 DEF IndInv, TypeOK, Event
<1>4. code \in Codes
  BY VerdictIsCode DEF Codes, Refusals, FixCodes, ValidateFix
<1>5. CASE code = "OK"
  <2>1. ev.at \in Times
    BY <1>3, <1>5, VerdictOK DEF ValidateFix
  <2>2. R \in Request
    <3>1. now - ev.at \in Int
      BY <1>3, BoundAssumption
    <3>2. "write" \in Steps \cup {"open"}
      BY DEF Steps
    <3> HIDE DEF ev
    <3>3. QED
      BY <1>2, <3>1, <3>2 DEF Request
  <2>3. R.step = "write" /\ R.ev = ev
    BY <1>2 DEF Request
  <2>4. Held(R, entries)
    BY <2>1, <2>3, <1>1 DEF Held
  <2>5. QED
    BY <1>5, <2>2, <2>4, ReadStep DEF ClockInJudge
<1>6. CASE code # "OK"
  BY <1>1, <1>4, <1>6, AnswerStep DEF ClockInJudge
<1>7. QED
  BY <1>5, <1>6

LEMMA ClockInRereadKeepsInv ==
  ASSUME IndInv, NEW s \in Slots, ClockInReread(s)
  PROVE  IndInv'
<1>1. req[s] # Idle
  BY BusyAt DEF ClockInReread
<1>2. \A i \in ByClientID(req[s].ev.user, req[s].ev.key) : i \in Nat
  BY DEF ByClientID, IndInv, TypeOK
<1>3. {"OK", "OPEN_ENTRY_EXISTS"} \subseteq Codes /\ 0 \in Nat
  BY DEF Codes, Refusals, Conflicts
<1>4. QED
  BY <1>1, <1>2, <1>3, AnswerStep DEF ClockInReread

LEMMA ClockInInsertKeepsInv ==
  ASSUME IndInv, NEW s \in Slots, ClockInInsert(s)
  PROVE  IndInv'
<1> DEFINE ev == req[s].ev
           fl == BackdatedFlags(req[s].queued, req[s].age)
           e  == NewEntry(ev, fl)
           R  == [req[s] EXCEPT !.step = "answer", !.code = "CREATED", !.id = Len(entries) + 1]
<1>1. req[s] # Idle /\ req[s].step = "write" /\ ev.kind = "in"
  BY BusyAt DEF ClockInInsert
<1>2. req[s] \in Request /\ ev \in Event
  BY <1>1, RecordsInRequest
<1>3. CASE DuplicateKey(ev.user, ev.key)
  BY <1>1, <1>3, RereadStep DEF ClockInInsert
<1>4. CASE ~DuplicateKey(ev.user, ev.key)
  <2>1. entries \in Seq(Entry) /\ Len(entries) \in Nat
    BY DEF IndInv, TypeOK
  <2>2. e \in Entry
    BY <1>2 DEF NewEntry, Entry, Event, BackdatedFlags, Flags
  <2>3. entries' = Append(entries, e) /\ req' = [req EXCEPT ![s] = R]
    BY <1>4 DEF ClockInInsert, Answer
  <2>4. entries' \in Seq(Entry) /\ DOMAIN entries' = 1 .. Len(entries) + 1
    BY <2>1, <2>2, <2>3
  <2>5. Later(entries, entries')
    <3> HIDE DEF e
    <3>1. \A i \in DOMAIN entries : entries'[i] = entries[i]
      BY <2>1, <2>2, <2>3
    <3>2. DOMAIN entries \subseteq DOMAIN entries'
      BY <2>1, <2>4
    <3>3. QED
      BY <3>1, <3>2 DEF Later
  <2>6. "CREATED" \in Codes /\ Len(entries) + 1 \in Nat
    BY <2>1 DEF Codes
  <2>7. R \in Request /\ Held(R, entries')
    BY <1>2, <2>6, AnsweredHolds
  <2>8. lateEnds' \subseteq (DOMAIN entries') \X {"in", "out"}
    BY <1>4, <2>1, <2>4 DEF ClockInInsert, RecordLate, IndInv, TypeOK
  <2>9. QED
    BY <2>3, <2>4, <2>5, <2>7, <2>8, SlotStep DEF ClockInInsert
<1>5. QED
  BY <1>3, <1>4
-----------------------------------------------------------------------------
(* Clock-out *)

LEMMA ClockOutKeepsInv ==
  ASSUME IndInv, NEW s \in Slots, NEW ev \in Events, NEW queued \in BOOLEAN,
         ClockOut(s, ev, queued)
  PROVE  IndInv'
<1>1. CASE \E i \in ByCloseClientID(ev.user, ev.key) : BeginAnswered(s, ev, queued, "OK", i)
  <2>1. PICK i \in ByCloseClientID(ev.user, ev.key) : BeginAnswered(s, ev, queued, "OK", i)
    BY <1>1
  <2>2. i \in Nat
    BY DEF ByCloseClientID, IndInv, TypeOK
  <2> DEFINE R == [step |-> "answer", ev |-> ev, queued |-> queued, id |-> i, emp |-> None,
                   age |-> 0, verified |-> FALSE, code |-> "OK"]
  <2>3. R \in Request /\ Held(R, entries)
    BY <2>2 DEF Request, Steps, Codes, Held
  <2>4. QED
    BY <2>1, <2>3, ReadStep DEF BeginAnswered, ClockOut
<1>2. CASE Begin(s, ev, queued, "open")
  <2> DEFINE R == [step |-> "open", ev |-> ev, queued |-> queued, id |-> 0, emp |-> None,
                   age |-> 0, verified |-> FALSE, code |-> ""]
  <2>1. R \in Request /\ Held(R, entries)
    BY DEF Request, Steps, Codes, Held, ClockOut
  <2>2. QED
    BY <1>2, <2>1, ReadStep DEF Begin, ClockOut
<1>3. QED
  BY <1>1, <1>2 DEF ClockOut

LEMMA ClockOutOpenKeepsInv ==
  ASSUME IndInv, NEW s \in Slots, ClockOutOpen(s)
  PROVE  IndInv'
<1> DEFINE ev == req[s].ev
<1>1. req[s] # Idle /\ req[s].step = "open" /\ ev.kind = "out"
  BY BusyAt DEF ClockOutOpen
<1>2. req[s] \in Request /\ ev \in Event
  BY <1>1, RecordsInRequest
<1>3. CASE Proceed(s, "reread")
  BY <1>1, <1>3, RereadStep DEF ClockOutOpen
<1>4. ASSUME NEW i \in OpenEntry(ev.user),
             IF ev.at > entries[i].inAt
             THEN req' = [req EXCEPT ![s] = [@ EXCEPT !.step = "judge", !.id = i,
                                               !.emp = entries[i].emp]]
             ELSE Answer(s, "INVALID", 0)
      PROVE  IndInv'
  <2>1. i \in DOMAIN entries /\ i \in Nat /\ entries[i].user = ev.user
    BY DEF OpenEntry, IndInv, TypeOK
  <2>2. entries[i].emp \in Employers \cup {None}
    <3>1. entries[i] \in Entry
      BY <2>1, ElementOfSeq DEF IndInv, TypeOK
    <3>2. QED
      BY <3>1 DEF Entry
  <2>3. CASE ev.at > entries[i].inAt
    <3> DEFINE R == [req[s] EXCEPT !.step = "judge", !.id = i, !.emp = entries[i].emp]
    <3>1. R \in Request
      BY <1>2, <2>1, <2>2 DEF Request, Steps
    <3>2. R.step = "judge" /\ R.ev = ev /\ R.id = i /\ R.emp = entries[i].emp
      BY <1>2 DEF Request
    <3>3. Held(R, entries)
      BY <1>1, <2>1, <2>3, <3>2 DEF Held
    <3>4. QED
      BY <1>4, <2>3, <3>1, <3>3, ReadStep DEF ClockOutOpen
  <2>4. CASE ~(ev.at > entries[i].inAt)
    <3>1. "INVALID" \in Codes /\ 0 \in Nat
      BY DEF Codes, Refusals
    <3>2. QED
      BY <1>1, <1>4, <2>4, <3>1, AnswerStep DEF ClockOutOpen
  <2>5. QED
    BY <2>3, <2>4
<1>5. QED
  BY <1>3, <1>4 DEF ClockOutOpen

LEMMA ClockOutJudgeKeepsInv ==
  ASSUME IndInv, NEW s \in Slots, ClockOutJudge(s)
  PROVE  IndInv'
<1> DEFINE ev == req[s].ev
           centres == AnchorsAtClose(req[s].emp, entries[req[s].id].inLoc)
           code == ValidateClose(ev, now, req[s].queued, centres)
           R == [req[s] EXCEPT !.step = "write", !.age = now - ev.at]
<1>1. req[s] # Idle /\ req[s].step = "judge" /\ ev.kind = "out"
  BY BusyAt DEF ClockOutJudge
<1>2. req[s] \in Request /\ ev \in Event /\ Held(req[s], entries)
  BY <1>1, RecordsInRequest
<1>3. now \in 0 .. MaxNow /\ ev.at \in Nat /\ ev.quality \in Quality
  BY <1>2 DEF IndInv, TypeOK, Event
<1>4. code \in Codes
  BY VerdictIsCode DEF Codes, Refusals, FixCodes, ValidateClose
<1>5. CASE code = "OK"
  <2>1. ev.at \in Times /\ \A a \in centres : WithinAnchor(ev.loc, a)
    BY <1>3, <1>5, VerdictOK DEF ValidateClose
  <2>2. R \in Request
    <3>1. now - ev.at \in Int
      BY <1>3, BoundAssumption
    <3>2. "write" \in Steps \cup {"open"}
      BY DEF Steps
    <3> HIDE DEF ev
    <3>3. QED
      BY <1>2, <3>1, <3>2 DEF Request
  <2>3. R.step = "write" /\ R.ev = ev /\ R.id = req[s].id /\ R.emp = req[s].emp
    BY <1>2 DEF Request
  <2>4. req[s].emp = None => <<ev.loc, entries[req[s].id].inLoc>> \in Near
    BY <2>1 DEF AnchorsAtClose, WithinAnchor
  <2>5. Held(R, entries)
    BY <2>1, <2>3, <2>4, <1>1, <1>2 DEF Held
  <2>6. QED
    BY <1>5, <2>2, <2>5, ReadStep DEF ClockOutJudge
<1>6. CASE code # "OK"
  BY <1>1, <1>4, <1>6, AnswerStep DEF ClockOutJudge
<1>7. QED
  BY <1>5, <1>6

LEMMA ClockOutRereadKeepsInv ==
  ASSUME IndInv, NEW s \in Slots, ClockOutReread(s)
  PROVE  IndInv'
<1>1. req[s] # Idle
  BY BusyAt DEF ClockOutReread
<1>2. \A i \in ByCloseClientID(req[s].ev.user, req[s].ev.key) : i \in Nat
  BY DEF ByCloseClientID, IndInv, TypeOK
<1>3. {"OK", "NO_OPEN_ENTRY"} \subseteq Codes /\ 0 \in Nat
  BY DEF Codes, Refusals, Conflicts
<1>4. QED
  BY <1>1, <1>2, <1>3, AnswerStep DEF ClockOutReread

\* Replacing one entry by a typed one that keeps what handlers rely on.
LEMMA UpdateEntry ==
  ASSUME IndInv, NEW i \in DOMAIN entries, NEW e \in Entry,
         entries' = [entries EXCEPT ![i] = e],
         e.user = entries[i].user, e.key = entries[i].key,
         e.inAt = entries[i].inAt, e.inLoc = entries[i].inLoc,
         entries[i].status = "closed" => e.status = "closed",
         e.status = "open" => e.emp = entries[i].emp
  PROVE  /\ entries' \in Seq(Entry)
         /\ DOMAIN entries' = DOMAIN entries
         /\ Later(entries, entries')
<1>1. entries \in Seq(Entry)
  BY DEF IndInv, TypeOK
<1>2. entries' \in Seq(Entry) /\ DOMAIN entries' = DOMAIN entries
  BY <1>1
<1>3. \A j \in DOMAIN entries : entries'[j] = IF j = i THEN e ELSE entries[j]
  BY <1>1
<1>4. Later(entries, entries')
  BY <1>2, <1>3 DEF Later
<1>5. QED
  BY <1>2, <1>4

LEMMA ClockOutUpdateKeepsInv ==
  ASSUME IndInv, NEW s \in Slots, ClockOutUpdate(s)
  PROVE  IndInv'
<1> DEFINE ev == req[s].ev
           i  == req[s].id
           fl == BackdatedFlags(req[s].queued, req[s].age)
           e  == ClosedEntry(entries[i], ev, fl)
           R  == [req[s] EXCEPT !.step = "answer", !.code = "OK", !.id = i]
<1>1. req[s] # Idle /\ req[s].step = "write" /\ ev.kind = "out"
  BY BusyAt DEF ClockOutUpdate
<1>2. req[s] \in Request /\ ev \in Event /\ Held(req[s], entries)
  BY <1>1, RecordsInRequest
<1>3. CASE entries[i].status # "open"
  BY <1>1, <1>3, RereadStep DEF ClockOutUpdate
<1>4. CASE entries[i].status = "open"
  <2>1. i \in DOMAIN entries /\ entries[i] \in Entry /\ i \in Nat
    <3>1. i \in DOMAIN entries
      BY <1>1, <1>2 DEF Held
    <3>2. QED
      BY <3>1, ElementOfSeq DEF IndInv, TypeOK
  <2>2. e \in Entry /\ fl \subseteq Flags
    BY <1>2, <2>1 DEF ClosedEntry, Entry, Event, BackdatedFlags, Flags
  <2>3. /\ e.user = entries[i].user /\ e.key = entries[i].key
        /\ e.inAt = entries[i].inAt /\ e.inLoc = entries[i].inLoc
        /\ e.status = "closed"
    BY <2>1 DEF ClosedEntry, Entry
  <2>4. entries' = [entries EXCEPT ![i] = e] /\ req' = [req EXCEPT ![s] = R]
    BY <1>4 DEF ClockOutUpdate, Answer
  <2>5. /\ entries' \in Seq(Entry) /\ DOMAIN entries' = DOMAIN entries
        /\ Later(entries, entries')
    <3> HIDE DEF e
    <3>1. QED
      BY <2>1, <2>2, <2>3, <2>4, UpdateEntry
  <2>6. "OK" \in Codes
    BY DEF Codes
  <2>7. R \in Request /\ Held(R, entries')
    BY <1>2, <2>1, <2>6, AnsweredHolds
  <2>8. lateEnds' \subseteq (DOMAIN entries') \X {"in", "out"}
    BY <1>4, <2>1, <2>5 DEF ClockOutUpdate, RecordLate, IndInv, TypeOK
  <2>9. QED
    BY <1>4, <2>4, <2>5, <2>7, <2>8, SlotStep DEF ClockOutUpdate
<1>5. QED
  BY <1>3, <1>4
-----------------------------------------------------------------------------
(* Assigning an employer *)

LEMMA AssignKeepsInv ==
  ASSUME IndInv, NEW s \in Slots, NEW ev \in Events, NEW i \in DOMAIN entries,
         Assign(s, ev, i)
  PROVE  IndInv'
<1>1. ev.kind = "assign" /\ i \in Nat
  <2>1. ev.kind = "assign"
    BY DEF Assign
  <2>2. entries \in Seq(Entry)
    BY DEF IndInv, TypeOK
  <2>3. QED
    BY <2>1, <2>2
<1>2. AssignRefusal(ev, entries[i]) \in {"OK", "NOT_FOUND", "INVALID"}
  BY DEF AssignRefusal
<1>3. CASE AssignRefusal(ev, entries[i]) = "OK"
  <2> DEFINE R == [step |-> "judge", ev |-> ev, queued |-> FALSE, id |-> i, emp |-> None,
                   age |-> 0, verified |-> FALSE, code |-> ""]
  <2>1. entries[i].user = ev.user /\ entries[i].status = "closed"
    BY <1>3 DEF AssignRefusal
  <2>2. R \in Request
    BY <1>1 DEF Request, Steps, Codes
  <2>3. Held(R, entries)
    BY <1>1, <2>1 DEF Held
  <2>4. QED
    BY <1>3, <2>2, <2>3, ReadStep DEF Assign
<1>4. CASE AssignRefusal(ev, entries[i]) # "OK"
  <2> DEFINE code == AssignRefusal(ev, entries[i])
             R == [step |-> "answer", ev |-> ev, queued |-> FALSE, id |-> 0, emp |-> None,
                   age |-> 0, verified |-> FALSE, code |-> code]
  <2>1. code \in Codes
    BY <1>2 DEF Codes, Refusals
  <2>2. R \in Request /\ Held(R, entries)
    BY <2>1 DEF Request, Steps, Held
  <2>3. QED
    BY <1>4, <2>2, ReadStep DEF Assign, BeginAnswered
<1>5. QED
  BY <1>3, <1>4

LEMMA AssignJudgeKeepsInv ==
  ASSUME IndInv, NEW s \in Slots, AssignJudge(s)
  PROVE  IndInv'
<1> DEFINE ev == req[s].ev
           v == OnSite(entries[req[s].id], anchor[ev.emp])
           R == [req[s] EXCEPT !.step = "write", !.verified = v]
<1>1. req[s] # Idle /\ req[s].step = "judge" /\ ev.kind = "assign"
  BY BusyAt DEF AssignJudge
<1>2. req[s] \in Request /\ ev \in Event /\ Held(req[s], entries)
  BY <1>1, RecordsInRequest
<1>3. CASE <<ev.emp, ev.user>> \in active
  <2>1. v \in BOOLEAN
    BY DEF OnSite, WithinAnchor
  <2>2. R \in Request
    <3> HIDE DEF v
    <3>1. QED
      BY <1>2, <2>1 DEF Request, Steps
  <2>3. R.step = "write" /\ R.ev = ev /\ R.id = req[s].id
    BY <1>2 DEF Request
  <2>4. Held(R, entries)
    BY <2>3, <1>1, <1>2 DEF Held
  <2>5. QED
    BY <1>3, <2>2, <2>4, ReadStep DEF AssignJudge
<1>4. CASE <<ev.emp, ev.user>> \notin active
  <2>1. "NOT_MEMBER" \in Codes /\ 0 \in Nat
    BY DEF Codes, Refusals
  <2>2. QED
    BY <1>1, <1>4, <2>1, AnswerStep DEF AssignJudge
<1>5. QED
  BY <1>3, <1>4

LEMMA AssignUpdateKeepsInv ==
  ASSUME IndInv, NEW s \in Slots, AssignUpdate(s)
  PROVE  IndInv'
<1> DEFINE ev == req[s].ev
           i  == req[s].id
           e  == [entries[i] EXCEPT !.emp = ev.emp, !.verified = req[s].verified]
           R  == [req[s] EXCEPT !.step = "answer", !.code = "OK", !.id = i]
<1>1. req[s] # Idle /\ req[s].step = "write" /\ ev.kind = "assign"
  BY BusyAt DEF AssignUpdate
<1>2. req[s] \in Request /\ ev \in Event /\ Held(req[s], entries)
  BY <1>1, RecordsInRequest
<1>3. CASE entries[i].emp # None
  <2>1. "INVALID" \in Codes /\ 0 \in Nat
    BY DEF Codes, Refusals
  <2>2. QED
    BY <1>1, <1>3, <2>1, AnswerStep DEF AssignUpdate
<1>4. CASE entries[i].emp = None
  <2>1. i \in DOMAIN entries /\ entries[i] \in Entry /\ i \in Nat
    <3>1. i \in DOMAIN entries
      BY <1>1, <1>2 DEF Held
    <3>2. QED
      BY <3>1, ElementOfSeq DEF IndInv, TypeOK
  <2>2. entries[i].status = "closed"
    BY <1>1, <1>2 DEF Held
  <2>3. ev.emp \in Employers \cup {None} /\ req[s].verified \in BOOLEAN
    BY <1>2 DEF Event, Request
  <2>4. e \in Entry
    BY <2>1, <2>3 DEF Entry
  <2>5. /\ e.user = entries[i].user /\ e.key = entries[i].key
        /\ e.inAt = entries[i].inAt /\ e.inLoc = entries[i].inLoc
        /\ e.status = "closed"
    BY <2>1, <2>2 DEF Entry
  <2>6. entries' = [entries EXCEPT ![i] = e] /\ req' = [req EXCEPT ![s] = R]
    BY <1>4 DEF AssignUpdate, Answer
  <2>7. /\ entries' \in Seq(Entry) /\ DOMAIN entries' = DOMAIN entries
        /\ Later(entries, entries')
    <3> HIDE DEF e
    <3>1. QED
      BY <2>1, <2>4, <2>5, <2>6, UpdateEntry
  <2>8. R \in Request /\ Held(R, entries')
    <3>1. "OK" \in Codes
      BY DEF Codes
    <3>2. QED
      BY <1>2, <2>1, <3>1, AnsweredHolds
  <2>9. lateEnds' \subseteq (DOMAIN entries') \X {"in", "out"}
    BY <2>7 DEF AssignUpdate, IndInv, TypeOK
  <2>10. QED
    BY <2>6, <2>7, <2>8, <2>9, SlotStep DEF AssignUpdate
<1>5. QED
  BY <1>3, <1>4
-----------------------------------------------------------------------------
(* The end of a request, and the environment *)

LEMMA FreedKeepsInv ==
  ASSUME IndInv, NEW s \in Slots, Reply(s) \/ Fail(s)
  PROVE  IndInv'
<1>1. Held(Idle, entries)
  BY DEF Held, Idle
<1>2. QED
  BY <1>1, ReadStep DEF Reply, Fail

LEMMA EnvironmentKeepsInv ==
  ASSUME IndInv, Environment
  PROVE  IndInv'
<1>1. ASSUME UNCHANGED <<entries, req, lateEnds>>, TypeOK' PROVE IndInv'
  BY <1>1 DEF IndInv, HeldOK
<1>2. CASE Tick
  BY <1>1, <1>2, BoundAssumption DEF Tick, IndInv, TypeOK
<1>3. ASSUME NEW e \in Employers, NEW u \in Users, ChangeMembership(e, u)
      PROVE  IndInv'
  BY <1>1, <1>3 DEF ChangeMembership, IndInv, TypeOK
<1>4. ASSUME NEW e \in Employers, NEW l \in Locs, MoveAnchor(e, l)
      PROVE  IndInv'
  BY <1>1, <1>4 DEF MoveAnchor, IndInv, TypeOK
<1>5. ASSUME NEW i \in DOMAIN entries, FlagSpeed(i)
      PROVE  IndInv'
  <2> DEFINE e == Flagged(entries[i], "speed_anomaly")
  <2>1. entries[i] \in Entry
    BY ElementOfSeq DEF IndInv, TypeOK
  <2>2. e \in Entry
    BY <2>1 DEF Entry, Flags, Flagged
  <2>3. /\ e.user = entries[i].user /\ e.key = entries[i].key
        /\ e.inAt = entries[i].inAt /\ e.inLoc = entries[i].inLoc
        /\ e.status = entries[i].status /\ e.emp = entries[i].emp
    BY <2>1 DEF Entry, Flagged
  <2>4. entries' = [entries EXCEPT ![i] = e]
    BY <1>5 DEF FlagSpeed
  <2>5. /\ entries' \in Seq(Entry) /\ DOMAIN entries' = DOMAIN entries
        /\ Later(entries, entries')
    <3> HIDE DEF e
    <3>1. QED
      BY <2>2, <2>3, <2>4, UpdateEntry
  <2>6. TypeOK'
    BY <1>5, <2>5 DEF FlagSpeed, World, IndInv, TypeOK
  <2>7. ASSUME NEW t \in Slots PROVE Held(req'[t], entries')
    <3>1. req'[t] = req[t] /\ req[t] \in Request \cup {Idle} /\ Held(req[t], entries)
      BY <1>5 DEF FlagSpeed, IndInv, TypeOK, HeldOK
    <3>2. /\ \A j \in DOMAIN entries : entries[j].status \in {"open", "closed"}
          /\ \A j \in DOMAIN entries' : entries'[j].status \in {"open", "closed"}
      BY <2>5, EntryStatus DEF IndInv, TypeOK
    <3>3. QED
      BY <2>5, <3>1, <3>2, HeldStable
  <2>8. QED
    BY <2>6, <2>7 DEF IndInv, HeldOK
<1>6. QED
  BY <1>2, <1>3, <1>4, <1>5 DEF Environment
-----------------------------------------------------------------------------
LEMMA InitInv == Init => IndInv
<1> SUFFICES ASSUME Init PROVE IndInv
  OBVIOUS
<1>1. TypeOK
  BY BoundAssumption DEF Init, TypeOK
<1>2. HeldOK
  BY DEF Init, HeldOK, Held, Idle
<1>3. QED
  BY <1>1, <1>2 DEF IndInv

LEMMA NextInv == IndInv /\ [Next]_vars => IndInv'
<1> SUFFICES ASSUME IndInv, [Next]_vars PROVE IndInv'
  OBVIOUS
<1>1. CASE UNCHANGED vars
  BY <1>1 DEF vars, IndInv, TypeOK, HeldOK
<1>2. CASE Environment
  BY <1>2, EnvironmentKeepsInv
<1>3. ASSUME NEW s \in Slots, Serve(s) PROVE IndInv'
  <2>1. ASSUME NEW ev \in Events, NEW q \in BOOLEAN, ClockIn(s, ev, q) \/ ClockOut(s, ev, q)
        PROVE  IndInv'
    BY <2>1, ClockInKeepsInv, ClockOutKeepsInv
  <2>2. ASSUME NEW ev \in Events, NEW i \in DOMAIN entries, Assign(s, ev, i) PROVE IndInv'
    BY <2>2, AssignKeepsInv
  <2>3. CASE ClockInJudge(s) \/ ClockInInsert(s) \/ ClockInReread(s)
    BY <2>3, ClockInJudgeKeepsInv, ClockInInsertKeepsInv, ClockInRereadKeepsInv
  <2>4. CASE ClockOutOpen(s) \/ ClockOutJudge(s) \/ ClockOutUpdate(s) \/ ClockOutReread(s)
    BY <2>4, ClockOutOpenKeepsInv, ClockOutJudgeKeepsInv, ClockOutUpdateKeepsInv,
       ClockOutRereadKeepsInv
  <2>5. CASE AssignJudge(s) \/ AssignUpdate(s)
    BY <2>5, AssignJudgeKeepsInv, AssignUpdateKeepsInv
  <2>6. CASE Reply(s) \/ Fail(s)
    BY <2>6, FreedKeepsInv
  <2>7. QED
    BY <1>3, <2>1, <2>2, <2>3, <2>4, <2>5, <2>6 DEF Serve
<1>4. QED
  BY <1>1, <1>2, <1>3 DEF Next

\* The collection and the requests in flight keep their shape, and what a
\* handler read stays true until it writes.
THEOREM TypeCorrect == Spec => [](TypeOK /\ HeldOK)
<1>1. Spec => []IndInv
  BY InitInv, NextInv, PTL DEF Spec
<1>2. IndInv => TypeOK /\ HeldOK
  BY DEF IndInv
<1>3. QED
  BY <1>1, <1>2, PTL
-----------------------------------------------------------------------------
(* TimeEntries implements ShiftLedger *)

LEMMA InsertOpens ==
  ASSUME IndInv, NEW s \in Slots, ClockInInsert(s)
  PROVE  [Ledger!Next]_entries
<1> DEFINE ev == req[s].ev
           fl == BackdatedFlags(req[s].queued, req[s].age)
<1>1. req[s] # Idle /\ req[s].step = "write" /\ ev.kind = "in"
  BY BusyAt DEF ClockInInsert
<1>2. ev \in Event /\ Held(req[s], entries)
  BY <1>1, RecordsInRequest
<1>3. CASE DuplicateKey(ev.user, ev.key)
  BY <1>3 DEF ClockInInsert
<1>4. CASE ~DuplicateKey(ev.user, ev.key)
  <2>1. Ledger!MayOpen(ev.user, ev.key)
    BY <1>4 DEF DuplicateKey, ByClientID, OpenEntry, Ledger!MayOpen, Ledger!Running
  <2>2. Ledger!Open(ev.user, ev.key, ev.emp, ev.at, ev.loc, fl)
    BY <1>4 DEF ClockInInsert, NewEntry, Ledger!Open
  <2>3. /\ ev.user \in Users /\ ev.key \in Keys /\ ev.emp \in Employers \cup {None}
        /\ ev.loc \in Locs /\ fl \in Ledger!Backdating
    BY <1>2 DEF Event, BackdatedFlags, Ledger!Backdating
  <2>4. ev.at \in Times
    BY <1>1, <1>2 DEF Held
  <2> HIDE DEF ev, fl
  <2>5. QED
    BY <2>1, <2>2, <2>3, <2>4 DEF Ledger!Next
<1>5. QED
  BY <1>3, <1>4

LEMMA UpdateCloses ==
  ASSUME IndInv, NEW s \in Slots, ClockOutUpdate(s)
  PROVE  [Ledger!Next]_entries
<1> DEFINE ev == req[s].ev
           i  == req[s].id
           fl == BackdatedFlags(req[s].queued, req[s].age)
<1>1. req[s] # Idle /\ req[s].step = "write" /\ ev.kind = "out"
  BY BusyAt DEF ClockOutUpdate
<1>2. ev \in Event /\ Held(req[s], entries)
  BY <1>1, RecordsInRequest
<1>3. CASE entries[i].status # "open"
  BY <1>3 DEF ClockOutUpdate
<1>4. CASE entries[i].status = "open"
  <2>1. i \in Ledger!Running
    BY <1>1, <1>2, <1>4 DEF Held, Ledger!Running
  <2>2. ev.at > entries[i].inAt
    BY <1>1, <1>2 DEF Held
  <2>3. i \in Ledger!Personal => <<ev.loc, entries[i].inLoc>> \in Near
    BY <1>1, <1>2, <1>4 DEF Held, Ledger!Personal
  <2>4. entries' = [entries EXCEPT ![i] = Ledger!Closed(@, ev.key, ev.at, ev.loc, fl)]
    BY <1>4 DEF ClockOutUpdate, ClosedEntry, Ledger!Closed
  <2>5. Ledger!Close(i, ev.key, ev.at, ev.loc, fl)
    BY <2>2, <2>3, <2>4 DEF Ledger!Close
  <2>6. /\ ev.key \in Keys /\ ev.loc \in Locs /\ fl \in Ledger!Backdating
    BY <1>2 DEF Event, BackdatedFlags, Ledger!Backdating
  <2>7. ev.at \in Times
    BY <1>1, <1>2 DEF Held
  <2> HIDE DEF ev, fl, i
  <2>8. QED
    BY <2>1, <2>5, <2>6, <2>7 DEF Ledger!Next
<1>5. QED
  BY <1>3, <1>4

LEMMA AssignBooks ==
  ASSUME IndInv, NEW s \in Slots, AssignUpdate(s)
  PROVE  [Ledger!Next]_entries
<1> DEFINE ev == req[s].ev
           i  == req[s].id
<1>1. req[s] # Idle /\ req[s].step = "write" /\ ev.kind = "assign"
  BY BusyAt DEF AssignUpdate
<1>2. req[s] \in Request /\ ev \in Events /\ ev \in Event /\ Held(req[s], entries)
  BY <1>1, RecordsInRequest
<1>3. CASE entries[i].emp # None
  BY <1>3 DEF AssignUpdate
<1>4. CASE entries[i].emp = None
  <2>1. i \in Ledger!Personal \ Ledger!Running
    BY <1>1, <1>2, <1>4 DEF Held, Ledger!Personal, Ledger!Running
  <2>2. ev.emp \in Employers /\ req[s].verified \in BOOLEAN
    BY <1>1, <1>2, EventsAssumption DEF Event, Request
  <2>3. Ledger!Book(i, ev.emp, req[s].verified)
    BY <1>4 DEF AssignUpdate, Ledger!Book
  <2> HIDE DEF ev, i
  <2>4. QED
    BY <2>1, <2>2, <2>3 DEF Ledger!Next
<1>5. QED
  BY <1>3, <1>4

LEMMA FlagMarks ==
  ASSUME NEW i \in DOMAIN entries, FlagSpeed(i)
  PROVE  Ledger!Next
<1>1. Ledger!Mark(i, "speed_anomaly") /\ "speed_anomaly" \in Ledger!Flags
  BY DEF FlagSpeed, Flagged, Ledger!Mark, Ledger!Marked, Ledger!Flags
<1>2. QED
  BY <1>1 DEF Ledger!Next

LEMMA StepImplements == IndInv /\ [Next]_vars => [Ledger!Next]_entries
<1> SUFFICES ASSUME IndInv, [Next]_vars PROVE [Ledger!Next]_entries
  OBVIOUS
<1>1. CASE UNCHANGED vars
  BY <1>1 DEF vars
<1>2. CASE Environment
  BY <1>2, FlagMarks DEF Environment, Tick, ChangeMembership, MoveAnchor
<1>3. ASSUME NEW s \in Slots, Serve(s) PROVE [Ledger!Next]_entries
  <2>1. ASSUME NEW ev \in Events, NEW q \in BOOLEAN, ClockIn(s, ev, q) \/ ClockOut(s, ev, q)
        PROVE  entries' = entries
    BY <2>1 DEF ClockIn, ClockOut
  <2>2. ASSUME NEW ev \in Events, NEW i \in DOMAIN entries, Assign(s, ev, i)
        PROVE  entries' = entries
    BY <2>2 DEF Assign
  <2>3. CASE ClockInJudge(s) \/ ClockInReread(s)
    BY <2>3 DEF ClockInJudge, ClockInReread
  <2>4. CASE ClockOutOpen(s) \/ ClockOutJudge(s) \/ ClockOutReread(s)
    BY <2>4 DEF ClockOutOpen, ClockOutJudge, ClockOutReread
  <2>5. CASE AssignJudge(s) \/ Reply(s) \/ Fail(s)
    BY <2>5 DEF AssignJudge, Reply, Fail
  <2>6. QED
    BY <1>3, <2>1, <2>2, <2>3, <2>4, <2>5, InsertOpens, UpdateCloses, AssignBooks DEF Serve
<1>4. QED
  BY <1>1, <1>2, <1>3 DEF Next

\* However requests race, are retried, fail half way or arrive out of order,
\* the collection behaves like the atomic ledger: each write is legal at the
\* instant it is made although it was decided on earlier reads.
THEOREM TimeEntriesImplementShiftLedger == Spec => ImplementsShiftLedger
<1>1. Init => Ledger!Init
  BY DEF Init, Ledger!Init
<1>2. Spec => []IndInv
  BY InitInv, NextInv, PTL DEF Spec
<1>3. QED
  BY <1>1, <1>2, StepImplements, PTL DEF Spec, ImplementsShiftLedger, Ledger!Spec
-----------------------------------------------------------------------------
(* One running shift, and one shift for each clock-in key *)

Unique == OneOpenShift /\ RetryOpensOneShift

LEMMA LedgerStepUnique ==
  ASSUME TypeOK, Unique, [Ledger!Next]_entries
  PROVE  Unique'
<1>1. entries \in Seq(Entry)
  BY DEF TypeOK
<1>2. CASE entries' = entries
  BY <1>2 DEF Unique, OneOpenShift, RetryOpensOneShift
<1>3. ASSUME NEW u \in Users, NEW k \in Keys, NEW e, NEW t, NEW l, NEW fl,
             Ledger!MayOpen(u, k), Ledger!Open(u, k, e, t, l, fl)
      PROVE  Unique'
  <2> DEFINE n == [user |-> u, key |-> k, emp |-> e, status |-> "open",
                   verified |-> TRUE, flags |-> fl, inAt |-> t, inLoc |-> l,
                   closeKey |-> None, outAt |-> None, outLoc |-> None]
  <2>1. entries' = Append(entries, n)
    BY <1>3 DEF Ledger!Open
  <2>2. n.user = u /\ n.key = k /\ n.status = "open"
    OBVIOUS
  <2> HIDE DEF n
  <2>3. DOMAIN entries' = DOMAIN entries \cup {Len(entries) + 1}
    BY <1>1, <2>1
  <2>4. entries'[Len(entries) + 1] = n /\ \A i \in DOMAIN entries : entries'[i] = entries[i]
    BY <1>1, <2>1
  <2>5. \A i \in DOMAIN entries :
          entries[i].user = u => entries[i].status # "open" /\ entries[i].key # k
    BY <1>3 DEF Ledger!MayOpen, Ledger!Running
  <2>6. OneOpenShift'
    BY <2>2, <2>3, <2>4, <2>5 DEF Unique, OneOpenShift
  <2>7. RetryOpensOneShift'
    BY <2>2, <2>3, <2>4, <2>5 DEF Unique, RetryOpensOneShift
  <2>8. QED
    BY <2>6, <2>7 DEF Unique
<1>4. ASSUME NEW i \in DOMAIN entries, NEW e,
             entries' = [entries EXCEPT ![i] = e],
             e.user = entries[i].user, e.key = entries[i].key,
             e.status = "open" => entries[i].status = "open"
      PROVE  Unique'
  <2>1. DOMAIN entries' = DOMAIN entries
    BY <1>4
  <2>2. \A j \in DOMAIN entries :
          /\ entries'[j].user = entries[j].user /\ entries'[j].key = entries[j].key
          /\ entries'[j].status = "open" => entries[j].status = "open"
    BY <1>1, <1>4
  <2>3. QED
    BY <2>1, <2>2 DEF Unique, OneOpenShift, RetryOpensOneShift
<1>5. \A i \in DOMAIN entries : entries[i] \in Entry
  BY <1>1, ElementOfSeq
<1>6. ASSUME NEW i \in Ledger!Running, NEW k, NEW t, NEW l, NEW fl, Ledger!Close(i, k, t, l, fl)
      PROVE  Unique'
  <2> DEFINE e == Ledger!Closed(entries[i], k, t, l, fl)
  <2>1. i \in DOMAIN entries /\ entries' = [entries EXCEPT ![i] = e]
    BY <1>6 DEF Ledger!Close, Ledger!Running
  <2>2. e.user = entries[i].user /\ e.key = entries[i].key /\ e.status # "open"
    BY <1>5, <2>1 DEF Entry, Ledger!Closed
  <2> HIDE DEF e
  <2>3. QED
    BY <1>4, <2>1, <2>2
<1>7. ASSUME NEW i \in Ledger!Personal, NEW f, NEW v, Ledger!Book(i, f, v)
      PROVE  Unique'
  <2> DEFINE e == [entries[i] EXCEPT !.emp = f, !.verified = v]
  <2>1. i \in DOMAIN entries /\ entries' = [entries EXCEPT ![i] = e]
    BY <1>7 DEF Ledger!Book, Ledger!Personal
  <2>2. e.user = entries[i].user /\ e.key = entries[i].key /\ e.status = entries[i].status
    BY <1>5, <2>1 DEF Entry
  <2> HIDE DEF e
  <2>3. QED
    BY <1>4, <2>1, <2>2
<1>8. ASSUME NEW i \in DOMAIN entries, NEW f, Ledger!Mark(i, f)
      PROVE  Unique'
  <2> DEFINE e == Ledger!Marked(entries[i], f)
  <2>1. entries' = [entries EXCEPT ![i] = e]
    BY <1>8 DEF Ledger!Mark
  <2>2. e.user = entries[i].user /\ e.key = entries[i].key /\ e.status = entries[i].status
    BY <1>5 DEF Entry, Ledger!Marked
  <2> HIDE DEF e
  <2>3. QED
    BY <1>4, <2>1, <2>2
<1>9. QED
  BY <1>2, <1>3, <1>6, <1>7, <1>8 DEF Ledger!Next

\* A worker never has two shifts running, and a clock-in key never stands for
\* two shifts, for any number of racing and retried requests.
THEOREM OneShiftAtATime == Spec => [](OneOpenShift /\ RetryOpensOneShift)
<1>1. Init => Unique
  BY DEF Init, Unique, OneOpenShift, RetryOpensOneShift
<1>2. IndInv /\ Unique /\ [Next]_vars => Unique'
  BY StepImplements, LedgerStepUnique DEF IndInv
<1>3. Spec => []IndInv
  BY InitInv, NextInv, PTL DEF Spec
<1>4. Spec => []Unique
  BY <1>1, <1>2, <1>3, PTL DEF Spec
<1>5. QED
  BY <1>4, PTL DEF Unique
-----------------------------------------------------------------------------
(* A success is true, and stays true while the answer is on its way *)

Success == {"OK", "CREATED"}

\* No verdict is held before the answer; a success names the entry it is about.
Told(r, es) ==
  /\ r.step \in Steps \cup {"open"} /\ r.step # "answer" => r.code = ""
  /\ r # Idle /\ r.code \in Success =>
       /\ r.id \in DOMAIN es /\ es[r.id].user = r.ev.user
       /\ r.ev.kind = "in"  => es[r.id].key = r.ev.key
       /\ r.ev.kind = "out" => es[r.id].closeKey = r.ev.key /\ es[r.id].status = "closed"
       /\ r.ev.kind = "assign" => es[r.id].emp = r.ev.emp

ToldOK == \A s \in Slots : Told(req[s], entries)

\* What no step of the ledger takes back.
Kept(es, fs) ==
  \A i \in DOMAIN es :
    /\ i \in DOMAIN fs
    /\ fs[i].user = es[i].user /\ fs[i].key = es[i].key
    /\ es[i].status = "closed" => fs[i].status = "closed" /\ fs[i].closeKey = es[i].closeKey
    /\ es[i].emp # None => fs[i].emp = es[i].emp

LEMMA LedgerStepKeeps ==
  ASSUME TypeOK, [Ledger!Next]_entries
  PROVE  Kept(entries, entries')
<1>1. entries \in Seq(Entry) /\ \A i \in DOMAIN entries : entries[i] \in Entry
  BY ElementOfSeq DEF TypeOK
<1>2. CASE entries' = entries
  BY <1>2 DEF Kept
<1>3. ASSUME NEW e, entries' = Append(entries, e) PROVE Kept(entries, entries')
  <2>1. \A i \in DOMAIN entries : i \in DOMAIN entries' /\ entries'[i] = entries[i]
    BY <1>1, <1>3
  <2>2. QED
    BY <2>1 DEF Kept
<1>4. ASSUME NEW i \in DOMAIN entries, NEW e, entries' = [entries EXCEPT ![i] = e],
             e.user = entries[i].user, e.key = entries[i].key,
             entries[i].status = "closed" =>
               e.status = "closed" /\ e.closeKey = entries[i].closeKey,
             entries[i].emp # None => e.emp = entries[i].emp
      PROVE  Kept(entries, entries')
  <2>1. \A j \in DOMAIN entries :
          j \in DOMAIN entries' /\ entries'[j] = IF j = i THEN e ELSE entries[j]
    BY <1>1, <1>4
  <2>2. QED
    BY <1>4, <2>1 DEF Kept
<1>5. ASSUME NEW i \in Ledger!Running, NEW k, NEW t, NEW l, NEW fl, Ledger!Close(i, k, t, l, fl)
      PROVE  Kept(entries, entries')
  <2> DEFINE e == Ledger!Closed(entries[i], k, t, l, fl)
  <2>1. i \in DOMAIN entries /\ entries' = [entries EXCEPT ![i] = e] /\ entries[i].status = "open"
    BY <1>5 DEF Ledger!Close, Ledger!Running
  <2>2. e.user = entries[i].user /\ e.key = entries[i].key /\ e.emp = entries[i].emp
    BY <1>1, <2>1 DEF Entry, Ledger!Closed
  <2> HIDE DEF e
  <2>3. QED
    BY <1>4, <2>1, <2>2
<1>6. ASSUME NEW i \in Ledger!Personal, NEW f, NEW v, Ledger!Book(i, f, v)
      PROVE  Kept(entries, entries')
  <2> DEFINE e == [entries[i] EXCEPT !.emp = f, !.verified = v]
  <2>1. i \in DOMAIN entries /\ entries' = [entries EXCEPT ![i] = e] /\ entries[i].emp = None
    BY <1>6 DEF Ledger!Book, Ledger!Personal
  <2>2. /\ e.user = entries[i].user /\ e.key = entries[i].key
        /\ e.status = entries[i].status /\ e.closeKey = entries[i].closeKey
    BY <1>1, <2>1 DEF Entry
  <2> HIDE DEF e
  <2>3. QED
    BY <1>4, <2>1, <2>2
<1>7. ASSUME NEW i \in DOMAIN entries, NEW f, Ledger!Mark(i, f)
      PROVE  Kept(entries, entries')
  <2> DEFINE e == Ledger!Marked(entries[i], f)
  <2>1. entries' = [entries EXCEPT ![i] = e]
    BY <1>7 DEF Ledger!Mark
  <2>2. /\ e.user = entries[i].user /\ e.key = entries[i].key /\ e.emp = entries[i].emp
        /\ e.status = entries[i].status /\ e.closeKey = entries[i].closeKey
    BY <1>1 DEF Entry, Ledger!Marked
  <2> HIDE DEF e
  <2>3. QED
    BY <1>4, <2>1, <2>2
<1>8. QED
  BY <1>2, <1>3, <1>5, <1>6, <1>7 DEF Ledger!Next, Ledger!Open

LEMMA ToldStable ==
  ASSUME NEW r \in Request \cup {Idle}, NEW es, NEW fs, Told(r, es), Kept(es, fs),
         r # Idle => r.ev \in Events
  PROVE  Told(r, fs)
<1>1. \A ev \in Events : ev.kind = "assign" => ev.emp # None
  BY EventsAssumption
<1>2. QED
  BY <1>1 DEF Told, Kept

\* A step of slot s leaves the others' answers true, so its own is all to show.
LEMMA ToldStep ==
  ASSUME IndInv, ToldOK, Kept(entries, entries'), NEW s \in Slots, NEW R,
         req' = [req EXCEPT ![s] = R], Told(R, entries')
  PROVE  ToldOK'
<1>1. ASSUME NEW t \in Slots PROVE Told(req'[t], entries')
  <2>1. CASE t = s
    BY <2>1 DEF IndInv, TypeOK
  <2>2. CASE t # s
    <3>1. req'[t] = req[t] /\ req[t] \in Request \cup {Idle} /\ Told(req[t], entries)
      BY <2>2 DEF IndInv, TypeOK, ToldOK
    <3>2. req[t] # Idle => req[t].ev \in Events
      BY RecordsInRequest
    <3>3. QED
      BY <3>1, <3>2, ToldStable
  <2>3. QED
    BY <2>1, <2>2
<1>2. QED
  BY <1>1 DEF ToldOK

\* A handler that goes on has no verdict yet.
LEMMA SilentStep ==
  ASSUME IndInv, ToldOK, Kept(entries, entries'), NEW s \in Slots, NEW R,
         req' = [req EXCEPT ![s] = R], R = Idle \/ R.code \in Codes \ Success,
         R.step \in {"idle", "answer"} \/ R.code = ""
  PROVE  ToldOK'
<1>1. Told(R, entries')
  BY DEF Told, Idle, Steps
<1>2. QED
  BY <1>1, ToldStep

\* One of the handler's own steps before it answers.
LEMMA ProceedTells ==
  ASSUME IndInv, ToldOK, Kept(entries, entries'), NEW s \in Slots, NEW R,
         req[s] # Idle, req[s].step # "answer", R.code = req[s].code,
         req' = [req EXCEPT ![s] = R]
  PROVE  ToldOK'
<1>1. req[s].step \in Steps \cup {"open"} /\ Told(req[s], entries)
  BY RecordsInRequest DEF ToldOK, Request
<1>2. R.code = "" /\ "" \in Codes \ Success
  BY <1>1 DEF Told, Codes, Success
<1>3. QED
  BY <1>2, SilentStep

LEMMA RefusalTells ==
  ASSUME IndInv, ToldOK, Kept(entries, entries'), NEW s \in Slots, NEW id,
         req[s] # Idle, NEW code \in Codes \ Success, Answer(s, code, id)
  PROVE  ToldOK'
<1> DEFINE R == [req[s] EXCEPT !.step = "answer", !.code = code, !.id = id]
<1>1. R.step = "answer" /\ R.code = code
  BY RecordsInRequest DEF Request
<1>2. req' = [req EXCEPT ![s] = R]
  BY DEF Answer
<1> HIDE DEF R
<1>3. QED
  BY <1>1, <1>2, SilentStep

\* A success answered for entry i, which the step leaves as the answer says.
LEMMA SuccessTells ==
  ASSUME IndInv, ToldOK, Kept(entries, entries'), NEW s \in Slots,
         req[s] # Idle, NEW code \in Success, NEW i \in DOMAIN entries',
         Answer(s, code, i), NEW ev, ev = req[s].ev, NEW e, e = entries'[i],
         e.user = ev.user,
         ev.kind = "in" => e.key = ev.key,
         ev.kind = "out" => e.closeKey = ev.key /\ e.status = "closed",
         ev.kind = "assign" => e.emp = ev.emp
  PROVE  ToldOK'
<1> DEFINE R == [req[s] EXCEPT !.step = "answer", !.code = code, !.id = i]
<1>1. R.step = "answer" /\ R.ev = ev /\ R.id = i
  BY RecordsInRequest DEF Request
<1>2. req' = [req EXCEPT ![s] = R]
  BY DEF Answer
<1> HIDE DEF R
<1>3. Told(R, entries')
  BY <1>1 DEF Told
<1>4. QED
  BY <1>2, <1>3, ToldStep

\* A lookup that finds the key answers with the entry that carries it.
LEMMA LookupTells ==
  ASSUME IndInv, ToldOK, Kept(entries, entries'), entries' = entries, NEW s \in Slots,
         NEW ev \in Events, NEW queued \in BOOLEAN, NEW i,
         \/ ev.kind = "in"  /\ i \in ByClientID(ev.user, ev.key)
         \/ ev.kind = "out" /\ i \in ByCloseClientID(ev.user, ev.key),
         BeginAnswered(s, ev, queued, "OK", i)
  PROVE  ToldOK'
<1> DEFINE R == [step |-> "answer", ev |-> ev, queued |-> queued, id |-> i, emp |-> None,
                 age |-> 0, verified |-> FALSE, code |-> "OK"]
<1>1. Told(R, entries)
  BY DEF Told, ByClientID, ByCloseClientID
<1>2. QED
  BY <1>1, ToldStep DEF BeginAnswered

LEMMA BeginTells ==
  ASSUME IndInv, ToldOK, Kept(entries, entries'), NEW s \in Slots, NEW ev,
         NEW queued, NEW step, Begin(s, ev, queued, step)
  PROVE  ToldOK'
<1> DEFINE R == [step |-> step, ev |-> ev, queued |-> queued, id |-> 0, emp |-> None,
                 age |-> 0, verified |-> FALSE, code |-> ""]
<1>1. R.code \in Codes \ Success /\ R.code = ""
  BY DEF Codes, Success
<1>2. QED
  BY <1>1, SilentStep DEF Begin
-----------------------------------------------------------------------------
LEMMA ClockInTells ==
  ASSUME IndInv, ToldOK, Kept(entries, entries'), NEW s \in Slots,
         \/ \E ev \in Events, queued \in BOOLEAN : ClockIn(s, ev, queued)
         \/ ClockInJudge(s) \/ ClockInInsert(s) \/ ClockInReread(s)
  PROVE  ToldOK'
<1>1. ASSUME NEW ev \in Events, NEW queued \in BOOLEAN, ClockIn(s, ev, queued)
      PROVE  ToldOK'
  BY <1>1, LookupTells, BeginTells DEF ClockIn
<1>2. CASE ClockInJudge(s)
  <2> DEFINE ev == req[s].ev
             code == IF ev.emp # None /\ <<ev.emp, ev.user>> \notin active
                     THEN "NOT_MEMBER"
                     ELSE ValidateFix(ev, now, req[s].queued, AnchorsAtClockIn(ev.emp))
             R == [req[s] EXCEPT !.step = "write", !.age = now - ev.at]
  <2>1. req[s] # Idle /\ req[s].step = "judge"
    BY <1>2, BusyAt DEF ClockInJudge
  <2>2. R.code = req[s].code
    BY <2>1, RecordsInRequest DEF Request
  <2>3. code # "OK" => code \in Codes \ Success
    BY VerdictIsCode DEF Codes, Refusals, FixCodes, ValidateFix, Success
  <2>4. IF code = "OK" THEN req' = [req EXCEPT ![s] = R] ELSE Answer(s, code, 0)
    BY <1>2 DEF ClockInJudge
  <2> HIDE DEF code, R
  <2>5. QED
    BY <2>1, <2>2, <2>3, <2>4, ProceedTells, RefusalTells
<1>3. CASE ClockInInsert(s)
  <2> DEFINE ev == req[s].ev
             e == NewEntry(ev, BackdatedFlags(req[s].queued, req[s].age))
             i == Len(entries) + 1
  <2>1. req[s] # Idle /\ req[s].step = "write" /\ ev.kind = "in"
    BY <1>3, BusyAt DEF ClockInInsert
  <2>2. CASE Proceed(s, "reread")
    <3>1. [req[s] EXCEPT !.step = "reread"].code = req[s].code
      BY <2>1, RecordsInRequest DEF Request
    <3>2. QED
      BY <2>1, <2>2, <3>1, ProceedTells DEF Proceed
  <2>3. CASE entries' = Append(entries, e) /\ Answer(s, "CREATED", i)
    <3>1. e.user = ev.user /\ e.key = ev.key
      BY DEF NewEntry
    <3>2. i \in DOMAIN entries' /\ e = entries'[i]
      <4> HIDE DEF e
      <4>1. entries \in Seq(Entry)
        BY DEF IndInv, TypeOK
      <4>2. QED
        BY <2>3, <4>1
    <3> HIDE DEF e, i
    <3>3. QED
      BY <2>1, <2>3, <3>1, <3>2, SuccessTells DEF Success
  <2>4. QED
    BY <1>3, <2>2, <2>3 DEF ClockInInsert
<1>4. CASE ClockInReread(s)
  <2>1. req[s] # Idle /\ req[s].ev.kind = "in" /\ entries' = entries
    BY <1>4, BusyAt DEF ClockInReread
  <2>2. ASSUME NEW i \in ByClientID(req[s].ev.user, req[s].ev.key), Answer(s, "OK", i)
        PROVE  ToldOK'
    BY <2>1, <2>2, SuccessTells DEF ByClientID, Success
  <2>3. "OPEN_ENTRY_EXISTS" \in Codes \ Success
    BY DEF Codes, Refusals, Conflicts, Success
  <2>4. QED
    BY <1>4, <2>1, <2>2, <2>3, RefusalTells DEF ClockInReread
<1>5. QED
  BY <1>1, <1>2, <1>3, <1>4

LEMMA ClockOutTells ==
  ASSUME IndInv, ToldOK, Kept(entries, entries'), NEW s \in Slots,
         \/ \E ev \in Events, queued \in BOOLEAN : ClockOut(s, ev, queued)
         \/ ClockOutOpen(s) \/ ClockOutJudge(s) \/ ClockOutUpdate(s) \/ ClockOutReread(s)
  PROVE  ToldOK'
<1>1. ASSUME NEW ev \in Events, NEW queued \in BOOLEAN, ClockOut(s, ev, queued)
      PROVE  ToldOK'
  BY <1>1, LookupTells, BeginTells DEF ClockOut
<1>2. CASE ClockOutOpen(s)
  <2> DEFINE R(i) == [req[s] EXCEPT !.step = "judge", !.id = i, !.emp = entries[i].emp]
  <2>1. req[s] # Idle /\ req[s].step = "open"
    BY <1>2, BusyAt DEF ClockOutOpen
  <2>2. CASE Proceed(s, "reread")
    <3>1. [req[s] EXCEPT !.step = "reread"].code = req[s].code
      BY <2>1, RecordsInRequest DEF Request
    <3>2. QED
      BY <2>1, <2>2, <3>1, ProceedTells DEF Proceed
  <2>3. ASSUME NEW i \in OpenEntry(req[s].ev.user), req' = [req EXCEPT ![s] = R(i)]
        PROVE  ToldOK'
    <3>1. R(i).code = req[s].code
      BY <2>1, RecordsInRequest DEF Request
    <3> HIDE DEF R
    <3>2. QED
      BY <2>1, <2>3, <3>1, ProceedTells
  <2>4. CASE Answer(s, "INVALID", 0)
    <3>1. "INVALID" \in Codes \ Success
      BY DEF Codes, Refusals, Success
    <3>2. QED
      BY <2>1, <2>4, <3>1, RefusalTells
  <2>5. QED
    BY <1>2, <2>2, <2>3, <2>4 DEF ClockOutOpen
<1>3. CASE ClockOutJudge(s)
  <2> DEFINE ev == req[s].ev
             code == ValidateClose(ev, now, req[s].queued,
                       AnchorsAtClose(req[s].emp, entries[req[s].id].inLoc))
             R == [req[s] EXCEPT !.step = "write", !.age = now - ev.at]
  <2>1. req[s] # Idle /\ req[s].step = "judge"
    BY <1>3, BusyAt DEF ClockOutJudge
  <2>2. R.code = req[s].code
    BY <2>1, RecordsInRequest DEF Request
  <2>3. code # "OK" => code \in Codes \ Success
    BY VerdictIsCode DEF Codes, Refusals, FixCodes, ValidateClose, Success
  <2>4. IF code = "OK" THEN req' = [req EXCEPT ![s] = R] ELSE Answer(s, code, 0)
    BY <1>3 DEF ClockOutJudge
  <2> HIDE DEF code, R
  <2>5. QED
    BY <2>1, <2>2, <2>3, <2>4, ProceedTells, RefusalTells
<1>4. CASE ClockOutUpdate(s)
  <2> DEFINE ev == req[s].ev
             i  == req[s].id
             e  == ClosedEntry(entries[i], ev, BackdatedFlags(req[s].queued, req[s].age))
  <2>1. req[s] # Idle /\ req[s].step = "write" /\ ev.kind = "out"
    BY <1>4, BusyAt DEF ClockOutUpdate
  <2>2. i \in DOMAIN entries /\ entries[i].user = ev.user
    BY <2>1, RecordsInRequest DEF Held
  <2>3. CASE Proceed(s, "reread")
    <3>1. [req[s] EXCEPT !.step = "reread"].code = req[s].code
      BY <2>1, RecordsInRequest DEF Request
    <3>2. QED
      BY <2>1, <2>3, <3>1, ProceedTells DEF Proceed
  <2>4. CASE entries' = [entries EXCEPT ![i] = e] /\ Answer(s, "OK", i)
    <3>1. e.user = ev.user /\ e.closeKey = ev.key /\ e.status = "closed"
      <4>1. entries[i] \in Entry
        BY <2>2, ElementOfSeq DEF IndInv, TypeOK
      <4>2. QED
        BY <2>2, <4>1 DEF ClosedEntry, Entry
    <3>2. i \in DOMAIN entries' /\ e = entries'[i]
      BY <2>2, <2>4
    <3> HIDE DEF e, i
    <3>3. QED
      BY <2>1, <2>4, <3>1, <3>2, SuccessTells DEF Success
  <2>5. QED
    BY <1>4, <2>3, <2>4 DEF ClockOutUpdate
<1>5. CASE ClockOutReread(s)
  <2>1. req[s] # Idle /\ req[s].ev.kind = "out" /\ entries' = entries
    BY <1>5, BusyAt DEF ClockOutReread
  <2>2. ASSUME NEW i \in ByCloseClientID(req[s].ev.user, req[s].ev.key), Answer(s, "OK", i)
        PROVE  ToldOK'
    BY <2>1, <2>2, SuccessTells DEF ByCloseClientID, Success
  <2>3. "NO_OPEN_ENTRY" \in Codes \ Success
    BY DEF Codes, Refusals, Conflicts, Success
  <2>4. QED
    BY <1>5, <2>1, <2>2, <2>3, RefusalTells DEF ClockOutReread
<1>6. QED
  BY <1>1, <1>2, <1>3, <1>4, <1>5

LEMMA AssignTells ==
  ASSUME IndInv, ToldOK, Kept(entries, entries'), NEW s \in Slots,
         \/ \E ev \in Events, i \in DOMAIN entries : Assign(s, ev, i)
         \/ AssignJudge(s) \/ AssignUpdate(s)
  PROVE  ToldOK'
<1>1. ASSUME NEW ev \in Events, NEW i \in DOMAIN entries, Assign(s, ev, i) PROVE ToldOK'
  <2> DEFINE code == AssignRefusal(ev, entries[i])
             J == [step |-> "judge", ev |-> ev, queued |-> FALSE, id |-> i, emp |-> None,
                   age |-> 0, verified |-> FALSE, code |-> ""]
             A == [step |-> "answer", ev |-> ev, queued |-> FALSE, id |-> 0, emp |-> None,
                   age |-> 0, verified |-> FALSE, code |-> code]
  <2>1. code # "OK" => code \in Codes \ Success
    BY DEF AssignRefusal, Codes, Refusals, Success
  <2>2. J.code = "" /\ J.code \in Codes \ Success /\ A.step = "answer" /\ A.code = code
    BY DEF Codes, Success
  <2>3. IF code = "OK" THEN req' = [req EXCEPT ![s] = J] ELSE req' = [req EXCEPT ![s] = A]
    BY <1>1 DEF Assign, BeginAnswered
  <2> HIDE DEF code, J, A
  <2>4. QED
    BY <2>1, <2>2, <2>3, SilentStep
<1>2. CASE AssignJudge(s)
  <2> DEFINE v == OnSite(entries[req[s].id], anchor[req[s].ev.emp])
             R == [req[s] EXCEPT !.step = "write", !.verified = v]
  <2>1. req[s] # Idle /\ req[s].step = "judge"
    BY <1>2, BusyAt DEF AssignJudge
  <2>2. R.code = req[s].code
    BY <2>1, RecordsInRequest DEF Request
  <2>3. "NOT_MEMBER" \in Codes \ Success
    BY DEF Codes, Refusals, Success
  <2>4. req' = [req EXCEPT ![s] = R] \/ Answer(s, "NOT_MEMBER", 0)
    BY <1>2 DEF AssignJudge
  <2> HIDE DEF R
  <2>5. QED
    BY <2>1, <2>2, <2>3, <2>4, ProceedTells, RefusalTells
<1>3. CASE AssignUpdate(s)
  <2> DEFINE ev == req[s].ev
             i  == req[s].id
             e  == [entries[i] EXCEPT !.emp = ev.emp, !.verified = req[s].verified]
  <2>1. req[s] # Idle /\ req[s].step = "write" /\ ev.kind = "assign"
    BY <1>3, BusyAt DEF AssignUpdate
  <2>2. i \in DOMAIN entries /\ entries[i].user = ev.user
    BY <2>1, RecordsInRequest DEF Held
  <2>3. CASE Answer(s, "INVALID", 0)
    <3>1. "INVALID" \in Codes \ Success
      BY DEF Codes, Refusals, Success
    <3>2. QED
      BY <2>1, <2>3, <3>1, RefusalTells
  <2>4. CASE entries' = [entries EXCEPT ![i] = e] /\ Answer(s, "OK", i)
    <3>1. e.user = ev.user /\ e.emp = ev.emp
      <4>1. entries[i] \in Entry
        BY <2>2, ElementOfSeq DEF IndInv, TypeOK
      <4>2. QED
        BY <2>2, <4>1 DEF Entry
    <3>2. i \in DOMAIN entries' /\ e = entries'[i]
      BY <2>2, <2>4
    <3> HIDE DEF e, i
    <3>3. QED
      BY <2>1, <2>4, <3>1, <3>2, SuccessTells DEF Success
  <2>5. QED
    BY <1>3, <2>3, <2>4 DEF AssignUpdate
<1>4. QED
  BY <1>1, <1>2, <1>3

LEMMA NextTells ==
  ASSUME IndInv, ToldOK, [Next]_vars
  PROVE  ToldOK'
<1>1. Kept(entries, entries')
  BY StepImplements, LedgerStepKeeps DEF IndInv
<1>2. ASSUME UNCHANGED req PROVE ToldOK'
  <2>1. ASSUME NEW t \in Slots PROVE Told(req'[t], entries')
    <3>1. req'[t] = req[t] /\ req[t] \in Request \cup {Idle} /\ Told(req[t], entries)
      BY <1>2 DEF IndInv, TypeOK, ToldOK
    <3>2. req[t] # Idle => req[t].ev \in Events
      BY RecordsInRequest
    <3>3. QED
      BY <1>1, <3>1, <3>2, ToldStable
  <2>2. QED
    BY <2>1 DEF ToldOK
<1>3. CASE UNCHANGED vars \/ Environment
  BY <1>2, <1>3 DEF vars, Environment, Tick, ChangeMembership, MoveAnchor, FlagSpeed
<1>4. ASSUME NEW s \in Slots, Serve(s) PROVE ToldOK'
  <2>1. CASE Reply(s) \/ Fail(s)
    <3>1. Idle.step = "idle"
      BY DEF Idle
    <3>2. QED
      BY <1>1, <2>1, <3>1, SilentStep DEF Reply, Fail
  <2>2. QED
    BY <1>1, <1>4, <2>1, ClockInTells, ClockOutTells, AssignTells DEF Serve
<1>5. QED
  BY <1>3, <1>4 DEF Next

\* A success is true when it is given and as long as it travels: the entry it
\* names is in the collection under the key of the request, closed if the
\* request closed it, booked as it asked, whatever other requests do meanwhile.
THEOREM SuccessIsRecorded == Spec => []SuccessMeansRecorded
<1>1. Init => ToldOK
  <2>1. Told(Idle, entries)
    BY DEF Told, Idle, Steps
  <2>2. QED
    BY <2>1 DEF Init, ToldOK
<1>2. IndInv /\ ToldOK /\ [Next]_vars => ToldOK'
  BY NextTells
<1>3. ToldOK => SuccessMeansRecorded
  BY DEF ToldOK, Told, Success, SuccessMeansRecorded
<1>4. Spec => []IndInv
  BY InitInv, NextInv, PTL DEF Spec
<1>5. QED
  BY <1>1, <1>2, <1>3, <1>4, PTL DEF Spec
-----------------------------------------------------------------------------
(* The flag an employer sees is true *)

\* A fix about to be written that was late when it was judged came from the
\* queue: the rules refuse a live one.
Judged(r) ==
  r.step = "write" /\ r.ev.kind \in {"in", "out"} /\ r.age > MaxClockSkew => r.queued

JudgedOK == \A s \in Slots : Judged(req[s])

LEMMA LateMeansQueued ==
  ASSUME NEW fix, NEW t \in 0 .. MaxNow, NEW queued, NEW anchors, NEW maxAge,
         fix.at \in Nat, fix.quality \in Quality,
         Verdict(fix, t, queued, anchors, maxAge) = "OK",
         t - fix.at > MaxClockSkew
  PROVE  queued
<1>1. Freshness(t, fix.at, queued, maxAge) = "OK"
  BY DEF Verdict, Quality
<1>2. QED
  BY <1>1, SkewAssumption, BoundAssumption DEF Freshness

LEMMA JudgedStep ==
  ASSUME IndInv, JudgedOK, NEW s \in Slots, NEW R, req' = [req EXCEPT ![s] = R], Judged(R)
  PROVE  JudgedOK'
<1>1. ASSUME NEW t \in Slots PROVE Judged(req'[t])
  <2>1. req'[t] = IF t = s THEN R ELSE req[t]
    BY DEF IndInv, TypeOK
  <2>2. QED
    BY <2>1 DEF JudgedOK
<1>2. QED
  BY <1>1 DEF JudgedOK

LEMMA QuietStep ==
  ASSUME IndInv, JudgedOK, NEW s \in Slots, NEW R, req' = [req EXCEPT ![s] = R],
         R.step # "write"
  PROVE  JudgedOK'
BY JudgedStep DEF Judged

LEMMA QuietBegin ==
  ASSUME IndInv, JudgedOK, NEW s \in Slots, NEW ev, NEW queued, NEW step, NEW code, NEW id,
         \/ step # "write" /\ Begin(s, ev, queued, step)
         \/ BeginAnswered(s, ev, queued, code, id)
  PROVE  JudgedOK'
<1> DEFINE B == [step |-> step, ev |-> ev, queued |-> queued, id |-> 0, emp |-> None,
                 age |-> 0, verified |-> FALSE, code |-> ""]
           A == [step |-> "answer", ev |-> ev, queued |-> queued, id |-> id, emp |-> None,
                 age |-> 0, verified |-> FALSE, code |-> code]
<1>1. B.step = step /\ A.step = "answer"
  OBVIOUS
<1>2. \/ step # "write" /\ req' = [req EXCEPT ![s] = B]
      \/ req' = [req EXCEPT ![s] = A]
  BY DEF Begin, BeginAnswered
<1> HIDE DEF A, B
<1>3. QED
  BY <1>1, <1>2, QuietStep

LEMMA QuietGoOn ==
  ASSUME IndInv, JudgedOK, NEW s \in Slots, req[s] # Idle, NEW code, NEW id,
         Answer(s, code, id) \/ Proceed(s, "reread")
  PROVE  JudgedOK'
<1> DEFINE A == [req[s] EXCEPT !.step = "answer", !.code = code, !.id = id]
           P == [req[s] EXCEPT !.step = "reread"]
<1>1. A.step = "answer" /\ P.step = "reread"
  BY RecordsInRequest DEF Request
<1>2. req' = [req EXCEPT ![s] = A] \/ req' = [req EXCEPT ![s] = P]
  BY DEF Answer, Proceed
<1> HIDE DEF A, P
<1>3. QED
  BY <1>1, <1>2, QuietStep

LEMMA NextJudged ==
  ASSUME IndInv, JudgedOK, [Next]_vars
  PROVE  JudgedOK'
<1>1. CASE UNCHANGED vars \/ Environment
  BY <1>1 DEF JudgedOK, vars, Environment, Tick, ChangeMembership, MoveAnchor, FlagSpeed
<1>2. ASSUME NEW s \in Slots, Serve(s) PROVE JudgedOK'
  <2>1. ASSUME NEW ev \in Events, NEW queued \in BOOLEAN,
               ClockIn(s, ev, queued) \/ ClockOut(s, ev, queued)
        PROVE  JudgedOK'
    BY <2>1, QuietBegin DEF ClockIn, ClockOut
  <2>2. ASSUME NEW ev \in Events, NEW i \in DOMAIN entries, Assign(s, ev, i) PROVE JudgedOK'
    <3> DEFINE J == [step |-> "judge", ev |-> ev, queued |-> FALSE, id |-> i, emp |-> None,
                     age |-> 0, verified |-> FALSE, code |-> ""]
    <3>1. CASE req' = [req EXCEPT ![s] = J]
      <4>1. J.step # "write"
        OBVIOUS
      <4> HIDE DEF J
      <4>2. QED
        BY <3>1, <4>1, QuietStep
    <3>2. QED
      BY <2>2, <3>1, QuietBegin DEF Assign
  <2>3. CASE ClockInJudge(s)
    <3> DEFINE ev == req[s].ev
               R == [req[s] EXCEPT !.step = "write", !.age = now - ev.at]
    <3>1. req[s] # Idle
      BY <2>3, BusyAt DEF ClockInJudge
    <3>2. /\ R.ev = ev /\ R.queued = req[s].queued /\ R.age = now - ev.at
          /\ now \in 0 .. MaxNow /\ ev.at \in Nat /\ ev.quality \in Quality
      BY <3>1, RecordsInRequest DEF Request, Event, IndInv, TypeOK
    <3>3. CASE /\ req' = [req EXCEPT ![s] = R]
               /\ ValidateFix(ev, now, req[s].queued, AnchorsAtClockIn(ev.emp)) = "OK"
      <4>1. R.age > MaxClockSkew => R.queued
        BY <3>2, <3>3, LateMeansQueued DEF ValidateFix
      <4> HIDE DEF R
      <4>2. QED
        BY <3>3, <4>1, JudgedStep DEF Judged
    <3>4. QED
      BY <2>3, <3>1, <3>3, QuietGoOn DEF ClockInJudge
  <2>4. CASE ClockOutJudge(s)
    <3> DEFINE ev == req[s].ev
               centres == AnchorsAtClose(req[s].emp, entries[req[s].id].inLoc)
               R == [req[s] EXCEPT !.step = "write", !.age = now - ev.at]
    <3>1. req[s] # Idle
      BY <2>4, BusyAt DEF ClockOutJudge
    <3>2. /\ R.ev = ev /\ R.queued = req[s].queued /\ R.age = now - ev.at
          /\ now \in 0 .. MaxNow /\ ev.at \in Nat /\ ev.quality \in Quality
      BY <3>1, RecordsInRequest DEF Request, Event, IndInv, TypeOK
    <3>3. CASE /\ req' = [req EXCEPT ![s] = R]
               /\ ValidateClose(ev, now, req[s].queued, centres) = "OK"
      <4>1. R.age > MaxClockSkew => R.queued
        BY <3>2, <3>3, LateMeansQueued DEF ValidateClose
      <4> HIDE DEF R
      <4>2. QED
        BY <3>3, <4>1, JudgedStep DEF Judged
    <3>4. QED
      BY <2>4, <3>1, <3>3, QuietGoOn DEF ClockOutJudge
  <2>5. CASE ClockOutOpen(s)
    <3> DEFINE R(i) == [req[s] EXCEPT !.step = "judge", !.id = i, !.emp = entries[i].emp]
    <3>1. req[s] # Idle
      BY <2>5, BusyAt DEF ClockOutOpen
    <3>2. ASSUME NEW i, req' = [req EXCEPT ![s] = R(i)] PROVE JudgedOK'
      <4>1. R(i).step = "judge"
        BY <3>1, RecordsInRequest DEF Request
      <4> HIDE DEF R
      <4>2. QED
        BY <3>2, <4>1, QuietStep
    <3>3. QED
      BY <2>5, <3>1, <3>2, QuietGoOn DEF ClockOutOpen
  <2>6. CASE AssignJudge(s)
    <3> DEFINE v == OnSite(entries[req[s].id], anchor[req[s].ev.emp])
               R == [req[s] EXCEPT !.step = "write", !.verified = v]
    <3>1. req[s] # Idle /\ req[s].ev.kind = "assign"
      BY <2>6, BusyAt DEF AssignJudge
    <3>2. R.ev.kind = "assign"
      BY <3>1, RecordsInRequest DEF Request
    <3>3. req' = [req EXCEPT ![s] = R] \/ Answer(s, "NOT_MEMBER", 0)
      BY <2>6 DEF AssignJudge
    <3> HIDE DEF R
    <3>4. Judged(R)
      BY <3>2 DEF Judged
    <3>5. QED
      BY <3>1, <3>3, <3>4, JudgedStep, QuietGoOn
  <2>7. CASE ClockInInsert(s) \/ ClockInReread(s)
    BY <2>7, BusyAt, QuietGoOn DEF ClockInInsert, ClockInReread
  <2>8. CASE ClockOutUpdate(s) \/ ClockOutReread(s) \/ AssignUpdate(s)
    BY <2>8, BusyAt, QuietGoOn DEF ClockOutUpdate, ClockOutReread, AssignUpdate
  <2>9. CASE Reply(s) \/ Fail(s)
    <3>1. Idle.step # "write"
      BY DEF Idle
    <3>2. QED
      BY <2>9, <3>1, QuietStep DEF Reply, Fail
  <2>10. QED
    BY <1>2, <2>1, <2>2, <2>3, <2>4, <2>5, <2>6, <2>7, <2>8, <2>9 DEF Serve
<1>3. QED
  BY <1>1, <1>2 DEF Next
-----------------------------------------------------------------------------
\* One of the ends of shift i is on record as late.
LateEnd(i, late) == {<<i, "in">>, <<i, "out">>} \cap late # {}

LEMMA LateEndIs ==
  ASSUME NEW i, NEW late
  PROVE  LateEnd(i, late) <=> <<i, "in">> \in late \/ <<i, "out">> \in late
BY Zenon DEF LateEnd

LEMMA RecordedLate ==
  ASSUME NEW i, NEW end \in {"in", "out"}, NEW age, RecordLate(i, end, age), NEW j
  PROVE  LateEnd(j, lateEnds') <=> LateEnd(j, lateEnds) \/ (j = i /\ age > MaxClockSkew)
<1>1. LateEnd(j, lateEnds') <=> <<j, "in">> \in lateEnds' \/ <<j, "out">> \in lateEnds'
  BY LateEndIs
<1>2. LateEnd(j, lateEnds) <=> <<j, "in">> \in lateEnds \/ <<j, "out">> \in lateEnds
  BY LateEndIs
<1>3. CASE age > MaxClockSkew
  <2>1. lateEnds' = lateEnds \cup {<<i, end>>}
    BY <1>3 DEF RecordLate
  <2>2. \A x : x \in lateEnds' <=> x \in lateEnds \/ x = <<i, end>>
    BY <2>1
  <2>3. <<j, "in">> = <<i, end>> \/ <<j, "out">> = <<i, end>> <=> j = i
    OBVIOUS
  <2>4. QED
    BY <1>1, <1>2, <1>3, <2>2, <2>3
<1>4. CASE ~(age > MaxClockSkew)
  BY <1>1, <1>2, <1>4 DEF RecordLate
<1>5. QED
  BY <1>3, <1>4

LEMMA LateFlags ==
  ASSUME NEW s \in Slots, JudgedOK, req[s].step = "write", req[s].ev.kind \in {"in", "out"}
  PROVE  "backdated" \in BackdatedFlags(req[s].queued, req[s].age) <=> req[s].age > MaxClockSkew
BY DEF JudgedOK, Judged, BackdatedFlags

LEMMA InsertFlagsTrue ==
  ASSUME IndInv, JudgedOK, BackdatedIffLate, NEW s \in Slots, ClockInInsert(s)
  PROVE  BackdatedIffLate'
<1> DEFINE ev == req[s].ev
           fl == BackdatedFlags(req[s].queued, req[s].age)
           n  == Len(entries) + 1
<1>1. CASE UNCHANGED <<entries, lateEnds>>
  BY <1>1 DEF BackdatedIffLate
<1>2. CASE entries' = Append(entries, NewEntry(ev, fl)) /\ RecordLate(n, "in", req[s].age)
  <2>1. entries \in Seq(Entry) /\ n \notin DOMAIN entries
    BY DEF IndInv, TypeOK
  <2>2. ~LateEnd(n, lateEnds)
    BY <2>1 DEF LateEnd, IndInv, TypeOK
  <2>3. "backdated" \in fl <=> req[s].age > MaxClockSkew
    BY LateFlags, BusyAt DEF ClockInInsert
  <2>4. NewEntry(ev, fl).flags = fl
    BY DEF NewEntry
  <2> DEFINE e == NewEntry(ev, fl)
  <2>5. entries' = Append(entries, e) /\ ("backdated" \in e.flags <=> req[s].age > MaxClockSkew)
    BY <1>2, <2>3, <2>4
  <2> HIDE DEF e
  <2>6. DOMAIN entries' = DOMAIN entries \cup {n} /\ entries'[n] = e
    BY <2>1, <2>5
  <2>7. \A j \in DOMAIN entries : entries'[j] = entries[j]
    BY <2>1, <2>5
  <2>8. ASSUME NEW j \in DOMAIN entries'
        PROVE  "backdated" \in entries'[j].flags <=> LateEnd(j, lateEnds')
    <3>1. LateEnd(j, lateEnds') <=> LateEnd(j, lateEnds) \/ (j = n /\ req[s].age > MaxClockSkew)
      BY <1>2, RecordedLate
    <3>2. CASE j = n
      BY <2>2, <2>5, <2>6, <3>1, <3>2
    <3>3. CASE j # n
      <4>1. j \in DOMAIN entries /\ entries'[j] = entries[j]
        BY <2>6, <2>7, <3>3
      <4>2. QED
        BY <3>1, <3>3, <4>1 DEF BackdatedIffLate, LateEnd
    <3>4. QED
      BY <3>2, <3>3
  <2>9. QED
    BY <2>8 DEF BackdatedIffLate, LateEnd
<1>3. QED
  BY <1>1, <1>2 DEF ClockInInsert

LEMMA CloseFlagsTrue ==
  ASSUME IndInv, JudgedOK, BackdatedIffLate, NEW s \in Slots, ClockOutUpdate(s)
  PROVE  BackdatedIffLate'
<1> DEFINE ev == req[s].ev
           i  == req[s].id
           fl == BackdatedFlags(req[s].queued, req[s].age)
           e  == ClosedEntry(entries[i], ev, fl)
<1>1. CASE UNCHANGED <<entries, lateEnds>>
  BY <1>1 DEF BackdatedIffLate
<1>2. CASE entries' = [entries EXCEPT ![i] = e] /\ RecordLate(i, "out", req[s].age)
  <2>1. i \in DOMAIN entries /\ entries[i] \in Entry
    <3>1. req[s] # Idle /\ req[s].step = "write" /\ ev.kind = "out"
      BY BusyAt DEF ClockOutUpdate
    <3>2. i \in DOMAIN entries
      BY <3>1, RecordsInRequest DEF Held
    <3>3. QED
      BY <3>2, ElementOfSeq DEF IndInv, TypeOK
  <2>2. "backdated" \in fl <=> req[s].age > MaxClockSkew
    BY LateFlags, BusyAt DEF ClockOutUpdate
  <2>3. e.flags = entries[i].flags \cup fl
    BY <2>1 DEF ClosedEntry, Entry
  <2>4. ASSUME NEW j \in DOMAIN entries'
        PROVE  "backdated" \in entries'[j].flags <=> LateEnd(j, lateEnds')
    <3> HIDE DEF e, fl
    <3>1. LateEnd(j, lateEnds') <=> LateEnd(j, lateEnds) \/ (j = i /\ req[s].age > MaxClockSkew)
      BY <1>2, RecordedLate
    <3>2. j \in DOMAIN entries /\ entries'[j] = IF j = i THEN e ELSE entries[j]
      BY <1>2
    <3>3. "backdated" \in entries[j].flags <=> LateEnd(j, lateEnds)
      BY <3>2 DEF BackdatedIffLate, LateEnd
    <3>4. QED
      BY <2>2, <2>3, <3>1, <3>2, <3>3
  <2>5. QED
    BY <2>4 DEF BackdatedIffLate, LateEnd
<1>3. QED
  BY <1>1, <1>2 DEF ClockOutUpdate

\* A write that leaves the flag of a shift alone.
LEMMA OtherFlagsTrue ==
  ASSUME BackdatedIffLate, NEW i \in DOMAIN entries, NEW e, entries' = [entries EXCEPT ![i] = e],
         "backdated" \in e.flags <=> "backdated" \in entries[i].flags, UNCHANGED lateEnds
  PROVE  BackdatedIffLate'
<1>1. ASSUME NEW j \in DOMAIN entries'
      PROVE  j \in DOMAIN entries /\ entries'[j] = IF j = i THEN e ELSE entries[j]
  OBVIOUS
<1>2. QED
  BY <1>1 DEF BackdatedIffLate

LEMMA NextFlagsTrue ==
  ASSUME IndInv, JudgedOK, BackdatedIffLate, [Next]_vars
  PROVE  BackdatedIffLate'
<1>1. ASSUME UNCHANGED <<entries, lateEnds>> PROVE BackdatedIffLate'
  BY <1>1 DEF BackdatedIffLate
<1>2. CASE UNCHANGED vars
  BY <1>1, <1>2 DEF vars
<1>3. \A i \in DOMAIN entries : entries[i] \in Entry
  BY ElementOfSeq DEF IndInv, TypeOK
<1>4. CASE Environment
  <2>1. ASSUME NEW i \in DOMAIN entries, FlagSpeed(i) PROVE BackdatedIffLate'
    <3> DEFINE e == Flagged(entries[i], "speed_anomaly")
    <3>1. "backdated" \in e.flags <=> "backdated" \in entries[i].flags
      BY <1>3 DEF Flagged, Entry
    <3>2. entries' = [entries EXCEPT ![i] = e] /\ UNCHANGED lateEnds
      BY <2>1 DEF FlagSpeed
    <3> HIDE DEF e
    <3>3. QED
      BY <3>1, <3>2, OtherFlagsTrue
  <2>2. QED
    BY <1>1, <1>4, <2>1 DEF Environment, Tick, ChangeMembership, MoveAnchor
<1>5. ASSUME NEW s \in Slots, Serve(s) PROVE BackdatedIffLate'
  <2>1. CASE AssignUpdate(s)
    <3> DEFINE i == req[s].id
               e == [entries[i] EXCEPT !.emp = req[s].ev.emp, !.verified = req[s].verified]
    <3>1. i \in DOMAIN entries
      BY <2>1, BusyAt, RecordsInRequest DEF AssignUpdate, Held
    <3>2. e.flags = entries[i].flags
      BY <1>3, <3>1 DEF Entry
    <3>3. (entries' = [entries EXCEPT ![i] = e] \/ UNCHANGED entries) /\ UNCHANGED lateEnds
      BY <2>1 DEF AssignUpdate
    <3> HIDE DEF e, i
    <3>4. QED
      BY <1>1, <3>1, <3>2, <3>3, OtherFlagsTrue
  <2>2. ASSUME NEW ev \in Events, NEW q \in BOOLEAN, ClockIn(s, ev, q) \/ ClockOut(s, ev, q)
        PROVE  BackdatedIffLate'
    BY <1>1, <2>2 DEF ClockIn, ClockOut
  <2>3. ASSUME NEW ev \in Events, NEW i \in DOMAIN entries, Assign(s, ev, i)
        PROVE  BackdatedIffLate'
    BY <1>1, <2>3 DEF Assign
  <2>4. CASE ClockInJudge(s) \/ ClockInReread(s) \/ ClockOutOpen(s) \/ ClockOutJudge(s)
    BY <1>1, <2>4 DEF ClockInJudge, ClockInReread, ClockOutOpen, ClockOutJudge
  <2>5. CASE ClockOutReread(s) \/ AssignJudge(s) \/ Reply(s) \/ Fail(s)
    BY <1>1, <2>5 DEF ClockOutReread, AssignJudge, Reply, Fail
  <2>6. QED
    BY <1>5, <2>1, <2>2, <2>3, <2>4, <2>5, InsertFlagsTrue, CloseFlagsTrue DEF Serve
<1>6. QED
  BY <1>2, <1>4, <1>5 DEF Next

\* The employer sees "backdated" on a shift exactly when the fix at one of its
\* ends was late when the handler judged it, whatever else writes to the shift.
THEOREM BackdatedIsTrue == Spec => []BackdatedIffLate
<1>1. Init => JudgedOK /\ BackdatedIffLate
  BY DEF Init, JudgedOK, Judged, Idle, BackdatedIffLate
<1>2. IndInv /\ JudgedOK /\ [Next]_vars => JudgedOK'
  BY NextJudged
<1>3. IndInv /\ JudgedOK /\ BackdatedIffLate /\ [Next]_vars => BackdatedIffLate'
  BY NextFlagsTrue
<1>4. Spec => []IndInv
  BY InitInv, NextInv, PTL DEF Spec
<1>5. QED
  BY <1>1, <1>2, <1>3, <1>4, PTL DEF Spec
-----------------------------------------------------------------------------
(* A conflict is true when it is given *)

\* A running shift has no close key, so a key on record closed its shift.
Unclosed == \A i \in DOMAIN entries : entries[i].status = "open" => entries[i].closeKey = None

LEMMA LedgerStepUnclosed ==
  ASSUME TypeOK, Unclosed, [Ledger!Next]_entries
  PROVE  Unclosed'
<1>1. entries \in Seq(Entry) /\ \A i \in DOMAIN entries : entries[i] \in Entry
  BY ElementOfSeq DEF TypeOK
<1>2. CASE entries' = entries
  BY <1>2 DEF Unclosed
<1>3. ASSUME NEW e, entries' = Append(entries, e), e.closeKey = None PROVE Unclosed'
  BY <1>1, <1>3 DEF Unclosed
<1>4. ASSUME NEW i \in DOMAIN entries, NEW e, entries' = [entries EXCEPT ![i] = e],
             e.status = "open" => entries[i].status = "open" /\ e.closeKey = entries[i].closeKey
      PROVE  Unclosed'
  <2>1. DOMAIN entries' = DOMAIN entries
    BY <1>1, <1>4
  <2>2. \A j \in DOMAIN entries : entries'[j] = IF j = i THEN e ELSE entries[j]
    BY <1>1, <1>4
  <2>3. QED
    BY <1>4, <2>1, <2>2 DEF Unclosed
<1>5. ASSUME NEW u, NEW k, NEW f, NEW t, NEW l, NEW fl, Ledger!Open(u, k, f, t, l, fl)
      PROVE  Unclosed'
  BY <1>3, <1>5 DEF Ledger!Open
<1>6. ASSUME NEW i \in Ledger!Running, NEW k, NEW t, NEW l, NEW fl, Ledger!Close(i, k, t, l, fl)
      PROVE  Unclosed'
  <2> DEFINE e == Ledger!Closed(entries[i], k, t, l, fl)
  <2>1. i \in DOMAIN entries /\ entries' = [entries EXCEPT ![i] = e]
    BY <1>6 DEF Ledger!Close, Ledger!Running
  <2>2. e.status # "open"
    BY <1>1, <2>1 DEF Entry, Ledger!Closed
  <2> HIDE DEF e
  <2>3. QED
    BY <1>4, <2>1, <2>2
<1>7. ASSUME NEW i \in Ledger!Personal, NEW f, NEW v, Ledger!Book(i, f, v)
      PROVE  Unclosed'
  <2> DEFINE e == [entries[i] EXCEPT !.emp = f, !.verified = v]
  <2>1. i \in DOMAIN entries /\ entries' = [entries EXCEPT ![i] = e]
    BY <1>7 DEF Ledger!Book, Ledger!Personal
  <2>2. e.status = entries[i].status /\ e.closeKey = entries[i].closeKey
    BY <1>1, <2>1 DEF Entry
  <2> HIDE DEF e
  <2>3. QED
    BY <1>4, <2>1, <2>2
<1>8. ASSUME NEW i \in DOMAIN entries, NEW f, Ledger!Mark(i, f)
      PROVE  Unclosed'
  <2> DEFINE e == Ledger!Marked(entries[i], f)
  <2>1. entries' = [entries EXCEPT ![i] = e]
    BY <1>8 DEF Ledger!Mark
  <2>2. e.status = entries[i].status /\ e.closeKey = entries[i].closeKey
    BY <1>1 DEF Entry, Ledger!Marked
  <2> HIDE DEF e
  <2>3. QED
    BY <1>4, <2>1, <2>2
<1>9. QED
  BY <1>2, <1>5, <1>6, <1>7, <1>8 DEF Ledger!Next

\* No slot is told of a conflict over a tap the collection has.
NoFalseConflict == \A s \in Slots : Refuses(s, Conflicts) => ~Recorded(req'[s].ev)

\* The other slots answer nothing new, so the step's own answer is all to show.
LEMMA ConflictStep ==
  ASSUME IndInv, ToldOK, NEW s \in Slots, NEW R, req' = [req EXCEPT ![s] = R],
         R # Idle /\ R.code \in Conflicts => ~Recorded(R.ev)
  PROVE  NoFalseConflict
<1>1. ASSUME NEW t \in Slots, Refuses(t, Conflicts) PROVE ~Recorded(req'[t].ev)
  <2>1. req'[t] = IF t = s THEN R ELSE req[t]
    BY DEF IndInv, TypeOK
  <2>2. CASE t = s
    BY <1>1, <2>1, <2>2 DEF Refuses
  <2>3. CASE t # s
    <3>1. req[t] # Idle /\ req[t].code \in Conflicts /\ req[t].step # "answer"
      BY <1>1, <2>1, <2>3 DEF Refuses
    <3>2. req[t].code = ""
      BY <3>1, RecordsInRequest DEF Request, ToldOK, Told
    <3>3. QED
      BY <3>1, <3>2 DEF Conflicts
  <2>4. QED
    BY <2>2, <2>3
<1>2. QED
  BY <1>1 DEF NoFalseConflict

LEMMA ConflictAnswer ==
  ASSUME IndInv, ToldOK, NEW s \in Slots, req[s] # Idle, NEW code, NEW id,
         Answer(s, code, id), code \in Conflicts => ~Recorded(req[s].ev)
  PROVE  NoFalseConflict
<1> DEFINE R == [req[s] EXCEPT !.step = "answer", !.code = code, !.id = id]
<1>1. R.code = code /\ R.ev = req[s].ev
  BY RecordsInRequest DEF Request
<1>2. req' = [req EXCEPT ![s] = R]
  BY DEF Answer
<1> HIDE DEF R
<1>3. QED
  BY <1>1, <1>2, ConflictStep

LEMMA ConflictGoOn ==
  ASSUME IndInv, ToldOK, NEW s \in Slots, req[s] # Idle, req[s].step # "answer",
         NEW R, R.code = req[s].code, req' = [req EXCEPT ![s] = R]
  PROVE  NoFalseConflict
<1>1. req[s].code = ""
  BY RecordsInRequest DEF Request, ToldOK, Told
<1>2. QED
  BY <1>1, ConflictStep DEF Conflicts

LEMMA ConflictBegin ==
  ASSUME IndInv, ToldOK, NEW s \in Slots, NEW ev, NEW queued, NEW step,
         NEW code \in {"OK", "NOT_FOUND", "INVALID"}, NEW id,
         Begin(s, ev, queued, step) \/ BeginAnswered(s, ev, queued, code, id)
  PROVE  NoFalseConflict
<1> DEFINE B == [step |-> step, ev |-> ev, queued |-> queued, id |-> 0, emp |-> None,
                 age |-> 0, verified |-> FALSE, code |-> ""]
           A == [step |-> "answer", ev |-> ev, queued |-> queued, id |-> id, emp |-> None,
                 age |-> 0, verified |-> FALSE, code |-> code]
<1>1. B.code \notin Conflicts /\ A.code \notin Conflicts
  BY DEF Conflicts
<1>2. req' = [req EXCEPT ![s] = B] \/ req' = [req EXCEPT ![s] = A]
  BY DEF Begin, BeginAnswered
<1> HIDE DEF A, B
<1>3. QED
  BY <1>1, <1>2, ConflictStep

LEMMA ConflictProceed ==
  ASSUME IndInv, ToldOK, NEW s \in Slots, req[s] # Idle, req[s].step # "answer",
         NEW step, Proceed(s, step)
  PROVE  NoFalseConflict
<1> DEFINE R == [req[s] EXCEPT !.step = step]
<1>1. R.code = req[s].code
  BY RecordsInRequest DEF Request
<1>2. req' = [req EXCEPT ![s] = R]
  BY DEF Proceed
<1> HIDE DEF R
<1>3. QED
  BY <1>1, <1>2, ConflictGoOn
-----------------------------------------------------------------------------
LEMMA NextNoFalseConflict ==
  ASSUME IndInv, ToldOK, Unclosed, NEW s \in Slots, Serve(s)
  PROVE  NoFalseConflict
<1>1. ASSUME NEW ev \in Events, NEW queued \in BOOLEAN,
             ClockIn(s, ev, queued) \/ ClockOut(s, ev, queued)
      PROVE  NoFalseConflict
  BY <1>1, ConflictBegin DEF ClockIn, ClockOut
<1>2. ASSUME NEW ev \in Events, NEW i \in DOMAIN entries, Assign(s, ev, i)
      PROVE  NoFalseConflict
  <2> DEFINE J == [step |-> "judge", ev |-> ev, queued |-> FALSE, id |-> i, emp |-> None,
                   age |-> 0, verified |-> FALSE, code |-> ""]
  <2>1. CASE req' = [req EXCEPT ![s] = J]
    <3>1. J.code \notin Conflicts
      BY DEF Conflicts
    <3> HIDE DEF J
    <3>2. QED
      BY <2>1, <3>1, ConflictStep
  <2>2. AssignRefusal(ev, entries[i]) \in {"OK", "NOT_FOUND", "INVALID"}
    BY DEF AssignRefusal
  <2>3. QED
    BY <1>2, <2>1, <2>2, ConflictBegin DEF Assign
<1>3. CASE ClockInJudge(s)
  <2> DEFINE ev == req[s].ev
             code == IF ev.emp # None /\ <<ev.emp, ev.user>> \notin active
                     THEN "NOT_MEMBER"
                     ELSE ValidateFix(ev, now, req[s].queued, AnchorsAtClockIn(ev.emp))
             R == [req[s] EXCEPT !.step = "write", !.age = now - ev.at]
  <2>1. req[s] # Idle /\ req[s].step = "judge"
    BY <1>3, BusyAt DEF ClockInJudge
  <2>2. R.code = req[s].code
    BY <2>1, RecordsInRequest DEF Request
  <2>3. code \notin Conflicts
    BY VerdictIsCode DEF Conflicts, FixCodes, ValidateFix
  <2>4. IF code = "OK" THEN req' = [req EXCEPT ![s] = R] ELSE Answer(s, code, 0)
    BY <1>3 DEF ClockInJudge
  <2> HIDE DEF code, R
  <2>5. QED
    BY <2>1, <2>2, <2>3, <2>4, ConflictGoOn, ConflictAnswer
<1>4. CASE ClockOutJudge(s)
  <2> DEFINE ev == req[s].ev
             code == ValidateClose(ev, now, req[s].queued,
                       AnchorsAtClose(req[s].emp, entries[req[s].id].inLoc))
             R == [req[s] EXCEPT !.step = "write", !.age = now - ev.at]
  <2>1. req[s] # Idle /\ req[s].step = "judge"
    BY <1>4, BusyAt DEF ClockOutJudge
  <2>2. R.code = req[s].code
    BY <2>1, RecordsInRequest DEF Request
  <2>3. code \notin Conflicts
    BY VerdictIsCode DEF Conflicts, FixCodes, ValidateClose
  <2>4. IF code = "OK" THEN req' = [req EXCEPT ![s] = R] ELSE Answer(s, code, 0)
    BY <1>4 DEF ClockOutJudge
  <2> HIDE DEF code, R
  <2>5. QED
    BY <2>1, <2>2, <2>3, <2>4, ConflictGoOn, ConflictAnswer
<1>5. CASE AssignJudge(s)
  <2> DEFINE v == OnSite(entries[req[s].id], anchor[req[s].ev.emp])
             R == [req[s] EXCEPT !.step = "write", !.verified = v]
  <2>1. req[s] # Idle /\ req[s].step = "judge"
    BY <1>5, BusyAt DEF AssignJudge
  <2>2. R.code = req[s].code
    BY <2>1, RecordsInRequest DEF Request
  <2>3. req' = [req EXCEPT ![s] = R] \/ Answer(s, "NOT_MEMBER", 0)
    BY <1>5 DEF AssignJudge
  <2> HIDE DEF R
  <2>4. QED
    BY <2>1, <2>2, <2>3, ConflictGoOn, ConflictAnswer DEF Conflicts
<1>6. CASE ClockOutOpen(s)
  <2> DEFINE R(i) == [req[s] EXCEPT !.step = "judge", !.id = i, !.emp = entries[i].emp]
  <2>1. req[s] # Idle /\ req[s].step = "open"
    BY <1>6, BusyAt DEF ClockOutOpen
  <2>2. ASSUME NEW i, req' = [req EXCEPT ![s] = R(i)] PROVE NoFalseConflict
    <3>1. R(i).code = req[s].code
      BY <2>1, RecordsInRequest DEF Request
    <3> HIDE DEF R
    <3>2. QED
      BY <2>1, <2>2, <3>1, ConflictGoOn
  <2>3. QED
    BY <1>6, <2>1, <2>2, ConflictProceed, ConflictAnswer DEF ClockOutOpen, Conflicts
<1>7. CASE ClockInInsert(s) \/ ClockOutUpdate(s) \/ AssignUpdate(s)
  <2>1. req[s] # Idle /\ req[s].step = "write"
    BY <1>7, BusyAt DEF ClockInInsert, ClockOutUpdate, AssignUpdate
  <2>2. \/ Proceed(s, "reread")
        \/ \E code \in {"CREATED", "OK", "INVALID"}, id \in {Len(entries) + 1, req[s].id, 0} :
             Answer(s, code, id)
    BY <1>7 DEF ClockInInsert, ClockOutUpdate, AssignUpdate
  <2>3. QED
    BY <2>1, <2>2, ConflictProceed, ConflictAnswer DEF Conflicts
\* The two places a conflict is given: the key was looked up just before.
<1>8. CASE ClockInReread(s)
  <2>1. req[s] # Idle /\ req[s].ev.kind = "in"
    BY <1>8, BusyAt DEF ClockInReread
  <2>2. ByClientID(req[s].ev.user, req[s].ev.key) = {} => ~Recorded(req[s].ev)
    BY <2>1 DEF ByClientID, Recorded
  <2>3. QED
    BY <1>8, <2>1, <2>2, ConflictAnswer DEF ClockInReread, Conflicts
<1>9. CASE ClockOutReread(s)
  <2>1. req[s] # Idle /\ req[s].ev.kind = "out"
    BY <1>9, BusyAt DEF ClockOutReread
  <2>2. req[s].ev.key # None
    BY <2>1, RecordsInRequest, EventsAssumption DEF Event
  <2>3. \A i \in DOMAIN entries : entries[i].status \in {"open", "closed"}
    BY EntryStatus DEF IndInv, TypeOK
  <2>4. ByCloseClientID(req[s].ev.user, req[s].ev.key) = {} => ~Recorded(req[s].ev)
    BY <2>1, <2>2, <2>3 DEF ByCloseClientID, Recorded, Unclosed
  <2>5. QED
    BY <1>9, <2>1, <2>4, ConflictAnswer DEF ClockOutReread, Conflicts
<1>10. CASE Reply(s) \/ Fail(s)
  BY <1>10, ConflictStep DEF Reply, Fail
<1>11. QED
  BY <1>1, <1>2, <1>3, <1>4, <1>5, <1>6, <1>7, <1>8, <1>9, <1>10 DEF Serve

LEMMA ToldAlways == Spec => [](IndInv /\ ToldOK)
<1>1. Init => ToldOK
  <2>1. Told(Idle, entries)
    BY DEF Told, Idle, Steps
  <2>2. QED
    BY <2>1 DEF Init, ToldOK
<1>2. IndInv /\ ToldOK /\ [Next]_vars => ToldOK'
  BY NextTells
<1>3. QED
  BY <1>1, <1>2, InitInv, NextInv, PTL DEF Spec

\* A 409 is never given for a tap that is on record, however the requests
\* race: the re-read after a refused insert or update (clockIn, closedOrConflict)
\* tells the replay of a tap from a genuine conflict.
THEOREM ConflictsAreTrue == Spec => ConflictMeansUnrecorded
<1>1. Init => Unclosed
  BY DEF Init, Unclosed
<1>2. IndInv /\ Unclosed /\ [Next]_vars => Unclosed'
  BY StepImplements, LedgerStepUnclosed DEF IndInv
<1>3. IndInv /\ ToldOK /\ Unclosed /\ [Next]_vars => [NoFalseConflict]_vars
  <2> SUFFICES ASSUME IndInv, ToldOK, Unclosed, Next PROVE NoFalseConflict \/ UNCHANGED vars
    OBVIOUS
  <2>1. ASSUME UNCHANGED req PROVE NoFalseConflict
    <3>1. ASSUME NEW s \in Slots, Refuses(s, Conflicts) PROVE FALSE
      <4>1. req[s] # Idle /\ req[s].code \in Conflicts /\ req[s].step # "answer"
        BY <2>1, <3>1 DEF Refuses
      <4>2. req[s].code = ""
        BY <4>1, RecordsInRequest DEF Request, ToldOK, Told
      <4>3. QED
        BY <4>1, <4>2 DEF Conflicts
    <3>2. QED
      BY <3>1 DEF NoFalseConflict
  <2>2. CASE Environment
    BY <2>1, <2>2 DEF Environment, Tick, ChangeMembership, MoveAnchor, FlagSpeed
  <2>3. CASE \E s \in Slots : Serve(s)
    BY <2>3, NextNoFalseConflict
  <2>4. QED
    BY <2>2, <2>3 DEF Next
<1>4. [NoFalseConflict]_vars <=>
        [\A s \in Slots : Refuses(s, Conflicts) => ~Recorded(req'[s].ev)]_vars
  BY DEF NoFalseConflict
<1>5. QED
  BY <1>1, <1>2, <1>3, <1>4, ToldAlways, PTL DEF Spec, ConflictMeansUnrecorded
-----------------------------------------------------------------------------
(* Verified means on site *)

\* Against a centre that has not moved: a running shift began within its
\* radius and is taken as verified, a finished one is verified if it is on site.
Sited(e, mv, centre) ==
  e.emp \in Employers \ mv =>
    /\ e.status = "open"   => e.verified /\ WithinAnchor(e.inLoc, centre[e.emp])
    /\ e.status = "closed" => (e.verified <=> OnSite(e, centre[e.emp]))

SitedOK == \A i \in DOMAIN entries : Sited(entries[i], moved, anchor)

\* What a handler measured before its write still holds when it writes.
Measured(r, es, mv, centre) ==
  r.step = "write" =>
    /\ r.ev.kind = "in" /\ r.ev.emp \in Employers \ mv =>
         WithinAnchor(r.ev.loc, centre[r.ev.emp])
    /\ r.ev.kind = "out" /\ r.emp \in Employers \ mv =>
         WithinAnchor(r.ev.loc, centre[r.emp])
    /\ r.ev.kind = "assign" /\ r.ev.emp \in Employers \ mv =>
         (r.verified <=> OnSite(es[r.id], centre[r.ev.emp]))

MeasuredOK == \A s \in Slots : Measured(req[s], entries, moved, anchor)

\* No step moves the fixes of a finished shift, or where a shift started.
FixesStay(es, fs) ==
  \A i \in DOMAIN es :
    /\ fs[i].inLoc = es[i].inLoc
    /\ es[i].status = "closed" => fs[i].outLoc = es[i].outLoc

LEMMA MeasuredStable ==
  ASSUME NEW r \in Request \cup {Idle}, NEW es, NEW fs, NEW mv, NEW centre,
         Held(r, es), FixesStay(es, fs), Measured(r, es, mv, centre)
  PROVE  Measured(r, fs, mv, centre)
<1>1. CASE r.step = "write" /\ r.ev.kind = "assign"
  <2>1. r.id \in DOMAIN es /\ es[r.id].status = "closed"
    BY <1>1 DEF Held
  <2>2. fs[r.id].inLoc = es[r.id].inLoc /\ fs[r.id].outLoc = es[r.id].outLoc
    BY <2>1 DEF FixesStay
  <2>3. QED
    BY <1>1, <2>2 DEF Measured, OnSite
<1>2. CASE ~(r.step = "write" /\ r.ev.kind = "assign")
  BY <1>2 DEF Measured
<1>3. QED
  BY <1>1, <1>2

LEMMA SiteStep ==
  ASSUME IndInv, MeasuredOK, NEW s \in Slots, NEW R, req' = [req EXCEPT ![s] = R],
         UNCHANGED World, FixesStay(entries, entries'),
         \A i \in DOMAIN entries' : Sited(entries'[i], moved, anchor),
         Measured(R, entries', moved, anchor)
  PROVE  SitedOK' /\ MeasuredOK'
<1>1. moved' = moved /\ anchor' = anchor
  BY DEF World
<1>2. ASSUME NEW t \in Slots PROVE Measured(req'[t], entries', moved, anchor)
  <2>1. CASE t = s
    BY <2>1 DEF IndInv, TypeOK
  <2>2. CASE t # s
    <3>1. req'[t] = req[t] /\ req[t] \in Request \cup {Idle}
      BY <2>2 DEF IndInv, TypeOK
    <3>2. Held(req[t], entries) /\ Measured(req[t], entries, moved, anchor)
      BY DEF IndInv, HeldOK, MeasuredOK
    <3>3. QED
      BY <3>1, <3>2, MeasuredStable
  <2>3. QED
    BY <2>1, <2>2
<1>3. QED
  BY <1>1, <1>2 DEF SitedOK, MeasuredOK

\* A step that writes no entry leaves only its own request to show.
LEMMA SiteRead ==
  ASSUME IndInv, SitedOK, MeasuredOK, NEW s \in Slots, NEW R, req' = [req EXCEPT ![s] = R],
         UNCHANGED World, entries' = entries, Measured(R, entries, moved, anchor)
  PROVE  SitedOK' /\ MeasuredOK'
<1>1. FixesStay(entries, entries')
  BY DEF FixesStay
<1>2. QED
  BY <1>1, SiteStep DEF SitedOK

LEMMA SiteQuiet ==
  ASSUME IndInv, SitedOK, MeasuredOK, NEW s \in Slots, NEW R, req' = [req EXCEPT ![s] = R],
         UNCHANGED World, entries' = entries, R.step # "write"
  PROVE  SitedOK' /\ MeasuredOK'
BY SiteRead DEF Measured

LEMMA SiteBegin ==
  ASSUME IndInv, SitedOK, MeasuredOK, NEW s \in Slots, NEW ev, NEW queued, NEW step,
         NEW code, NEW id, UNCHANGED World, entries' = entries,
         \/ step # "write" /\ Begin(s, ev, queued, step)
         \/ BeginAnswered(s, ev, queued, code, id)
  PROVE  SitedOK' /\ MeasuredOK'
<1> DEFINE B == [step |-> step, ev |-> ev, queued |-> queued, id |-> 0, emp |-> None,
                 age |-> 0, verified |-> FALSE, code |-> ""]
           A == [step |-> "answer", ev |-> ev, queued |-> queued, id |-> id, emp |-> None,
                 age |-> 0, verified |-> FALSE, code |-> code]
<1>1. B.step = step /\ A.step = "answer"
  OBVIOUS
<1>2. \/ step # "write" /\ req' = [req EXCEPT ![s] = B]
      \/ req' = [req EXCEPT ![s] = A]
  BY DEF Begin, BeginAnswered
<1> HIDE DEF A, B
<1>3. QED
  BY <1>1, <1>2, SiteQuiet

LEMMA SiteGoOn ==
  ASSUME IndInv, SitedOK, MeasuredOK, NEW s \in Slots, req[s] # Idle, NEW code, NEW id,
         UNCHANGED World, entries' = entries,
         Answer(s, code, id) \/ Proceed(s, "reread")
  PROVE  SitedOK' /\ MeasuredOK'
<1> DEFINE A == [req[s] EXCEPT !.step = "answer", !.code = code, !.id = id]
           P == [req[s] EXCEPT !.step = "reread"]
<1>1. A.step = "answer" /\ P.step = "reread"
  BY RecordsInRequest DEF Request
<1>2. req' = [req EXCEPT ![s] = A] \/ req' = [req EXCEPT ![s] = P]
  BY DEF Answer, Proceed
<1> HIDE DEF A, P
<1>3. QED
  BY <1>1, <1>2, SiteQuiet

\* One entry is replaced, in a step that answers.
LEMMA SiteWrite ==
  ASSUME IndInv, SitedOK, MeasuredOK, NEW s \in Slots, req[s] # Idle, NEW code, NEW id,
         UNCHANGED World, Answer(s, code, id),
         NEW i \in DOMAIN entries, NEW e, entries' = [entries EXCEPT ![i] = e],
         e.inLoc = entries[i].inLoc,
         entries[i].status = "closed" => e.outLoc = entries[i].outLoc,
         Sited(e, moved, anchor)
  PROVE  SitedOK' /\ MeasuredOK'
<1> DEFINE A == [req[s] EXCEPT !.step = "answer", !.code = code, !.id = id]
<1>1. A.step = "answer"
  BY RecordsInRequest DEF Request
<1>2. req' = [req EXCEPT ![s] = A]
  BY DEF Answer
<1> HIDE DEF A
<1>3. \A j \in DOMAIN entries' :
        j \in DOMAIN entries /\ entries'[j] = IF j = i THEN e ELSE entries[j]
  BY DEF IndInv, TypeOK
<1>4. FixesStay(entries, entries')
  BY DEF FixesStay, IndInv, TypeOK
<1>5. QED
  BY <1>1, <1>2, <1>3, <1>4, SiteStep DEF SitedOK, Measured
-----------------------------------------------------------------------------
LEMMA ClockInSited ==
  ASSUME IndInv, SitedOK, MeasuredOK, NEW s \in Slots,
         ClockInJudge(s) \/ ClockInInsert(s) \/ ClockInReread(s)
  PROVE  SitedOK' /\ MeasuredOK'
<1>1. CASE ClockInJudge(s)
  <2> DEFINE ev == req[s].ev
             R == [req[s] EXCEPT !.step = "write", !.age = now - ev.at]
  <2>1. req[s] # Idle /\ ev.kind = "in" /\ UNCHANGED World /\ entries' = entries
    BY <1>1, BusyAt DEF ClockInJudge
  <2>2. R.ev = ev /\ ev.at \in Nat /\ ev.quality \in Quality /\ now \in 0 .. MaxNow
    BY <2>1, RecordsInRequest DEF Request, Event, IndInv, TypeOK
  <2>3. CASE /\ req' = [req EXCEPT ![s] = R]
             /\ ValidateFix(ev, now, req[s].queued, AnchorsAtClockIn(ev.emp)) = "OK"
    <3>1. ev.emp \in Employers => anchor[ev.emp] \in AnchorsAtClockIn(ev.emp)
      BY EventsAssumption DEF AnchorsAtClockIn
    <3>2. \A a \in AnchorsAtClockIn(ev.emp) : WithinAnchor(ev.loc, a)
      BY <2>2, <2>3, VerdictOK DEF ValidateFix
    <3> HIDE DEF R
    <3>3. Measured(R, entries, moved, anchor)
      BY <2>1, <2>2, <3>1, <3>2 DEF Measured
    <3>4. QED
      BY <2>1, <2>3, <3>3, SiteRead
  <2>4. QED
    BY <1>1, <2>1, <2>3, SiteGoOn DEF ClockInJudge
<1>2. CASE ClockInInsert(s)
  <2> DEFINE ev == req[s].ev
             e == NewEntry(ev, BackdatedFlags(req[s].queued, req[s].age))
             R == [req[s] EXCEPT !.step = "answer", !.code = "CREATED", !.id = Len(entries) + 1]
  <2>1. req[s] # Idle /\ req[s].step = "write" /\ ev.kind = "in" /\ UNCHANGED World
    BY <1>2, BusyAt DEF ClockInInsert
  <2>2. CASE entries' = Append(entries, e) /\ Answer(s, "CREATED", Len(entries) + 1)
    <3>1. e.emp = ev.emp /\ e.inLoc = ev.loc /\ e.status = "open" /\ e.verified = TRUE
      BY DEF NewEntry
    <3>2. R.step = "answer"
      BY <2>1, RecordsInRequest DEF Request
    <3>3. req' = [req EXCEPT ![s] = R]
      BY <2>2 DEF Answer
    <3> HIDE DEF e, R
    <3>4. Measured(req[s], entries, moved, anchor)
      BY DEF MeasuredOK
    <3>5. Sited(e, moved, anchor)
      BY <2>1, <3>1, <3>4 DEF Sited, Measured
    <3>6. entries \in Seq(Entry)
      BY DEF IndInv, TypeOK
    <3>7. /\ \A i \in DOMAIN entries : entries'[i] = entries[i]
          /\ \A i \in DOMAIN entries' : i \in DOMAIN entries \/ entries'[i] = e
      BY <2>2, <3>6
    <3>8. FixesStay(entries, entries')
      BY <3>7 DEF FixesStay
    <3>9. QED
      BY <2>1, <3>2, <3>3, <3>5, <3>7, <3>8, SiteStep DEF SitedOK, Measured
  <2>3. QED
    BY <1>2, <2>1, <2>2, SiteGoOn DEF ClockInInsert
<1>3. CASE ClockInReread(s)
  BY <1>3, BusyAt, SiteGoOn DEF ClockInReread
<1>4. QED
  BY <1>1, <1>2, <1>3

LEMMA ClockOutSited ==
  ASSUME IndInv, SitedOK, MeasuredOK, NEW s \in Slots,
         ClockOutOpen(s) \/ ClockOutJudge(s) \/ ClockOutUpdate(s) \/ ClockOutReread(s)
  PROVE  SitedOK' /\ MeasuredOK'
<1>1. CASE ClockOutOpen(s)
  <2> DEFINE R(i) == [req[s] EXCEPT !.step = "judge", !.id = i, !.emp = entries[i].emp]
  <2>1. req[s] # Idle /\ UNCHANGED World /\ entries' = entries
    BY <1>1, BusyAt DEF ClockOutOpen
  <2>2. ASSUME NEW i, req' = [req EXCEPT ![s] = R(i)] PROVE SitedOK' /\ MeasuredOK'
    <3>1. R(i).step = "judge"
      BY <2>1, RecordsInRequest DEF Request
    <3> HIDE DEF R
    <3>2. QED
      BY <2>1, <2>2, <3>1, SiteQuiet
  <2>3. QED
    BY <1>1, <2>1, <2>2, SiteGoOn DEF ClockOutOpen
<1>2. CASE ClockOutJudge(s)
  <2> DEFINE ev == req[s].ev
             centres == AnchorsAtClose(req[s].emp, entries[req[s].id].inLoc)
             R == [req[s] EXCEPT !.step = "write", !.age = now - ev.at]
  <2>1. req[s] # Idle /\ ev.kind = "out" /\ UNCHANGED World /\ entries' = entries
    BY <1>2, BusyAt DEF ClockOutJudge
  <2>2. /\ R.ev = ev /\ R.emp = req[s].emp
        /\ ev.at \in Nat /\ ev.quality \in Quality /\ now \in 0 .. MaxNow
    BY <2>1, RecordsInRequest DEF Request, Event, IndInv, TypeOK
  <2>3. CASE /\ req' = [req EXCEPT ![s] = R]
             /\ ValidateClose(ev, now, req[s].queued, centres) = "OK"
    <3>1. req[s].emp \in Employers => anchor[req[s].emp] \in centres
      BY EventsAssumption DEF AnchorsAtClose
    <3>2. \A a \in centres : WithinAnchor(ev.loc, a)
      BY <2>2, <2>3, VerdictOK DEF ValidateClose
    <3> HIDE DEF R, centres
    <3>3. Measured(R, entries, moved, anchor)
      BY <2>1, <2>2, <3>1, <3>2 DEF Measured
    <3>4. QED
      BY <2>1, <2>3, <3>3, SiteRead
  <2>4. QED
    BY <1>2, <2>1, <2>3, SiteGoOn DEF ClockOutJudge
<1>3. CASE ClockOutUpdate(s)
  <2> DEFINE ev == req[s].ev
             i  == req[s].id
             e  == ClosedEntry(entries[i], ev, BackdatedFlags(req[s].queued, req[s].age))
  <2>1. req[s] # Idle /\ req[s].step = "write" /\ ev.kind = "out" /\ UNCHANGED World
    BY <1>3, BusyAt DEF ClockOutUpdate
  <2>2. CASE entries[i].status = "open"
    <3>1. i \in DOMAIN entries /\ entries[i].emp = req[s].emp
      BY <2>1, <2>2, RecordsInRequest DEF Held
    <3>2. entries[i] \in Entry
      BY <3>1, ElementOfSeq DEF IndInv, TypeOK
    <3>3. /\ e.emp = entries[i].emp /\ e.verified = entries[i].verified
          /\ e.inLoc = entries[i].inLoc /\ e.outLoc = ev.loc /\ e.status = "closed"
      BY <3>2 DEF ClosedEntry, Entry
    <3>4. entries' = [entries EXCEPT ![i] = e] /\ Answer(s, "OK", i)
      BY <1>3, <2>2 DEF ClockOutUpdate
    <3> HIDE DEF e
    <3>5. Sited(entries[i], moved, anchor) /\ Measured(req[s], entries, moved, anchor)
      BY <3>1 DEF SitedOK, MeasuredOK
    <3>6. Sited(e, moved, anchor)
      BY <2>1, <2>2, <3>1, <3>3, <3>5 DEF Sited, Measured, OnSite
    <3>7. QED
      BY <2>1, <2>2, <3>1, <3>3, <3>4, <3>6, SiteWrite
  <2>3. QED
    BY <1>3, <2>1, <2>2, SiteGoOn DEF ClockOutUpdate
<1>4. CASE ClockOutReread(s)
  BY <1>4, BusyAt, SiteGoOn DEF ClockOutReread
<1>5. QED
  BY <1>1, <1>2, <1>3, <1>4

LEMMA AssignSited ==
  ASSUME IndInv, SitedOK, MeasuredOK, NEW s \in Slots, AssignJudge(s) \/ AssignUpdate(s)
  PROVE  SitedOK' /\ MeasuredOK'
<1>1. CASE AssignJudge(s)
  <2> DEFINE ev == req[s].ev
             v == OnSite(entries[req[s].id], anchor[ev.emp])
             R == [req[s] EXCEPT !.step = "write", !.verified = v]
  <2>1. req[s] # Idle /\ ev.kind = "assign" /\ UNCHANGED World /\ entries' = entries
    BY <1>1, BusyAt DEF AssignJudge
  <2>2. R.ev = ev /\ R.id = req[s].id /\ R.verified = v
    BY <2>1, RecordsInRequest DEF Request
  <2>3. req' = [req EXCEPT ![s] = R] \/ Answer(s, "NOT_MEMBER", 0)
    BY <1>1 DEF AssignJudge
  <2> HIDE DEF R
  <2>4. Measured(R, entries, moved, anchor)
    BY <2>1, <2>2 DEF Measured
  <2>5. QED
    BY <2>1, <2>3, <2>4, SiteRead, SiteGoOn
<1>2. CASE AssignUpdate(s)
  <2> DEFINE ev == req[s].ev
             i  == req[s].id
             e  == [entries[i] EXCEPT !.emp = ev.emp, !.verified = req[s].verified]
  <2>1. req[s] # Idle /\ req[s].step = "write" /\ ev.kind = "assign" /\ UNCHANGED World
    BY <1>2, BusyAt DEF AssignUpdate
  <2>2. i \in DOMAIN entries /\ entries[i].status = "closed"
    BY <2>1, RecordsInRequest DEF Held
  <2>3. entries[i] \in Entry
    BY <2>2, ElementOfSeq DEF IndInv, TypeOK
  <2>4. /\ e.emp = ev.emp /\ e.verified = req[s].verified
        /\ e.inLoc = entries[i].inLoc /\ e.outLoc = entries[i].outLoc /\ e.status = "closed"
    BY <2>2, <2>3 DEF Entry
  <2>5. \/ entries' = [entries EXCEPT ![i] = e] /\ Answer(s, "OK", i)
        \/ entries' = entries /\ Answer(s, "INVALID", 0)
    BY <1>2 DEF AssignUpdate
  <2> HIDE DEF e
  <2>6. Measured(req[s], entries, moved, anchor)
    BY DEF MeasuredOK
  <2>7. Sited(e, moved, anchor)
    BY <2>1, <2>4, <2>6 DEF Sited, Measured, OnSite
  <2>8. QED
    BY <2>1, <2>2, <2>4, <2>5, <2>7, SiteWrite, SiteGoOn
<1>3. QED
  BY <1>1, <1>2

\* A moved centre joins `moved`; the speed flag touches neither fix nor verdict.
LEMMA EnvironmentSited ==
  ASSUME IndInv, SitedOK, MeasuredOK, Environment
  PROVE  SitedOK' /\ MeasuredOK'
<1>1. CASE UNCHANGED <<entries, req, anchor, moved>>
  BY <1>1 DEF SitedOK, MeasuredOK
<1>2. ASSUME NEW f \in Employers, NEW l \in Locs, MoveAnchor(f, l)
      PROVE  SitedOK' /\ MeasuredOK'
  <2>1. entries' = entries /\ req' = req /\ moved' = moved \cup {f}
    BY <1>2 DEF MoveAnchor
  <2>2. \A g \in Employers \ moved' : g \in Employers \ moved /\ anchor'[g] = anchor[g]
    BY <1>2 DEF MoveAnchor, IndInv, TypeOK
  <2>3. SitedOK'
    BY <2>1, <2>2 DEF SitedOK, Sited
  <2>4. MeasuredOK'
    BY <2>1, <2>2 DEF MeasuredOK, Measured
  <2>5. QED
    BY <2>3, <2>4
<1>3. ASSUME NEW i \in DOMAIN entries, FlagSpeed(i) PROVE SitedOK' /\ MeasuredOK'
  <2> DEFINE e == Flagged(entries[i], "speed_anomaly")
  <2>1. /\ entries' = [entries EXCEPT ![i] = e] /\ req' = req
        /\ moved' = moved /\ anchor' = anchor
    BY <1>3 DEF FlagSpeed, World
  <2>2. entries[i] \in Entry
    BY ElementOfSeq DEF IndInv, TypeOK
  <2>3. /\ e.emp = entries[i].emp /\ e.verified = entries[i].verified
        /\ e.inLoc = entries[i].inLoc /\ e.outLoc = entries[i].outLoc
        /\ e.status = entries[i].status
    BY <2>2 DEF Flagged, Entry
  <2> HIDE DEF e
  <2>4. \A j \in DOMAIN entries' :
          j \in DOMAIN entries /\ entries'[j] = IF j = i THEN e ELSE entries[j]
    BY <2>1 DEF IndInv, TypeOK
  <2>5. Sited(e, moved, anchor)
    BY <2>3 DEF SitedOK, Sited, OnSite
  <2>6. FixesStay(entries, entries')
    BY <2>1, <2>3 DEF FixesStay, IndInv, TypeOK
  <2>7. ASSUME NEW t \in Slots PROVE Measured(req[t], entries', moved, anchor)
    <3>1. /\ req[t] \in Request \cup {Idle} /\ Held(req[t], entries)
          /\ Measured(req[t], entries, moved, anchor)
      BY DEF IndInv, TypeOK, HeldOK, MeasuredOK
    <3>2. QED
      BY <2>6, <3>1, MeasuredStable
  <2>8. QED
    BY <2>1, <2>4, <2>5, <2>7 DEF SitedOK, MeasuredOK
<1>4. QED
  BY <1>1, <1>2, <1>3 DEF Environment, Tick, ChangeMembership

LEMMA NextSited ==
  ASSUME IndInv, SitedOK, MeasuredOK, [Next]_vars
  PROVE  SitedOK' /\ MeasuredOK'
<1>1. CASE UNCHANGED vars
  BY <1>1 DEF vars, SitedOK, MeasuredOK
<1>2. ASSUME NEW s \in Slots, Serve(s) PROVE SitedOK' /\ MeasuredOK'
  <2>1. ASSUME NEW ev \in Events, NEW queued \in BOOLEAN,
               ClockIn(s, ev, queued) \/ ClockOut(s, ev, queued)
        PROVE  SitedOK' /\ MeasuredOK'
    BY <2>1, SiteBegin DEF ClockIn, ClockOut
  <2>2. ASSUME NEW ev \in Events, NEW i \in DOMAIN entries, Assign(s, ev, i)
        PROVE  SitedOK' /\ MeasuredOK'
    <3> DEFINE J == [step |-> "judge", ev |-> ev, queued |-> FALSE, id |-> i, emp |-> None,
                     age |-> 0, verified |-> FALSE, code |-> ""]
    <3>1. J.step # "write" /\ UNCHANGED World /\ entries' = entries
      BY <2>2 DEF Assign
    <3> HIDE DEF J
    <3>2. CASE req' = [req EXCEPT ![s] = J]
      BY <3>1, <3>2, SiteQuiet
    <3>3. QED
      BY <2>2, <3>1, <3>2, SiteBegin DEF Assign, J
  <2>3. CASE Reply(s) \/ Fail(s)
    <3>1. Idle.step # "write"
      BY DEF Idle
    <3>2. QED
      BY <2>3, <3>1, SiteQuiet DEF Reply, Fail
  <2>4. QED
    BY <1>2, <2>1, <2>2, <2>3, ClockInSited, ClockOutSited, AssignSited DEF Serve
<1>3. QED
  BY <1>1, <1>2, EnvironmentSited DEF Next

LEMMA InitSited == Init => SitedOK /\ MeasuredOK
<1>1. Measured(Idle, << >>, {}, anchor)
  BY DEF Measured, Idle
<1>2. QED
  BY <1>1 DEF Init, SitedOK, MeasuredOK

\* A shift booked to an employer whose centre has not moved is verified exactly
\* when both its fixes lie within the radius, whether it was clocked in there or
\* assigned later, although every handler measures before it writes.
THEOREM VerifiedIsTrue == Spec => []VerifiedIffOnSite
<1>1. Init => SitedOK /\ MeasuredOK
  BY InitSited
<1>2. IndInv /\ SitedOK /\ MeasuredOK /\ [Next]_vars => SitedOK' /\ MeasuredOK'
  BY NextSited
<1>3. SitedOK => VerifiedIffOnSite
  BY DEF SitedOK, Sited, OnSite, VerifiedIffOnSite
<1>4. Spec => []IndInv
  BY InitInv, NextInv, PTL DEF Spec
<1>5. QED
  BY <1>1, <1>2, <1>3, <1>4, PTL DEF Spec
-----------------------------------------------------------------------------
(* A running shift can be closed *)

\* A good fix at the centre it is measured against passes at any later time:
\* a queued close has no age ceiling.
LEMMA LateCloseIsFresh ==
  ASSUME NEW l, NEW at \in Nat, NEW t \in Nat, t >= at, NEW anchors,
         \A a \in anchors : WithinAnchor(l, a)
  PROVE  ValidateClose([at |-> at, loc |-> l, quality |-> "good"], t, TRUE, anchors) = "OK"
<1> DEFINE fix == [at |-> at, loc |-> l, quality |-> "good"]
<1>1. fix.at = at /\ fix.loc = l /\ fix.quality = "good"
  OBVIOUS
<1>2. Freshness(t, fix.at, TRUE, Unbounded) = "OK"
  BY <1>1, SkewAssumption DEF Freshness, Unbounded
<1> HIDE DEF fix
<1>3. Verdict(fix, t, TRUE, anchors, Unbounded) = "OK"
  BY <1>1, <1>2 DEF Verdict
<1>4. QED
  BY <1>3 DEF ValidateClose, fix

LEMMA SitedIsClosable == IndInv /\ SitedOK => ClosableWhereItStarted
<1> SUFFICES ASSUME IndInv, SitedOK, NEW i \in DOMAIN entries,
                    entries[i].status = "open", entries[i].emp \notin moved
             PROVE  LET e   == entries[i]
                        fix == [at |-> e.inAt + 1, loc |-> e.inLoc, quality |-> "good"]
                        t   == IF now > fix.at THEN now ELSE fix.at
                    IN  ValidateClose(fix, t, TRUE, AnchorsAtClose(e.emp, e.inLoc)) = "OK"
  BY DEF ClosableWhereItStarted
<1> DEFINE l == entries[i].inLoc
           at == entries[i].inAt + 1
           t == IF now > at THEN now ELSE at
           centres == AnchorsAtClose(entries[i].emp, l)
<1>1. entries[i] \in Entry /\ now \in Nat
  <2>1. entries \in Seq(Entry) /\ now \in 0 .. MaxNow
    BY DEF IndInv, TypeOK
  <2>2. QED
    BY <2>1, ElementOfSeq, BoundAssumption
<1>2. l \in Locs /\ entries[i].emp \in Employers \cup {None}
  BY <1>1 DEF Entry
<1>3. at \in Nat /\ t \in Nat /\ t >= at
  <2>1. at \in Nat
    BY <1>1 DEF Entry
  <2> HIDE DEF at
  <2>2. QED
    BY <1>1, <2>1
<1>4. \A a \in centres : WithinAnchor(l, a)
  <2>1. CASE entries[i].emp = None
    BY <1>2, <2>1, NearAssumption DEF AnchorsAtClose, WithinAnchor
  <2>2. CASE entries[i].emp # None
    BY <1>2, <2>2 DEF AnchorsAtClose, SitedOK, Sited
  <2>3. QED
    BY <2>1, <2>2
<1> HIDE DEF l, at, t, centres
<1>5. ValidateClose([at |-> at, loc |-> l, quality |-> "good"], t, TRUE, centres) = "OK"
  BY <1>3, <1>4, LateCloseIsFresh
<1>6. QED
  BY <1>5, Zenon DEF l, at, t, centres

\* Nobody stays clocked in forever: at any time, however late and whatever
\* happened to the membership, a queued close with a good fix where the shift
\* started passes the rules, unless the employer's centre was moved.
THEOREM ShiftsCanBeClosed == Spec => []ClosableWhereItStarted
<1>1. Init => SitedOK /\ MeasuredOK
  BY InitSited
<1>2. IndInv /\ SitedOK /\ MeasuredOK /\ [Next]_vars => SitedOK' /\ MeasuredOK'
  BY NextSited
<1>3. IndInv /\ SitedOK => ClosableWhereItStarted
  BY SitedIsClosable
<1>4. Spec => []IndInv
  BY InitInv, NextInv, PTL DEF Spec
<1>5. QED
  BY <1>1, <1>2, <1>3, <1>4, PTL DEF Spec
=============================================================================
