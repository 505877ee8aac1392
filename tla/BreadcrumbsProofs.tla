------------------------- MODULE BreadcrumbsProofs -------------------------
(***************************************************************************)
(* The safety of Breadcrumbs, for every day, any number of places and any  *)
(* number of requests at once: what becomes of every breadcrumb, and on    *)
(* days in order, that every jump and only a jump is flagged.              *)
(***************************************************************************)
EXTENDS Breadcrumbs, TLAPS, FiniteSetTheorems, SequenceTheorems

Step(s)   == req[s].step
Busy(s)   == Step(s) # "idle"
Filing(s) == Step(s) \in {"walk", "add", "touch", "flag"}
Newest(s) == req[s].fixes[Len(req[s].fixes)].at
-----------------------------------------------------------------------------
(* The shape of the state. *)

\* A request carries a captured batch in time order, and past "open" one fix at
\* least; the phone waits on the request that carries the head of its queue.
Carried(s) ==
  /\ req[s].batch \in 1 .. captured /\ track[req[s].batch].kind = "pings"
  /\ req[s].fixes \in InTimeOrder(track[req[s].batch].fixes)
  /\ Filing(s) => req[s].fixes # << >>

Shape ==
  /\ TypeOK
  /\ \A i, j \in Running : i = j
  /\ \A s \in Slots : Busy(s) => Carried(s)
  /\ awaiting # None =>
       Busy(awaiting) /\ queue # << >> /\ req[awaiting].batch = Head(queue)
  /\ losses = 0 => \A s \in Slots : Busy(s) => s = awaiting
-----------------------------------------------------------------------------
(* What becomes of a breadcrumb of the running shift. *)

Seen(i, p) == shifts[i].lastPing # None /\ p.at <= shifts[i].lastPing

\* The handler that stored it has yet to touch the shift.
Touching(i, p) ==
  \E s \in Slots : Step(s) = "touch" /\ req[s].shift = i /\ p.at <= Newest(s)

\* Its handler died; the batch is still queued, and its next attempt is not done.
Queued(i, p) ==
  /\ losses = 1 /\ queue # << >> /\ track[Head(queue)].kind = "pings"
  /\ \E q \in track[Head(queue)].fixes : p.at <= q.at
  /\ \/ awaiting = None \/ Step(awaiting) = "open"
     \/ Step(awaiting) \in {"walk", "add"} /\ req[awaiting].shift = i

Followed ==
  losses <= 1 =>
    \A i \in Running : \A p \in Crumbs(i) : Seen(i, p) \/ Touching(i, p) \/ Queued(i, p)
-----------------------------------------------------------------------------
(* Days in order. *)

\* How much of the day the server has dealt with.
Done == captured - Len(queue)

\* Batch n was captured on shift i.
Belongs(n, i) ==
  /\ n \in shifts[i].from + 1 .. Len(track) /\ track[n].kind = "pings"
  /\ \A m \in shifts[i].from + 1 .. n : track[m].kind # "in"

\* What is queued is the rest of the day.
FiledQueue == \A k \in 1 .. Len(queue) : queue[k] = Done + k

FiledShift(i) ==
  /\ shifts[i].from \in 1 .. Done /\ track[shifts[i].from].kind = "in"
  /\ shifts[i].in = track[shifts[i].from].fix
  /\ shifts[i].open => \A n \in shifts[i].from + 1 .. Done : track[n].kind # "out"

\* A request's batch is on record.
Stowed(s) == Step(s) \in {"touch", "flag", "answer"}
FiledPing(k) ==
  /\ Belongs(pings[k].batch, pings[k].shift)
  /\ pings[k].fix \in track[pings[k].batch].fixes
  /\ \/ pings[k].batch <= Done
     \/ \E s \in Slots : Stowed(s) /\ req[s].batch = pings[k].batch

Filed ==
  /\ FiledQueue
  /\ \A i \in DOMAIN shifts : FiledShift(i)
  /\ \A k \in DOMAIN pings : FiledPing(k)
  /\ \A s \in Slots : Filing(s) => req[s].shift \in Running

\* A suspicion is about the shift's own points.
OwnJump(i) == \E p, q \in Own(i) : Impossible(p, q)
Earned ==
  /\ \A i \in DOMAIN shifts : shifts[i].speed => OwnJump(i)
  /\ \A s \in Slots :
       /\ Filing(s) /\ req[s].anomaly => OwnJump(req[s].shift)
       /\ Step(s) = "open" => ~req[s].anomaly
       /\ Step(s) = "flag" => req[s].anomaly

\* Every jump on record is suspected.
Points(i) == {shifts[i].in} \cup Crumbs(i)
Suspect(i) ==
  \/ shifts[i].speed
  \/ \E s \in Slots : Step(s) \in {"touch", "flag"} /\ req[s].shift = i /\ req[s].anomaly
Suspected == \A i \in DOMAIN shifts : Jumps(Points(i)) # {} => Suspect(i)

\* What the handler has walked it is about to store.
Walked ==
  \A s \in Slots : Step(s) = "add" /\ ~req[s].anomaly =>
    \E p \in LastKnown(req[s].shift) : ~Anomalous(p, req[s].fixes)

InOrderInv == InOrder => Filed /\ Earned /\ Suspected /\ Walked

-----------------------------------------------------------------------------
(* Batches in time order. *)

\* Every fix of the batch is in the sequence once, and the last is the newest.
LEMMA TimeOrder ==
  ASSUME NEW S, IsFiniteSet(S), NEW seq \in InTimeOrder(S)
  PROVE  /\ seq \in Seq(S) /\ Len(seq) \in Nat /\ DOMAIN seq = 1 .. Len(seq)
         /\ \A p \in S : \E k \in DOMAIN seq : seq[k] = p
         /\ \A k \in DOMAIN seq : seq[k] \in S
         /\ \A j, k \in DOMAIN seq : j # k => seq[j] # seq[k]
         /\ \A j, k \in DOMAIN seq : j < k => seq[j].at <= seq[k].at
<1> DEFINE N == Cardinality(S)
<1>1. N \in Nat
  BY FS_CardinalityType
<1>2. /\ seq \in [1 .. N -> S]
      /\ \A j, k \in 1 .. N : j # k => seq[j] # seq[k]
      /\ \A j, k \in DOMAIN seq : j < k => seq[j].at <= seq[k].at
  BY DEF InTimeOrder, SetToSeqs
<1> HIDE DEF N
<1>3. seq \in Seq(S) /\ Len(seq) = N /\ DOMAIN seq = 1 .. N
  BY <1>1, <1>2
<1>4. seq \in Injection(1 .. N, S)
  BY <1>2 DEF Injection, IsInjective
<1>5. Cardinality(1 .. N) = Cardinality(S)
  BY <1>1, FS_Interval DEF N
<1>6. seq \in Surjection(1 .. N, S)
  BY <1>4, <1>5, FS_Injection
<1>7. \A p \in S : \E k \in 1 .. N : seq[k] = p
  BY <1>6 DEF Surjection
<1>8. QED
  BY <1>1, <1>2, <1>3, <1>7

LEMMA NewestLast ==
  ASSUME NEW S \in SUBSET Fix, IsFiniteSet(S), NEW seq \in InTimeOrder(S), seq # << >>
  PROVE  /\ Len(seq) \in 1 .. Len(seq) /\ seq[Len(seq)] \in S /\ seq[Len(seq)].at \in Nat
         /\ \A p \in S : p.at <= seq[Len(seq)].at
<1>1. /\ seq \in Seq(S) /\ Len(seq) \in Nat /\ DOMAIN seq = 1 .. Len(seq)
      /\ \A p \in S : \E k \in DOMAIN seq : seq[k] = p
      /\ \A k \in DOMAIN seq : seq[k] \in S
      /\ \A j, k \in DOMAIN seq : j < k => seq[j].at <= seq[k].at
  BY TimeOrder
<1>2. Len(seq) # 0
  BY <1>1
<1>3. Len(seq) \in DOMAIN seq
  BY <1>1, <1>2
<1>4. \A p \in S : p.at \in Nat
  BY DEF Fix
<1>5. ASSUME NEW p \in S PROVE p.at <= seq[Len(seq)].at
  <2>1. PICK k \in DOMAIN seq : seq[k] = p
    BY <1>1
  <2>2. k < Len(seq) \/ k = Len(seq)
    BY <1>1
  <2>3. QED
    BY <1>1, <1>3, <1>4, <2>1, <2>2
<1>6. QED
  BY <1>1, <1>3, <1>4, <1>5
-----------------------------------------------------------------------------
(* Requests, and what a step does to one of them. *)

Steps == {"open", "walk", "add", "touch", "flag", "answer"}

LEMMA DayFacts ==
  ASSUME TypeOK
  PROVE  /\ track \in Seq(Tap \cup Batch) /\ Len(track) \in Nat /\ captured \in Nat
         /\ captured <= Len(track) /\ DOMAIN track = 1 .. Len(track)
         /\ \A n \in 1 .. Len(track) : track[n].kind = "pings" =>
              track[n].fixes \subseteq Fix /\ IsFiniteSet(track[n].fixes)
         /\ \A n \in 1 .. Len(track) : track[n].kind # "pings" =>
              track[n].kind \in {"in", "out"} /\ track[n].fix \in Fix
         /\ day.losses \in Nat /\ losses \in Nat /\ losses <= day.losses
<1>1. day \in Days /\ captured \in 0 .. Len(track) /\ losses \in 0 .. day.losses
  BY DEF TypeOK
<1>2. day \in Day
  BY <1>1, DayAssumption
<1>3. track \in Seq(Tap \cup Batch) /\ day.losses \in Nat
  BY <1>2 DEF Day, track
<1>4. Len(track) \in Nat /\ DOMAIN track = 1 .. Len(track)
  BY <1>3
<1>5. \A n \in 1 .. Len(track) : track[n] \in Tap \cup Batch
  BY <1>3
<1>6. \A e \in Tap : e.kind \in {"in", "out"} /\ e.fix \in Fix
  BY DEF Tap
<1>7. \A e \in Batch : e.kind = "pings" /\ e.fixes \subseteq Fix
  BY DEF Batch
<1>8. \A n \in 1 .. Len(track) : track[n].kind = "pings" => IsFiniteSet(track[n].fixes)
  BY <1>1, <1>4, DayAssumption DEF track
<1>9. QED
  BY <1>1, <1>3, <1>4, <1>5, <1>6, <1>7, <1>8

LEMMA ReqFacts ==
  ASSUME TypeOK, NEW s \in Slots
  PROVE  /\ Busy(s) => req[s] \in Request
         /\ Step(s) \in Steps \cup {"idle"}
         /\ req[s] = Idle <=> ~Busy(s)
<1>1. req[s] \in Request \/ req[s] = Idle
  BY DEF TypeOK
<1>2. \A r \in Request : r.step \in Steps /\ r.step # "idle"
  BY DEF Request, Steps
<1>3. Idle.step = "idle"
  BY DEF Idle
<1>4. QED
  BY <1>1, <1>2, <1>3 DEF Busy, Step

\* The other requests stay as they are.
Others(s) == \A t \in Slots \ {s} : req'[t] = req[t]

LEMMA ReqSet ==
  ASSUME TypeOK, NEW s \in Slots, NEW r \in Request \cup {Idle}, req' = [req EXCEPT ![s] = r]
  PROVE  req' \in [Slots -> Request \cup {Idle}] /\ req'[s] = r /\ Others(s)
<1>1. req \in [Slots -> Request \cup {Idle}]
  BY DEF TypeOK
<1>2. QED
  BY <1>1 DEF Others

\* Only the step, and perhaps the shift and the verdict, change along the way.
Kept(s) == req'[s].batch = req[s].batch /\ req'[s].fixes = req[s].fixes

LEMMA StepSet ==
  ASSUME NEW r \in Request, NEW x \in Steps
  PROVE  LET q == [r EXCEPT !.step = x]
         IN  /\ q \in Request /\ q.step = x /\ q.batch = r.batch /\ q.fixes = r.fixes
             /\ q.shift = r.shift /\ q.anomaly = r.anomaly
BY DEF Request, Steps

LEMMA SendEffect ==
  ASSUME TypeOK, NEW s \in Slots, SendPings(s)
  PROVE  /\ queue # << >> /\ awaiting = None /\ ~Busy(s) /\ awaiting' = s /\ Others(s)
         /\ queue \in Seq(1 .. captured) /\ Head(queue) \in 1 .. captured
         /\ track[Head(queue)].kind = "pings"
         /\ req' \in [Slots -> Request \cup {Idle}]
         /\ Step(s)' = "open" /\ req'[s].batch = Head(queue)
         /\ req'[s].fixes \in InTimeOrder(track[Head(queue)].fixes)
         /\ req'[s].anomaly = FALSE
         /\ UNCHANGED <<day, captured, queue, losses, shifts, pings>>
<1>1. /\ queue # << >> /\ awaiting = None /\ req[s] = Idle
      /\ track[Head(queue)].kind = "pings"
      /\ \E fixes \in InTimeOrder(track[Head(queue)].fixes) :
           req' = [req EXCEPT ![s] = [step |-> "open", batch |-> Head(queue),
                                      fixes |-> fixes, shift |-> 0, anomaly |-> FALSE]]
      /\ awaiting' = s
      /\ UNCHANGED <<day, captured, queue, losses, shifts, pings>>
  BY Zenon DEF SendPings
<1>2. queue \in Seq(1 .. captured) /\ Head(queue) \in 1 .. captured
  BY <1>1 DEF TypeOK
<1>3. Head(queue) \in 1 .. Len(track)
  BY <1>2, DayFacts
<1>4. PICK fixes \in InTimeOrder(track[Head(queue)].fixes) :
        req' = [req EXCEPT ![s] = [step |-> "open", batch |-> Head(queue),
                                   fixes |-> fixes, shift |-> 0, anomaly |-> FALSE]]
  BY <1>1
<1>5. track[Head(queue)].fixes \subseteq Fix /\ IsFiniteSet(track[Head(queue)].fixes)
  BY <1>1, <1>3, DayFacts
<1>6. fixes \in Seq(Fix)
  <2>1. fixes \in Seq(track[Head(queue)].fixes)
    BY <1>5, TimeOrder
  <2>2. QED
    BY <1>5, <2>1
<1> DEFINE r == [step |-> "open", batch |-> Head(queue),
                 fixes |-> fixes, shift |-> 0, anomaly |-> FALSE]
<1>7. r \in Request
  BY <1>2, <1>6 DEF Request
<1>8. /\ r.step = "open" /\ r.batch = Head(queue) /\ r.fixes = fixes /\ r.anomaly = FALSE
  OBVIOUS
<1>9. req' = [req EXCEPT ![s] = r]
  BY <1>4
<1> HIDE DEF r
<1>10. req' \in [Slots -> Request \cup {Idle}] /\ req'[s] = r /\ Others(s)
  BY <1>7, <1>9, ReqSet
<1>11. ~Busy(s)
  BY <1>1, ReqFacts
<1>12. QED
  BY <1>1, <1>2, <1>4, <1>8, <1>10, <1>11 DEF Step

LEMMA OpenEffect ==
  ASSUME TypeOK, NEW s \in Slots, PingsOpen(s)
  PROVE  /\ Step(s) = "open" /\ Others(s) /\ Kept(s)
         /\ req' \in [Slots -> Request \cup {Idle}]
         /\ \/ (Running = {} \/ req[s].fixes = << >>) /\ Step(s)' = "answer"
            \/ /\ Step(s)' = "walk" /\ req[s].fixes # << >> /\ req'[s].shift \in Running
               /\ req'[s].anomaly = req[s].anomaly
         /\ UNCHANGED <<day, captured, queue, awaiting, losses, shifts, pings>>
<1>1. /\ Step(s) = "open"
      /\ UNCHANGED <<day, captured, queue, awaiting, losses, shifts, pings>>
  BY Zenon DEF PingsOpen, At, Step
<1>2. req[s] \in Request
  BY <1>1, ReqFacts DEF Busy
<1>3. CASE /\ Running = {} \/ req[s].fixes = << >>
           /\ req' = [req EXCEPT ![s] = [req[s] EXCEPT !.step = "answer"]]
  <2> DEFINE r == [req[s] EXCEPT !.step = "answer"]
  <2>1. "answer" \in Steps
    BY DEF Steps
  <2>2. r \in Request /\ r.step = "answer" /\ r.batch = req[s].batch /\ r.fixes = req[s].fixes
    BY <1>2, <2>1, StepSet
  <2> HIDE DEF r
  <2>3. req' = [req EXCEPT ![s] = r]
    BY <1>3 DEF r
  <2>4. QED
    BY <1>1, <1>3, <2>2, <2>3, ReqSet DEF Step, Kept
<1>4. CASE \E i \in Running :
             /\ req[s].fixes # << >>
             /\ req' = [req EXCEPT ![s] = [req[s] EXCEPT !.step = "walk", !.shift = i]]
  <2>1. PICK i \in Running :
          /\ req[s].fixes # << >>
          /\ req' = [req EXCEPT ![s] = [req[s] EXCEPT !.step = "walk", !.shift = i]]
    BY <1>4
  <2>2. i \in Nat
    BY DEF Running, TypeOK
  <2> DEFINE r == [req[s] EXCEPT !.step = "walk", !.shift = i]
  <2>3. /\ r \in Request /\ r.step = "walk" /\ r.shift = i
        /\ r.batch = req[s].batch /\ r.fixes = req[s].fixes /\ r.anomaly = req[s].anomaly
    BY <1>2, <2>2 DEF Request
  <2> HIDE DEF r
  <2>4. req' = [req EXCEPT ![s] = r]
    BY <2>1 DEF r
  <2>5. QED
    BY <1>1, <2>1, <2>3, <2>4, ReqSet DEF Step, Kept
<1>5. QED
  BY <1>3, <1>4, Zenon DEF PingsOpen

LEMMA WalkEffect ==
  ASSUME TypeOK, NEW s \in Slots, PingsWalk(s)
  PROVE  /\ Step(s) = "walk" /\ Step(s)' = "add" /\ Others(s) /\ Kept(s)
         /\ req' \in [Slots -> Request \cup {Idle}]
         /\ req'[s].shift = req[s].shift
         /\ \E prev \in LastKnown(req[s].shift) :
              req'[s].anomaly = Anomalous(prev, req[s].fixes)
         /\ UNCHANGED <<day, captured, queue, awaiting, losses, shifts, pings>>
<1>1. /\ Step(s) = "walk"
      /\ \E prev \in LastKnown(req[s].shift) :
           req' = [req EXCEPT ![s] = [req[s] EXCEPT !.step = "add",
                                        !.anomaly = Anomalous(prev, req[s].fixes)]]
      /\ UNCHANGED <<day, captured, queue, awaiting, losses, shifts, pings>>
  BY Zenon DEF PingsWalk, At, Step
<1>2. req[s] \in Request
  BY <1>1, ReqFacts DEF Busy
<1>3. PICK prev \in LastKnown(req[s].shift) :
        req' = [req EXCEPT ![s] = [req[s] EXCEPT !.step = "add",
                                     !.anomaly = Anomalous(prev, req[s].fixes)]]
  BY <1>1
<1>4. PICK a \in BOOLEAN : a = Anomalous(prev, req[s].fixes)
  BY Zenon DEF Anomalous
<1> DEFINE r == [req[s] EXCEPT !.step = "add", !.anomaly = a]
<1>5. /\ r \in Request /\ r.step = "add" /\ r.shift = req[s].shift
      /\ r.batch = req[s].batch /\ r.fixes = req[s].fixes /\ r.anomaly = a
  BY <1>2 DEF Request
<1>6. req' = [req EXCEPT ![s] = r]
  BY <1>3, <1>4
<1> HIDE DEF r
<1>7. req' \in [Slots -> Request \cup {Idle}] /\ req'[s] = r /\ Others(s)
  BY <1>5, <1>6, ReqSet
<1>8. req'[s].anomaly = Anomalous(prev, req[s].fixes)
  BY <1>4, <1>5, <1>7, Zenon
<1>9. QED
  BY <1>1, <1>5, <1>7, <1>8 DEF Step, Kept
-----------------------------------------------------------------------------
(* What is stored, and what is done to a shift. *)

\* The first n fixes of a request become breadcrumbs of its shift.
LEMMA Stored ==
  ASSUME TypeOK, NEW s \in Slots, Filing(s), NEW n \in 0 .. Len(req[s].fixes),
         pings' = pings \o Documents(s, n)
  PROVE  /\ pings' \in Seq(Ping) /\ Len(pings) \in Nat /\ Len(pings') = Len(pings) + n
         /\ \A k \in 1 .. Len(pings) : pings'[k] = pings[k]
         /\ \A k \in Len(pings) + 1 .. Len(pings) + n :
              /\ pings'[k].shift = req[s].shift /\ pings'[k].batch = req[s].batch
              /\ k - Len(pings) \in 1 .. n /\ pings'[k].fix = req[s].fixes[k - Len(pings)]
         /\ \A i : \A p \in Crumbs(i) : p \in Crumbs(i)'
         /\ \A i : \A p \in Crumbs(i)' :
              p \in Crumbs(i) \/ (i = req[s].shift /\ \E k \in 1 .. n : p = req[s].fixes[k])
         /\ \A i : i = req[s].shift => \A k \in 1 .. n : req[s].fixes[k] \in Crumbs(i)'
<1> DEFINE docs == Documents(s, n)
<1>1. req[s] \in Request
  BY ReqFacts DEF Filing, Busy
<1>2. /\ req[s].fixes \in Seq(Fix) /\ req[s].shift \in Nat /\ req[s].batch \in Nat
  BY <1>1 DEF Request
<1>3. Len(req[s].fixes) \in Nat /\ n \in Nat /\ n <= Len(req[s].fixes)
  BY <1>2
<1>4. \A k \in 1 .. n : req[s].fixes[k] \in Fix
  BY <1>2, <1>3
<1>5. \A k \in 1 .. n : docs[k] = [shift |-> req[s].shift, batch |-> req[s].batch,
                                  fix |-> req[s].fixes[k]]
  BY Zenon DEF Documents
<1>6. docs = [k \in 1 .. n |-> docs[k]]
  BY Zenon DEF Documents
<1>7. pings' = pings \o docs
  OBVIOUS
<1> HIDE DEF docs
<1>8. ASSUME NEW k \in 1 .. n PROVE docs[k] \in Ping
  <2> DEFINE d == [shift |-> req[s].shift, batch |-> req[s].batch, fix |-> req[s].fixes[k]]
  <2>1. d \in Ping
    BY <1>2, <1>4 DEF Ping
  <2>2. docs[k] = d
    BY <1>5
  <2>3. QED
    BY <2>1, <2>2
<1>9. docs \in Seq(Ping) /\ Len(docs) = n
  BY <1>3, <1>6, <1>8
<1>10. pings \in Seq(Ping) /\ Len(pings) \in Nat
  BY DEF TypeOK
<1>11. /\ pings' \in Seq(Ping) /\ Len(pings') = Len(pings) + n
       /\ \A k \in 1 .. Len(pings) : pings'[k] = pings[k]
       /\ \A k \in Len(pings) + 1 .. Len(pings) + n : pings'[k] = docs[k - Len(pings)]
  <2>1. Len(pings') = Len(pings) + n /\ pings' \in Seq(Ping)
    <3>1. pings \o docs \in Seq(Ping)
      BY <1>9, <1>10
    <3>2. Len(pings \o docs) = Len(pings) + n
      BY <1>9, <1>10, ConcatProperties
    <3>3. QED
      BY <3>1, <3>2, <1>7
  <2>2. ASSUME NEW k \in 1 .. Len(pings) PROVE pings'[k] = pings[k]
    BY <1>3, <1>9, <1>10, <1>7, <2>2
  <2>3. ASSUME NEW k \in Len(pings) + 1 .. Len(pings) + n PROVE pings'[k] = docs[k - Len(pings)]
    BY <1>3, <1>9, <1>10, <1>7, <2>3
  <2>4. QED
    BY <2>1, <2>2, <2>3
<1>12. \A k \in Len(pings) + 1 .. Len(pings) + n :
         /\ pings'[k].shift = req[s].shift /\ pings'[k].batch = req[s].batch
         /\ k - Len(pings) \in 1 .. n /\ pings'[k].fix = req[s].fixes[k - Len(pings)]
  <2> SUFFICES ASSUME NEW k \in Len(pings) + 1 .. Len(pings) + n
               PROVE  /\ pings'[k].shift = req[s].shift /\ pings'[k].batch = req[s].batch
                      /\ k - Len(pings) \in 1 .. n
                      /\ pings'[k].fix = req[s].fixes[k - Len(pings)]
    OBVIOUS
  <2>1. k - Len(pings) \in 1 .. n
    BY <1>3, <1>10
  <2> DEFINE d == [shift |-> req[s].shift, batch |-> req[s].batch,
                   fix |-> req[s].fixes[k - Len(pings)]]
  <2>2. /\ d.shift = req[s].shift /\ d.batch = req[s].batch
        /\ d.fix = req[s].fixes[k - Len(pings)]
    OBVIOUS
  <2>3. pings'[k] = d
    BY <1>5, <1>11, <2>1
  <2> HIDE DEF d
  <2>4. QED
    BY <2>1, <2>2, <2>3
<1>13. DOMAIN pings = 1 .. Len(pings) /\ DOMAIN pings' = 1 .. Len(pings) + n
  BY <1>10, <1>11
<1>14. \A k \in 1 .. Len(pings) : k \in 1 .. Len(pings) + n
  BY <1>3, <1>10
<1> DEFINE Old(i) == {k \in DOMAIN pings : pings[k].shift = i}
           New(i) == {k \in DOMAIN pings' : pings'[k].shift = i}
<1>15. \A i : \A p : (p \in Crumbs(i) <=> \E k \in Old(i) : p = pings[k].fix)
  BY DEF Crumbs
<1>16. \A i : \A p : (p \in Crumbs(i)' <=> \E k \in New(i) : p = pings'[k].fix)
  BY DEF Crumbs
<1>17. \A i : \A p \in Crumbs(i) : p \in Crumbs(i)'
  BY <1>11, <1>13, <1>14, <1>15, <1>16
<1>18. ASSUME NEW i, NEW p \in Crumbs(i)'
       PROVE  p \in Crumbs(i) \/ (i = req[s].shift /\ \E k \in 1 .. n : p = req[s].fixes[k])
  <2>1. PICK k \in DOMAIN pings' : pings'[k].shift = i /\ p = pings'[k].fix
    BY <1>18, <1>16
  <2>2. CASE k \in 1 .. Len(pings)
    <3>1. pings[k].shift = i /\ p = pings[k].fix /\ k \in DOMAIN pings
      BY <1>11, <1>13, <2>1, <2>2
    <3>2. k \in Old(i)
      BY <3>1
    <3>3. p \in Crumbs(i)
      BY <3>1, <3>2, <1>15
    <3>4. QED
      BY <3>3
  <2>3. CASE k \in Len(pings) + 1 .. Len(pings) + n
    BY <1>12, <2>1, <2>3
  <2>4. QED
    BY <1>3, <1>10, <1>13, <2>1, <2>2, <2>3
<1>19. ASSUME NEW i, i = req[s].shift, NEW k \in 1 .. n PROVE req[s].fixes[k] \in Crumbs(i)'
  <2> DEFINE m == Len(pings) + k
  <2>1. m \in Len(pings) + 1 .. Len(pings) + n /\ m - Len(pings) = k /\ m \in DOMAIN pings'
    BY <1>3, <1>10, <1>13
  <2> HIDE DEF m
  <2>2. pings'[m].shift = i /\ pings'[m].fix = req[s].fixes[k]
    BY <1>12, <1>19, <2>1
  <2>3. QED
    BY <2>1, <2>2, <1>16
<1>20. QED
  BY <1>10, <1>11, <1>12, <1>17, <1>18, <1>19

LEMMA AddEffect ==
  ASSUME TypeOK, NEW s \in Slots, AddPings(s)
  PROVE  /\ Step(s) = "add" /\ Step(s)' = "touch" /\ Others(s) /\ Kept(s)
         /\ req' \in [Slots -> Request \cup {Idle}]
         /\ req'[s].shift = req[s].shift /\ req'[s].anomaly = req[s].anomaly
         /\ Len(req[s].fixes) \in 0 .. Len(req[s].fixes)
         /\ pings' = pings \o Documents(s, Len(req[s].fixes))
         /\ UNCHANGED <<day, captured, queue, awaiting, losses, shifts>>
<1>1. /\ Step(s) = "add"
      /\ pings' = pings \o Documents(s, Len(req[s].fixes))
      /\ req' = [req EXCEPT ![s] = [req[s] EXCEPT !.step = "touch"]]
      /\ UNCHANGED <<day, captured, queue, awaiting, losses, shifts>>
  BY Zenon DEF AddPings, At, Step
<1>2. req[s] \in Request
  BY <1>1, ReqFacts DEF Busy
<1>3. Len(req[s].fixes) \in 0 .. Len(req[s].fixes)
  BY <1>2 DEF Request
<1> DEFINE r == [req[s] EXCEPT !.step = "touch"]
<1>4. "touch" \in Steps
  BY DEF Steps
<1>5. /\ r \in Request /\ r.step = "touch" /\ r.batch = req[s].batch /\ r.fixes = req[s].fixes
      /\ r.shift = req[s].shift /\ r.anomaly = req[s].anomaly
  BY <1>2, <1>4, StepSet
<1> HIDE DEF r
<1>6. req' = [req EXCEPT ![s] = r]
  BY <1>1 DEF r
<1>7. req' \in [Slots -> Request \cup {Idle}] /\ req'[s] = r /\ Others(s)
  BY <1>5, <1>6, ReqSet
<1>8. QED
  BY <1>1, <1>3, <1>5, <1>7, Zenon DEF Step, Kept

\* A shift's beginning does not change.
SameShifts ==
  /\ shifts' \in Seq(Shift) /\ DOMAIN shifts' = DOMAIN shifts
  /\ \A i \in DOMAIN shifts : shifts'[i].from = shifts[i].from /\ shifts'[i].in = shifts[i].in

LEMMA ShiftSet ==
  ASSUME TypeOK, NEW i \in DOMAIN shifts, NEW r \in Shift, shifts' = [shifts EXCEPT ![i] = r]
  PROVE  /\ shifts' \in Seq(Shift) /\ DOMAIN shifts' = DOMAIN shifts
         /\ shifts'[i] = r /\ \A j \in DOMAIN shifts \ {i} : shifts'[j] = shifts[j]
<1>1. shifts \in Seq(Shift)
  BY DEF TypeOK
<1>2. QED
  BY <1>1

LEMMA TouchEffect ==
  ASSUME Shape, NEW s \in Slots, TouchLastPing(s)
  PROVE  /\ Step(s) = "touch" /\ Others(s) /\ Kept(s)
         /\ Step(s)' = IF req[s].anomaly THEN "flag" ELSE "answer"
         /\ req' \in [Slots -> Request \cup {Idle}]
         /\ req'[s].shift = req[s].shift /\ req'[s].anomaly = req[s].anomaly
         /\ SameShifts /\ req[s].shift \in DOMAIN shifts /\ Newest(s) \in Nat
         /\ \A i \in DOMAIN shifts :
              /\ shifts'[i].open = shifts[i].open /\ shifts'[i].speed = shifts[i].speed
              /\ i # req[s].shift => shifts'[i].lastPing = shifts[i].lastPing
              /\ i = req[s].shift =>
                   shifts'[i].lastPing = Latest(shifts[i].lastPing, Newest(s))
         /\ UNCHANGED <<day, captured, queue, awaiting, losses, pings>>
<1> DEFINE i == req[s].shift
           x == Latest(shifts[i].lastPing, Newest(s))
           q == [shifts[i] EXCEPT !.lastPing = x]
           y == IF req[s].anomaly THEN "flag" ELSE "answer"
           r == [req[s] EXCEPT !.step = y]
<1>1. /\ Step(s) = "touch"
      /\ shifts' = [shifts EXCEPT ![i] = q]
      /\ req' = [req EXCEPT ![s] = r]
      /\ UNCHANGED <<day, captured, queue, awaiting, losses, pings>>
  BY Zenon DEF TouchLastPing, At, Step, Newest
<1>2. TypeOK /\ req[s] \in Request /\ Carried(s) /\ req[s].fixes # << >>
  BY <1>1, ReqFacts DEF Shape, Busy, Carried, Filing
<1>3. i \in DOMAIN shifts
  BY <1>1, <1>2 DEF TypeOK, Step
<1>4. shifts[i] \in Shift
  BY <1>2, <1>3 DEF TypeOK
<1>5. Newest(s) \in Nat
  <2>1. req[s].batch \in 1 .. Len(track)
    BY <1>2, DayFacts DEF Carried
  <2>2. /\ track[req[s].batch].fixes \subseteq Fix /\ IsFiniteSet(track[req[s].batch].fixes)
        /\ req[s].fixes \in InTimeOrder(track[req[s].batch].fixes)
    BY <1>2, <2>1, DayFacts DEF Carried
  <2>3. QED
    BY <1>2, <2>2, NewestLast DEF Newest
<1>6. shifts[i].lastPing \in Nat \cup {None}
  BY <1>4 DEF Shift
<1>7. x \in Nat \cup {None}
  BY <1>5, <1>6 DEF Latest
<1> HIDE DEF x
<1>8. /\ q \in Shift /\ q.lastPing = x /\ q.open = shifts[i].open /\ q.speed = shifts[i].speed
      /\ q.from = shifts[i].from /\ q.in = shifts[i].in
  BY <1>4, <1>7 DEF Shift
<1> HIDE DEF q
<1>9. /\ shifts' \in Seq(Shift) /\ DOMAIN shifts' = DOMAIN shifts
      /\ shifts'[i] = q /\ \A j \in DOMAIN shifts \ {i} : shifts'[j] = shifts[j]
  BY <1>1, <1>2, <1>3, <1>8, ShiftSet
<1>10. y \in Steps
  BY DEF Steps
<1> HIDE DEF y
<1>11. /\ r \in Request /\ r.step = y /\ r.batch = req[s].batch /\ r.fixes = req[s].fixes
       /\ r.shift = req[s].shift /\ r.anomaly = req[s].anomaly
  BY <1>2, <1>10, StepSet
<1> HIDE DEF r
<1>12. req' \in [Slots -> Request \cup {Idle}] /\ req'[s] = r /\ Others(s)
  BY <1>1, <1>2, <1>11, ReqSet
<1>13. /\ SameShifts
       /\ \A j \in DOMAIN shifts :
            /\ shifts'[j].open = shifts[j].open /\ shifts'[j].speed = shifts[j].speed
            /\ j # i => shifts'[j].lastPing = shifts[j].lastPing
            /\ j = i => shifts'[j].lastPing = x
  BY <1>8, <1>9, Zenon DEF SameShifts
<1>14. Step(s)' = y /\ Kept(s) /\ req'[s].shift = i /\ req'[s].anomaly = req[s].anomaly
  BY <1>11, <1>12, Zenon DEF Step, Kept
<1>15. y = IF req[s].anomaly THEN "flag" ELSE "answer"
  BY DEF y
<1>16. \A j \in DOMAIN shifts :
         j = i => shifts'[j].lastPing = Latest(shifts[j].lastPing, Newest(s))
  BY <1>13, Zenon DEF x
<1>17. QED
  BY <1>1, <1>3, <1>5, <1>12, <1>13, <1>14, <1>15, <1>16, Zenon

LEMMA FlagEffect ==
  ASSUME TypeOK, NEW s \in Slots, Flag(s)
  PROVE  /\ Step(s) = "flag" /\ Step(s)' = "answer" /\ Others(s) /\ Kept(s)
         /\ req' \in [Slots -> Request \cup {Idle}]
         /\ SameShifts /\ req[s].shift \in DOMAIN shifts
         /\ \A i \in DOMAIN shifts :
              /\ shifts'[i].open = shifts[i].open /\ shifts'[i].lastPing = shifts[i].lastPing
              /\ i # req[s].shift => shifts'[i].speed = shifts[i].speed
              /\ i = req[s].shift => shifts'[i].speed = TRUE
         /\ UNCHANGED <<day, captured, queue, awaiting, losses, pings>>
<1> DEFINE i == req[s].shift
           q == [shifts[i] EXCEPT !.speed = TRUE]
           r == [req[s] EXCEPT !.step = "answer"]
<1>1. /\ Step(s) = "flag"
      /\ shifts' = [shifts EXCEPT ![i] = q]
      /\ req' = [req EXCEPT ![s] = r]
      /\ UNCHANGED <<day, captured, queue, awaiting, losses, pings>>
  BY Zenon DEF Flag, At, Step
<1>2. req[s] \in Request
  BY <1>1, ReqFacts DEF Busy
<1>3. i \in DOMAIN shifts
  BY <1>1 DEF TypeOK, Step
<1>4. shifts[i] \in Shift
  BY <1>3 DEF TypeOK
<1>5. /\ q \in Shift /\ q.speed = TRUE /\ q.open = shifts[i].open
      /\ q.lastPing = shifts[i].lastPing /\ q.from = shifts[i].from /\ q.in = shifts[i].in
  BY <1>4 DEF Shift
<1> HIDE DEF q
<1>6. /\ shifts' \in Seq(Shift) /\ DOMAIN shifts' = DOMAIN shifts
      /\ shifts'[i] = q /\ \A j \in DOMAIN shifts \ {i} : shifts'[j] = shifts[j]
  BY <1>1, <1>3, <1>5, ShiftSet
<1>7. "answer" \in Steps
  BY DEF Steps
<1>8. r \in Request /\ r.step = "answer" /\ r.batch = req[s].batch /\ r.fixes = req[s].fixes
  BY <1>2, <1>7, StepSet
<1> HIDE DEF r
<1>9. req' \in [Slots -> Request \cup {Idle}] /\ req'[s] = r /\ Others(s)
  BY <1>1, <1>8, ReqSet
<1>10. /\ SameShifts
       /\ \A j \in DOMAIN shifts :
            /\ shifts'[j].open = shifts[j].open /\ shifts'[j].lastPing = shifts[j].lastPing
            /\ j # i => shifts'[j].speed = shifts[j].speed
            /\ j = i => shifts'[j].speed = TRUE
  BY <1>5, <1>6, Zenon DEF SameShifts
<1>11. Step(s)' = "answer" /\ Kept(s)
  BY <1>8, <1>9, Zenon DEF Step, Kept
<1>12. QED
  BY <1>1, <1>3, <1>9, <1>10, <1>11, Zenon

\* A request ends, answered or dead.
LEMMA EndEffect ==
  ASSUME TypeOK, NEW s \in Slots, req' = [req EXCEPT ![s] = Idle]
  PROVE  /\ req' \in [Slots -> Request \cup {Idle}] /\ Others(s)
         /\ Step(s)' = "idle"
<1>1. req' \in [Slots -> Request \cup {Idle}] /\ req'[s] = Idle /\ Others(s)
  BY ReqSet
<1>2. QED
  BY <1>1 DEF Step, Idle

LEMMA ReplyEffect ==
  ASSUME TypeOK, NEW s \in Slots, Reply(s)
  PROVE  /\ Step(s) = "answer" /\ Step(s)' = "idle" /\ Others(s) /\ Hangup(s)
         /\ req' \in [Slots -> Request \cup {Idle}]
         /\ queue' = IF awaiting = s THEN Tail(queue) ELSE queue
         /\ UNCHANGED <<day, captured, losses, shifts, pings>>
<1>1. /\ Step(s) = "answer" /\ Hangup(s)
      /\ req' = [req EXCEPT ![s] = Idle]
      /\ queue' = IF awaiting = s THEN Tail(queue) ELSE queue
      /\ UNCHANGED <<day, captured, losses, shifts, pings>>
  BY Zenon DEF Reply, At, Step
<1>2. QED
  BY <1>1, EndEffect

\* What a handler that dies leaves behind.
Remnant(s) ==
  \/ UNCHANGED pings
  \/ \E n \in 1 .. Len(req[s].fixes) - 1 :
       Step(s) = "add" /\ pings' = pings \o Documents(s, n)

LEMMA DieEffect ==
  ASSUME TypeOK, NEW s \in Slots, Die(s)
  PROVE  /\ Busy(s) /\ Step(s)' = "idle" /\ Others(s) /\ Hangup(s) /\ Remnant(s)
         /\ req' \in [Slots -> Request \cup {Idle}]
         /\ losses < day.losses /\ losses' = losses + 1
         /\ UNCHANGED <<day, captured, queue, shifts>>
<1>1. /\ req[s] # Idle /\ Hangup(s) /\ Remnant(s)
      /\ req' = [req EXCEPT ![s] = Idle]
      /\ losses < day.losses /\ losses' = losses + 1
      /\ UNCHANGED <<day, captured, queue, shifts>>
  BY Zenon DEF Die, At, Step, Remnant
<1>2. Busy(s)
  BY <1>1, ReqFacts
<1>3. QED
  BY <1>1, <1>2, EndEffect

\* A tap begins a shift, ends every one, or is refused.
LEMMA ApplyEffect ==
  ASSUME TypeOK, NEW n \in 1 .. Len(track), Apply(n)
  PROVE  /\ shifts' \in Seq(Shift)
         /\ \A i \in DOMAIN shifts :
              /\ i \in DOMAIN shifts'
              /\ shifts'[i].from = shifts[i].from /\ shifts'[i].in = shifts[i].in
              /\ shifts'[i].speed = shifts[i].speed /\ shifts'[i].lastPing = shifts[i].lastPing
         /\ \/ /\ track[n].kind = "in" /\ Running = {}
               /\ Len(shifts) + 1 \notin DOMAIN shifts
               /\ DOMAIN shifts' = DOMAIN shifts \cup {Len(shifts) + 1}
               /\ \A i \in DOMAIN shifts : shifts'[i].open = shifts[i].open
               /\ \A i : i = Len(shifts) + 1 =>
                    /\ shifts'[i].from = n /\ shifts'[i].in = track[n].fix
                    /\ shifts'[i].open = TRUE /\ shifts'[i].speed = FALSE
                    /\ shifts'[i].lastPing = None
            \/ /\ track[n].kind = "out" /\ DOMAIN shifts' = DOMAIN shifts
               /\ \A i \in DOMAIN shifts : shifts'[i].open = FALSE
            \/ track[n].kind = "in" /\ Running # {} /\ shifts' = shifts
<1> DEFINE new == [from |-> n, open |-> TRUE, in |-> track[n].fix,
                   speed |-> FALSE, lastPing |-> None]
           N == Len(shifts) + 1
<1>1. shifts \in Seq(Shift) /\ Len(shifts) \in Nat /\ DOMAIN shifts = 1 .. Len(shifts)
  BY DEF TypeOK
<1>2. CASE track[n].kind = "in" /\ Running = {} /\ shifts' = Append(shifts, new)
  <2>1. track[n].fix \in Fix
    BY <1>2, DayFacts
  <2>2. /\ new \in Shift /\ new.from = n /\ new.in = track[n].fix /\ new.open = TRUE
        /\ new.speed = FALSE /\ new.lastPing = None
    BY <2>1 DEF Shift
  <2>0. shifts' = Append(shifts, new)
    BY <1>2
  <2> HIDE DEF new
  <2>3. /\ shifts' \in Seq(Shift) /\ Len(shifts') = N /\ shifts'[N] = new
        /\ \A i \in 1 .. Len(shifts) : shifts'[i] = shifts[i]
    BY <1>1, <2>0, <2>2, AppendProperties
  <2>4. DOMAIN shifts' = 1 .. N
    BY <2>3
  <2>5. N \notin DOMAIN shifts /\ DOMAIN shifts' = DOMAIN shifts \cup {N}
    BY <1>1, <2>4
  <2>6. \A i \in DOMAIN shifts : i \in DOMAIN shifts' /\ shifts'[i] = shifts[i]
    BY <1>1, <2>3, <2>5
  <2> HIDE DEF N
  <2>7. /\ \A i \in DOMAIN shifts :
             /\ i \in DOMAIN shifts'
             /\ shifts'[i].from = shifts[i].from /\ shifts'[i].in = shifts[i].in
             /\ shifts'[i].speed = shifts[i].speed /\ shifts'[i].lastPing = shifts[i].lastPing
             /\ shifts'[i].open = shifts[i].open
        /\ \A i : i = N =>
             /\ shifts'[i].from = n /\ shifts'[i].in = track[n].fix
             /\ shifts'[i].open = TRUE /\ shifts'[i].speed = FALSE
             /\ shifts'[i].lastPing = None
    BY <2>2, <2>3, <2>6, Zenon
  <2>8. QED
    BY <1>2, <2>3, <2>5, <2>7, Zenon DEF N
<1>3. CASE /\ track[n].kind = "out"
           /\ shifts' = [i \in DOMAIN shifts |-> [shifts[i] EXCEPT !.open = FALSE]]
  <2>1. DOMAIN shifts' = DOMAIN shifts
    BY <1>3
  <2>2. ASSUME NEW i \in DOMAIN shifts
        PROVE  /\ shifts'[i] \in Shift /\ shifts'[i].open = FALSE
               /\ shifts'[i].from = shifts[i].from /\ shifts'[i].in = shifts[i].in
               /\ shifts'[i].speed = shifts[i].speed /\ shifts'[i].lastPing = shifts[i].lastPing
    <3>1. shifts[i] \in Shift
      BY <1>1
    <3>2. shifts'[i] = [shifts[i] EXCEPT !.open = FALSE]
      BY <1>3
    <3>3. QED
      BY <3>1, <3>2 DEF Shift
  <2>3. shifts' = [i \in 1 .. Len(shifts) |-> shifts'[i]]
    BY <1>1, <1>3
  <2>4. \A i \in 1 .. Len(shifts) : shifts'[i] \in Shift
    BY <1>1, <2>2
  <2>5. shifts' \in Seq(Shift)
    BY <1>1, <2>3, <2>4
  <2>6. QED
    BY <1>3, <2>1, <2>2, <2>5
<1>4. CASE track[n].kind = "in" /\ Running # {} /\ UNCHANGED shifts
  BY <1>1, <1>4
<1>5. QED
  BY <1>2, <1>3, <1>4, Zenon DEF Apply
-----------------------------------------------------------------------------
(* The shape is kept. *)

\* A request that lives keeps what it carries.
LEMMA StillCarried ==
  ASSUME Shape, NEW s \in Slots, Busy(s), Kept(s), Filing(s)' => req[s].fixes # << >>,
         day' = day, captured' \in Nat, captured <= captured'
  PROVE  Carried(s)'
<1>1. Carried(s) /\ captured \in Nat
  BY DayFacts DEF Shape
<1>2. req'[s].batch \in 1 .. captured'
  BY <1>1 DEF Carried, Kept
<1>3. track' = track
  BY DEF track
<1>4. QED
  BY <1>1, <1>2, <1>3 DEF Carried, Kept

\* A step of the handler.
LEMMA HandlerShape ==
  ASSUME Shape, NEW s \in Slots, Busy(s), Busy(s)', Others(s), Kept(s),
         req' \in [Slots -> Request \cup {Idle}],
         Filing(s)' => req[s].fixes # << >> /\ req'[s].shift \in DOMAIN shifts,
         UNCHANGED <<day, captured, queue, awaiting, losses>>,
         SameShifts, \A i \in DOMAIN shifts : shifts'[i].open = shifts[i].open,
         pings' \in Seq(Ping), \A k \in DOMAIN pings' : pings'[k].shift \in DOMAIN shifts
  PROVE  Shape'
<1>1. /\ TypeOK /\ \A i, j \in Running : i = j
      /\ \A t \in Slots : Busy(t) => Carried(t)
      /\ awaiting # None => Busy(awaiting) /\ queue # << >> /\ req[awaiting].batch = Head(queue)
      /\ losses = 0 => \A t \in Slots : Busy(t) => t = awaiting
  BY DEF Shape
<1>2. Running' = Running
  BY DEF Running, SameShifts
<1>3. TypeOK'
  <2>1. day' \in Days /\ captured' \in 0 .. Len(track')
    BY <1>1 DEF TypeOK, track
  <2>2. /\ queue' \in Seq(1 .. captured') /\ awaiting' \in Slots \cup {None}
        /\ losses' \in 0 .. day'.losses
    BY <1>1 DEF TypeOK
  <2>3. \A k \in DOMAIN pings' : pings'[k].shift \in DOMAIN shifts'
    BY DEF SameShifts
  <2>4. \A t \in Slots :
          req'[t].step \in {"walk", "add", "touch", "flag"} => req'[t].shift \in DOMAIN shifts'
    <3>1. \A t \in Slots :
            req[t].step \in {"walk", "add", "touch", "flag"} => req[t].shift \in DOMAIN shifts
      BY <1>1 DEF TypeOK
    <3>2. QED
      BY <3>1 DEF SameShifts, Filing, Step, Others
  <2>5. shifts' \in Seq(Shift)
    BY DEF SameShifts
  <2>6. QED
    BY <2>1, <2>2, <2>3, <2>4, <2>5 DEF TypeOK
<1>4. ASSUME NEW t \in Slots, Busy(t)' PROVE Carried(t)' /\ Busy(t)
  <2>1. captured' \in Nat /\ captured <= captured'
    BY <1>1, DayFacts
  <2>2. CASE t = s
    BY <2>1, <2>2, StillCarried
  <2>3. CASE t # s
    <3>1. Busy(t) /\ Kept(t) /\ (Filing(t)' => Filing(t))
      BY <1>4, <2>3 DEF Busy, Step, Kept, Others, Filing
    <3>2. Filing(t)' => req[t].fixes # << >>
      BY <1>1, <3>1 DEF Carried
    <3>3. QED
      BY <2>1, <3>1, <3>2, StillCarried
  <2>4. QED
    BY <2>2, <2>3
<1>5. ASSUME awaiting' # None
      PROVE  Busy(awaiting)' /\ queue' # << >> /\ (req[awaiting].batch)' = Head(queue')
  <2>1. awaiting \in Slots /\ Busy(awaiting) /\ queue # << >> /\ req[awaiting].batch = Head(queue)
    BY <1>1, <1>5 DEF TypeOK
  <2>2. CASE awaiting = s
    BY <2>1, <2>2 DEF Busy, Step, Kept
  <2>3. CASE awaiting # s
    BY <2>1, <2>3 DEF Busy, Step, Others
  <2>4. QED
    BY <2>2, <2>3
<1>6. losses' = 0 => \A t \in Slots : Busy(t)' => t = awaiting'
  BY <1>1, <1>4
<1>7. QED
  BY <1>1, <1>2, <1>3, <1>4, <1>5, <1>6 DEF Shape

\* A request ends, answered or dead.
LEMMA EndShape ==
  ASSUME Shape, NEW s \in Slots, Busy(s), Step(s)' = "idle", Others(s), Hangup(s),
         req' \in [Slots -> Request \cup {Idle}],
         UNCHANGED <<day, captured, shifts>>,
         losses' \in 0 .. day.losses, losses <= losses',
         queue' \in Seq(1 .. captured), awaiting # s => queue' = queue,
         pings' \in Seq(Ping), \A k \in DOMAIN pings' : pings'[k].shift \in DOMAIN shifts
  PROVE  Shape'
<1>1. /\ TypeOK /\ \A i, j \in Running : i = j
      /\ \A t \in Slots : Busy(t) => Carried(t)
      /\ awaiting # None => Busy(awaiting) /\ queue # << >> /\ req[awaiting].batch = Head(queue)
      /\ losses = 0 => \A t \in Slots : Busy(t) => t = awaiting
  BY DEF Shape
<1>2. Running' = Running
  BY DEF Running
<1>3. awaiting' = IF awaiting = s THEN None ELSE awaiting
  BY DEF Hangup
<1>4. TypeOK'
  <2>1. day' \in Days /\ captured' \in 0 .. Len(track')
    BY <1>1 DEF TypeOK, track
  <2>2. /\ queue' \in Seq(1 .. captured') /\ awaiting' \in Slots \cup {None}
        /\ losses' \in 0 .. day'.losses
    BY <1>1, <1>3 DEF TypeOK
  <2>3. shifts' \in Seq(Shift) /\ \A k \in DOMAIN pings' : pings'[k].shift \in DOMAIN shifts'
    BY <1>1 DEF TypeOK
  <2>4. \A t \in Slots :
          req'[t].step \in {"walk", "add", "touch", "flag"} => req'[t].shift \in DOMAIN shifts'
    <3>1. \A t \in Slots :
            req[t].step \in {"walk", "add", "touch", "flag"} => req[t].shift \in DOMAIN shifts
      BY <1>1 DEF TypeOK
    <3>2. QED
      BY <3>1 DEF Step, Others
  <2>5. QED
    BY <2>1, <2>2, <2>3, <2>4 DEF TypeOK
<1>5. ASSUME NEW t \in Slots, Busy(t)' PROVE Carried(t)' /\ Busy(t) /\ t # s
  <2>1. captured' \in Nat /\ captured <= captured'
    BY <1>1, DayFacts
  <2>2. t # s
    BY <1>5 DEF Busy
  <2>3. Busy(t) /\ Kept(t) /\ (Filing(t)' => Filing(t))
    BY <1>5, <2>2 DEF Busy, Step, Kept, Others, Filing
  <2>4. Filing(t)' => req[t].fixes # << >>
    BY <1>1, <2>3 DEF Carried
  <2>5. QED
    BY <2>1, <2>2, <2>3, <2>4, StillCarried
<1>6. ASSUME awaiting' # None
      PROVE  Busy(awaiting)' /\ queue' # << >> /\ (req[awaiting].batch)' = Head(queue')
  <2>1. awaiting' = awaiting /\ awaiting # s /\ awaiting # None
    BY <1>3, <1>6
  <2>2. awaiting \in Slots /\ Busy(awaiting) /\ queue # << >> /\ req[awaiting].batch = Head(queue)
    BY <1>1, <2>1 DEF TypeOK
  <2>3. queue' = queue /\ req'[awaiting] = req[awaiting]
    BY <2>1, <2>2 DEF Others
  <2>4. QED
    BY <2>1, <2>2, <2>3 DEF Busy, Step
<1>7. losses' = 0 => \A t \in Slots : Busy(t)' => t = awaiting'
  <2> SUFFICES ASSUME losses' = 0, NEW t \in Slots, Busy(t)' PROVE FALSE
    OBVIOUS
  <2>1. losses = 0
    BY <1>1, DayFacts
  <2>2. QED
    BY <1>1, <1>5, <2>1
<1>8. QED
  BY <1>1, <1>2, <1>4, <1>5, <1>6, <1>7 DEF Shape

\* A step of the phone's that sends nothing.
LEMMA PhoneShape ==
  ASSUME Shape, UNCHANGED <<day, pings, req>>,
         captured' \in 0 .. Len(track), captured <= captured',
         queue' \in Seq(1 .. captured'), losses' \in 0 .. day.losses,
         awaiting' \in {awaiting, None},
         awaiting' # None => queue' # << >> /\ Head(queue') = Head(queue),
         losses' = 0 => losses = 0 /\ awaiting' = awaiting,
         shifts' \in Seq(Shift), \A i \in DOMAIN shifts : i \in DOMAIN shifts',
         \A i, j \in Running' : i = j
  PROVE  Shape'
<1>1. /\ TypeOK /\ \A t \in Slots : Busy(t) => Carried(t)
      /\ awaiting # None => Busy(awaiting) /\ queue # << >> /\ req[awaiting].batch = Head(queue)
      /\ losses = 0 => \A t \in Slots : Busy(t) => t = awaiting
  BY DEF Shape
<1>2. TypeOK'
  <2>1. day' \in Days /\ captured' \in 0 .. Len(track')
    BY <1>1 DEF TypeOK, track
  <2>2. /\ awaiting' \in Slots \cup {None} /\ losses' \in 0 .. day'.losses
        /\ pings' \in Seq(Ping) /\ req' \in [Slots -> Request \cup {Idle}]
    BY <1>1 DEF TypeOK
  <2>3. \A k \in DOMAIN pings' : pings'[k].shift \in DOMAIN shifts'
    BY <1>1 DEF TypeOK
  <2>4. \A t \in Slots :
          req'[t].step \in {"walk", "add", "touch", "flag"} => req'[t].shift \in DOMAIN shifts'
    BY <1>1 DEF TypeOK
  <2>5. QED
    BY <2>1, <2>2, <2>3, <2>4 DEF TypeOK
<1>3. ASSUME NEW t \in Slots, Busy(t)' PROVE Carried(t)' /\ Busy(t)
  <2>1. captured' \in Nat /\ captured <= captured'
    BY DEF TypeOK
  <2>2. Busy(t) /\ Kept(t) /\ (Filing(t)' => Filing(t))
    BY <1>3 DEF Busy, Step, Kept, Filing
  <2>3. Filing(t)' => req[t].fixes # << >>
    BY <1>1, <2>2 DEF Carried
  <2>4. QED
    BY <2>1, <2>2, <2>3, StillCarried
<1>4. ASSUME awaiting' # None
      PROVE  Busy(awaiting)' /\ queue' # << >> /\ (req[awaiting].batch)' = Head(queue')
  <2>1. awaiting' = awaiting /\ awaiting # None /\ queue' # << >> /\ Head(queue') = Head(queue)
    BY <1>4
  <2>2. QED
    BY <1>1, <2>1 DEF Busy, Step
<1>5. losses' = 0 => \A t \in Slots : Busy(t)' => t = awaiting'
  BY <1>1, <1>3
<1>6. QED
  BY <1>2, <1>3, <1>4, <1>5 DEF Shape

LEMMA SendShape ==
  ASSUME Shape, NEW s \in Slots, SendPings(s)
  PROVE  Shape'
<1>1. /\ TypeOK /\ \A i, j \in Running : i = j
      /\ \A t \in Slots : Busy(t) => Carried(t)
      /\ losses = 0 => \A t \in Slots : Busy(t) => t = awaiting
  BY DEF Shape
<1>2. /\ queue # << >> /\ awaiting = None /\ ~Busy(s) /\ awaiting' = s /\ Others(s)
      /\ queue \in Seq(1 .. captured) /\ Head(queue) \in 1 .. captured
      /\ track[Head(queue)].kind = "pings"
      /\ req' \in [Slots -> Request \cup {Idle}]
      /\ Step(s)' = "open" /\ req'[s].batch = Head(queue)
      /\ req'[s].fixes \in InTimeOrder(track[Head(queue)].fixes)
      /\ UNCHANGED <<day, captured, queue, losses, shifts, pings>>
  BY <1>1, SendEffect
<1>3. TypeOK'
  <2>1. day' \in Days /\ captured' \in 0 .. Len(track')
    BY <1>1, <1>2 DEF TypeOK, track
  <2>2. /\ queue' \in Seq(1 .. captured') /\ awaiting' \in Slots \cup {None}
        /\ losses' \in 0 .. day'.losses /\ shifts' \in Seq(Shift) /\ pings' \in Seq(Ping)
    BY <1>1, <1>2 DEF TypeOK
  <2>3. \A k \in DOMAIN pings' : pings'[k].shift \in DOMAIN shifts'
    BY <1>1, <1>2 DEF TypeOK
  <2>4. \A t \in Slots :
          req'[t].step \in {"walk", "add", "touch", "flag"} => req'[t].shift \in DOMAIN shifts'
    <3>1. \A t \in Slots :
            req[t].step \in {"walk", "add", "touch", "flag"} => req[t].shift \in DOMAIN shifts
      BY <1>1 DEF TypeOK
    <3>2. QED
      BY <1>2, <3>1 DEF Step, Others
  <2>5. QED
    BY <1>2, <2>1, <2>2, <2>3, <2>4 DEF TypeOK
<1>4. ASSUME NEW t \in Slots, Busy(t)' PROVE Carried(t)' /\ (Busy(t) \/ t = s)
  <2>1. captured' \in Nat /\ captured <= captured' /\ day' = day /\ track' = track
    BY <1>1, <1>2, DayFacts DEF track
  <2>2. CASE t = s
    BY <1>2, <2>1, <2>2 DEF Carried, Filing
  <2>3. CASE t # s
    <3>1. Busy(t) /\ Kept(t) /\ (Filing(t)' => Filing(t))
      BY <1>2, <1>4, <2>3 DEF Busy, Step, Kept, Others, Filing
    <3>2. Filing(t)' => req[t].fixes # << >>
      BY <1>1, <3>1 DEF Carried
    <3>3. QED
      BY <2>1, <3>1, <3>2, StillCarried
  <2>4. QED
    BY <2>2, <2>3
<1>5. Busy(awaiting)' /\ queue' # << >> /\ (req[awaiting].batch)' = Head(queue')
  BY <1>2 DEF Busy, Step
<1>6. losses' = 0 => \A t \in Slots : Busy(t)' => t = awaiting'
  <2> SUFFICES ASSUME losses = 0, NEW t \in Slots, Busy(t)', t # s PROVE FALSE
    BY <1>2
  <2>1. Busy(t) /\ t = None
    BY <1>1, <1>2, <1>4
  <2>2. QED
    BY <2>1, NoneAssumption
<1>7. Running' = Running
  BY <1>2 DEF Running
<1>8. QED
  BY <1>1, <1>3, <1>4, <1>5, <1>6, <1>7 DEF Shape

LEMMA Widen ==
  ASSUME NEW S, NEW T, S \subseteq T, NEW q \in Seq(S)
  PROVE  q \in Seq(T)
OBVIOUS

\* At most one shift runs, whatever tap comes.
LEMMA OneRuns ==
  ASSUME TypeOK, \A i, j \in Running : i = j, NEW n \in 1 .. Len(track), Apply(n)
  PROVE  \A i, j \in Running' : i = j
<1>1. \A i : i \in Running <=> i \in DOMAIN shifts /\ shifts[i].open
  BY DEF Running
<1>2. \A i : i \in Running' <=> i \in DOMAIN shifts' /\ shifts'[i].open
  BY DEF Running
<1>3. \/ /\ track[n].kind = "in" /\ Running = {}
         /\ DOMAIN shifts' = DOMAIN shifts \cup {Len(shifts) + 1}
         /\ \A i \in DOMAIN shifts : shifts'[i].open = shifts[i].open
      \/ /\ track[n].kind = "out" /\ DOMAIN shifts' = DOMAIN shifts
         /\ \A i \in DOMAIN shifts : shifts'[i].open = FALSE
      \/ track[n].kind = "in" /\ Running # {} /\ shifts' = shifts
  BY ApplyEffect
<1>4. QED
  BY <1>1, <1>2, <1>3

LEMMA InitShape == Init => Shape
<1> SUFFICES ASSUME Init PROVE Shape
  OBVIOUS
<1>1. /\ day \in Days /\ captured = 0 /\ queue = << >> /\ awaiting = None /\ losses = 0
      /\ shifts = << >> /\ pings = << >>
      /\ req = [s \in Slots |-> Idle]
  BY Zenon DEF Init
<1>2. day \in Day
  BY <1>1, DayAssumption
<1>3. Len(track) \in Nat /\ day.losses \in Nat
  BY <1>2 DEF Day, track
<1>4. \A s \in Slots : req[s] = Idle /\ Step(s) = "idle"
  BY <1>1 DEF Step, Idle
<1>5. TypeOK
  <2>1. captured \in 0 .. Len(track) /\ losses \in 0 .. day.losses
    BY <1>1, <1>3
  <2>2. queue \in Seq(1 .. captured) /\ shifts \in Seq(Shift) /\ pings \in Seq(Ping)
    BY <1>1
  <2>3. req \in [Slots -> Request \cup {Idle}]
    BY <1>1
  <2>4. DOMAIN pings = {}
    BY <1>1
  <2>5. QED
    BY <1>1, <1>4, <2>1, <2>2, <2>3, <2>4 DEF TypeOK, Step
<1>6. Running = {}
  BY <1>1 DEF Running
<1>7. QED
  BY <1>1, <1>4, <1>5, <1>6 DEF Shape, Busy

LEMMA NextShape ==
  ASSUME Shape, [Next]_vars
  PROVE  Shape'
<1>1. /\ TypeOK /\ \A i, j \in Running : i = j
      /\ awaiting # None => Busy(awaiting) /\ queue # << >> /\ req[awaiting].batch = Head(queue)
      /\ \A s \in Slots : Busy(s) => Carried(s)
  BY DEF Shape
<1>2. /\ day.losses \in Nat /\ losses \in 0 .. day.losses /\ captured \in 0 .. Len(track)
      /\ queue \in Seq(1 .. captured) /\ Len(track) \in Nat
      /\ shifts \in Seq(Shift) /\ pings \in Seq(Ping)
      /\ \A k \in DOMAIN pings : pings[k].shift \in DOMAIN shifts
      /\ \A s \in Slots : Filing(s) => req[s].shift \in DOMAIN shifts
  BY <1>1, DayFacts DEF TypeOK, Filing, Step
<1>3. ASSUME UNCHANGED shifts
      PROVE  SameShifts /\ \A i \in DOMAIN shifts : shifts'[i].open = shifts[i].open
  BY <1>2, <1>3 DEF SameShifts
<1>4. CASE Capture
  <2>1. /\ captured < Len(track) /\ captured' = captured + 1
        /\ queue' = Append(queue, captured + 1)
        /\ UNCHANGED <<day, awaiting, losses, shifts, pings, req>>
    BY <1>4 DEF Capture
  <2>2. captured' \in 0 .. Len(track) /\ captured <= captured'
    BY <1>2, <2>1
  <2>3. queue \in Seq(1 .. captured') /\ captured + 1 \in 1 .. captured'
    <3>1. 1 .. captured \subseteq 1 .. captured' /\ captured + 1 \in 1 .. captured'
      BY <1>2, <2>1
    <3>2. QED
      BY <1>2, <3>1, Widen
  <2>4. /\ queue' \in Seq(1 .. captured')
        /\ (queue # << >> => queue' # << >> /\ Head(queue') = Head(queue))
    BY <2>1, <2>3
  <2>5. \A i, j \in Running' : i = j
    BY <1>1, <2>1 DEF Running
  <2>6. QED
    BY <1>1, <1>2, <2>1, <2>2, <2>4, <2>5, PhoneShape
<1>5. CASE TapLive
  <2>1. /\ captured < Len(track) /\ captured' = captured + 1 /\ Apply(captured + 1)
        /\ UNCHANGED <<day, queue, awaiting, losses, pings, req>>
    BY <1>5 DEF TapLive
  <2>2. captured' \in 0 .. Len(track) /\ captured <= captured' /\ captured + 1 \in 1 .. Len(track)
    BY <1>2, <2>1
  <2>3. queue' \in Seq(1 .. captured')
    <3>1. 1 .. captured \subseteq 1 .. captured'
      BY <1>2, <2>1
    <3>2. QED
      BY <1>2, <2>1, <3>1
  <2>4. shifts' \in Seq(Shift) /\ \A i \in DOMAIN shifts : i \in DOMAIN shifts'
    BY <1>1, <2>1, <2>2, ApplyEffect
  <2>5. \A i, j \in Running' : i = j
    BY <1>1, <2>1, <2>2, OneRuns
  <2>6. QED
    BY <1>1, <1>2, <2>1, <2>2, <2>3, <2>4, <2>5, PhoneShape
<1>6. CASE FlushTap
  <2>1. /\ queue # << >> /\ awaiting = None /\ Apply(Head(queue)) /\ queue' = Tail(queue)
        /\ UNCHANGED <<day, captured, awaiting, losses, pings, req>>
    BY <1>6 DEF FlushTap
  <2>2. Head(queue) \in 1 .. Len(track) /\ queue' \in Seq(1 .. captured')
    <3>1. Head(queue) \in 1 .. captured /\ Tail(queue) \in Seq(1 .. captured)
      BY <1>2, <2>1
    <3>2. QED
      BY <1>2, <2>1, <3>1
  <2>4. shifts' \in Seq(Shift) /\ \A i \in DOMAIN shifts : i \in DOMAIN shifts'
    BY <1>1, <2>1, <2>2, ApplyEffect
  <2>5. \A i, j \in Running' : i = j
    BY <1>1, <2>1, <2>2, OneRuns
  <2>6. QED
    BY <1>1, <1>2, <2>1, <2>2, <2>4, <2>5, PhoneShape
<1>7. CASE TimeOut
  <2>1. /\ awaiting # None /\ losses < day.losses /\ awaiting' = None /\ losses' = losses + 1
        /\ UNCHANGED <<day, captured, queue, shifts, pings, req>>
    BY <1>7 DEF TimeOut
  <2>2. losses' \in 0 .. day.losses /\ losses' # 0
    BY <1>2, <2>1
  <2>3. \A i, j \in Running' : i = j
    BY <1>1, <2>1 DEF Running
  <2>4. QED
    BY <1>1, <1>2, <2>1, <2>2, <2>3, PhoneShape
<1>8. ASSUME NEW s \in Slots, PingsOpen(s) PROVE Shape'
  <2>1. /\ Step(s) = "open" /\ Others(s) /\ Kept(s)
        /\ req' \in [Slots -> Request \cup {Idle}]
        /\ \/ Step(s)' = "answer"
           \/ Step(s)' = "walk" /\ req[s].fixes # << >> /\ req'[s].shift \in Running
        /\ UNCHANGED <<day, captured, queue, awaiting, losses, shifts, pings>>
    BY <1>1, <1>8, OpenEffect
  <2>2. /\ Busy(s) /\ Busy(s)'
        /\ (Filing(s)' => req[s].fixes # << >> /\ req'[s].shift \in DOMAIN shifts)
    BY <2>1 DEF Busy, Filing, Running
  <2>3. QED
    BY <1>2, <1>3, <2>1, <2>2, HandlerShape
<1>9. ASSUME NEW s \in Slots, Step(s) \in {"walk", "add"}, Step(s)' \in {"add", "touch"},
             Others(s), Kept(s), req' \in [Slots -> Request \cup {Idle}],
             req'[s].shift = req[s].shift
      PROVE  /\ Busy(s) /\ Busy(s)' /\ Filing(s) /\ req[s].fixes # << >>
             /\ req'[s].shift \in DOMAIN shifts
  BY <1>1, <1>2, <1>9 DEF Busy, Filing, Carried
<1>10. ASSUME NEW s \in Slots, PingsWalk(s) PROVE Shape'
  <2>1. /\ Step(s) = "walk" /\ Step(s)' = "add" /\ Others(s) /\ Kept(s)
        /\ req' \in [Slots -> Request \cup {Idle}] /\ req'[s].shift = req[s].shift
        /\ UNCHANGED <<day, captured, queue, awaiting, losses, shifts, pings>>
    BY <1>1, <1>10, WalkEffect
  <2>2. Busy(s) /\ Busy(s)' /\ req[s].fixes # << >> /\ req'[s].shift \in DOMAIN shifts
    BY <1>9, <2>1
  <2>3. QED
    BY <1>2, <1>3, <2>1, <2>2, HandlerShape
<1>11. ASSUME NEW s \in Slots, Filing(s), NEW n \in 0 .. Len(req[s].fixes),
              pings' = pings \o Documents(s, n)
       PROVE  pings' \in Seq(Ping) /\ \A k \in DOMAIN pings' : pings'[k].shift \in DOMAIN shifts
  <2>1. /\ pings' \in Seq(Ping) /\ Len(pings) \in Nat /\ Len(pings') = Len(pings) + n
        /\ \A k \in 1 .. Len(pings) : pings'[k] = pings[k]
        /\ \A k \in Len(pings) + 1 .. Len(pings) + n : pings'[k].shift = req[s].shift
    BY <1>1, <1>11, Stored
  <2>2. req[s].shift \in DOMAIN shifts /\ n \in Int
    BY <1>2, <1>11
  <2>3. ASSUME NEW k \in DOMAIN pings' PROVE pings'[k].shift \in DOMAIN shifts
    <3>1. k \in 1 .. Len(pings) \/ k \in Len(pings) + 1 .. Len(pings) + n
      BY <2>1, <2>2
    <3>2. CASE k \in 1 .. Len(pings)
      <4>1. k \in DOMAIN pings
        BY <1>2, <3>2
      <4>2. QED
        BY <1>2, <2>1, <3>2, <4>1
    <3>3. QED
      BY <2>1, <2>2, <3>1, <3>2
  <2>4. QED
    BY <2>1, <2>3
<1>12. ASSUME NEW s \in Slots, AddPings(s) PROVE Shape'
  <2>1. /\ Step(s) = "add" /\ Step(s)' = "touch" /\ Others(s) /\ Kept(s)
        /\ req' \in [Slots -> Request \cup {Idle}] /\ req'[s].shift = req[s].shift
        /\ Len(req[s].fixes) \in 0 .. Len(req[s].fixes)
        /\ pings' = pings \o Documents(s, Len(req[s].fixes))
        /\ UNCHANGED <<day, captured, queue, awaiting, losses, shifts>>
    BY <1>1, <1>12, AddEffect
  <2>2. Busy(s) /\ Busy(s)' /\ Filing(s) /\ req[s].fixes # << >> /\ req'[s].shift \in DOMAIN shifts
    BY <1>9, <2>1
  <2>3. pings' \in Seq(Ping) /\ \A k \in DOMAIN pings' : pings'[k].shift \in DOMAIN shifts
    BY <1>11, <2>1, <2>2
  <2>4. QED
    BY <1>3, <2>1, <2>2, <2>3, HandlerShape
<1>13. ASSUME NEW s \in Slots, TouchLastPing(s) PROVE Shape'
  <2>1. /\ Step(s) = "touch" /\ Others(s) /\ Kept(s) /\ Step(s)' \in {"flag", "answer"}
        /\ req' \in [Slots -> Request \cup {Idle}] /\ req'[s].shift = req[s].shift
        /\ SameShifts /\ req[s].shift \in DOMAIN shifts
        /\ \A i \in DOMAIN shifts : shifts'[i].open = shifts[i].open
        /\ UNCHANGED <<day, captured, queue, awaiting, losses, pings>>
    BY <1>13, TouchEffect
  <2>2. Busy(s) /\ Busy(s)' /\ req[s].fixes # << >>
    BY <1>1, <2>1 DEF Busy, Carried, Filing
  <2>3. QED
    BY <1>2, <2>1, <2>2, HandlerShape
<1>14. ASSUME NEW s \in Slots, Flag(s) PROVE Shape'
  <2>1. /\ Step(s) = "flag" /\ Others(s) /\ Kept(s) /\ Step(s)' = "answer"
        /\ req' \in [Slots -> Request \cup {Idle}] /\ SameShifts
        /\ \A i \in DOMAIN shifts : shifts'[i].open = shifts[i].open
        /\ UNCHANGED <<day, captured, queue, awaiting, losses, pings>>
    BY <1>1, <1>14, FlagEffect
  <2>2. Busy(s) /\ Busy(s)' /\ ~Filing(s)'
    BY <2>1 DEF Busy, Filing
  <2>3. QED
    BY <1>2, <2>1, <2>2, HandlerShape
<1>15. ASSUME NEW s \in Slots, Reply(s) PROVE Shape'
  <2>1. /\ Step(s) = "answer" /\ Step(s)' = "idle" /\ Others(s) /\ Hangup(s)
        /\ req' \in [Slots -> Request \cup {Idle}]
        /\ queue' = IF awaiting = s THEN Tail(queue) ELSE queue
        /\ UNCHANGED <<day, captured, losses, shifts, pings>>
    BY <1>1, <1>15, ReplyEffect
  <2>2. queue' \in Seq(1 .. captured) /\ (awaiting # s => queue' = queue)
    <3>1. CASE awaiting = s
      <4>1. s # None
        BY NoneAssumption
      <4>2. queue # << >>
        BY <1>1, <3>1, <4>1
      <4>3. QED
        BY <1>2, <2>1, <3>1, <4>2
    <3>2. QED
      BY <1>2, <2>1, <3>1
  <2>3. losses' \in 0 .. day.losses /\ losses <= losses' /\ Busy(s)
    BY <1>2, <2>1 DEF Busy
  <2>4. QED
    BY <1>2, <2>1, <2>2, <2>3, EndShape
<1>16. ASSUME NEW s \in Slots, Die(s) PROVE Shape'
  <2>1. /\ Busy(s) /\ Step(s)' = "idle" /\ Others(s) /\ Hangup(s) /\ Remnant(s)
        /\ req' \in [Slots -> Request \cup {Idle}]
        /\ losses < day.losses /\ losses' = losses + 1
        /\ UNCHANGED <<day, captured, queue, shifts>>
    BY <1>1, <1>16, DieEffect
  <2>2. pings' \in Seq(Ping) /\ \A k \in DOMAIN pings' : pings'[k].shift \in DOMAIN shifts
    <3>1. CASE UNCHANGED pings
      BY <1>2, <3>1
    <3>2. CASE \E n \in 1 .. Len(req[s].fixes) - 1 :
                 Step(s) = "add" /\ pings' = pings \o Documents(s, n)
      <4>1. PICK n \in 1 .. Len(req[s].fixes) - 1 :
              Step(s) = "add" /\ pings' = pings \o Documents(s, n)
        BY <3>2
      <4>2. req[s] \in Request /\ Filing(s)
        BY <1>1, <4>1, ReqFacts DEF Busy, Filing
      <4>3. n \in 0 .. Len(req[s].fixes)
        BY <4>2 DEF Request
      <4>4. QED
        BY <1>11, <4>1, <4>2, <4>3
    <3>3. QED
      BY <2>1, <3>1, <3>2 DEF Remnant
  <2>3. losses' \in 0 .. day.losses /\ losses <= losses'
    BY <1>2, <2>1
  <2>4. queue' \in Seq(1 .. captured)
    BY <1>2, <2>1
  <2>5. QED
    BY <2>1, <2>2, <2>3, <2>4, EndShape
<1>17. CASE UNCHANGED vars
  BY <1>17 DEF vars, Shape, TypeOK, Running, Busy, Step, Carried, Filing, track
<1>18. QED
  BY <1>4, <1>5, <1>6, <1>7, <1>8, <1>10, <1>12, <1>13, <1>14, <1>15, <1>16, <1>17, SendShape
     DEF Next, Phone, Handle

\* The state is well-typed: a request carries a batch the phone captured, and
\* works on a shift there is (handler.go Pings).
THEOREM TypeCorrect == Spec => []TypeOK
<1>1. Init => Shape
  BY InitShape
<1>2. Shape /\ [Next]_vars => Shape'
  BY NextShape
<1>3. Shape => TypeOK
  BY DEF Shape
<1>4. QED
  BY <1>1, <1>2, <1>3, PTL DEF Spec
-----------------------------------------------------------------------------
(* "Last seen". *)

LEMMA CarriedFacts ==
  ASSUME Shape, NEW s \in Slots, Busy(s)
  PROVE  /\ req[s].batch \in 1 .. Len(track) /\ track[req[s].batch].kind = "pings"
         /\ track[req[s].batch].fixes \subseteq Fix /\ IsFiniteSet(track[req[s].batch].fixes)
         /\ req[s].fixes \in InTimeOrder(track[req[s].batch].fixes)
         /\ Len(req[s].fixes) \in Nat
         /\ \A k \in 1 .. Len(req[s].fixes) : req[s].fixes[k] \in track[req[s].batch].fixes
         /\ track[req[s].batch].fixes # {} => req[s].fixes # << >>
         /\ req[s].fixes # << >> =>
              /\ Newest(s) \in Nat /\ Len(req[s].fixes) \in 1 .. Len(req[s].fixes)
              /\ req[s].fixes[Len(req[s].fixes)] \in track[req[s].batch].fixes
              /\ \A p \in track[req[s].batch].fixes : p.at <= Newest(s)
<1> DEFINE S == track[req[s].batch].fixes
<1>1. TypeOK /\ Carried(s)
  BY DEF Shape
<1>2. req[s].batch \in 1 .. Len(track) /\ track[req[s].batch].kind = "pings"
  BY <1>1, DayFacts DEF Carried
<1>3. S \subseteq Fix /\ IsFiniteSet(S) /\ req[s].fixes \in InTimeOrder(S)
  BY <1>1, <1>2, DayFacts DEF Carried
<1> HIDE DEF S
<1>4. /\ Len(req[s].fixes) \in Nat /\ DOMAIN req[s].fixes = 1 .. Len(req[s].fixes)
      /\ \A p \in S : \E k \in DOMAIN req[s].fixes : req[s].fixes[k] = p
      /\ \A k \in DOMAIN req[s].fixes : req[s].fixes[k] \in S
  BY <1>3, TimeOrder
<1>5. ASSUME S # {} PROVE req[s].fixes # << >>
  <2>1. DOMAIN req[s].fixes # {}
    BY <1>4, <1>5
  <2>2. QED
    BY <2>1
<1>6. ASSUME req[s].fixes # << >>
      PROVE  /\ Newest(s) \in Nat /\ Len(req[s].fixes) \in 1 .. Len(req[s].fixes)
             /\ req[s].fixes[Len(req[s].fixes)] \in S
             /\ \A p \in S : p.at <= Newest(s)
  BY <1>3, <1>6, NewestLast DEF Newest
<1>7. QED
  BY <1>2, <1>3, <1>4, <1>5, <1>6 DEF S

LEMMA AwaitedFacts ==
  ASSUME Shape, awaiting # None
  PROVE  /\ awaiting \in Slots /\ Busy(awaiting) /\ queue # << >>
         /\ req[awaiting].batch = Head(queue)
BY DEF Shape, TypeOK

LEMMA CrumbFacts ==
  ASSUME TypeOK, NEW i, NEW p \in Crumbs(i)
  PROVE  p \in Fix /\ p.at \in Nat /\ i \in DOMAIN shifts
<1>1. PICK k \in DOMAIN pings : pings[k].shift = i /\ p = pings[k].fix
  BY DEF Crumbs
<1>2. pings[k] \in Ping /\ pings[k].shift \in DOMAIN shifts
  BY DEF TypeOK
<1>3. QED
  BY <1>1, <1>2 DEF Ping, Fix

LEMMA PingTimes ==
  ASSUME TypeOK, NEW i \in DOMAIN shifts
  PROVE  shifts[i].lastPing \in Nat \cup {None}
<1>1. shifts[i] \in Shift
  BY DEF TypeOK
<1>2. QED
  BY <1>1 DEF Shift

LEMMA NextLastSeen ==
  ASSUME Shape, [Next]_vars
  PROVE  \A i \in DOMAIN shifts :
           shifts[i].lastPing # None => shifts'[i].lastPing >= shifts[i].lastPing
<1>1. TypeOK
  BY DEF Shape
<1>2. \A i \in DOMAIN shifts : shifts[i].lastPing # None => shifts[i].lastPing \in Nat
  BY <1>1, PingTimes
<1>3. ASSUME \A i \in DOMAIN shifts : shifts'[i].lastPing = shifts[i].lastPing
      PROVE  \A i \in DOMAIN shifts :
               shifts[i].lastPing # None => shifts'[i].lastPing >= shifts[i].lastPing
  BY <1>2, <1>3
<1>4. ASSUME NEW n \in 1 .. Len(track), Apply(n)
      PROVE  \A i \in DOMAIN shifts : shifts'[i].lastPing = shifts[i].lastPing
  BY <1>1, <1>4, ApplyEffect
<1>5. CASE TapLive
  <2>1. captured + 1 \in 1 .. Len(track)
    BY <1>1, <1>5, DayFacts DEF TapLive
  <2>2. QED
    BY <1>3, <1>4, <1>5, <2>1 DEF TapLive
<1>6. CASE FlushTap
  <2>1. Head(queue) \in 1 .. captured
    BY <1>1, <1>6 DEF FlushTap, TypeOK
  <2>2. Head(queue) \in 1 .. Len(track)
    BY <1>1, <2>1, DayFacts
  <2>3. QED
    BY <1>3, <1>4, <1>6, <2>2 DEF FlushTap
<1>7. ASSUME NEW s \in Slots, TouchLastPing(s)
      PROVE  \A i \in DOMAIN shifts :
               shifts[i].lastPing # None => shifts'[i].lastPing >= shifts[i].lastPing
  <2>1. /\ Newest(s) \in Nat
        /\ \A i \in DOMAIN shifts :
             /\ i # req[s].shift => shifts'[i].lastPing = shifts[i].lastPing
             /\ i = req[s].shift =>
                  shifts'[i].lastPing = Latest(shifts[i].lastPing, Newest(s))
    BY <1>7, TouchEffect
  <2>2. ASSUME NEW i \in DOMAIN shifts, shifts[i].lastPing # None
        PROVE  shifts'[i].lastPing >= shifts[i].lastPing
    <3>1. CASE i # req[s].shift
      BY <1>2, <2>1, <2>2, <3>1
    <3>2. CASE i = req[s].shift
      BY <1>2, <2>1, <2>2, <3>2 DEF Latest
    <3>3. QED
      BY <3>1, <3>2
  <2>3. QED
    BY <2>2
<1>8. ASSUME NEW s \in Slots, Flag(s)
      PROVE  \A i \in DOMAIN shifts : shifts'[i].lastPing = shifts[i].lastPing
  BY <1>1, <1>8, FlagEffect
<1>9. CASE UNCHANGED shifts
  BY <1>3, <1>9
<1>10. Next => \/ TapLive \/ FlushTap \/ (\E s \in Slots : TouchLastPing(s) \/ Flag(s))
              \/ UNCHANGED shifts
  BY Zenon DEF Next, Phone, Handle, Capture, TimeOut, SendPings, PingsOpen, PingsWalk, AddPings,
               Reply, Die
<1>11. UNCHANGED vars => UNCHANGED shifts
  BY DEF vars
<1>12. QED
  BY <1>3, <1>5, <1>6, <1>7, <1>8, <1>9, <1>10, <1>11

\* "Last seen" never moves back, whichever attempt at a batch finishes last
\* (store.go TouchLastPing).
THEOREM LastSeenStays == Spec => LastSeenNeverRegresses
<1>1. Init => Shape
  BY InitShape
<1>2. Shape /\ [Next]_vars => Shape'
  BY NextShape
<1>3. Shape /\ [Next]_vars =>
        [\A i \in DOMAIN shifts :
           shifts[i].lastPing # None => shifts'[i].lastPing >= shifts[i].lastPing]_vars
  BY NextLastSeen
<1>4. QED
  BY <1>1, <1>2, <1>3, PTL DEF Spec, LastSeenNeverRegresses

LEMMA SeenKept ==
  ASSUME NEW i, NEW p, shifts'[i].lastPing = shifts[i].lastPing, Seen(i, p)
  PROVE  Seen(i, p)'
BY DEF Seen

LEMMA TouchingKept ==
  ASSUME NEW i, NEW p, NEW s \in Slots, Others(s), Step(s) # "touch", Touching(i, p)
  PROVE  Touching(i, p)'
<1>1. PICK t \in Slots : Step(t) = "touch" /\ req[t].shift = i /\ p.at <= Newest(t)
  BY DEF Touching
<1>2. req'[t] = req[t]
  BY <1>1 DEF Others
<1>3. QED
  BY <1>1, <1>2 DEF Touching, Step, Newest

\* A queued batch stays queued, unless its own request moves on.
LEMMA QueuedKept ==
  ASSUME NEW i, NEW p, Queued(i, p), UNCHANGED <<day, queue, awaiting, losses>>,
         awaiting # None => req'[awaiting] = req[awaiting]
  PROVE  Queued(i, p)'
<1>1. /\ losses = 1 /\ queue # << >> /\ track[Head(queue)].kind = "pings"
      /\ \E q \in track[Head(queue)].fixes : p.at <= q.at
      /\ \/ awaiting = None \/ Step(awaiting) = "open"
         \/ Step(awaiting) \in {"walk", "add"} /\ req[awaiting].shift = i
  BY DEF Queued
<1>2. track' = track
  BY DEF track
<1>3. \/ awaiting' = None \/ Step(awaiting)' = "open"
      \/ Step(awaiting)' \in {"walk", "add"} /\ (req[awaiting].shift)' = i
  BY <1>1 DEF Step
<1>4. QED
  BY <1>1, <1>2, <1>3 DEF Queued

\* The batch of a queued crumb is not empty, and no newer than it.
LEMMA QueuedBatch ==
  ASSUME Shape, NEW i, NEW p, p.at \in Nat, Queued(i, p), NEW s \in Slots, awaiting = s
  PROVE  /\ req[s].fixes # << >> /\ p.at <= Newest(s)
         /\ Step(s) = "open" \/ (Step(s) \in {"walk", "add"} /\ req[s].shift = i)
<1>1. s # None
  BY NoneAssumption
<1>2. Busy(s) /\ req[s].batch = Head(queue)
  BY <1>1, AwaitedFacts
<1>3. PICK q \in track[Head(queue)].fixes : p.at <= q.at
  BY DEF Queued
<1>4. /\ track[req[s].batch].fixes \subseteq Fix
      /\ track[req[s].batch].fixes # {} => req[s].fixes # << >>
      /\ req[s].fixes # << >> =>
           Newest(s) \in Nat /\ \A r \in track[req[s].batch].fixes : r.at <= Newest(s)
  BY <1>2, CarriedFacts
<1>5. req[s].fixes # << >> /\ q.at <= Newest(s) /\ q.at \in Nat /\ Newest(s) \in Nat
  BY <1>2, <1>3, <1>4 DEF Fix
<1>6. p.at <= Newest(s)
  BY <1>3, <1>5
<1>7. QED
  BY <1>1, <1>5, <1>6 DEF Queued

\* A step of the handler that neither stores nor touches.
LEMMA QuietFollowed ==
  ASSUME Shape, Followed, NEW s \in Slots, Step(s) # "touch", Others(s),
         UNCHANGED <<day, queue, awaiting, losses, pings>>,
         SameShifts,
         \A i \in DOMAIN shifts : shifts'[i].open = shifts[i].open
                                 /\ shifts'[i].lastPing = shifts[i].lastPing,
         \A i \in Running : \A p \in Crumbs(i) :
           awaiting = s /\ Queued(i, p) => Queued(i, p)'
  PROVE  Followed'
<1> SUFFICES ASSUME losses' <= 1, NEW i \in Running', NEW p \in Crumbs(i)'
             PROVE  Seen(i, p)' \/ Touching(i, p)' \/ Queued(i, p)'
  BY DEF Followed
<1>1. i \in Running /\ i \in DOMAIN shifts
  BY DEF Running, SameShifts
<1>2. p \in Crumbs(i)
  BY DEF Crumbs
<1>3. Seen(i, p) \/ Touching(i, p) \/ Queued(i, p)
  BY <1>1, <1>2 DEF Followed
<1>4. awaiting # None /\ awaiting # s => req'[awaiting] = req[awaiting]
  BY AwaitedFacts DEF Others
<1>5. QED
  BY <1>1, <1>2, <1>3, <1>4, SeenKept, TouchingKept, QueuedKept

\* A tap: the shift it begins has no crumbs.
LEMMA ApplyFollowed ==
  ASSUME Shape, Followed, NEW n \in 1 .. Len(track), Apply(n),
         UNCHANGED <<day, awaiting, losses, pings, req>>,
         \A i, p : Queued(i, p) => queue' = queue
  PROVE  Followed'
<1> SUFFICES ASSUME losses' <= 1, NEW i \in Running', NEW p \in Crumbs(i)'
             PROVE  Seen(i, p)' \/ Touching(i, p)' \/ Queued(i, p)'
  BY DEF Followed
<1>1. TypeOK /\ p \in Crumbs(i)
  BY DEF Crumbs, Shape
<1>2. i \in DOMAIN shifts
  BY <1>1, CrumbFacts
<1>3. shifts'[i].open
  BY DEF Running
<1>4. shifts'[i].lastPing = shifts[i].lastPing /\ shifts[i].open
  BY <1>1, <1>2, <1>3, ApplyEffect
<1>5. i \in Running
  BY <1>2, <1>4 DEF Running
<1>6. Seen(i, p) \/ Touching(i, p) \/ Queued(i, p)
  BY <1>1, <1>5 DEF Followed
<1>7. Touching(i, p) => Touching(i, p)'
  BY DEF Touching, Step, Newest
<1>8. Queued(i, p) => Queued(i, p)'
  BY QueuedKept
<1>9. QED
  BY <1>4, <1>6, <1>7, <1>8, SeenKept

LEMMA InitFollowed == Init => Followed
<1> SUFFICES ASSUME Init PROVE Followed
  OBVIOUS
<1>1. shifts = << >>
  BY Zenon DEF Init
<1>2. Running = {}
  BY <1>1 DEF Running
<1>3. QED
  BY <1>2 DEF Followed

LEMMA CaptureFollowed ==
  ASSUME Shape, Followed, Capture
  PROVE  Followed'
<1>1. /\ queue' = Append(queue, captured + 1)
      /\ UNCHANGED <<day, awaiting, losses, shifts, pings, req>>
  BY DEF Capture
<1> SUFFICES ASSUME losses' <= 1, NEW i \in Running', NEW p \in Crumbs(i)'
             PROVE  Seen(i, p)' \/ Touching(i, p)' \/ Queued(i, p)'
  BY DEF Followed
<1>2. i \in Running /\ p \in Crumbs(i) /\ track' = track
  BY <1>1 DEF Running, Crumbs, track
<1>3. Seen(i, p) \/ Touching(i, p) \/ Queued(i, p)
  BY <1>1, <1>2 DEF Followed
<1>4. Touching(i, p) => Touching(i, p)'
  BY <1>1 DEF Touching, Step, Newest
<1>5. Seen(i, p) => Seen(i, p)'
  BY <1>1 DEF Seen
<1>6. ASSUME Queued(i, p) PROVE Queued(i, p)'
  <2>1. queue \in Seq(1 .. captured) /\ captured \in Nat /\ queue # << >>
    BY <1>6, DayFacts DEF Shape, TypeOK, Queued
  <2>2. queue' # << >> /\ Head(queue') = Head(queue)
    <3>1. queue \in Seq(Nat) /\ captured + 1 \in Nat
      BY <2>1
    <3>2. QED
      BY <1>1, <2>1, <3>1
  <2>3. QED
    BY <1>1, <1>2, <1>6, <2>2 DEF Queued, Step
<1>7. QED
  BY <1>3, <1>4, <1>5, <1>6

LEMMA TimeOutFollowed ==
  ASSUME Shape, Followed, TimeOut
  PROVE  Followed'
<1>1. losses' = losses + 1 /\ UNCHANGED <<day, queue, shifts, pings, req>>
  BY DEF TimeOut
<1> SUFFICES ASSUME losses' <= 1, NEW i \in Running', NEW p \in Crumbs(i)'
             PROVE  Seen(i, p)' \/ Touching(i, p)' \/ Queued(i, p)'
  BY DEF Followed
<1>2. i \in Running /\ p \in Crumbs(i) /\ losses = 0
  BY <1>1, DayFacts DEF Running, Crumbs, Shape
<1>3. Seen(i, p) \/ Touching(i, p)
  BY <1>2 DEF Followed, Queued
<1>4. QED
  BY <1>1, <1>3 DEF Touching, Step, Newest, Seen

LEMMA SendFollowed ==
  ASSUME Shape, Followed, NEW s \in Slots, SendPings(s)
  PROVE  Followed'
<1>1. /\ awaiting = None /\ ~Busy(s) /\ awaiting' = s /\ Others(s) /\ Step(s)' = "open"
      /\ UNCHANGED <<day, captured, queue, losses, shifts, pings>>
  BY SendEffect DEF Shape
<1> SUFFICES ASSUME losses' <= 1, NEW i \in Running', NEW p \in Crumbs(i)'
             PROVE  Seen(i, p)' \/ Touching(i, p)' \/ Queued(i, p)'
  BY DEF Followed
<1>2. i \in Running /\ p \in Crumbs(i) /\ track' = track
  BY <1>1 DEF Running, Crumbs, track
<1>3. Seen(i, p) \/ Touching(i, p) \/ Queued(i, p)
  BY <1>1, <1>2 DEF Followed
<1>4. Step(s) # "touch"
  BY <1>1 DEF Busy
<1>5. Queued(i, p) => Queued(i, p)'
  <2>1. Step(awaiting)' = "open"
    BY <1>1 DEF Step
  <2>2. QED
    BY <1>1, <1>2, <2>1 DEF Queued
<1>6. QED
  BY <1>1, <1>3, <1>4, <1>5, TouchingKept, SeenKept

LEMMA OpenFollowed ==
  ASSUME Shape, Followed, NEW s \in Slots, PingsOpen(s)
  PROVE  Followed'
<1>1. TypeOK /\ \A i, j \in Running : i = j
  BY DEF Shape
<1>2. /\ Step(s) = "open" /\ Others(s)
      /\ \/ (Running = {} \/ req[s].fixes = << >>) /\ Step(s)' = "answer"
         \/ Step(s)' = "walk" /\ req[s].fixes # << >> /\ req'[s].shift \in Running
      /\ UNCHANGED <<day, captured, queue, awaiting, losses, shifts, pings>>
  BY <1>1, OpenEffect
<1>3. ASSUME NEW i \in Running, NEW p \in Crumbs(i), awaiting = s, Queued(i, p)
      PROVE  Queued(i, p)'
  <2>1. req[s].fixes # << >>
    BY <1>1, <1>3, CrumbFacts, QueuedBatch
  <2>2. Step(s)' = "walk" /\ req'[s].shift = i
    BY <1>1, <1>2, <1>3, <2>1
  <2>3. Step(awaiting)' \in {"walk", "add"} /\ (req[awaiting].shift)' = i
    BY <1>2, <1>3, <2>2 DEF Step
  <2>4. track' = track
    BY <1>2 DEF track
  <2>5. QED
    BY <1>2, <1>3, <2>3, <2>4 DEF Queued
<1>4. SameShifts
  BY <1>1, <1>2 DEF SameShifts, TypeOK
<1>5. QED
  BY <1>2, <1>3, <1>4, QuietFollowed

LEMMA WalkFollowed ==
  ASSUME Shape, Followed, NEW s \in Slots, PingsWalk(s)
  PROVE  Followed'
<1>1. TypeOK
  BY DEF Shape
<1>2. /\ Step(s) = "walk" /\ Step(s)' = "add" /\ Others(s) /\ req'[s].shift = req[s].shift
      /\ UNCHANGED <<day, captured, queue, awaiting, losses, shifts, pings>>
  BY <1>1, WalkEffect
<1>3. ASSUME NEW i \in Running, NEW p \in Crumbs(i), awaiting = s, Queued(i, p)
      PROVE  Queued(i, p)'
  <2>1. req[s].shift = i
    BY <1>1, <1>2, <1>3, CrumbFacts, QueuedBatch
  <2>2. Step(awaiting)' \in {"walk", "add"} /\ (req[awaiting].shift)' = i
    BY <1>2, <1>3, <2>1 DEF Step
  <2>3. track' = track
    BY <1>2 DEF track
  <2>4. QED
    BY <1>2, <1>3, <2>2, <2>3 DEF Queued
<1>4. SameShifts
  BY <1>1, <1>2 DEF SameShifts, TypeOK
<1>5. QED
  BY <1>2, <1>3, <1>4, QuietFollowed

LEMMA AddFollowed ==
  ASSUME Shape, Followed, NEW s \in Slots, AddPings(s)
  PROVE  Followed'
<1>1. TypeOK
  BY DEF Shape
<1>2. /\ Step(s) = "add" /\ Step(s)' = "touch" /\ Others(s) /\ Kept(s)
      /\ req'[s].shift = req[s].shift
      /\ Len(req[s].fixes) \in 0 .. Len(req[s].fixes)
      /\ pings' = pings \o Documents(s, Len(req[s].fixes))
      /\ UNCHANGED <<day, captured, queue, awaiting, losses, shifts>>
  BY <1>1, AddEffect
<1> SUFFICES ASSUME losses' <= 1, NEW i \in Running', NEW p \in Crumbs(i)'
             PROVE  Seen(i, p)' \/ Touching(i, p)' \/ Queued(i, p)'
  BY DEF Followed
<1>3. i \in Running
  BY <1>2 DEF Running
<1>4. Filing(s) /\ Busy(s) /\ Newest(s)' = Newest(s)
  BY <1>2 DEF Filing, Busy, Newest, Kept
<1>5. req[s].fixes # << >>
  BY <1>4 DEF Shape, Carried
<1>6. \/ p \in Crumbs(i)
      \/ (i = req[s].shift /\ \E k \in 1 .. Len(req[s].fixes) : p = req[s].fixes[k])
  <2>1. \A j : \A q \in Crumbs(j)' :
          \/ q \in Crumbs(j)
          \/ (j = req[s].shift /\ \E k \in 1 .. Len(req[s].fixes) : q = req[s].fixes[k])
    BY <1>1, <1>2, <1>4, Stored
  <2>2. QED
    BY <2>1
<1>7. ASSUME i = req[s].shift, p.at <= Newest(s) PROVE Touching(i, p)'
  BY <1>2, <1>4, <1>7 DEF Touching, Step
<1>8. CASE i = req[s].shift /\ \E k \in 1 .. Len(req[s].fixes) : p = req[s].fixes[k]
  <2>1. p.at <= Newest(s)
    BY <1>4, <1>5, <1>8, CarriedFacts
  <2>2. QED
    BY <1>7, <1>8, <2>1
<1>9. CASE p \in Crumbs(i)
  <2>1. Seen(i, p) \/ Touching(i, p) \/ Queued(i, p)
    BY <1>2, <1>3, <1>9 DEF Followed
  <2>2. Seen(i, p) => Seen(i, p)'
    BY <1>2, SeenKept
  <2>3. Touching(i, p) => Touching(i, p)'
    BY <1>2, TouchingKept
  <2>4. ASSUME Queued(i, p), awaiting = s PROVE Touching(i, p)'
    <3>1. p.at <= Newest(s) /\ req[s].shift = i
      BY <1>1, <1>2, <1>9, <2>4, CrumbFacts, QueuedBatch
    <3>2. QED
      BY <1>7, <3>1
  <2>5. ASSUME Queued(i, p), awaiting # s PROVE Queued(i, p)'
    <3>1. awaiting # None => req'[awaiting] = req[awaiting]
      BY <1>2, <2>5, AwaitedFacts DEF Others
    <3>2. QED
      BY <1>2, <2>5, <3>1, QueuedKept
  <2>6. QED
    BY <2>1, <2>2, <2>3, <2>4, <2>5
<1>10. QED
  BY <1>6, <1>8, <1>9

LEMMA TouchFollowed ==
  ASSUME Shape, Followed, NEW s \in Slots, TouchLastPing(s)
  PROVE  Followed'
<1>1. TypeOK
  BY DEF Shape
<1>2. /\ Step(s) = "touch" /\ Others(s) /\ Newest(s) \in Nat /\ SameShifts
      /\ \A i \in DOMAIN shifts :
           /\ shifts'[i].open = shifts[i].open
           /\ i # req[s].shift => shifts'[i].lastPing = shifts[i].lastPing
           /\ i = req[s].shift =>
                shifts'[i].lastPing = Latest(shifts[i].lastPing, Newest(s))
      /\ UNCHANGED <<day, captured, queue, awaiting, losses, pings>>
  BY TouchEffect
<1> SUFFICES ASSUME losses' <= 1, NEW i \in Running', NEW p \in Crumbs(i)'
             PROVE  Seen(i, p)' \/ Touching(i, p)' \/ Queued(i, p)'
  BY DEF Followed
<1>3. i \in Running /\ i \in DOMAIN shifts /\ p \in Crumbs(i)
  BY <1>2 DEF Running, SameShifts, Crumbs
<1>4. p.at \in Nat /\ shifts[i].lastPing \in Nat \cup {None} /\ None \notin Nat
  BY <1>1, <1>3, CrumbFacts, PingTimes, NoneAssumption
<1>5. Seen(i, p) \/ Touching(i, p) \/ Queued(i, p)
  BY <1>2, <1>3 DEF Followed
<1>6. CASE Seen(i, p)
  <2>1. CASE i # req[s].shift
    BY <1>2, <1>3, <1>6, <2>1, SeenKept
  <2>2. CASE i = req[s].shift
    <3>1. shifts[i].lastPing \in Nat /\ p.at <= shifts[i].lastPing
      BY <1>4, <1>6 DEF Seen
    <3>2. shifts'[i].lastPing \in Nat /\ p.at <= shifts'[i].lastPing
      BY <1>2, <1>3, <1>4, <2>2, <3>1 DEF Latest
    <3>3. QED
      BY <1>4, <3>2 DEF Seen
  <2>3. QED
    BY <2>1, <2>2
<1>7. CASE Touching(i, p)
  <2>1. PICK t \in Slots : Step(t) = "touch" /\ req[t].shift = i /\ p.at <= Newest(t)
    BY <1>7 DEF Touching
  <2>2. CASE t = s
    <3>1. shifts'[i].lastPing \in Nat /\ p.at <= shifts'[i].lastPing
      BY <1>2, <1>3, <1>4, <2>1, <2>2 DEF Latest
    <3>2. QED
      BY <1>4, <3>1 DEF Seen
  <2>3. CASE t # s
    BY <1>2, <2>1, <2>3 DEF Touching, Step, Others, Newest
  <2>4. QED
    BY <2>2, <2>3
<1>8. CASE Queued(i, p)
  <2>1. awaiting # s
    BY <1>2, <1>4, <1>8, QueuedBatch
  <2>2. awaiting # None => req'[awaiting] = req[awaiting]
    BY <1>2, <2>1, AwaitedFacts DEF Others
  <2>3. QED
    BY <1>2, <1>8, <2>2, QueuedKept
<1>9. QED
  BY <1>5, <1>6, <1>7, <1>8

LEMMA FlagFollowed ==
  ASSUME Shape, Followed, NEW s \in Slots, Flag(s)
  PROVE  Followed'
<1>1. TypeOK
  BY DEF Shape
<1>2. /\ Step(s) = "flag" /\ Others(s) /\ SameShifts
      /\ \A i \in DOMAIN shifts :
           shifts'[i].open = shifts[i].open /\ shifts'[i].lastPing = shifts[i].lastPing
      /\ UNCHANGED <<day, captured, queue, awaiting, losses, pings>>
  BY <1>1, FlagEffect
<1>3. ASSUME NEW i \in Running, NEW p \in Crumbs(i), awaiting = s, Queued(i, p)
      PROVE  FALSE
  BY <1>1, <1>2, <1>3, CrumbFacts, QueuedBatch
<1>4. QED
  BY <1>2, <1>3, QuietFollowed

LEMMA ReplyFollowed ==
  ASSUME Shape, Followed, NEW s \in Slots, Reply(s)
  PROVE  Followed'
<1>1. TypeOK
  BY DEF Shape
<1>2. /\ Step(s) = "answer" /\ Others(s) /\ Hangup(s)
      /\ queue' = IF awaiting = s THEN Tail(queue) ELSE queue
      /\ UNCHANGED <<day, captured, losses, shifts, pings>>
  BY <1>1, ReplyEffect
<1> SUFFICES ASSUME losses' <= 1, NEW i \in Running', NEW p \in Crumbs(i)'
             PROVE  Seen(i, p)' \/ Touching(i, p)' \/ Queued(i, p)'
  BY DEF Followed
<1>3. i \in Running /\ p \in Crumbs(i)
  BY <1>2 DEF Running, Crumbs
<1>4. Seen(i, p) \/ Touching(i, p) \/ Queued(i, p)
  BY <1>2, <1>3 DEF Followed
<1>5. ASSUME Queued(i, p) PROVE Queued(i, p)'
  <2>1. awaiting # s
    BY <1>1, <1>2, <1>3, <1>5, CrumbFacts, QueuedBatch
  <2>2. queue' = queue /\ awaiting' = awaiting
    BY <1>2, <2>1 DEF Hangup
  <2>3. awaiting # None => req'[awaiting] = req[awaiting]
    BY <1>2, <2>1, AwaitedFacts DEF Others
  <2>4. QED
    BY <1>2, <1>5, <2>2, <2>3, QueuedKept
<1>6. QED
  BY <1>2, <1>4, <1>5, SeenKept, TouchingKept

LEMMA DieFollowed ==
  ASSUME Shape, Followed, NEW s \in Slots, Die(s)
  PROVE  Followed'
<1>1. TypeOK
  BY DEF Shape
<1>2. /\ Busy(s) /\ Others(s) /\ Hangup(s) /\ Remnant(s) /\ losses' = losses + 1
      /\ UNCHANGED <<day, captured, queue, shifts>>
  BY <1>1, DieEffect
<1> SUFFICES ASSUME losses' <= 1, NEW i \in Running', NEW p \in Crumbs(i)'
             PROVE  Seen(i, p)' \/ Touching(i, p)' \/ Queued(i, p)'
  BY DEF Followed
<1>3. i \in Running /\ losses = 0 /\ track' = track /\ losses' = 1
  BY <1>1, <1>2, DayFacts DEF Running, track
<1>4. awaiting = s /\ s # None /\ queue # << >> /\ req[s].batch = Head(queue)
  BY <1>2, <1>3, NoneAssumption DEF Shape
<1>5. awaiting' = None
  BY <1>2, <1>4 DEF Hangup
<1>6. /\ track[Head(queue)].kind = "pings" /\ track[Head(queue)].fixes \subseteq Fix
      /\ \A k \in 1 .. Len(req[s].fixes) : req[s].fixes[k] \in track[Head(queue)].fixes
      /\ Len(req[s].fixes) \in Nat
  BY <1>2, <1>4, CarriedFacts
<1>7. ASSUME NEW q \in track[Head(queue)].fixes, p.at <= q.at
      PROVE  Queued(i, p)'
  BY <1>2, <1>3, <1>4, <1>5, <1>6, <1>7 DEF Queued
<1>8. CASE p \in Crumbs(i)
  <2>1. Seen(i, p) \/ Touching(i, p)
    BY <1>3, <1>8 DEF Followed, Queued
  <2>2. CASE Seen(i, p)
    BY <1>2, <2>2, SeenKept
  <2>3. CASE Touching(i, p)
    <3>1. PICK t \in Slots : Step(t) = "touch" /\ req[t].shift = i /\ p.at <= Newest(t)
      BY <2>3 DEF Touching
    <3>2. t = s
      BY <1>3, <1>4, <3>1 DEF Shape, Busy
    <3>3. req[s].fixes # << >>
      BY <1>2, <3>1, <3>2 DEF Shape, Carried, Filing
    <3>4. req[s].fixes[Len(req[s].fixes)] \in track[Head(queue)].fixes
      BY <1>2, <1>4, <3>3, CarriedFacts
    <3>5. QED
      BY <1>7, <3>1, <3>2, <3>4 DEF Newest
  <2>4. QED
    BY <2>1, <2>2, <2>3
<1>9. ASSUME p \notin Crumbs(i)
      PROVE  p \in track[Head(queue)].fixes
  <2>1. ~UNCHANGED pings
    BY <1>9 DEF Crumbs
  <2>2. PICK n \in 1 .. Len(req[s].fixes) - 1 :
          Step(s) = "add" /\ pings' = pings \o Documents(s, n)
    BY <1>2, <2>1 DEF Remnant
  <2>3. Filing(s) /\ n \in 0 .. Len(req[s].fixes)
    BY <1>6, <2>2 DEF Filing
  <2>4. \E k \in 1 .. n : p = req[s].fixes[k]
    <3>1. \A j : \A q \in Crumbs(j)' :
            q \in Crumbs(j) \/ (j = req[s].shift /\ \E k \in 1 .. n : q = req[s].fixes[k])
      BY <1>1, <2>2, <2>3, Stored
    <3>2. QED
      BY <1>9, <3>1
  <2>5. QED
    BY <1>6, <2>3, <2>4
<1>10. CASE p \notin Crumbs(i)
  <2>1. p \in track[Head(queue)].fixes /\ p.at \in Nat
    BY <1>6, <1>9, <1>10 DEF Fix
  <2>2. p.at <= p.at
    BY <2>1
  <2>3. QED
    BY <1>7, <2>1, <2>2
<1>11. QED
  BY <1>8, <1>10

LEMMA NextFollowed ==
  ASSUME Shape, Followed, [Next]_vars
  PROVE  Followed'
<1>1. TypeOK
  BY DEF Shape
<1>2. CASE TapLive
  <2>1. /\ Apply(captured + 1) /\ captured < Len(track)
        /\ UNCHANGED <<day, queue, awaiting, losses, pings, req>>
    BY <1>2 DEF TapLive
  <2>2. captured + 1 \in 1 .. Len(track)
    BY <1>1, <2>1, DayFacts
  <2>3. QED
    BY <2>1, <2>2, ApplyFollowed
<1>3. CASE FlushTap
  <2>1. /\ Apply(Head(queue)) /\ queue # << >>
        /\ UNCHANGED <<day, captured, awaiting, losses, pings, req>>
    BY <1>3 DEF FlushTap
  <2>2. Head(queue) \in 1 .. captured
    BY <1>1, <2>1 DEF TypeOK
  <2>3. Head(queue) \in 1 .. Len(track)
    BY <1>1, <2>2, DayFacts
  <2>4. track[Head(queue)].kind # "pings"
    BY <2>1 DEF Apply
  <2>5. \A i, p : ~Queued(i, p)
    BY <2>4 DEF Queued
  <2>6. QED
    BY <2>1, <2>3, <2>5, ApplyFollowed
<1>4. CASE UNCHANGED vars
  BY <1>4 DEF vars, Followed, Running, Crumbs, Seen, Touching, Queued, Step, Newest, track
<1>5. QED
  BY <1>2, <1>3, <1>4, CaptureFollowed, TimeOutFollowed, SendFollowed, OpenFollowed, WalkFollowed,
     AddFollowed, TouchFollowed, FlagFollowed, ReplyFollowed, DieFollowed
     DEF Next, Phone, Handle

\* Once the phone has got rid of everything, "last seen" of the running shift is
\* its newest breadcrumb, whatever handler died half-way or was given up: the
\* retry that was answered has repeated the missing step.
THEOREM LastSeenIsNewest == Spec => []LastSeenCatchesUp
<1>1. Init => Shape /\ Followed
  BY InitShape, InitFollowed
<1>2. Shape /\ Followed /\ [Next]_vars => (Shape /\ Followed)'
  BY NextShape, NextFollowed
<1>3. Shape /\ Followed => LastSeenCatchesUp
  <2> SUFFICES ASSUME Shape, Followed, Quiet, losses <= 1, NEW i \in Running, NEW p \in Crumbs(i)
               PROVE  Seen(i, p)
    BY Zenon DEF LastSeenCatchesUp, Seen
  <2>1. \A s \in Slots : Step(s) = "idle"
    BY DEF Quiet, Step, Idle
  <2>2. ~Touching(i, p) /\ ~Queued(i, p)
    BY <2>1 DEF Touching, Queued, Quiet
  <2>3. QED
    BY <2>2 DEF Followed
<1>4. QED
  BY <1>1, <1>2, <1>3, PTL DEF Spec
-----------------------------------------------------------------------------
(* Jumps along a path. *)

LEMMA Speed ==
  ASSUME NEW a \in Fix, NEW b \in Fix
  PROVE  SpeedAnomaly(a, b) <=> Impossible(a, b)
<1>1. a.at \in Nat /\ b.at \in Nat /\ a.loc \in Locs /\ b.loc \in Locs
  BY DEF Fix
<1>2. <<a.loc, b.loc>> \in Locs \X Locs
  BY <1>1
<1>3. TravelTime[a.loc, b.loc] \in Nat
  BY <1>2, TravelAssumption
<1>4. PICK t \in Nat : t = TravelTime[a.loc, b.loc]
  BY <1>3
<1>5. SpeedAnomaly(a, b) <=> b.at > a.at /\ b.at - a.at < t
  BY <1>4, Zenon DEF SpeedAnomaly
<1>6. Impossible(a, b) <=> a.at < b.at /\ b.at < a.at + t
  BY <1>4, Zenon DEF Impossible
<1>7. b.at > a.at /\ b.at - a.at < t <=> a.at < b.at /\ b.at < a.at + t
  BY <1>1
<1>8. QED
  BY <1>5, <1>6, <1>7

\* The path the handler walks: from the last known point through the batch.
LEMMA Path ==
  ASSUME NEW p \in Fix, NEW seq \in Seq(Fix), NEW k \in DOMAIN seq
  PROVE  /\ (<<p>> \o seq)[k + 1] = seq[k]
         /\ k = 1 => (<<p>> \o seq)[k] = p
         /\ k > 1 => k - 1 \in DOMAIN seq /\ (<<p>> \o seq)[k] = seq[k - 1]
<1>1. k \in 1 .. Len(seq) /\ Len(seq) \in Nat
  OBVIOUS
<1>2. <<p>> \in Seq(Fix) /\ Len(<<p>>) = 1 /\ <<p>>[1] = p
  OBVIOUS
<1>3. /\ Len(<<p>> \o seq) = 1 + Len(seq)
      /\ \A j \in 1 .. 1 + Len(seq) :
           (<<p>> \o seq)[j] = IF j <= 1 THEN <<p>>[j] ELSE seq[j - 1]
  BY <1>1, <1>2, ConcatProperties
<1>4. k + 1 \in 1 .. 1 + Len(seq) /\ k \in 1 .. 1 + Len(seq) /\ ~(k + 1 <= 1) /\ k + 1 - 1 = k
  BY <1>1
<1>5. (<<p>> \o seq)[k + 1] = seq[k]
  BY <1>3, <1>4
<1>6. k = 1 => (<<p>> \o seq)[k] = p
  BY <1>2, <1>3, <1>4
<1>7. k > 1 => k - 1 \in DOMAIN seq /\ (<<p>> \o seq)[k] = seq[k - 1]
  BY <1>1, <1>3, <1>4
<1>8. QED
  BY <1>5, <1>6, <1>7

\* A batch later than everything on record, walked from the newest point and
\* found possible, adds no jump.
LEMMA NoNewJump ==
  ASSUME NEW P \in SUBSET Fix, NEW F \in SUBSET Fix, IsFiniteSet(F), NEW seq \in InTimeOrder(F),
         NEW p \in P, \A r \in P : r.at <= p.at /\ (r.at = p.at => r = p),
         \A r \in P, f \in F : r.at < f.at,
         \A f, g \in F : f.at = g.at => f = g,
         ~Anomalous(p, seq),
         NEW a \in P \cup F, NEW b \in P \cup F, <<a, b>> \in Jumps(P \cup F)
  PROVE  <<a, b>> \in Jumps(P)
<1>1. Impossible(a, b) /\ \A r \in P \cup F : r.at <= a.at \/ r.at >= b.at
  BY DEF Jumps
<1>2. \A r \in P \cup F : r \in Fix /\ r.at \in Nat
  BY DEF Fix
<1>3. a.at < b.at
  BY <1>1 DEF Impossible
<1>4. CASE b \in P
  <2>1. a \in P
    BY <1>2, <1>3, <1>4
  <2>2. QED
    BY <1>1, <1>4, <2>1 DEF Jumps
<1>5. CASE b \in F
  <2>1. /\ seq \in Seq(F) /\ Len(seq) \in Nat /\ DOMAIN seq = 1 .. Len(seq)
        /\ \A f \in F : \E k \in DOMAIN seq : seq[k] = f
        /\ \A k \in DOMAIN seq : seq[k] \in F
        /\ \A j, k \in DOMAIN seq : j # k => seq[j] # seq[k]
        /\ \A j, k \in DOMAIN seq : j < k => seq[j].at <= seq[k].at
    BY TimeOrder
  <2>2. PICK k \in DOMAIN seq : seq[k] = b
    BY <1>5, <2>1
  <2>3. k \in 1 .. Len(seq) /\ seq \in Seq(Fix)
    BY <2>1, Widen
  <2>4. ASSUME NEW j \in DOMAIN seq, seq[j] = a PROVE j \in 1 .. k - 1
    <3>1. j \in 1 .. Len(seq) /\ a \in F
      BY <2>1, <2>4
    <3>2. ~(k < j) /\ j # k
      BY <1>2, <1>3, <1>5, <2>1, <2>2, <2>4, <3>1
    <3>3. QED
      BY <2>3, <3>1, <3>2
  <2>5. (<<p>> \o seq)[k] = a
    <3>1. CASE k = 1
      <4>1. a \notin F
        BY <2>1, <2>4, <3>1
      <4>2. a \in P /\ p.at < b.at /\ p.at \in Nat /\ a.at \in Nat /\ b.at \in Nat
        BY <1>2, <1>5, <4>1
      <4>3. p.at <= a.at
        BY <1>1, <4>2
      <4>4. a.at = p.at
        BY <4>2, <4>3
      <4>5. a = p
        BY <4>2, <4>4
      <4>6. QED
        BY <1>2, <2>3, <3>1, <4>5, Path
    <3>2. CASE k > 1
      <4>1. k - 1 \in DOMAIN seq /\ (<<p>> \o seq)[k] = seq[k - 1]
        BY <1>2, <2>3, <3>2, Path
      <4> DEFINE c == seq[k - 1]
      <4>2. c \in F /\ c # b /\ c.at <= b.at
        BY <2>1, <2>2, <2>3, <4>1
      <4> HIDE DEF c
      <4>3. c.at \in Nat /\ a.at \in Nat /\ b.at \in Nat /\ c.at # b.at
        BY <1>2, <1>5, <4>2
      <4>4. c.at <= a.at
        BY <1>1, <4>2, <4>3
      <4>5. a \in F
        BY <4>2, <4>3, <4>4
      <4>6. PICK j \in DOMAIN seq : seq[j] = a
        BY <2>1, <4>5
      <4>7. j < k - 1 \/ j = k - 1
        BY <2>3, <2>4, <4>6
      <4>8. a.at <= c.at
        BY <2>1, <4>1, <4>3, <4>6, <4>7 DEF c
      <4>9. a = c
        BY <4>2, <4>3, <4>4, <4>5, <4>8
      <4>10. QED
        BY <4>1, <4>9 DEF c
    <3>3. QED
      BY <2>3, <3>1, <3>2
  <2>6. (<<p>> \o seq)[k + 1] = b
    BY <1>2, <2>2, <2>3, Path
  <2>7. SpeedAnomaly((<<p>> \o seq)[k], (<<p>> \o seq)[k + 1])
    BY <1>1, <1>2, <2>5, <2>6, Speed
  <2>8. Anomalous(p, seq)
    BY <2>7, Zenon DEF Anomalous
  <2>9. QED
    BY <2>8
<1>6. QED
  BY <1>4, <1>5

\* An anomalous path jumps between two of its points.
LEMMA PathJumps ==
  ASSUME NEW O \in SUBSET Fix, NEW p \in O, NEW seq \in Seq(O), Anomalous(p, seq)
  PROVE  \E a, b \in O : Impossible(a, b)
<1>1. PICK k \in DOMAIN seq : SpeedAnomaly((<<p>> \o seq)[k], (<<p>> \o seq)[k + 1])
  BY Zenon DEF Anomalous
<1>2. seq \in Seq(Fix) /\ p \in Fix /\ k \in 1 .. Len(seq) /\ Len(seq) \in Nat
  BY Widen
<1>3. (<<p>> \o seq)[k + 1] \in O
  BY <1>2, Path
<1>4. (<<p>> \o seq)[k] \in O
  <2>1. k = 1 \/ k > 1
    BY <1>2
  <2>2. CASE k = 1
    BY <1>2, <2>2, Path
  <2>3. CASE k > 1
    <3>1. k - 1 \in DOMAIN seq /\ (<<p>> \o seq)[k] = seq[k - 1]
      BY <1>2, <2>3, Path
    <3>2. QED
      BY <3>1
  <2>4. QED
    BY <2>1, <2>2, <2>3
<1>5. QED
  BY <1>1, <1>3, <1>4, Speed
-----------------------------------------------------------------------------
(* Days in order: what belongs where. *)

LEMMA Alone ==
  ASSUME Shape, losses = 0, NEW s \in Slots, Busy(s)
  PROVE  /\ awaiting = s /\ s # None /\ queue # << >> /\ req[s].batch = Head(queue)
         /\ \A t \in Slots : Busy(t) => t = s
<1>1. awaiting = s /\ s # None /\ \A t \in Slots : Busy(t) => t = s
  BY NoneAssumption DEF Shape
<1>2. QED
  BY <1>1, AwaitedFacts

LEMMA DoneFacts ==
  ASSUME TypeOK, FiledQueue
  PROVE  /\ Len(queue) \in Nat /\ Done \in Nat /\ Done <= Len(track) /\ captured = Done + Len(queue)
         /\ Done <= captured /\ captured <= Len(track) /\ captured \in Nat /\ Len(track) \in Nat
         /\ queue # << >> => Head(queue) = Done + 1 /\ Done + 1 \in 1 .. Len(track)
                           /\ Done + 1 <= captured
<1>1. /\ queue \in Seq(1 .. captured) /\ captured \in Nat
      /\ captured <= Len(track) /\ Len(track) \in Nat
  BY DayFacts DEF TypeOK
<1>2. Len(queue) \in Nat /\ (queue # << >> => Head(queue) = queue[1] /\ Len(queue) # 0)
  BY <1>1
<1>3. Done = captured - Len(queue)
  BY DEF Done
<1>4. CASE queue = << >>
  <2>1. Len(queue) = 0
    BY <1>4
  <2>2. QED
    BY <1>1, <1>3, <1>4, <2>1
<1>5. CASE queue # << >>
  <2>1. 1 \in 1 .. Len(queue)
    BY <1>2, <1>5
  <2>2. Head(queue) = Done + 1 /\ Head(queue) \in 1 .. captured
    BY <1>1, <1>2, <1>5, <2>1 DEF FiledQueue
  <2>3. QED
    BY <1>1, <1>2, <1>3, <2>2
<1>6. QED
  BY <1>4, <1>5

\* A batch that belongs to the shift is of its own fixes.
LEMMA OwnFixes ==
  ASSUME NEW i, NEW n, Belongs(n, i)
  PROVE  track[n].fixes \subseteq Own(i)
<1> DEFINE from == shifts[i].from
           later == {m \in from + 1 .. Len(track) : track[m].kind = "in"}
           own == {m \in from + 1 .. Len(track) :
                     track[m].kind = "pings" /\ \A l \in later : m < l}
<1>1. n \in from + 1 .. Len(track) /\ track[n].kind = "pings"
  BY DEF Belongs
<1>2. ASSUME NEW l \in later PROVE n < l
  <2>1. l \notin from + 1 .. n
    BY <1>2 DEF Belongs
  <2>2. QED
    BY <1>1, <1>2, <2>1
<1>3. n \in own
  BY <1>1, <1>2
<1>4. Own(i) = {shifts[i].in} \cup UNION {track[m].fixes : m \in own}
  BY Zenon DEF Own
<1> HIDE DEF own
<1>5. QED
  BY <1>3, <1>4

\* The batch being worked on is the next of the day, and the running shift's.
LEMMA NextBelongs ==
  ASSUME Shape, InOrder, Filed, NEW s \in Slots, Busy(s), NEW i \in Running
  PROVE  Belongs(req[s].batch, i) /\ req[s].batch = Done + 1
<1>1. TypeOK /\ losses = 0 /\ FiledQueue /\ FiledShift(i)
  BY DEF Shape, InOrder, Filed, Running
<1>2. /\ req[s].batch = Done + 1 /\ Done \in Nat /\ Done + 1 \in 1 .. Len(track)
      /\ Len(track) \in Nat /\ track[Done + 1].kind = "pings"
  BY <1>1, Alone, DoneFacts, CarriedFacts
<1>3. /\ shifts[i].from \in 1 .. Done /\ track[shifts[i].from].kind = "in"
      /\ \A n \in shifts[i].from + 1 .. Done : track[n].kind # "out"
  BY <1>1 DEF FiledShift, Running
<1>4. ASSUME NEW m \in shifts[i].from + 1 .. Done + 1, track[m].kind = "in" PROVE FALSE
  <2>1. DOMAIN track = 1 .. Len(track)
    BY <1>1, DayFacts
  <2>2. m \in DOMAIN track /\ shifts[i].from \in DOMAIN track /\ shifts[i].from < m
    BY <1>2, <1>3, <2>1
  <2>3. PICK n \in shifts[i].from + 1 .. m - 1 : track[n].kind = "out"
    BY <1>3, <1>4, <2>2 DEF InOrder, DayInOrder
  <2>4. n \in shifts[i].from + 1 .. Done
    BY <1>2, <1>3
  <2>5. QED
    BY <1>3, <2>3, <2>4
<1>5. Done + 1 \in shifts[i].from + 1 .. Len(track)
  BY <1>2, <1>3
<1>6. QED
  BY <1>2, <1>4, <1>5 DEF Belongs

\* Where a crumb comes from, and the clock-in before it.
LEMMA CrumbFrom ==
  ASSUME TypeOK, DayInOrder, Filed, NEW i, NEW p \in Crumbs(i)
  PROVE  /\ i \in DOMAIN shifts /\ p \in Fix
         /\ \E n \in 1 .. Len(track) :
              /\ Belongs(n, i) /\ p \in Fixes(n) /\ p \in track[n].fixes
              /\ n <= Done \/ \E s \in Slots : Stowed(s) /\ req[s].batch = n
         /\ shifts[i].in \in Fix /\ shifts[i].in.at < p.at
<1>1. PICK k \in DOMAIN pings : pings[k].shift = i /\ p = pings[k].fix
  BY DEF Crumbs
<1>2. i \in DOMAIN shifts /\ p \in Fix
  BY CrumbFacts
<1>3. FiledPing(k) /\ FiledShift(i) /\ FiledQueue
  BY <1>1, <1>2 DEF Filed
<1>4. PICK n : n = pings[k].batch
  OBVIOUS
<1>5. /\ Belongs(n, i) /\ p \in track[n].fixes
      /\ n <= Done \/ \E s \in Slots : Stowed(s) /\ req[s].batch = n
  BY <1>1, <1>3, <1>4 DEF FiledPing
<1>6. /\ shifts[i].from \in 1 .. Done /\ track[shifts[i].from].kind = "in"
      /\ shifts[i].in = track[shifts[i].from].fix
  BY <1>3 DEF FiledShift
<1>7. Done \in Nat /\ Done <= Len(track) /\ Len(track) \in Nat /\ DOMAIN track = 1 .. Len(track)
  BY <1>3, DoneFacts, DayFacts
<1>8. n \in shifts[i].from + 1 .. Len(track) /\ track[n].kind = "pings"
  BY <1>5 DEF Belongs
<1>9. p \in Fixes(n) /\ shifts[i].in \in Fixes(shifts[i].from)
  BY <1>5, <1>6, <1>8 DEF Fixes
<1>10. n \in DOMAIN track /\ shifts[i].from \in DOMAIN track /\ shifts[i].from < n
  BY <1>6, <1>7, <1>8
<1>11. shifts[i].in.at < p.at
  BY <1>9, <1>10 DEF DayInOrder
<1>12. shifts[i].in \in Fix
  BY <1>6, <1>7, <1>10, DayFacts
<1>13. QED
  BY <1>2, <1>5, <1>7, <1>9, <1>10, <1>11, <1>12

\* The points of a shift are its own.
LEMMA OwnPoints ==
  ASSUME TypeOK, DayInOrder, Filed, NEW i \in DOMAIN shifts
  PROVE  Points(i) \subseteq Own(i) /\ Points(i) \subseteq Fix
<1>1. shifts[i].in \in Own(i)
  BY DEF Own
<1>2. shifts[i].in \in Fix
  <2>1. shifts[i] \in Shift
    BY DEF TypeOK
  <2>2. QED
    BY <2>1 DEF Shift
<1>3. \A p \in Crumbs(i) : p \in Own(i) /\ p \in Fix
  BY CrumbFrom, OwnFixes
<1>4. QED
  BY <1>1, <1>2, <1>3 DEF Points

\* The handler starts from the one newest point on record.
LEMMA NewestKnown ==
  ASSUME TypeOK, DayInOrder, Filed, NEW i \in DOMAIN shifts, NEW p \in LastKnown(i)
  PROVE  /\ p \in Points(i)
         /\ \A a \in Points(i) : a.at <= p.at /\ (a.at = p.at => a = p)
<1>1. CASE Crumbs(i) = {}
  <2>1. p = shifts[i].in /\ Points(i) = {p}
    BY <1>1 DEF LastKnown, Points
  <2>2. p.at \in Nat
    BY <2>1, OwnPoints DEF Fix
  <2>3. QED
    BY <2>1, <2>2
<1>2. CASE Crumbs(i) # {}
  <2>1. p \in Crumbs(i) /\ \A q \in Crumbs(i) : q.at <= p.at
    BY <1>2 DEF LastKnown
  <2>2. PICK n \in 1 .. Len(track) : p \in Fixes(n)
    BY <2>1, CrumbFrom
  <2>3. p \in Fix /\ p.at \in Nat /\ shifts[i].in.at < p.at /\ shifts[i].in.at \in Nat
    BY <2>1, CrumbFrom DEF Fix
  <2>4. ASSUME NEW a \in Crumbs(i), a.at = p.at PROVE a = p
    <3>1. PICK m \in 1 .. Len(track) : a \in Fixes(m)
      BY CrumbFrom
    <3>2. m \in DOMAIN track /\ n \in DOMAIN track /\ m \in Int /\ n \in Int
      BY DayFacts
    <3>3. m = n
      <4>1. ~(m < n) /\ ~(n < m)
        BY <2>2, <2>3, <2>4, <3>1, <3>2 DEF DayInOrder
      <4>2. QED
        BY <3>2, <4>1
    <3>4. QED
      BY <2>2, <2>4, <3>1, <3>2, <3>3 DEF DayInOrder
  <2>5. ASSUME NEW a \in Points(i) PROVE a.at <= p.at /\ (a.at = p.at => a = p)
    <3>1. CASE a = shifts[i].in
      BY <2>3, <3>1
    <3>2. CASE a \in Crumbs(i)
      BY <2>1, <2>4, <3>2
    <3>3. QED
      BY <3>1, <3>2 DEF Points
  <2>6. QED
    BY <2>1, <2>5 DEF Points
<1>3. QED
  BY <1>1, <1>2

\* A batch not yet stored is later than every point of the running shift.
LEMMA Chronology ==
  ASSUME Shape, InOrder, Filed, NEW s \in Slots, Busy(s), ~Stowed(s), NEW i \in Running,
         NEW a \in Points(i), NEW f \in track[req[s].batch].fixes
  PROVE  a.at < f.at
<1>1. TypeOK /\ losses = 0 /\ DayInOrder /\ FiledShift(i) /\ FiledQueue
  BY DEF Shape, InOrder, Filed, Running
<1>2. req[s].batch = Done + 1 /\ track[req[s].batch].kind = "pings"
  BY NextBelongs, CarriedFacts
<1>3. f \in Fixes(Done + 1)
  BY <1>2 DEF Fixes
<1>4. /\ Done \in Nat /\ Len(track) \in Nat /\ Done + 1 \in 1 .. Len(track)
      /\ DOMAIN track = 1 .. Len(track)
  BY <1>1, Alone, DoneFacts, DayFacts
<1>5. CASE a = shifts[i].in
  <2>1. /\ shifts[i].from \in 1 .. Done /\ track[shifts[i].from].kind = "in"
        /\ shifts[i].in = track[shifts[i].from].fix
    BY <1>1 DEF FiledShift
  <2>2. a \in Fixes(shifts[i].from)
    BY <1>5, <2>1 DEF Fixes
  <2>3. shifts[i].from \in DOMAIN track /\ Done + 1 \in DOMAIN track /\ shifts[i].from < Done + 1
    BY <1>4, <2>1
  <2>4. QED
    BY <1>1, <1>3, <2>2, <2>3 DEF DayInOrder
<1>6. CASE a \in Crumbs(i)
  <2>1. PICK n \in 1 .. Len(track) :
          /\ a \in Fixes(n)
          /\ n <= Done \/ \E t \in Slots : Stowed(t) /\ req[t].batch = n
    BY <1>1, <1>6, CrumbFrom
  <2>2. \A t \in Slots : ~Stowed(t)
    <3>1. \A t \in Slots : Stowed(t) => Busy(t)
      BY DEF Stowed, Busy
    <3>2. QED
      BY <1>1, <3>1, Alone
  <2>3. n \in DOMAIN track /\ Done + 1 \in DOMAIN track /\ n < Done + 1
    BY <1>4, <2>1, <2>2
  <2>4. QED
    BY <1>1, <1>3, <2>1, <2>3 DEF DayInOrder
<1>7. QED
  BY <1>5, <1>6 DEF Points
-----------------------------------------------------------------------------
(* Days in order: everything stays filed. *)

LEMMA ShiftKept ==
  ASSUME NEW i, FiledShift(i), day' = day,
         shifts'[i].from = shifts[i].from, shifts'[i].in = shifts[i].in,
         Done \in Nat, Done' \in Nat, Done <= Done',
         shifts'[i].open => shifts[i].open /\ \A n \in Done + 1 .. Done' : track[n].kind # "out"
  PROVE  FiledShift(i)'
<1>1. /\ shifts[i].from \in 1 .. Done /\ track[shifts[i].from].kind = "in"
      /\ shifts[i].in = track[shifts[i].from].fix
      /\ shifts[i].open => \A n \in shifts[i].from + 1 .. Done : track[n].kind # "out"
  BY DEF FiledShift
<1>2. track' = track
  BY DEF track
<1>3. shifts[i].from \in 1 .. Done'
  BY <1>1
<1>4. ASSUME shifts'[i].open, NEW n \in shifts[i].from + 1 .. Done' PROVE track[n].kind # "out"
  <2>1. n \in shifts[i].from + 1 .. Done \/ n \in Done + 1 .. Done'
    BY <1>1
  <2>2. QED
    BY <1>1, <1>4, <2>1
<1>5. QED
  BY <1>1, <1>2, <1>3, <1>4 DEF FiledShift

LEMMA PingKept ==
  ASSUME TypeOK, NEW k \in DOMAIN pings, FiledPing(k), day' = day, pings'[k] = pings[k],
         shifts'[pings[k].shift].from = shifts[pings[k].shift].from,
         Done \in Nat, Done' \in Nat, Done <= Done',
         \A s \in Slots : Stowed(s) =>
           (Stowed(s)' /\ req'[s].batch = req[s].batch) \/ req[s].batch <= Done'
  PROVE  FiledPing(k)'
<1>1. /\ Belongs(pings[k].batch, pings[k].shift)
      /\ pings[k].fix \in track[pings[k].batch].fixes
      /\ \/ pings[k].batch <= Done
         \/ \E s \in Slots : Stowed(s) /\ req[s].batch = pings[k].batch
  BY DEF FiledPing
<1>2. track' = track
  BY DEF track
<1>3. Belongs(pings[k].batch, pings[k].shift)'
  BY <1>1, <1>2 DEF Belongs
<1>4. pings[k].batch \in Nat
  <2>1. pings[k] \in Ping
    BY DEF TypeOK
  <2>2. QED
    BY <2>1 DEF Ping
<1>5. \/ pings[k].batch <= Done'
      \/ \E s \in Slots : Stowed(s)' /\ req'[s].batch = pings[k].batch
  BY <1>1, <1>4
<1>6. QED
  BY <1>1, <1>2, <1>3, <1>5 DEF FiledPing

LEMMA PingShift ==
  ASSUME TypeOK, NEW k \in DOMAIN pings
  PROVE  pings[k].shift \in DOMAIN shifts
BY DEF TypeOK

\* A step of the handler that stores nothing and does not answer.
LEMMA HandlerFiled ==
  ASSUME Shape, Filed, NEW s \in Slots, Others(s), Kept(s),
         UNCHANGED <<day, captured, queue, pings>>,
         SameShifts, \A i \in DOMAIN shifts : shifts'[i].open = shifts[i].open,
         Stowed(s) => Stowed(s)', Filing(s)' => req'[s].shift \in Running
  PROVE  Filed'
<1>1. TypeOK /\ FiledQueue
  BY DEF Shape, Filed
<1>2. Done \in Nat /\ Done' = Done
  BY <1>1, DoneFacts DEF Done
<1>3. FiledQueue'
  BY <1>1, <1>2 DEF FiledQueue
<1>4. ASSUME NEW i \in DOMAIN shifts' PROVE FiledShift(i)'
  <2>1. i \in DOMAIN shifts /\ FiledShift(i)
    BY DEF SameShifts, Filed
  <2>2. \A n \in Done + 1 .. Done' : track[n].kind # "out"
    BY <1>2
  <2>3. QED
    BY <1>2, <2>1, <2>2, ShiftKept DEF SameShifts
<1>5. \A t \in Slots : Stowed(t) => Stowed(t)' /\ req'[t].batch = req[t].batch
  BY DEF Stowed, Step, Others, Kept
<1>6. ASSUME NEW k \in DOMAIN pings' PROVE FiledPing(k)'
  <2>1. k \in DOMAIN pings /\ FiledPing(k) /\ pings[k].shift \in DOMAIN shifts
    BY <1>1, PingShift DEF Filed
  <2>2. shifts'[pings[k].shift].from = shifts[pings[k].shift].from
    BY <2>1 DEF SameShifts
  <2>3. QED
    BY <1>1, <1>2, <1>5, <2>1, <2>2, PingKept
<1>7. Running' = Running
  BY DEF Running, SameShifts
<1>8. \A t \in Slots : Filing(t)' => req'[t].shift \in Running'
  BY <1>7 DEF Filed, Filing, Step, Others
<1>9. QED
  BY <1>3, <1>4, <1>6, <1>8 DEF Filed

LEMMA AddFiled ==
  ASSUME Shape, InOrder, Filed, NEW s \in Slots, AddPings(s)
  PROVE  Filed'
<1>1. TypeOK /\ FiledQueue
  BY DEF Shape, Filed
<1>2. /\ Step(s) = "add" /\ Step(s)' = "touch" /\ Others(s) /\ Kept(s)
      /\ req'[s].shift = req[s].shift
      /\ Len(req[s].fixes) \in 0 .. Len(req[s].fixes)
      /\ pings' = pings \o Documents(s, Len(req[s].fixes))
      /\ UNCHANGED <<day, captured, queue, awaiting, losses, shifts>>
  BY <1>1, AddEffect
<1>3. Filing(s) /\ Busy(s) /\ ~Stowed(s) /\ Stowed(s)'
  BY <1>2 DEF Filing, Busy, Stowed
<1>4. Done \in Nat /\ Done' = Done /\ track' = track
  BY <1>1, <1>2, DoneFacts DEF Done, track
<1>5. FiledQueue'
  BY <1>1, <1>2, <1>4 DEF FiledQueue
<1>6. ASSUME NEW i \in DOMAIN shifts' PROVE FiledShift(i)'
  <2>1. i \in DOMAIN shifts /\ FiledShift(i)
    BY <1>2 DEF Filed
  <2>2. QED
    BY <1>2, <1>4, <2>1 DEF FiledShift
<1>7. /\ Len(pings) \in Nat /\ Len(pings') = Len(pings) + Len(req[s].fixes)
      /\ pings' \in Seq(Ping)
      /\ \A k \in 1 .. Len(pings) : pings'[k] = pings[k]
      /\ \A k \in Len(pings) + 1 .. Len(pings) + Len(req[s].fixes) :
           /\ pings'[k].shift = req[s].shift /\ pings'[k].batch = req[s].batch
           /\ k - Len(pings) \in 1 .. Len(req[s].fixes)
           /\ pings'[k].fix = req[s].fixes[k - Len(pings)]
  BY <1>1, <1>2, <1>3, Stored
<1>8. \A t \in Slots : Stowed(t) => Stowed(t)' /\ req'[t].batch = req[t].batch
  BY <1>2, <1>3 DEF Stowed, Step, Others, Kept
<1>9. ASSUME NEW k \in 1 .. Len(pings) PROVE FiledPing(k)'
  <2>1. k \in DOMAIN pings
    BY <1>1, <1>9 DEF TypeOK
  <2>2. FiledPing(k) /\ pings'[k] = pings[k]
    BY <1>7, <2>1 DEF Filed
  <2>3. QED
    BY <1>1, <1>2, <1>4, <1>8, <2>1, <2>2, PingKept
<1>10. ASSUME NEW k \in Len(pings) + 1 .. Len(pings) + Len(req[s].fixes) PROVE FiledPing(k)'
  <2>1. req[s].shift \in Running
    BY <1>3 DEF Filed
  <2>2. Belongs(req[s].batch, req[s].shift)
    BY <1>3, <2>1, NextBelongs
  <2>3. req[s].fixes[k - Len(pings)] \in track[req[s].batch].fixes
    BY <1>3, <1>7, CarriedFacts
  <2>4. PICK n : n = req[s].batch
    OBVIOUS
  <2>5. PICK i : i = req[s].shift
    OBVIOUS
  <2>6. pings'[k].shift = i /\ pings'[k].batch = n /\ pings'[k].fix \in track[n].fixes
    BY <1>7, <2>3, <2>4, <2>5
  <2>7. Belongs(n, i)'
    BY <1>2, <1>4, <2>2, <2>4, <2>5 DEF Belongs
  <2>8. \E t \in Slots : Stowed(t)' /\ req'[t].batch = n
    BY <1>2, <1>3, <2>4 DEF Kept
  <2>9. Belongs(pings[k].batch, pings[k].shift)'
    BY <2>6, <2>7 DEF Belongs
  <2>10. QED
    BY <1>4, <2>6, <2>8, <2>9 DEF FiledPing
<1>11. ASSUME NEW k \in DOMAIN pings' PROVE FiledPing(k)'
  <2>1. k \in 1 .. Len(pings) \/ k \in Len(pings) + 1 .. Len(pings) + Len(req[s].fixes)
    BY <1>2, <1>7
  <2>2. QED
    BY <1>9, <1>10, <2>1
<1>12. Running' = Running
  BY <1>2 DEF Running
<1>13. \A t \in Slots : Filing(t)' => req'[t].shift \in Running'
  BY <1>2, <1>3, <1>12 DEF Filed, Filing, Step, Others
<1>14. QED
  BY <1>5, <1>6, <1>11, <1>13 DEF Filed

\* The head of the queue is dealt with.
LEMMA HeadDone ==
  ASSUME TypeOK, FiledQueue, queue # << >>, queue' = Tail(queue), captured' = captured
  PROVE  Done' = Done + 1 /\ FiledQueue'
<1>1. Len(queue) \in Nat /\ captured \in Nat /\ queue \in Seq(1 .. captured)
  BY DoneFacts DEF TypeOK
<1>2. /\ Len(queue') = Len(queue) - 1 /\ Len(queue) # 0
      /\ \A k \in 1 .. Len(queue) - 1 : queue'[k] = queue[k + 1]
  BY <1>1
<1>3. Done' = Done + 1 /\ Done \in Nat
  BY <1>1, <1>2, DoneFacts DEF Done
<1>4. ASSUME NEW k \in 1 .. Len(queue') PROVE queue'[k] = Done' + k
  <2>1. k + 1 \in 1 .. Len(queue) /\ queue'[k] = queue[k + 1]
    BY <1>1, <1>2
  <2>2. queue[k + 1] = Done + (k + 1)
    BY <2>1 DEF FiledQueue
  <2>3. QED
    BY <1>1, <1>2, <1>3, <2>1, <2>2
<1>5. QED
  BY <1>3, <1>4 DEF FiledQueue

LEMMA CaptureFiled ==
  ASSUME Shape, Filed, Capture
  PROVE  Filed'
<1>1. TypeOK /\ FiledQueue
  BY DEF Shape, Filed
<1>2. /\ captured' = captured + 1 /\ queue' = Append(queue, captured + 1)
      /\ UNCHANGED <<day, awaiting, losses, shifts, pings, req>>
  BY DEF Capture
<1>3. /\ Len(queue) \in Nat /\ captured \in Nat /\ queue \in Seq(1 .. captured)
      /\ captured = Done + Len(queue) /\ Done \in Nat
  BY <1>1, DoneFacts DEF TypeOK
<1>4. queue \in Seq(Nat) /\ captured + 1 \in Nat
  <2>1. 1 .. captured \subseteq Nat
    OBVIOUS
  <2>2. QED
    BY <1>3, <2>1, Widen
<1>5. /\ Len(queue') = Len(queue) + 1 /\ queue'[Len(queue) + 1] = captured + 1
      /\ \A k \in 1 .. Len(queue) : queue'[k] = queue[k]
  BY <1>2, <1>4, AppendProperties
<1>6. Done' = Done /\ track' = track
  BY <1>2, <1>3, <1>5 DEF Done, track
<1>7. ASSUME NEW k \in 1 .. Len(queue') PROVE queue'[k] = Done' + k
  <2>1. k \in 1 .. Len(queue) \/ k = Len(queue) + 1
    BY <1>3, <1>5
  <2>2. CASE k \in 1 .. Len(queue)
    BY <1>1, <1>5, <1>6, <2>2 DEF FiledQueue
  <2>3. CASE k = Len(queue) + 1
    BY <1>3, <1>5, <1>6, <2>3
  <2>4. QED
    BY <2>1, <2>2, <2>3
<1>8. \A i \in DOMAIN shifts' : FiledShift(i)'
  BY <1>2, <1>6 DEF Filed, FiledShift
<1>9. \A k \in DOMAIN pings' : FiledPing(k)'
  BY <1>2, <1>6 DEF Filed, FiledPing, Belongs, Stowed, Step
<1>10. \A t \in Slots : Filing(t)' => req'[t].shift \in Running'
  BY <1>2 DEF Filed, Filing, Step, Running
<1>11. FiledQueue'
  BY <1>7 DEF FiledQueue
<1>12. QED
  BY <1>8, <1>9, <1>10, <1>11 DEF Filed

LEMMA FlushFiled ==
  ASSUME Shape, InOrder, Filed, FlushTap
  PROVE  Filed'
<1>1. TypeOK /\ FiledQueue /\ losses = 0
  BY DEF Shape, Filed, InOrder
<1>2. /\ queue # << >> /\ awaiting = None /\ Apply(Head(queue)) /\ queue' = Tail(queue)
      /\ UNCHANGED <<day, captured, awaiting, losses, pings, req>>
  BY DEF FlushTap
<1>3. Done' = Done + 1 /\ FiledQueue' /\ track' = track
  BY <1>1, <1>2, HeadDone DEF track
<1>4. Head(queue) = Done + 1 /\ Done + 1 \in 1 .. Len(track) /\ Done \in Nat
  BY <1>1, <1>2, DoneFacts
<1>5. PICK n \in 1 .. Len(track) : n = Done + 1
  BY <1>4
<1>6. Apply(n)
  BY <1>2, <1>4, <1>5
<1>7. /\ \A i \in DOMAIN shifts :
           shifts'[i].from = shifts[i].from /\ shifts'[i].in = shifts[i].in
      /\ \/ /\ track[n].kind = "in"
            /\ DOMAIN shifts' = DOMAIN shifts \cup {Len(shifts) + 1}
            /\ \A i \in DOMAIN shifts : shifts'[i].open = shifts[i].open
            /\ \A i : i = Len(shifts) + 1 => shifts'[i].from = n /\ shifts'[i].in = track[n].fix
         \/ /\ track[n].kind = "out" /\ DOMAIN shifts' = DOMAIN shifts
            /\ \A i \in DOMAIN shifts : shifts'[i].open = FALSE
         \/ track[n].kind = "in" /\ Running # {} /\ shifts' = shifts
  BY <1>1, <1>6, ApplyEffect
<1>8. ASSUME NEW i \in DOMAIN shifts PROVE FiledShift(i)'
  <2>1. FiledShift(i)
    BY DEF Filed
  <2>2. shifts'[i].open => shifts[i].open /\ track[n].kind # "out"
    BY <1>7
  <2>3. \A m \in Done + 1 .. Done' : m = n
    BY <1>3, <1>4, <1>5
  <2>4. Done' \in Nat /\ Done <= Done'
    BY <1>3, <1>4
  <2>5. QED
    BY <1>2, <1>4, <1>7, <2>1, <2>2, <2>3, <2>4, ShiftKept
<1>9. ASSUME NEW i \in DOMAIN shifts', i \notin DOMAIN shifts PROVE FiledShift(i)'
  <2>1. i = Len(shifts) + 1 /\ track[n].kind = "in"
    BY <1>7, <1>9
  <2>2. shifts'[i].from = n /\ shifts'[i].in = track[n].fix
    BY <1>7, <1>9, <2>1
  <2>3. n \in 1 .. Done' /\ n + 1 .. Done' = {}
    BY <1>3, <1>4, <1>5
  <2>4. QED
    BY <1>3, <2>1, <2>2, <2>3 DEF FiledShift
<1>10. ASSUME NEW k \in DOMAIN pings' PROVE FiledPing(k)'
  <2>1. /\ k \in DOMAIN pings /\ FiledPing(k) /\ pings'[k] = pings[k]
        /\ pings[k].shift \in DOMAIN shifts
    BY <1>1, <1>2, PingShift DEF Filed
  <2>2. \A t \in Slots : Stowed(t) => Stowed(t)' /\ req'[t].batch = req[t].batch
    BY <1>2 DEF Stowed, Step
  <2>3. Done' \in Nat /\ Done <= Done'
    BY <1>3, <1>4
  <2>4. QED
    BY <1>1, <1>2, <1>4, <1>7, <2>1, <2>2, <2>3, PingKept
<1>11. \A t \in Slots : ~Filing(t)'
  <2>1. \A t \in Slots : ~Busy(t)
    BY <1>1, <1>2, Alone
  <2>2. QED
    BY <1>2, <2>1 DEF Busy, Filing, Step
<1>12. QED
  BY <1>3, <1>8, <1>9, <1>10, <1>11 DEF Filed

LEMMA SendFiled ==
  ASSUME Shape, Filed, NEW s \in Slots, SendPings(s)
  PROVE  Filed'
<1>1. TypeOK /\ FiledQueue
  BY DEF Shape, Filed
<1>2. /\ ~Busy(s) /\ Others(s) /\ Step(s)' = "open"
      /\ UNCHANGED <<day, captured, queue, losses, shifts, pings>>
  BY <1>1, SendEffect
<1>3. Done' = Done /\ track' = track /\ ~Stowed(s) /\ ~Filing(s)'
  BY <1>2 DEF Done, track, Stowed, Busy, Filing
<1>4. FiledQueue' /\ \A i \in DOMAIN shifts' : FiledShift(i)'
  BY <1>2, <1>3 DEF Filed, FiledQueue, FiledShift
<1>5. \A t \in Slots : Stowed(t) => Stowed(t)' /\ req'[t].batch = req[t].batch
  BY <1>2, <1>3 DEF Stowed, Step, Others
<1>6. ASSUME NEW k \in DOMAIN pings' PROVE FiledPing(k)'
  <2>1. k \in DOMAIN pings /\ FiledPing(k) /\ pings'[k] = pings[k]
    BY <1>2 DEF Filed
  <2>2. Done \in Nat
    BY <1>1, DoneFacts
  <2>3. QED
    BY <1>1, <1>2, <1>3, <1>5, <2>1, <2>2, PingKept
<1>7. \A t \in Slots : Filing(t)' => req'[t].shift \in Running'
  BY <1>2, <1>3 DEF Filed, Filing, Step, Others, Running
<1>8. QED
  BY <1>4, <1>6, <1>7 DEF Filed

LEMMA ReplyFiled ==
  ASSUME Shape, InOrder, Filed, NEW s \in Slots, Reply(s)
  PROVE  Filed'
<1>1. TypeOK /\ FiledQueue /\ losses = 0
  BY DEF Shape, Filed, InOrder
<1>2. /\ Step(s) = "answer" /\ Step(s)' = "idle" /\ Others(s)
      /\ queue' = IF awaiting = s THEN Tail(queue) ELSE queue
      /\ UNCHANGED <<day, captured, losses, shifts, pings>>
  BY <1>1, ReplyEffect
<1>3. Busy(s)
  BY <1>2 DEF Busy
<1>4. /\ awaiting = s /\ queue # << >> /\ req[s].batch = Head(queue)
      /\ \A t \in Slots : Busy(t) => t = s
  BY <1>1, <1>3, Alone
<1>5. Done' = Done + 1 /\ FiledQueue' /\ track' = track
  BY <1>1, <1>2, <1>4, HeadDone DEF track
<1>6. Head(queue) = Done + 1 /\ Done \in Nat /\ track[Done + 1].kind = "pings"
  BY <1>1, <1>3, <1>4, DoneFacts, CarriedFacts
<1>7. Done' \in Nat /\ Done <= Done'
  BY <1>5, <1>6
<1>8. ASSUME NEW i \in DOMAIN shifts' PROVE FiledShift(i)'
  <2>1. i \in DOMAIN shifts /\ FiledShift(i)
    BY <1>2 DEF Filed
  <2>2. \A m \in Done + 1 .. Done' : m = Done + 1
    BY <1>5, <1>6
  <2>3. \A m \in Done + 1 .. Done' : track[m].kind # "out"
    BY <1>6, <2>2
  <2>4. QED
    BY <1>2, <1>6, <1>7, <2>1, <2>3, ShiftKept
<1>9. \A t \in Slots : Stowed(t) => req[t].batch <= Done'
  <2>1. \A t \in Slots : Stowed(t) => Busy(t)
    BY DEF Stowed, Busy
  <2>2. req[s].batch <= Done'
    BY <1>4, <1>5, <1>6
  <2>3. QED
    BY <1>4, <2>1, <2>2
<1>10. ASSUME NEW k \in DOMAIN pings' PROVE FiledPing(k)'
  <2>1. k \in DOMAIN pings /\ FiledPing(k) /\ pings'[k] = pings[k]
    BY <1>2 DEF Filed
  <2>2. QED
    BY <1>1, <1>2, <1>6, <1>7, <1>9, <2>1, PingKept
<1>11. \A t \in Slots : ~Filing(t)'
  BY <1>2, <1>4 DEF Filing, Step, Others, Busy
<1>12. QED
  BY <1>5, <1>8, <1>10, <1>11 DEF Filed
-----------------------------------------------------------------------------
(* Days in order: suspicions. *)

LEMMA OwnKept ==
  ASSUME NEW i, day' = day, shifts'[i].from = shifts[i].from, shifts'[i].in = shifts[i].in
  PROVE  OwnJump(i) => OwnJump(i)'
<1>1. Own(i)' = Own(i)
  BY DEF Own, track
<1>2. QED
  BY <1>1 DEF OwnJump

LEMMA PointsKept ==
  ASSUME NEW i, pings' = pings, shifts'[i].in = shifts[i].in
  PROVE  Points(i)' = Points(i) /\ LastKnown(i)' = LastKnown(i)
<1>1. Crumbs(i)' = Crumbs(i)
  BY DEF Crumbs
<1>2. QED
  BY <1>1 DEF Points, LastKnown

\* A step of one request, as to what is suspected.
LEMMA RequestEarned ==
  ASSUME Shape, Earned, NEW s \in Slots, Others(s), UNCHANGED day,
         SameShifts,
         \A i \in DOMAIN shifts : shifts'[i].speed => shifts[i].speed \/ OwnJump(i),
         Filing(s)' => req'[s].shift \in DOMAIN shifts,
         Filing(s)' /\ req'[s].anomaly => OwnJump(req'[s].shift),
         Step(s)' = "open" => ~req'[s].anomaly,
         Step(s)' = "flag" => req'[s].anomaly
  PROVE  Earned'
<1>1. TypeOK /\ \A t \in Slots : Filing(t) => req[t].shift \in DOMAIN shifts
  BY DEF Shape, TypeOK, Filing, Step
<1>2. \A i \in DOMAIN shifts : OwnJump(i) => OwnJump(i)'
  BY OwnKept DEF SameShifts
<1>3. \A t \in Slots \ {s} : req'[t] = req[t] /\ Step(t)' = Step(t) /\ (Filing(t)' <=> Filing(t))
  BY DEF Others, Step, Filing
<1>4. \A i \in DOMAIN shifts' : shifts'[i].speed => OwnJump(i)'
  BY <1>2 DEF Earned, SameShifts
<1>5. ASSUME NEW t \in Slots
      PROVE  /\ Filing(t)' /\ req'[t].anomaly => \A i : i = req'[t].shift => OwnJump(i)'
             /\ Step(t)' = "open" => ~req'[t].anomaly
             /\ Step(t)' = "flag" => req'[t].anomaly
  <2>1. CASE t = s
    BY <1>2, <2>1
  <2>2. CASE t # s
    <3>1. t \in Slots \ {s}
      BY <2>2
    <3>2. /\ Filing(t) /\ req[t].anomaly => OwnJump(req[t].shift)
          /\ Step(t) = "open" => ~req[t].anomaly
          /\ Step(t) = "flag" => req[t].anomaly
      BY DEF Earned
    <3>3. QED
      BY <1>1, <1>2, <1>3, <3>1, <3>2
  <2>3. QED
    BY <2>1, <2>2
<1>6. ASSUME NEW t \in Slots, Filing(t)', req'[t].anomaly PROVE OwnJump(req[t].shift)'
  <2>1. PICK i : i = req'[t].shift
    OBVIOUS
  <2>2. OwnJump(i)'
    BY <1>5, <1>6, <2>1
  <2>3. Own(req[t].shift)' = Own(i)'
    BY <2>1 DEF Own
  <2>4. QED
    BY <2>2, <2>3 DEF OwnJump
<1>7. QED
  BY <1>4, <1>5, <1>6 DEF Earned

\* A step of one request that stores nothing.
LEMMA RequestOrder ==
  ASSUME Shape, Earned, Suspected, Walked, NEW s \in Slots, Others(s), UNCHANGED <<day, pings>>,
         SameShifts,
         \A i \in DOMAIN shifts :
           /\ shifts'[i].speed => shifts[i].speed \/ OwnJump(i)
           /\ shifts[i].speed => shifts'[i].speed,
         Filing(s)' => req'[s].shift \in DOMAIN shifts,
         Filing(s)' /\ req'[s].anomaly => OwnJump(req'[s].shift),
         Step(s)' = "open" => ~req'[s].anomaly,
         Step(s)' = "flag" => req'[s].anomaly,
         Step(s) \in {"touch", "flag"} /\ req[s].anomaly =>
           \/ shifts'[req[s].shift].speed
           \/ Step(s)' = "flag" /\ req'[s].shift = req[s].shift /\ req'[s].anomaly,
         Step(s)' = "add" /\ ~req'[s].anomaly =>
           \E p \in LastKnown(req'[s].shift) : ~Anomalous(p, req'[s].fixes)
  PROVE  Earned' /\ Suspected' /\ Walked'
<1>1. TypeOK /\ \A t \in Slots : Filing(t) => req[t].shift \in DOMAIN shifts
  BY DEF Shape, TypeOK, Filing, Step
<1>2. \A i \in DOMAIN shifts :
        /\ OwnJump(i) => OwnJump(i)'
        /\ Points(i)' = Points(i) /\ LastKnown(i)' = LastKnown(i)
  BY OwnKept, PointsKept DEF SameShifts
<1>3. \A t \in Slots \ {s} : req'[t] = req[t] /\ Step(t)' = Step(t) /\ (Filing(t)' <=> Filing(t))
  BY DEF Others, Step, Filing
<1>4. Earned'
  BY RequestEarned
<1>5. Suspected'
  <2> SUFFICES ASSUME NEW i \in DOMAIN shifts', Jumps(Points(i))' # {} PROVE Suspect(i)'
    BY DEF Suspected
  <2>1. i \in DOMAIN shifts
    BY DEF SameShifts
  <2>2. Points(i)' = Points(i)
    BY <1>2, <2>1
  <2>3. Jumps(Points(i)) # {}
    BY <2>2 DEF Jumps, Impossible
  <2>4. \/ shifts[i].speed
        \/ \E t \in Slots : Step(t) \in {"touch", "flag"} /\ req[t].shift = i /\ req[t].anomaly
    BY <2>1, <2>3 DEF Suspected, Suspect
  <2>5. CASE shifts[i].speed
    BY <2>1, <2>5 DEF Suspect
  <2>6. CASE \E t \in Slots : Step(t) \in {"touch", "flag"} /\ req[t].shift = i /\ req[t].anomaly
    <3>1. PICK t \in Slots : Step(t) \in {"touch", "flag"} /\ req[t].shift = i /\ req[t].anomaly
      BY <2>6
    <3>2. \/ shifts'[i].speed
          \/ Step(t)' \in {"touch", "flag"} /\ req'[t].shift = i /\ req'[t].anomaly
      <4>1. CASE t = s
        BY <3>1, <4>1
      <4>2. CASE t # s
        BY <1>3, <3>1, <4>2
      <4>3. QED
        BY <4>1, <4>2
    <3>3. QED
      BY <3>2 DEF Suspect
  <2>7. QED
    BY <2>4, <2>5, <2>6
<1>6. Walked'
  <2> SUFFICES ASSUME NEW t \in Slots, Step(t)' = "add", ~req'[t].anomaly
               PROVE  \E p \in LastKnown(req[t].shift)' : ~Anomalous(p, req'[t].fixes)
    BY Zenon DEF Walked
  <2>1. PICK i : i = req'[t].shift
    OBVIOUS
  <2>2. LastKnown(req[t].shift)' = LastKnown(i)'
    BY <2>1 DEF LastKnown, Crumbs
  <2> SUFFICES \E p \in LastKnown(i)' : ~Anomalous(p, req'[t].fixes)
    BY <2>2
  <2>3. CASE t = s
    <3>1. i \in DOMAIN shifts
      BY <2>1, <2>3 DEF Filing
    <3>2. QED
      BY <1>2, <2>1, <2>3, <3>1
  <2>4. CASE t # s
    <3>1. Step(t) = "add" /\ ~req[t].anomaly /\ req[t].shift = i /\ req'[t].fixes = req[t].fixes
      BY <1>3, <2>1, <2>4
    <3>2. i \in DOMAIN shifts
      BY <1>1, <3>1 DEF Filing
    <3>3. QED
      BY <1>2, <3>1, <3>2 DEF Walked
  <2>5. QED
    BY <2>3, <2>4
<1>7. QED
  BY <1>4, <1>5, <1>6

LEMMA StillShifts ==
  ASSUME TypeOK, UNCHANGED shifts
  PROVE  /\ SameShifts
         /\ \A i \in DOMAIN shifts :
              /\ shifts'[i].speed => shifts[i].speed
              /\ shifts[i].speed => shifts'[i].speed
BY DEF SameShifts, TypeOK

LEMMA SendOrder ==
  ASSUME Shape, Earned, Suspected, Walked, NEW s \in Slots, SendPings(s)
  PROVE  Earned' /\ Suspected' /\ Walked'
<1>1. TypeOK
  BY DEF Shape
<1>2. /\ ~Busy(s) /\ Others(s) /\ Step(s)' = "open" /\ req'[s].anomaly = FALSE
      /\ UNCHANGED <<day, captured, queue, losses, shifts, pings>>
  BY <1>1, SendEffect
<1>3. /\ ~Filing(s)' /\ Step(s)' # "flag" /\ Step(s)' # "add" /\ ~req'[s].anomaly
      /\ Step(s) \notin {"touch", "flag"}
  BY <1>2 DEF Filing, Busy
<1>4. QED
  BY <1>1, <1>2, <1>3, StillShifts, RequestOrder

LEMMA OpenOrder ==
  ASSUME Shape, Earned, Suspected, Walked, NEW s \in Slots, PingsOpen(s)
  PROVE  Earned' /\ Suspected' /\ Walked'
<1>1. TypeOK
  BY DEF Shape
<1>2. /\ Step(s) = "open" /\ Others(s)
      /\ \/ Step(s)' = "answer"
         \/ Step(s)' = "walk" /\ req'[s].shift \in Running /\ req'[s].anomaly = req[s].anomaly
      /\ UNCHANGED <<day, captured, queue, awaiting, losses, shifts, pings>>
  BY <1>1, OpenEffect
<1>3. ~req[s].anomaly
  BY <1>2 DEF Earned
<1>4. /\ Filing(s)' => req'[s].shift \in DOMAIN shifts /\ ~req'[s].anomaly
      /\ Step(s)' # "flag" /\ Step(s)' # "add" /\ Step(s)' # "open"
      /\ Step(s) \notin {"touch", "flag"}
  BY <1>2, <1>3 DEF Filing, Running
<1>5. QED
  BY <1>1, <1>2, <1>4, StillShifts, RequestOrder

LEMMA WalkOrder ==
  ASSUME Shape, InOrder, Filed, Earned, Suspected, Walked, NEW s \in Slots, PingsWalk(s)
  PROVE  Earned' /\ Suspected' /\ Walked'
<1>1. TypeOK /\ DayInOrder
  BY DEF Shape, InOrder
<1>2. /\ Step(s) = "walk" /\ Step(s)' = "add" /\ Others(s) /\ Kept(s)
      /\ req'[s].shift = req[s].shift
      /\ \E prev \in LastKnown(req[s].shift) :
           req'[s].anomaly = Anomalous(prev, req[s].fixes)
      /\ UNCHANGED <<day, captured, queue, awaiting, losses, shifts, pings>>
  BY <1>1, WalkEffect
<1>3. Busy(s) /\ Filing(s)
  BY <1>2 DEF Busy, Filing
<1>4. PICK prev \in LastKnown(req[s].shift) :
        req'[s].anomaly = Anomalous(prev, req[s].fixes)
  BY <1>2
<1>5. PICK i : i = req[s].shift
  OBVIOUS
<1>6. i \in Running /\ i \in DOMAIN shifts
  BY <1>3, <1>5 DEF Filed, Running
<1>7. ASSUME req'[s].anomaly PROVE OwnJump(i)
  <2>1. prev \in Points(i) /\ Points(i) \subseteq Own(i)
    BY <1>1, <1>4, <1>5, <1>6, NewestKnown, OwnPoints
  <2>2. track[req[s].batch].fixes \subseteq Own(i)
    BY <1>3, <1>6, NextBelongs, OwnFixes
  <2>3. /\ IsFiniteSet(track[req[s].batch].fixes)
        /\ req[s].fixes \in InTimeOrder(track[req[s].batch].fixes)
        /\ track[req[s].batch].fixes \subseteq Fix
    BY <1>3, CarriedFacts
  <2>4. req[s].fixes \in Seq(track[req[s].batch].fixes)
    BY <2>3, TimeOrder
  <2> DEFINE O == Points(i) \cup track[req[s].batch].fixes
  <2>5. O \in SUBSET Fix /\ prev \in O /\ O \subseteq Own(i)
    BY <1>1, <1>6, <2>1, <2>2, <2>3, OwnPoints
  <2>6. req[s].fixes \in Seq(O)
    BY <2>4, Widen
  <2>7. Anomalous(prev, req[s].fixes)
    BY <1>4, <1>7
  <2> HIDE DEF O
  <2>8. \E a, b \in O : Impossible(a, b)
    BY <2>5, <2>6, <2>7, PathJumps
  <2>9. QED
    BY <2>5, <2>8 DEF OwnJump
<1>8. ASSUME ~req'[s].anomaly
      PROVE  \E p \in LastKnown(req'[s].shift) : ~Anomalous(p, req'[s].fixes)
  BY <1>2, <1>4, <1>8 DEF Kept
<1>9. /\ Filing(s)' => req'[s].shift \in DOMAIN shifts
      /\ req'[s].anomaly => OwnJump(req'[s].shift)
      /\ Step(s)' # "flag" /\ Step(s)' # "open" /\ Step(s) \notin {"touch", "flag"}
  BY <1>2, <1>5, <1>6, <1>7
<1>10. QED
  BY <1>1, <1>2, <1>8, <1>9, StillShifts, RequestOrder

LEMMA TouchOrder ==
  ASSUME Shape, Filed, Earned, Suspected, Walked, NEW s \in Slots, TouchLastPing(s)
  PROVE  Earned' /\ Suspected' /\ Walked'
<1>1. /\ Step(s) = "touch" /\ Others(s) /\ SameShifts
      /\ Step(s)' = IF req[s].anomaly THEN "flag" ELSE "answer"
      /\ req'[s].shift = req[s].shift /\ req'[s].anomaly = req[s].anomaly
      /\ req[s].shift \in DOMAIN shifts
      /\ \A i \in DOMAIN shifts : shifts'[i].speed = shifts[i].speed
      /\ UNCHANGED <<day, captured, queue, awaiting, losses, pings>>
  BY TouchEffect
<1>2. Filing(s)
  BY <1>1 DEF Filing
<1>3. req[s].anomaly => OwnJump(req[s].shift)
  BY <1>2 DEF Earned
<1>4. /\ Step(s)' # "open" /\ Step(s)' # "add"
      /\ req[s].anomaly => Step(s)' = "flag"
      /\ Step(s)' = "flag" => req[s].anomaly
  BY <1>1
<1>5. \A i \in DOMAIN shifts :
        /\ shifts'[i].speed => shifts[i].speed \/ OwnJump(i)
        /\ shifts[i].speed => shifts'[i].speed
  BY <1>1
<1>6. QED
  BY <1>1, <1>3, <1>4, <1>5, RequestOrder

LEMMA FlagOrder ==
  ASSUME Shape, Filed, Earned, Suspected, Walked, NEW s \in Slots, Flag(s)
  PROVE  Earned' /\ Suspected' /\ Walked'
<1>1. TypeOK
  BY DEF Shape
<1>2. /\ Step(s) = "flag" /\ Step(s)' = "answer" /\ Others(s) /\ SameShifts
      /\ req[s].shift \in DOMAIN shifts
      /\ \A i \in DOMAIN shifts :
           /\ i # req[s].shift => shifts'[i].speed = shifts[i].speed
           /\ i = req[s].shift => shifts'[i].speed = TRUE
      /\ UNCHANGED <<day, captured, queue, awaiting, losses, pings>>
  BY <1>1, FlagEffect
<1>3. Filing(s) /\ ~Filing(s)' /\ Step(s)' # "open" /\ Step(s)' # "flag" /\ Step(s)' # "add"
  BY <1>2 DEF Filing
<1>4. OwnJump(req[s].shift)
  BY <1>2, <1>3 DEF Earned
<1>5. \A i \in DOMAIN shifts :
        /\ shifts'[i].speed => shifts[i].speed \/ OwnJump(i)
        /\ shifts[i].speed => shifts'[i].speed
  BY <1>2, <1>4
<1>6. shifts'[req[s].shift].speed
  BY <1>2
<1>7. QED
  BY <1>2, <1>3, <1>5, <1>6, RequestOrder

LEMMA ReplyOrder ==
  ASSUME Shape, Earned, Suspected, Walked, NEW s \in Slots, Reply(s)
  PROVE  Earned' /\ Suspected' /\ Walked'
<1>1. TypeOK
  BY DEF Shape
<1>2. /\ Step(s) = "answer" /\ Step(s)' = "idle" /\ Others(s)
      /\ UNCHANGED <<day, captured, losses, shifts, pings>>
  BY <1>1, ReplyEffect
<1>3. /\ ~Filing(s)' /\ Step(s)' # "open" /\ Step(s)' # "flag" /\ Step(s)' # "add"
      /\ Step(s) \notin {"touch", "flag"}
  BY <1>2 DEF Filing
<1>4. QED
  BY <1>1, <1>2, <1>3, StillShifts, RequestOrder

LEMMA SameOrder ==
  ASSUME Earned, Suspected, Walked, UNCHANGED <<day, shifts, pings, req>>
  PROVE  Earned' /\ Suspected' /\ Walked'
<1>1. day' = day /\ shifts' = shifts /\ pings' = pings /\ req' = req
  OBVIOUS
<1>2. Earned' <=> Earned
  BY <1>1 DEF Earned, OwnJump, Own, track, Filing, Step
<1>3. Suspected' <=> Suspected
  BY <1>1 DEF Suspected, Suspect, Points, Crumbs, Step
<1>4. Walked' <=> Walked
  BY <1>1 DEF Walked, LastKnown, Crumbs, Step
<1>5. QED
  BY <1>2, <1>3, <1>4

LEMMA FlushOrder ==
  ASSUME Shape, InOrder, Filed, Earned, Suspected, Walked, FlushTap
  PROVE  Earned' /\ Suspected' /\ Walked'
<1>1. TypeOK /\ FiledQueue /\ losses = 0
  BY DEF Shape, Filed, InOrder
<1>2. /\ queue # << >> /\ awaiting = None /\ Apply(Head(queue))
      /\ UNCHANGED <<day, captured, awaiting, losses, pings, req>>
  BY DEF FlushTap
<1>3. \A t \in Slots : ~Busy(t) /\ Step(t) = "idle" /\ Step(t)' = "idle"
  <2>1. \A t \in Slots : ~Busy(t)
    BY <1>1, <1>2, Alone
  <2>2. QED
    BY <1>2, <2>1 DEF Busy, Step
<1>4. Head(queue) \in 1 .. Len(track)
  BY <1>1, <1>2, DoneFacts
<1>5. /\ shifts' \in Seq(Shift)
      /\ \A i \in DOMAIN shifts :
           /\ i \in DOMAIN shifts'
           /\ shifts'[i].from = shifts[i].from /\ shifts'[i].in = shifts[i].in
           /\ shifts'[i].speed = shifts[i].speed
  BY <1>1, <1>2, <1>4, ApplyEffect
<1>6. \A i \in DOMAIN shifts' : i \in DOMAIN shifts \/ shifts'[i].speed = FALSE
  <2>1. \/ /\ DOMAIN shifts' = DOMAIN shifts \cup {Len(shifts) + 1}
           /\ \A i : i = Len(shifts) + 1 => shifts'[i].speed = FALSE
        \/ DOMAIN shifts' = DOMAIN shifts
        \/ shifts' = shifts
    BY <1>1, <1>2, <1>4, ApplyEffect
  <2>2. QED
    BY <2>1
<1>7. Earned'
  <2>1. ASSUME NEW i \in DOMAIN shifts', shifts'[i].speed PROVE OwnJump(i)'
    <3>1. i \in DOMAIN shifts /\ shifts[i].speed
      BY <1>5, <1>6, <2>1
    <3>2. OwnJump(i)
      BY <3>1 DEF Earned
    <3>3. QED
      BY <1>2, <1>5, <3>1, <3>2, OwnKept
  <2>2. \A t \in Slots : ~Filing(t)' /\ Step(t)' # "open" /\ Step(t)' # "flag"
    BY <1>3 DEF Filing
  <2>3. QED
    BY <2>1, <2>2 DEF Earned
<1>8. Suspected'
  <2> SUFFICES ASSUME NEW i \in DOMAIN shifts', Jumps(Points(i))' # {} PROVE Suspect(i)'
    BY DEF Suspected
  <2>1. CASE i \in DOMAIN shifts
    <3>1. Points(i)' = Points(i)
      BY <1>2, <1>5, <2>1, PointsKept
    <3>2. Jumps(Points(i)) # {}
      BY <3>1 DEF Jumps, Impossible
    <3>3. Suspect(i)
      BY <2>1, <3>2 DEF Suspected
    <3>4. shifts[i].speed
      BY <1>3, <3>3 DEF Suspect
    <3>5. QED
      BY <1>5, <2>1, <3>4 DEF Suspect
  <2>2. CASE i \notin DOMAIN shifts
    <3>1. Crumbs(i)' = {}
      <4>1. \A k \in DOMAIN pings : pings[k].shift # i
        BY <1>1, <2>2, PingShift
      <4>2. QED
        BY <1>2, <4>1 DEF Crumbs
    <3>2. PICK x : x = shifts'[i].in
      OBVIOUS
    <3>3. x \in Fix /\ x.at \in Nat
      <4>1. shifts'[i] \in Shift
        BY <1>5
      <4>2. QED
        BY <3>2, <4>1 DEF Shift, Fix
    <3>4. Points(i)' = {x}
      BY <3>1, <3>2 DEF Points
    <3>5. ~Impossible(x, x)
      <4>1. Impossible(x, x) => x.at < x.at
        BY Zenon DEF Impossible
      <4>2. QED
        BY <3>3, <4>1
    <3>6. Jumps(Points(i)') = {}
      BY <3>4, <3>5 DEF Jumps
    <3>7. Jumps(Points(i))' = Jumps(Points(i)')
      BY DEF Jumps, Impossible
    <3>8. QED
      BY <3>6, <3>7
  <2>3. QED
    BY <2>1, <2>2
<1>9. Walked'
  BY <1>3 DEF Walked
<1>10. QED
  BY <1>7, <1>8, <1>9

LEMMA AddOrder ==
  ASSUME Shape, InOrder, Filed, Earned, Suspected, Walked, NEW s \in Slots, AddPings(s)
  PROVE  Earned' /\ Suspected' /\ Walked'
<1>1. TypeOK /\ losses = 0 /\ DayInOrder
  BY DEF Shape, InOrder
<1>2. /\ Step(s) = "add" /\ Step(s)' = "touch" /\ Others(s) /\ Kept(s)
      /\ req'[s].shift = req[s].shift /\ req'[s].anomaly = req[s].anomaly
      /\ Len(req[s].fixes) \in 0 .. Len(req[s].fixes)
      /\ pings' = pings \o Documents(s, Len(req[s].fixes))
      /\ UNCHANGED <<day, captured, queue, awaiting, losses, shifts>>
  BY <1>1, AddEffect
<1>3. Busy(s) /\ Filing(s) /\ ~Stowed(s)
  BY <1>2 DEF Busy, Filing, Stowed
<1>4. PICK j : j = req[s].shift
  OBVIOUS
<1>5. j \in Running /\ j \in DOMAIN shifts
  BY <1>3, <1>4 DEF Filed, Running
<1>6. \A t \in Slots \ {s} : Step(t) = "idle" /\ Step(t)' = "idle"
  <2>1. \A t \in Slots \ {s} : ~Busy(t)
    BY <1>1, <1>3, Alone
  <2>2. QED
    BY <1>2, <2>1 DEF Busy, Step, Others
<1>7. Earned'
  <2>1. SameShifts /\ \A i \in DOMAIN shifts : shifts'[i].speed => shifts[i].speed
    BY <1>1, <1>2, StillShifts
  <2>2. req'[s].shift \in DOMAIN shifts /\ Step(s)' # "open" /\ Step(s)' # "flag"
    BY <1>2, <1>4, <1>5
  <2>3. req'[s].anomaly => OwnJump(req'[s].shift)
    BY <1>2, <1>3 DEF Earned
  <2>4. QED
    BY <1>2, <2>1, <2>2, <2>3, RequestEarned
<1>8. Walked'
  BY <1>2, <1>6 DEF Walked
<1> DEFINE F == track[req[s].batch].fixes
<1>9. /\ F \subseteq Fix /\ IsFiniteSet(F) /\ req[s].fixes \in InTimeOrder(F)
      /\ track[req[s].batch].kind = "pings" /\ req[s].batch \in DOMAIN track
  <2>1. DOMAIN track = 1 .. Len(track)
    BY <1>1, DayFacts
  <2>2. QED
    BY <1>3, <2>1, CarriedFacts
<1>10. /\ \A p \in F : \E k \in 1 .. Len(req[s].fixes) : req[s].fixes[k] = p
       /\ \A k \in 1 .. Len(req[s].fixes) : req[s].fixes[k] \in F
  <2> HIDE DEF F
  <2>1. /\ DOMAIN req[s].fixes = 1 .. Len(req[s].fixes)
        /\ \A p \in F : \E k \in DOMAIN req[s].fixes : req[s].fixes[k] = p
        /\ \A k \in DOMAIN req[s].fixes : req[s].fixes[k] \in F
    BY <1>9, TimeOrder
  <2>2. QED
    BY <2>1
<1>11. /\ \A i : \A p \in Crumbs(i) : p \in Crumbs(i)'
       /\ \A i : \A p \in Crumbs(i)' :
            \/ p \in Crumbs(i)
            \/ (i = req[s].shift /\ \E k \in 1 .. Len(req[s].fixes) : p = req[s].fixes[k])
       /\ \A i : i = req[s].shift =>
            \A k \in 1 .. Len(req[s].fixes) : req[s].fixes[k] \in Crumbs(i)'
  BY <1>1, <1>2, <1>3, Stored
<1> HIDE DEF F
<1>12. \A i \in DOMAIN shifts :
         /\ i # j => Points(i)' = Points(i)
         /\ i = j => Points(i)' = Points(i) \cup F
  <2>1. ASSUME NEW i \in DOMAIN shifts, i # j PROVE Crumbs(i)' = Crumbs(i)
    <3>1. \A p : p \in Crumbs(i)' <=> p \in Crumbs(i)
      BY <1>4, <1>11, <2>1
    <3>2. QED
      BY <3>1
  <2>2. ASSUME NEW i \in DOMAIN shifts, i = j PROVE Crumbs(i)' = Crumbs(i) \cup F
    <3>1. \A p : p \in Crumbs(i)' <=> p \in Crumbs(i) \/ p \in F
      BY <1>4, <1>10, <1>11, <2>2
    <3>2. QED
      BY <3>1
  <2>3. QED
    BY <1>2, <2>1, <2>2 DEF Points
<1>13. Suspected'
  <2> SUFFICES ASSUME NEW i \in DOMAIN shifts', Jumps(Points(i))' # {} PROVE Suspect(i)'
    BY DEF Suspected
  <2>1. i \in DOMAIN shifts /\ Jumps(Points(i)') # {}
    BY <1>2 DEF Jumps, Impossible
  <2>2. Suspect(i) => Suspect(i)'
    BY <1>2, <1>6 DEF Suspect
  <2>3. CASE i # j
    BY <1>12, <2>1, <2>2, <2>3 DEF Suspected
  <2>4. CASE i = j /\ req[s].anomaly
    <3>1. Step(s)' = "touch" /\ req'[s].shift = i /\ req'[s].anomaly
      BY <1>2, <1>4, <2>4
    <3>2. QED
      BY <3>1 DEF Suspect
  <2>5. CASE i = j /\ ~req[s].anomaly
    <3>1. PICK p \in LastKnown(i) : ~Anomalous(p, req[s].fixes)
      BY <1>2, <1>4, <2>5 DEF Walked
    <3>2. Points(i)' = Points(i) \cup F
      BY <1>12, <2>1, <2>5
    <3>3. PICK a \in Points(i) \cup F, b \in Points(i) \cup F :
            <<a, b>> \in Jumps(Points(i) \cup F)
      BY <2>1, <3>2 DEF Jumps
    <3>4. /\ Points(i) \subseteq Fix /\ p \in Points(i)
          /\ \A r \in Points(i) : r.at <= p.at /\ (r.at = p.at => r = p)
      BY <1>1, <2>1, OwnPoints, NewestKnown
    <3>5. \A r \in Points(i), f \in F : r.at < f.at
      BY <1>3, <1>5, <2>5, Chronology DEF F
    <3>6. \A f, g \in F : f.at = g.at => f = g
      BY <1>1, <1>9 DEF DayInOrder, Fixes, F
    <3>7. <<a, b>> \in Jumps(Points(i))
      BY <1>9, <3>1, <3>3, <3>4, <3>5, <3>6, NoNewJump
    <3>8. QED
      BY <2>1, <2>2, <3>7 DEF Suspected
  <2>6. QED
    BY <2>3, <2>4, <2>5
<1>14. QED
  BY <1>7, <1>8, <1>13

LEMMA InitOrder == Init => InOrderInv
<1> SUFFICES ASSUME Init PROVE Filed /\ Earned /\ Suspected /\ Walked
  BY DEF InOrderInv
<1>1. /\ captured = 0 /\ queue = << >> /\ shifts = << >> /\ pings = << >>
      /\ req = [s \in Slots |-> Idle]
  BY Zenon DEF Init
<1>2. DOMAIN shifts = {} /\ DOMAIN pings = {} /\ Len(queue) = 0
  BY <1>1
<1>3. \A s \in Slots : Step(s) = "idle"
  BY <1>1 DEF Step, Idle
<1>4. QED
  BY <1>2, <1>3 DEF Filed, FiledQueue, Earned, Suspected, Walked, Filing

\* A day still in order was in order, and no answer was lost on the way.
LEMMA StillInOrder ==
  ASSUME Shape, [Next]_vars, InOrder'
  PROVE  /\ InOrder
         /\ Capture \/ FlushTap \/ (\E s \in Slots : SendPings(s) \/ Handle(s)) \/ UNCHANGED vars
<1>1. losses \in Nat /\ losses' = 0
  BY DayFacts DEF Shape, InOrder
<1>2. day' = day
  BY Zenon DEF Next, Phone, Handle, Capture, TapLive, FlushTap, TimeOut, SendPings, PingsOpen,
               PingsWalk, AddPings, TouchLastPing, Flag, Reply, Die, vars
<1>3. track' = track /\ ~day.live
  BY <1>2 DEF track, InOrder
<1>4. DayInOrder
  BY <1>3 DEF InOrder, DayInOrder, Fixes
<1>5. ~TapLive
  BY <1>3 DEF TapLive
<1>6. ~TimeOut /\ \A s \in Slots : ~Die(s)
  <2>1. TimeOut \/ (\E s \in Slots : Die(s)) => losses' = losses + 1
    BY Zenon DEF TimeOut, Die
  <2>2. QED
    BY <1>1, <2>1
<1>7. losses = 0
  <2>1. Capture \/ FlushTap \/ (\E s \in Slots : SendPings(s) \/ Handle(s)) \/ UNCHANGED vars =>
          losses' = losses
    BY Zenon DEF Handle, Capture, FlushTap, SendPings, PingsOpen, PingsWalk, AddPings,
                 TouchLastPing, Flag, Reply, vars
  <2>2. QED
    BY <1>1, <1>5, <1>6, <2>1 DEF Next, Phone
<1>8. QED
  BY <1>3, <1>4, <1>5, <1>6, <1>7 DEF InOrder, Next, Phone

LEMMA NextOrder ==
  ASSUME Shape, InOrderInv, [Next]_vars
  PROVE  InOrderInv'
<1> SUFFICES ASSUME InOrder' PROVE Filed' /\ Earned' /\ Suspected' /\ Walked'
  BY DEF InOrderInv
<1>1. /\ InOrder
      /\ Capture \/ FlushTap \/ (\E s \in Slots : SendPings(s) \/ Handle(s)) \/ UNCHANGED vars
  BY StillInOrder
<1>2. TypeOK /\ Filed /\ Earned /\ Suspected /\ Walked
  BY <1>1 DEF InOrderInv, Shape
<1>3. CASE Capture
  <2>1. UNCHANGED <<day, shifts, pings, req>>
    BY <1>3 DEF Capture
  <2>2. QED
    BY <1>2, <1>3, <2>1, CaptureFiled, SameOrder
<1>4. CASE FlushTap
  BY <1>1, <1>2, <1>4, FlushFiled, FlushOrder
<1>5. ASSUME NEW s \in Slots, SendPings(s) PROVE Filed' /\ Earned' /\ Suspected' /\ Walked'
  BY <1>2, <1>5, SendFiled, SendOrder
<1>6. ASSUME NEW s \in Slots, PingsOpen(s) PROVE Filed' /\ Earned' /\ Suspected' /\ Walked'
  <2>1. /\ Step(s) = "open" /\ Others(s) /\ Kept(s)
        /\ \/ Step(s)' = "answer"
           \/ Step(s)' = "walk" /\ req'[s].shift \in Running
        /\ UNCHANGED <<day, captured, queue, awaiting, losses, shifts, pings>>
    BY <1>2, <1>6, OpenEffect
  <2>2. SameShifts /\ \A i \in DOMAIN shifts : shifts'[i].open = shifts[i].open
    BY <1>2, <2>1, StillShifts
  <2>3. ~Stowed(s) /\ (Filing(s)' => req'[s].shift \in Running)
    BY <2>1 DEF Stowed, Filing
  <2>4. Filed'
    BY <1>2, <2>1, <2>2, <2>3, HandlerFiled
  <2>5. QED
    BY <1>2, <1>6, <2>4, OpenOrder
<1>7. ASSUME NEW s \in Slots, PingsWalk(s) PROVE Filed' /\ Earned' /\ Suspected' /\ Walked'
  <2>1. /\ Step(s) = "walk" /\ Others(s) /\ Kept(s) /\ req'[s].shift = req[s].shift
        /\ UNCHANGED <<day, captured, queue, awaiting, losses, shifts, pings>>
    BY <1>2, <1>7, WalkEffect
  <2>2. SameShifts /\ \A i \in DOMAIN shifts : shifts'[i].open = shifts[i].open
    BY <1>2, <2>1, StillShifts
  <2>3. ~Stowed(s) /\ req'[s].shift \in Running
    BY <1>2, <2>1 DEF Stowed, Filing, Filed
  <2>4. Filed'
    BY <1>2, <2>1, <2>2, <2>3, HandlerFiled
  <2>5. QED
    BY <1>1, <1>2, <1>7, <2>4, WalkOrder
<1>8. ASSUME NEW s \in Slots, AddPings(s) PROVE Filed' /\ Earned' /\ Suspected' /\ Walked'
  BY <1>1, <1>2, <1>8, AddFiled, AddOrder
<1>9. ASSUME NEW s \in Slots, TouchLastPing(s) PROVE Filed' /\ Earned' /\ Suspected' /\ Walked'
  <2>1. /\ Step(s) = "touch" /\ Others(s) /\ Kept(s) /\ req'[s].shift = req[s].shift
        /\ Step(s)' \in {"flag", "answer"} /\ SameShifts
        /\ \A i \in DOMAIN shifts : shifts'[i].open = shifts[i].open
        /\ UNCHANGED <<day, captured, queue, awaiting, losses, pings>>
    BY <1>9, TouchEffect
  <2>2. Stowed(s)' /\ req'[s].shift \in Running
    BY <1>2, <2>1 DEF Stowed, Filing, Filed
  <2>3. Filed'
    BY <1>2, <2>1, <2>2, HandlerFiled
  <2>4. QED
    BY <1>2, <1>9, <2>3, TouchOrder
<1>10. ASSUME NEW s \in Slots, Flag(s) PROVE Filed' /\ Earned' /\ Suspected' /\ Walked'
  <2>1. /\ Step(s)' = "answer" /\ Others(s) /\ Kept(s) /\ SameShifts
        /\ \A i \in DOMAIN shifts : shifts'[i].open = shifts[i].open
        /\ UNCHANGED <<day, captured, queue, awaiting, losses, pings>>
    BY <1>2, <1>10, FlagEffect
  <2>2. Stowed(s)' /\ ~Filing(s)'
    BY <2>1 DEF Stowed, Filing
  <2>3. Filed'
    BY <1>2, <2>1, <2>2, HandlerFiled
  <2>4. QED
    BY <1>2, <1>10, <2>3, FlagOrder
<1>11. ASSUME NEW s \in Slots, Reply(s) PROVE Filed' /\ Earned' /\ Suspected' /\ Walked'
  BY <1>1, <1>2, <1>11, ReplyFiled, ReplyOrder
<1>12. CASE UNCHANGED vars
  <2>1. UNCHANGED <<day, captured, queue, awaiting, losses, shifts, pings, req>>
    BY <1>12 DEF vars
  <2>2. Filed'
    BY <1>2, <2>1 DEF Filed, FiledQueue, FiledShift, FiledPing, Belongs, Stowed, Filing, Step,
                      Running, Done, track
  <2>3. QED
    BY <1>2, <2>1, <2>2, SameOrder
<1>13. QED
  BY <1>1, <1>3, <1>4, <1>5, <1>6, <1>7, <1>8, <1>9, <1>10, <1>11, <1>12 DEF Handle

LEMMA ShapeAndOrder == Spec => [](Shape /\ InOrderInv)
<1>1. Init => Shape /\ InOrderInv
  BY InitShape, InitOrder
<1>2. Shape /\ InOrderInv /\ [Next]_vars => (Shape /\ InOrderInv)'
  BY NextShape, NextOrder
<1>3. QED
  BY <1>1, <1>2, PTL DEF Spec

\* A day in order flags a shift only for a jump of its own (handler.go Pings,
\* speedAnomaly).
THEOREM FlagsAreEarned == Spec => []FlagIsEarnedInOrder
<1>1. InOrderInv => FlagIsEarnedInOrder
  BY Zenon DEF InOrderInv, Earned, OwnJump, FlagIsEarnedInOrder, FlagIsEarned
<1>2. QED
  BY <1>1, ShapeAndOrder, PTL

\* A day in order flags every jump on a shift's track, also the one between what
\* was stored and a later batch (handler.go speedAnomaly).
THEOREM JumpsAreSeen == Spec => []JumpsAreFlagged
<1>1. InOrderInv => JumpsAreFlagged
  <2> SUFFICES ASSUME InOrderInv, InOrder, Delivered, NEW i \in DOMAIN shifts,
                      Jumps(Points(i)) # {}
               PROVE  shifts[i].speed
    BY Zenon DEF JumpsAreFlagged, Points
  <2>1. \A s \in Slots : Step(s) = "idle"
    BY DEF Delivered, Quiet, Step, Idle
  <2>2. Suspect(i)
    BY DEF InOrderInv, Suspected
  <2>3. QED
    BY <2>1, <2>2 DEF Suspect
<1>2. QED
  BY <1>1, ShapeAndOrder, PTL
=============================================================================
