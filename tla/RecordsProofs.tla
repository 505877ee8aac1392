--------------------------- MODULE RecordsProofs ---------------------------
(***************************************************************************)
(* Theorems about Records for every set of employers, every bound on the   *)
(* shifts and every set of conditions.                                     *)
(***************************************************************************)
EXTENDS Records, TLAPS

Opened == [shift: {0} \cup Shifts, known: BOOLEAN]

\* The types the arguments below rest on.
Shape ==
  /\ given.last \in 0 .. MaxShifts
  /\ begun \in 0 .. MaxShifts /\ server \in Window
  /\ tap # Idle => tap.item \in Item /\ tap.revert \in Opened
  /\ queue \in Seq(Item)
  /\ openEntry \in Opened
  /\ entries \in {NotLoaded} \cup Window
  /\ id \in {0} \cup Shifts /\ entry \in {Absent} \cup Shift
  /\ assigning \subseteq Request
  /\ loads \in [Screens -> SUBSET Load]

\* What the clock store shows as running has been begun, and what it knows an id
\* of is on record.
Genuine(e) ==
  /\ e # NoEntry => e.shift \in 1 .. begun
  /\ e.known => e.shift \in Shifts /\ server[e.shift] # Absent

\* A clock-in is sent once: until it is recorded the server has nothing of its
\* shift, and nothing else that is under way would begin it.
TapsOnce ==
  /\ \A s \in Shifts : s > begun => server[s] = Absent
  /\ Genuine(openEntry)
  /\ tap # Idle => tap.item.shift <= begun /\ Genuine(tap.revert)
  /\ tap # Idle /\ tap.item.kind = "in" =>
       server[tap.item.shift] = Absent /\ \A k \in DOMAIN queue : queue[k] # tap.item
  /\ \A k \in DOMAIN queue :
       /\ queue[k].shift <= begun
       /\ queue[k].kind = "in" => /\ server[queue[k].shift] = Absent
                                  /\ \A j \in DOMAIN queue : queue[j] = queue[k] => j = k

\* No shift is further in w than in v.
NoFurther(w, v) == \A s \in Shifts : Stage(w[s]) <= Stage(v[s])

\* The answer that will be shown, if it has come.
Due(s) == {l \in loads[s] : l.current /\ l.answer # NotLoaded}

\* At most one answer will be shown, and none is ahead of the server.
Honest ==
  \A s \in Screens :
    /\ \A l, m \in loads[s] : l.current /\ m.current => l = m
    /\ \A l \in loads[s] : l.answer # NotLoaded => NoFurther(l.answer, server)

\* What is shown is not ahead of the server, nor of an answer that will replace it.
ListBehind ==
  entries # NotLoaded =>
    NoFurther(entries, server) /\ \A l \in Due("history") : NoFurther(entries, l.answer)
DetailBehind ==
  /\ id = 0 => entry = Absent
  /\ id # 0 => /\ Stage(entry) <= Stage(server[id])
               /\ \A l \in Due("detail") : Stage(entry) <= Stage(l.answer[id])

Behind == Honest /\ ListBehind /\ DetailBehind

\* History is not on screen under the detail screen, which has its own requests.
OneScreen == (focused => id = 0) /\ (id = 0 => loads["detail"] = {} /\ assigning = {})

IndInv == Shape /\ TapsOnce /\ Behind /\ OneScreen

\* What a step does not take back.
Forward ==
  /\ entries # NotLoaded => NoFurther(entries, entries')
  /\ id # 0 /\ id' = id => Stage(entry) <= Stage(entry')
-----------------------------------------------------------------------------
(* Stages *)

LEMMA AbsentIsNoShift == Absent \notin Shift
BY DEF Absent, Shift

LEMMA StageIs ==
  ASSUME NEW e \in {Absent} \cup Shift
  PROVE  /\ Stage(e) \in 0 .. 4
         /\ Stage(e) = 0 <=> e = Absent
<1>1. CASE e = Absent
  BY <1>1 DEF Stage
<1>2. CASE e # Absent
  <2>1. \E n \in {1, 2}, k \in {0, 2} : Stage(e) = n + k
    BY <1>2 DEF Stage
  <2>2. QED
    BY <1>2, <2>1
<1>3. QED
  BY <1>1, <1>2

LEMMA Sooner ==
  ASSUME NEW u \in Window, NEW v \in Window, NEW w \in Window
  PROVE  /\ NoFurther(u, u)
         /\ NoFurther(u, v) /\ NoFurther(v, w) => NoFurther(u, w)
         /\ NoFurther(u, v) => \A s \in Shifts : u[s] # Absent => v[s] # Absent
<1>1. \A s \in Shifts : /\ Stage(u[s]) \in 0 .. 4 /\ Stage(v[s]) \in 0 .. 4
                        /\ Stage(w[s]) \in 0 .. 4
                        /\ (Stage(u[s]) = 0 <=> u[s] = Absent)
                        /\ (Stage(v[s]) = 0 <=> v[s] = Absent)
  BY StageIs DEF Window
<1>2. QED
  BY <1>1 DEF NoFurther

\* The server only takes a shift further.
Advances == server' \in Window /\ NoFurther(server, server')

LEMMA OneAdvances ==
  ASSUME Shape, NEW n \in Shifts, NEW e \in Shift, Stage(server[n]) <= Stage(e),
         server' = [server EXCEPT ![n] = e]
  PROVE  Advances /\ server'[n] = e /\ \A s \in Shifts \ {n} : server'[s] = server[s]
<1>1. /\ server' \in Window /\ server'[n] = e
      /\ \A s \in Shifts \ {n} : server'[s] = server[s]
  BY DEF Shape, Window
<1>2. NoFurther(server, server)
  BY Sooner DEF Shape
<1>3. QED
  BY <1>1, <1>2 DEF Advances, NoFurther

\* A tap is recorded: of its shift, which the clock-in begins and nothing ends but
\* its clock-out.
LEMMA RecordedAdvances ==
  ASSUME Shape, RecordsAssumption, NEW i \in Item, Accepts(i), server' = Recorded(i),
         i.kind = "in" => server[i.shift] = Absent
  PROVE  /\ Advances /\ server'[i.shift] # Absent
         /\ \A s \in Shifts \ {i.shift} : server'[s] = server[s]
<1>1. i.shift \in Shifts /\ i.kind \in {"in", "out"}
  BY DEF Item
<1>2. CASE i.kind = "in"
  <2> DEFINE e == [status |-> "open", employer |-> Personal, verified |-> TRUE]
  <2>1. e \in Shift
    BY DEF Shift
  <2>2. Stage(server[i.shift]) = 0 /\ Stage(e) \in 0 .. 4
    BY <1>2, <2>1, StageIs
  <2>3. server' = [server EXCEPT ![i.shift] = e]
    BY <1>2 DEF Recorded
  <2> HIDE DEF e
  <2>4. Stage(server[i.shift]) <= Stage(e)
    BY <2>2
  <2>5. QED
    BY <1>1, <2>1, <2>3, <2>4, OneAdvances, AbsentIsNoShift
<1>3. CASE i.kind = "out"
  <2> DEFINE e == [server[i.shift] EXCEPT !.status = "closed"]
  <2>1. server[i.shift] \in Shift /\ server[i.shift].status = "open"
    BY <1>1, <1>3 DEF Accepts, Shape, Window
  <2>2. e \in Shift /\ e.status = "closed" /\ e.employer = server[i.shift].employer
    BY <2>1 DEF Shift
  <2>3. server' = [server EXCEPT ![i.shift] = e]
    BY <1>3 DEF Recorded
  <2> HIDE DEF e
  <2>4. Stage(server[i.shift]) <= Stage(e)
    BY <2>1, <2>2, AbsentIsNoShift DEF Stage
  <2>5. QED
    BY <1>1, <2>2, <2>3, <2>4, OneAdvances, AbsentIsNoShift
<1>4. QED
  BY <1>1, <1>2, <1>3

LEMMA AssignedAdvances ==
  ASSUME Shape, id # 0, Assignable(id), NEW m \in Employers, NEW v \in BOOLEAN,
         server' = [server EXCEPT ![id].employer = m, ![id].verified = v]
  PROVE  Advances
<1>1. id \in Shifts /\ server[id] \in Shift /\ server[id].status = "closed"
      /\ server[id].employer = Personal
  BY DEF Shape, Window, Assignable
<1> DEFINE e == [server[id] EXCEPT !.employer = m, !.verified = v]
<1>2. e \in Shift /\ e.status = "closed" /\ e.employer = m
  BY <1>1 DEF Shift
<1>3. server' = [server EXCEPT ![id] = e]
  BY <1>1 DEF Shape, Window
<1> HIDE DEF e
<1>4. m # Personal
  BY RecordsAssumption
<1>5. Stage(server[id]) <= Stage(e)
  BY <1>1, <1>2, <1>4, AbsentIsNoShift DEF Stage
<1>6. QED
  BY <1>1, <1>2, <1>3, <1>5, OneAdvances
-----------------------------------------------------------------------------
(* Taps and the queue *)

\* Nothing else that is under way begins the shift that is recorded.
LEMMA RecordedOnce ==
  ASSUME Shape, NEW i \in Item, Accepts(i), server' = Recorded(i),
         i.kind = "in" => server[i.shift] = Absent,
         NEW q \in Item, q.kind = "in", q # i, server[q.shift] = Absent
  PROVE  server'[q.shift] = Absent
<1>1. q.shift \in Shifts /\ (q.shift = i.shift => i.kind # "in")
  BY DEF Item
<1>2. q.shift = i.shift => i.kind = "out"
  BY <1>1 DEF Item
<1>3. q.shift # i.shift
  BY <1>2 DEF Accepts
<1>4. QED
  BY <1>1, <1>3, RecordsAssumption, RecordedAdvances

\* The screens see a server that has gone on.
LEMMA SameScreens ==
  ASSUME IndInv, Advances, UNCHANGED <<entries, id, entry, loads>>, focused' => id = 0,
         id = 0 => assigning' = {}
  PROVE  Behind' /\ OneScreen' /\ Forward
<1>1. /\ server \in Window /\ server' \in Window /\ NoFurther(server, server')
      /\ entries \in {NotLoaded} \cup Window /\ loads \in [Screens -> SUBSET Load]
      /\ id \in {0} \cup Shifts /\ entry \in {Absent} \cup Shift
  BY DEF IndInv, Shape, Advances
<1>2. \A v \in Window : NoFurther(v, server) => NoFurther(v, server')
  BY <1>1, Sooner
<1>3. \A s \in Screens : \A l \in loads[s] : l.answer = NotLoaded \/ l.answer \in Window
  BY <1>1 DEF Load
<1>4. Honest'
  BY <1>2, <1>3 DEF IndInv, Behind, Honest
<1>5. \A s : Due(s)' = Due(s)
  BY DEF Due
<1>6. ListBehind'
  BY <1>1, <1>2, <1>5 DEF IndInv, Behind, ListBehind
<1>7. id # 0 => Stage(server[id]) <= Stage(server'[id]) /\ Stage(server[id]) \in 0 .. 4
                /\ Stage(server'[id]) \in 0 .. 4 /\ Stage(entry) \in 0 .. 4
  BY <1>1, StageIs DEF NoFurther, Window
<1>8. DetailBehind'
  BY <1>1, <1>5, <1>7 DEF IndInv, Behind, DetailBehind
<1>9. Forward
  BY <1>1, <1>7, Sooner DEF Forward
<1>10. QED
  BY <1>4, <1>6, <1>8, <1>9 DEF IndInv, Behind, OneScreen

LEMMA StandsStill == ASSUME Shape, server' = server PROVE Advances
BY Sooner DEF Shape, Advances

\* Steps of the screens alone.
LEMMA SameTaps ==
  ASSUME IndInv, UNCHANGED <<given, begun, server, tap, queue, openEntry>>,
         entries' \in {NotLoaded} \cup Window, id' \in {0} \cup Shifts,
         entry' \in {Absent} \cup Shift, assigning' \subseteq Request,
         loads' \in [Screens -> SUBSET Load]
  PROVE  Shape' /\ TapsOnce'
BY DEF IndInv, Shape, TapsOnce, Genuine

\* What is known stays known as the server goes on.
LEMMA StaysGenuine ==
  ASSUME Shape, Advances, begun' \in Nat, begun <= begun', NEW e, Genuine(e)
  PROVE  Genuine(e)'
<1>1. \A s \in Shifts : server[s] # Absent => server'[s] # Absent
  BY Sooner DEF Shape, Advances
<1>2. begun \in Nat
  BY RecordsAssumption DEF Shape
<1>3. QED
  BY <1>1, <1>2 DEF Genuine

LEMMA TapInv == ASSUME IndInv, Tap PROVE IndInv' /\ Forward
<1>1. /\ tap = Idle /\ ~focused /\ id = 0
      /\ UNCHANGED <<given, server, queue, entries, focused, id, entry, assigning, loads>>
  BY DEF Tap, outbox, list, detail
<1>2. /\ begun \in Nat /\ MaxShifts \in Nat /\ given.last \in Nat /\ given.last <= MaxShifts
      /\ begun <= MaxShifts /\ openEntry \in Opened /\ queue \in Seq(Item)
  BY RecordsAssumption DEF IndInv, Shape
<1>3. \A k \in DOMAIN queue : queue[k] \in Item /\ queue[k].shift <= begun
  BY <1>2 DEF IndInv, TapsOnce
<1>4. Genuine(NoEntry) /\ Genuine(openEntry)
  BY DEF IndInv, TapsOnce, Genuine, NoEntry
<1>5. Behind' /\ OneScreen' /\ Forward
  BY <1>1, StandsStill, SameScreens DEF IndInv, OneScreen
<1>6. CASE /\ openEntry = NoEntry /\ begun < given.last /\ begun' = begun + 1
           /\ tap' = [item |-> [shift |-> begun', kind |-> "in"], revert |-> NoEntry]
           /\ openEntry' = [shift |-> begun', known |-> FALSE]
  <2>1. /\ begun' \in Shifts /\ begun' \in 0 .. MaxShifts /\ begun' > begun
        /\ tap'.item = [shift |-> begun', kind |-> "in"] /\ tap'.revert = NoEntry
        /\ tap'.item.shift = begun' /\ tap'.item.kind = "in"
    BY <1>2, <1>6 DEF Shifts
  <2>2. tap'.item \in Item /\ tap'.revert \in Opened /\ openEntry' \in Opened
    BY <1>6, <2>1 DEF Item, Opened, NoEntry
  <2>3. Shape'
    BY <1>1, <2>1, <2>2 DEF IndInv, Shape
  <2>4. server[begun'] = Absent /\ \A k \in DOMAIN queue : queue[k] # tap'.item
    BY <1>2, <1>3, <2>1 DEF IndInv, TapsOnce, Item
  <2>5. Genuine(NoEntry)' /\ Genuine(openEntry)'
    BY <1>2, <1>6, <2>1 DEF Genuine, NoEntry
  <2>6. TapsOnce'
    <3>1. \A s \in Shifts : s > begun' => server'[s] = Absent
      BY <1>1, <1>2, <2>1 DEF IndInv, TapsOnce, Shifts
    <3>2. tap'.item.shift <= begun' /\ Genuine(tap.revert)'
      BY <1>2, <2>1, <2>5 DEF Genuine
    <3>3. server'[tap'.item.shift] = Absent /\ \A k \in DOMAIN queue' : queue'[k] # tap'.item
      BY <1>1, <2>1, <2>4
    <3>4. \A k \in DOMAIN queue' :
            /\ queue'[k].shift <= begun'
            /\ queue'[k].kind = "in" => /\ server'[queue'[k].shift] = Absent
                                        /\ \A j \in DOMAIN queue' : queue'[j] = queue'[k] => j = k
      BY <1>1, <1>2, <1>3, <2>1 DEF IndInv, TapsOnce, Item, Shifts
    <3>5. QED
      BY <2>5, <3>1, <3>2, <3>3, <3>4 DEF TapsOnce
  <2>7. QED
    BY <1>5, <2>3, <2>6 DEF IndInv
<1>7. CASE /\ openEntry # NoEntry /\ openEntry' = NoEntry /\ begun' = begun
           /\ tap' = [item |-> [shift |-> openEntry.shift, kind |-> "out"], revert |-> openEntry]
  <2>1. openEntry.shift \in 1 .. begun /\ openEntry.shift \in Shifts
    BY <1>2, <1>4, <1>7 DEF Genuine, Shifts
  <2>2. /\ tap'.item = [shift |-> openEntry.shift, kind |-> "out"] /\ tap'.revert = openEntry
        /\ tap'.item \in Item /\ tap'.revert \in Opened /\ openEntry' \in Opened
        /\ tap'.item.shift = openEntry.shift /\ tap'.item.kind = "out"
    BY <1>2, <1>7, <2>1 DEF Item, Opened, NoEntry
  <2>3. Shape'
    BY <1>1, <1>7, <2>2 DEF IndInv, Shape
  <2>4. Genuine(openEntry)' /\ Genuine(tap.revert)'
    BY <1>1, <1>4, <1>7, <2>2 DEF Genuine
  <2>5. tap'.item.shift <= begun'
    BY <1>2, <1>7, <2>1, <2>2
  <2>6. TapsOnce'
    BY <1>1, <1>7, <2>2, <2>4, <2>5 DEF IndInv, TapsOnce
  <2>7. QED
    BY <1>5, <2>3, <2>6 DEF IndInv
<1>8. QED
  BY <1>6, <1>7 DEF Tap

\* A clock-in or clock-out is recorded; what else is under way is still to come.
LEMMA RecordedTaps ==
  ASSUME IndInv, NEW i \in Item, i.shift <= begun, Accepts(i), server' = Recorded(i),
         i.kind = "in" => server[i.shift] = Absent, UNCHANGED begun
  PROVE  /\ Advances /\ server'[i.shift] # Absent
         /\ \A s \in Shifts : s > begun => server'[s] = Absent
         /\ \A q \in Item : q.kind = "in" /\ q # i /\ server[q.shift] = Absent =>
              server'[q.shift] = Absent
<1>1. /\ Advances /\ server'[i.shift] # Absent
      /\ \A s \in Shifts \ {i.shift} : server'[s] = server[s]
  BY RecordedAdvances, RecordsAssumption DEF IndInv
<1>2. ASSUME NEW s \in Shifts, s > begun PROVE server'[s] = Absent
  <2>1. s # i.shift /\ server[s] = Absent
    BY <1>2, RecordsAssumption DEF IndInv, Shape, TapsOnce, Item, Shifts
  <2>2. QED
    BY <1>1, <2>1
<1>3. QED
  BY <1>1, <1>2, RecordedOnce DEF IndInv

LEMMA TapAnsweredInv == ASSUME IndInv, TapAnswered PROVE IndInv' /\ Forward
<1>1. /\ tap # Idle /\ tap' = Idle
      /\ UNCHANGED <<given, begun, queue, entries, focused, id, entry, assigning, loads>>
  BY DEF TapAnswered, outbox, list, detail
<1>2. /\ begun \in Nat /\ tap.item \in Item /\ tap.revert \in Opened /\ Genuine(tap.revert)
      /\ tap.item.shift <= begun /\ tap.item.shift \in 1 .. begun /\ tap.item.shift \in Shifts
      /\ queue \in Seq(Item) /\ begun' \in Nat /\ begun <= begun'
  BY <1>1, RecordsAssumption DEF IndInv, Shape, TapsOnce, Item, Shifts
<1>3. \A k \in DOMAIN queue : queue[k] \in Item
  BY <1>2
<1>4. CASE ~Accepts(tap.item)
  <2>1. openEntry' = tap.revert /\ UNCHANGED server
    BY <1>4 DEF TapAnswered
  <2>2. Advances
    BY <2>1, StandsStill DEF IndInv
  <2>3. Shape'
    BY <1>1, <1>2, <2>1 DEF IndInv, Shape
  <2>4. Genuine(openEntry)'
    BY <1>1, <1>2, <2>1 DEF Genuine
  <2>5. TapsOnce'
    BY <1>1, <2>1, <2>4 DEF IndInv, TapsOnce
  <2>6. QED
    BY <1>1, <2>2, <2>3, <2>5, SameScreens DEF IndInv, OneScreen
<1>5. CASE Accepts(tap.item)
  <2>1. /\ server' = Recorded(tap.item)
        /\ openEntry' = IF tap.item.kind = "out" THEN NoEntry
                        ELSE [shift |-> tap.item.shift, known |-> TRUE]
    BY <1>5 DEF TapAnswered
  <2>2. tap.item.kind = "in" =>
          server[tap.item.shift] = Absent /\ \A k \in DOMAIN queue : queue[k] # tap.item
    BY <1>1 DEF IndInv, TapsOnce
  <2>3. /\ Advances /\ server'[tap.item.shift] # Absent
        /\ \A s \in Shifts : s > begun => server'[s] = Absent
        /\ \A q \in Item : q.kind = "in" /\ q # tap.item /\ server[q.shift] = Absent =>
             server'[q.shift] = Absent
    BY <1>1, <1>2, <1>5, <2>1, <2>2, RecordedTaps
  <2>4. openEntry' \in Opened /\ Genuine(openEntry)'
    BY <1>1, <1>2, <2>1, <2>3 DEF Opened, Genuine, NoEntry
  <2>5. Shape'
    BY <1>1, <2>3, <2>4 DEF IndInv, Shape, Advances
  <2>6. \A k \in DOMAIN queue : queue[k].kind = "in" => server'[queue[k].shift] = Absent
    <3>1. \A k \in DOMAIN queue : queue[k].kind = "in" => queue[k] # tap.item
      BY <2>2
    <3>2. QED
      BY <1>3, <2>3, <3>1 DEF IndInv, TapsOnce
  <2>7. TapsOnce'
    BY <1>1, <2>3, <2>4, <2>6 DEF IndInv, TapsOnce
  <2>8. QED
    BY <1>1, <2>3, <2>5, <2>7, SameScreens DEF IndInv, OneScreen
<1>6. QED
  BY <1>4, <1>5

LEMMA TapLostInv == ASSUME IndInv, TapLost PROVE IndInv' /\ Forward
<1>1. /\ tap # Idle /\ tap' = Idle /\ queue' = Append(queue, tap.item)
      /\ UNCHANGED <<given, begun, openEntry, server, entries, focused, id, entry, assigning,
                     loads>>
  BY DEF TapLost, detail
<1>2. /\ tap.item \in Item /\ tap.item.shift <= begun /\ queue \in Seq(Item)
      /\ tap.item.kind = "in" =>
           server[tap.item.shift] = Absent /\ \A k \in DOMAIN queue : queue[k] # tap.item
  BY <1>1 DEF IndInv, Shape, TapsOnce
<1>3. /\ queue' \in Seq(Item) /\ DOMAIN queue' = 1 .. Len(queue) + 1
      /\ DOMAIN queue = 1 .. Len(queue) /\ Len(queue) \in Nat
      /\ queue'[Len(queue) + 1] = tap.item /\ \A k \in DOMAIN queue : queue'[k] = queue[k]
  BY <1>1, <1>2
<1>4. Shape'
  BY <1>1, <1>3 DEF IndInv, Shape
<1>5. \A k \in DOMAIN queue' : k \in DOMAIN queue \/ k = Len(queue) + 1
  BY <1>3
<1>6. \A k \in DOMAIN queue' :
        /\ queue'[k].shift <= begun'
        /\ queue'[k].kind = "in" => server'[queue'[k].shift] = Absent
  BY <1>1, <1>2, <1>3, <1>5 DEF IndInv, TapsOnce
<1>7. ASSUME NEW k \in DOMAIN queue', queue'[k].kind = "in",
             NEW j \in DOMAIN queue', queue'[j] = queue'[k]
      PROVE  j = k
  BY <1>2, <1>3, <1>5, <1>7 DEF IndInv, TapsOnce
<1>8. Genuine(openEntry)'
  BY <1>1 DEF IndInv, TapsOnce, Genuine
<1>9. TapsOnce'
  BY <1>1, <1>6, <1>7, <1>8 DEF IndInv, TapsOnce
<1>10. QED
  BY <1>1, <1>4, <1>9, StandsStill, SameScreens DEF IndInv, OneScreen

\* The head leaves the queue, recorded or not.
LEMMA DrainedInv ==
  ASSUME IndInv, NEW accepted \in BOOLEAN, accepted => Accepts(Head(queue)), Drained(accepted)
  PROVE  IndInv' /\ Forward
<1>1. /\ queue # << >> /\ queue' = Tail(queue)
      /\ server' = IF accepted THEN Recorded(Head(queue)) ELSE server
      /\ UNCHANGED <<given, begun, tap, entries, focused, id, entry, assigning, loads>>
  BY DEF Drained, detail
<1> DEFINE h == Head(queue)
<1>2. /\ queue \in Seq(Item) /\ begun \in Nat /\ begun' \in Nat /\ begun <= begun'
      /\ tap # Idle => tap.item \in Item
  BY <1>1, RecordsAssumption DEF IndInv, Shape
<1>3. /\ 1 \in DOMAIN queue /\ h = queue[1] /\ h \in Item /\ queue' \in Seq(Item)
      /\ \A k \in DOMAIN queue' : k + 1 \in DOMAIN queue /\ k \in Nat /\ k > 0
                                  /\ queue'[k] = queue[k + 1] /\ queue'[k] \in Item
  BY <1>1, <1>2
<1>4. h.shift <= begun /\ (h.kind = "in" => server[h.shift] = Absent)
  BY <1>3 DEF IndInv, TapsOnce
<1>5. /\ Advances /\ \A s \in Shifts : s > begun => server'[s] = Absent
      /\ \A q \in Item : q.kind = "in" /\ q # h /\ server[q.shift] = Absent =>
           server'[q.shift] = Absent
  <2>1. CASE accepted
    <3>1. Accepts(h) /\ server' = Recorded(h)
      BY <1>1, <2>1
    <3> HIDE DEF h
    <3>2. QED
      BY <1>1, <1>3, <1>4, <3>1, RecordedTaps
  <2>2. CASE ~accepted
    BY <1>1, <2>2, StandsStill DEF IndInv, TapsOnce
  <2>3. QED
    BY <2>1, <2>2
<1> HIDE DEF h
<1>6. \A k \in DOMAIN queue' : queue'[k].kind = "in" => queue'[k] # h
  BY <1>3 DEF IndInv, TapsOnce
<1>7. \A k \in DOMAIN queue' :
        /\ queue'[k].shift <= begun'
        /\ queue'[k].kind = "in" => server'[queue'[k].shift] = Absent
  BY <1>1, <1>3, <1>5, <1>6 DEF IndInv, TapsOnce
<1>8. ASSUME NEW k \in DOMAIN queue', queue'[k].kind = "in",
             NEW j \in DOMAIN queue', queue'[j] = queue'[k]
      PROVE  j = k
  <2>1. j + 1 = k + 1
    BY <1>3, <1>8 DEF IndInv, TapsOnce
  <2>2. QED
    BY <1>3, <2>1
<1>9. tap # Idle /\ tap.item.kind = "in" => tap.item # h /\ server'[tap.item.shift] = Absent
  BY <1>2, <1>3, <1>5 DEF IndInv, TapsOnce
<1>10. \A k \in DOMAIN queue' : tap # Idle /\ tap.item.kind = "in" => queue'[k] # tap.item
  BY <1>3 DEF IndInv, TapsOnce
<1>11. openEntry' \in Opened /\ Genuine(openEntry)'
  <2> DEFINE open == {s \in Shifts : server'[s] # Absent /\ server'[s].status = "open"}
  <2>1. \/ openEntry' = openEntry \/ openEntry' = NoEntry
        \/ open # {} /\ openEntry' = [shift |-> CHOOSE s \in open : TRUE, known |-> TRUE]
    BY DEF Drained
  <2>2. CASE openEntry' = openEntry
    <3>1. Genuine(openEntry)
      BY DEF IndInv, TapsOnce
    <3>2. \A e : Genuine(e) => Genuine(e)'
      BY <1>2, <1>5, StaysGenuine DEF IndInv
    <3>3. QED
      BY <2>2, <3>1, <3>2 DEF IndInv, Shape, Genuine
  <2>3. CASE openEntry' = NoEntry
    BY <2>3 DEF Opened, Genuine, NoEntry
  <2>4. CASE open # {} /\ openEntry' = [shift |-> CHOOSE s \in open : TRUE, known |-> TRUE]
    <3>1. PICK n \in open : openEntry' = [shift |-> n, known |-> TRUE]
      BY <2>4
    <3>2. n \in Shifts /\ server'[n] # Absent
      OBVIOUS
    <3>3. n \in 1 .. begun
      BY <1>2, <1>5, <3>2, RecordsAssumption DEF Shifts
    <3>4. QED
      BY <1>1, <3>1, <3>2, <3>3 DEF Opened, Genuine
  <2>5. QED
    BY <2>1, <2>2, <2>3, <2>4
<1>12. tap # Idle => Genuine(tap.revert)'
  <2>1. tap # Idle => Genuine(tap.revert)
    BY DEF IndInv, TapsOnce
  <2>2. \A e : Genuine(e) => Genuine(e)'
    BY <1>2, <1>5, StaysGenuine DEF IndInv
  <2>3. QED
    BY <1>1, <2>1, <2>2 DEF Genuine
<1>13. Shape'
  BY <1>1, <1>3, <1>5, <1>11 DEF IndInv, Shape, Advances
<1>14. TapsOnce'
  BY <1>1, <1>5, <1>7, <1>8, <1>9, <1>10, <1>11, <1>12 DEF IndInv, TapsOnce
<1>15. QED
  BY <1>1, <1>5, <1>13, <1>14, SameScreens DEF IndInv, OneScreen
-----------------------------------------------------------------------------
(* The screens' GETs *)

\* A screen's GETs afterwards: no answer is new, and none is to be shown that was not
\* to be shown before.
Fewer(s) ==
  /\ \A l, m \in loads'[s] : l.current /\ m.current => l = m
  /\ \A l \in loads'[s] : l.answer # NotLoaded =>
       \E o \in loads[s] : o.answer = l.answer /\ (l.current => o.current)

LEMMA FewerAnswers ==
  ASSUME Behind, server' = server, \A s \in Screens : Fewer(s)
  PROVE  /\ Honest'
         /\ entries' = entries => ListBehind'
         /\ UNCHANGED <<id, entry>> => DetailBehind'
<1>1. \A s \in Screens : \A l \in loads'[s] : l.answer # NotLoaded =>
        NoFurther(l.answer, server) /\ (l.current => \E o \in Due(s) : o.answer = l.answer)
  BY DEF Behind, Honest, Fewer, Due
<1>2. Honest'
  BY <1>1 DEF Fewer, Honest
<1>3. \A s \in Screens : \A l \in Due(s)' : \E o \in Due(s) : o.answer = l.answer
  BY <1>1 DEF Due
<1>4. ASSUME entries' = entries PROVE ListBehind'
  BY <1>3, <1>4 DEF Behind, ListBehind, Screens
<1>5. ASSUME UNCHANGED <<id, entry>> PROVE DetailBehind'
  BY <1>3, <1>5 DEF Behind, DetailBehind, Screens
<1>6. QED
  BY <1>2, <1>4, <1>5

LEMMA OutdatedIs ==
  ASSUME NEW l \in Load
  PROVE  /\ [l EXCEPT !.current = FALSE] \in Load
         /\ [l EXCEPT !.current = FALSE].current = FALSE
         /\ [l EXCEPT !.current = FALSE].answer = l.answer
BY DEF Load

\* ++loadGen: no answer under way is to be shown any more.
LEMMA AllOutdated ==
  ASSUME NEW ls \in SUBSET Load
  PROVE  \A m \in Outdated(ls) : m \in Load /\ ~m.current /\ \E o \in ls : o.answer = m.answer
BY OutdatedIs DEF Outdated

LEMMA IssuedIs ==
  ASSUME Shape, NEW s \in Screens, NEW pull \in BOOLEAN, loads' = Issued(s, pull)
  PROVE  /\ loads' \in [Screens -> SUBSET Load]
         /\ \A t \in Screens \ {s} : loads'[t] = loads[t]
         /\ \A l \in loads'[s] : \/ ~l.current /\ \E o \in loads[s] : o.answer = l.answer
                                 \/ l = [pull |-> pull, current |-> TRUE, answer |-> NotLoaded]
<1> DEFINE new == [pull |-> pull, current |-> TRUE, answer |-> NotLoaded]
           kept == {l \in Outdated(loads[s]) : pull \/ l.pull}
<1>1. new \in Load /\ loads[s] \in SUBSET Load
  BY DEF Load, Shape
<1>2. \A l \in kept : l \in Load /\ ~l.current /\ \E o \in loads[s] : o.answer = l.answer
  BY <1>1, AllOutdated
<1>3. loads' = [loads EXCEPT ![s] = kept \cup {new}]
  BY DEF Issued
<1> HIDE DEF kept
<1>4. loads'[s] = kept \cup {new} /\ loads' \in [Screens -> SUBSET Load]
  BY <1>1, <1>2, <1>3 DEF Shape
<1>5. QED
  BY <1>2, <1>3, <1>4 DEF Shape

LEMMA SameLoadsFewer ==
  ASSUME Behind, NEW s \in Screens, loads'[s] \subseteq loads[s]
  PROVE  Fewer(s)
BY DEF Behind, Honest, Fewer

LEMMA IssuedFewer ==
  ASSUME IndInv, NEW s \in Screens, NEW pull \in BOOLEAN, loads' = Issued(s, pull)
  PROVE  /\ loads' \in [Screens -> SUBSET Load] /\ \A t \in Screens : Fewer(t)
         /\ \A t \in Screens \ {s} : loads'[t] = loads[t]
         /\ \A l \in loads'[s] : l.current => l.answer = NotLoaded
<1> DEFINE new == [pull |-> pull, current |-> TRUE, answer |-> NotLoaded]
<1>1. /\ loads' \in [Screens -> SUBSET Load]
      /\ \A t \in Screens \ {s} : loads'[t] = loads[t]
      /\ \A l \in loads'[s] : \/ ~l.current /\ \E o \in loads[s] : o.answer = l.answer
                              \/ l = new
  BY IssuedIs DEF IndInv
<1>2. new.answer = NotLoaded
  OBVIOUS
<1> HIDE DEF new
<1>3. Fewer(s)
  BY <1>1, <1>2 DEF Fewer
<1>4. \A t \in Screens \ {s} : Fewer(t)
  BY <1>1, SameLoadsFewer DEF IndInv
<1>5. QED
  BY <1>1, <1>2, <1>3, <1>4

\* Nothing that is shown has changed.
LEMMA ShowsTheSame ==
  ASSUME Shape, UNCHANGED <<entries, entry>>
  PROVE  Forward
<1>1. entries # NotLoaded => NoFurther(entries, entries)
  BY Sooner DEF Shape
<1>2. Stage(entry) <= Stage(entry)
  BY StageIs DEF Shape
<1>3. QED
  BY <1>1, <1>2 DEF Forward

LEMMA LoadServedInv ==
  ASSUME IndInv, NEW s \in Screens, LoadServed(s)
  PROVE  IndInv' /\ Forward
<1>1. PICK l \in loads[s] :
        /\ l.answer = NotLoaded
        /\ loads' = [loads EXCEPT ![s] = (@ \ {l}) \cup {[l EXCEPT !.answer = server]}]
  BY DEF LoadServed
<1>2. /\ UNCHANGED <<given, begun, server, tap, queue, openEntry>>
      /\ UNCHANGED <<entries, focused, id, entry, assigning>>
  BY DEF LoadServed, clock, outbox, list, detail
<1> DEFINE m == [l EXCEPT !.answer = server]
<1>3. l \in Load /\ server \in Window /\ loads \in [Screens -> SUBSET Load]
  BY DEF IndInv, Shape
<1>4. m \in Load /\ m.answer = server /\ m.current = l.current
  BY <1>3 DEF Load
<1>5. loads' = [loads EXCEPT ![s] = (@ \ {l}) \cup {m}]
  BY <1>1
<1> HIDE DEF m
<1>6. /\ loads' \in [Screens -> SUBSET Load]
      /\ loads'[s] = (loads[s] \ {l}) \cup {m}
      /\ \A t \in Screens \ {s} : loads'[t] = loads[t]
  BY <1>3, <1>4, <1>5
<1>7. Shape' /\ TapsOnce'
  BY <1>2, <1>6, SameTaps DEF IndInv, Shape
<1>8. NoFurther(server, server)
  BY <1>3, Sooner
<1>9. Honest'
  <2>1. ASSUME NEW x \in loads'[s], NEW y \in loads'[s], x.current, y.current PROVE x = y
    <3>1. x \in loads[s] \ {l} \/ x = m
      BY <1>6
    <3>2. y \in loads[s] \ {l} \/ y = m
      BY <1>6
    <3>3. \A z \in loads[s] \ {l} : z.current => ~l.current
      BY DEF IndInv, Behind, Honest
    <3>4. \A z \in loads[s] \ {l} : z.current => ~m.current
      BY <1>4, <3>3, Zenon
    <3>5. \A z, u \in loads[s] : z.current /\ u.current => z = u
      BY DEF IndInv, Behind, Honest
    <3>6. QED
      BY <2>1, <3>1, <3>2, <3>4, <3>5, Zenon
  <2>2. \A x \in loads'[s] : x.answer # NotLoaded => NoFurther(x.answer, server)
    BY <1>4, <1>6, <1>8 DEF IndInv, Behind, Honest
  <2>3. QED
    BY <1>2, <1>6, <2>1, <2>2 DEF IndInv, Behind, Honest
<1>10. \A t \in Screens : \A x \in Due(t)' : x \in Due(t) \/ x.answer = server
  BY <1>4, <1>6 DEF Due
<1>11. ListBehind' /\ DetailBehind'
  BY <1>2, <1>10 DEF IndInv, Behind, ListBehind, DetailBehind, Screens
<1>12. OneScreen'
  BY <1>2, <1>6 DEF IndInv, OneScreen, Screens
<1>13. QED
  BY <1>2, <1>7, <1>9, <1>11, <1>12, ShowsTheSame DEF IndInv, Behind

\* An answer, or a failure, takes its GET away.
LEMMA Answered ==
  ASSUME IndInv, NEW s \in Screens, NEW l \in loads[s], loads' = [loads EXCEPT ![s] = @ \ {l}],
         UNCHANGED server
  PROVE  /\ loads' \in [Screens -> SUBSET Load] /\ Honest'
         /\ entries' = entries => ListBehind'
         /\ UNCHANGED <<id, entry>> => DetailBehind'
         /\ l.current => \A m \in loads'[s] : ~m.current
         /\ \A t \in Screens : loads'[t] \subseteq loads[t]
<1>1. loads \in [Screens -> SUBSET Load]
  BY DEF IndInv, Shape
<1>2. /\ loads' \in [Screens -> SUBSET Load] /\ loads'[s] = loads[s] \ {l}
      /\ \A t \in Screens : loads'[t] \subseteq loads[t]
  BY <1>1
<1>3. \A t \in Screens : Fewer(t)
  BY <1>2, SameLoadsFewer DEF IndInv
<1>4. l.current => \A m \in loads'[s] : ~m.current
  BY <1>2 DEF IndInv, Behind, Honest
<1>5. QED
  BY <1>2, <1>3, <1>4, FewerAnswers DEF IndInv

LEMMA HistoryLoadedInv == ASSUME IndInv, HistoryLoaded PROVE IndInv' /\ Forward
<1>1. /\ UNCHANGED <<given, begun, server, tap, queue, openEntry>>
      /\ UNCHANGED <<focused, id, entry, assigning>>
  BY DEF HistoryLoaded, clock, outbox, detail
<1>2. PICK l \in loads["history"] :
        /\ l.answer # NotLoaded /\ loads' = [loads EXCEPT !["history"] = @ \ {l}]
        /\ IF l.current THEN entries' = l.answer ELSE entries' = entries
  BY DEF HistoryLoaded, Current
<1>3. "history" \in Screens /\ "detail" \in Screens
  BY DEF Screens
<1>4. /\ loads' \in [Screens -> SUBSET Load] /\ Honest' /\ DetailBehind'
      /\ entries' = entries => ListBehind'
      /\ l.current => \A m \in loads'["history"] : ~m.current
      /\ \A t \in Screens : loads'[t] \subseteq loads[t]
  BY <1>1, <1>2, <1>3, Answered
<1>5. l \in Load /\ l.answer \in Window
  BY <1>2, <1>3 DEF IndInv, Shape, Load
<1>6. Shape' /\ TapsOnce'
  BY <1>1, <1>2, <1>4, <1>5, SameTaps DEF IndInv, Shape
<1>7. OneScreen'
  BY <1>1, <1>3, <1>4 DEF IndInv, OneScreen
<1>8. CASE l.current
  <2>1. entries' = l.answer /\ NoFurther(l.answer, server) /\ l \in Due("history")
    BY <1>2, <1>3, <1>8 DEF IndInv, Behind, Honest, Due
  <2>2. ListBehind'
    BY <1>1, <1>4, <1>8, <2>1 DEF ListBehind, Due
  <2>3. entries # NotLoaded => NoFurther(entries, entries')
    BY <2>1 DEF IndInv, Behind, ListBehind
  <2>4. Stage(entry) <= Stage(entry')
    BY <1>1, StageIs DEF IndInv, Shape
  <2>5. QED
    BY <1>4, <1>6, <1>7, <2>2, <2>3, <2>4 DEF IndInv, Behind, Forward
<1>9. CASE ~l.current
  <2>1. entries' = entries
    BY <1>2, <1>9
  <2>2. QED
    BY <1>1, <1>4, <1>6, <1>7, <2>1, ShowsTheSame DEF IndInv, Behind
<1>10. QED
  BY <1>8, <1>9

\* The detail screen shows no less than it did, and nothing the server has not.
LEMMA FindEntryIs ==
  ASSUME IndInv, id # 0, NEW w \in Window, NoFurther(w, server), Stage(entry) <= Stage(w[id])
  PROVE  /\ findEntry(w) \in {Absent} \cup Shift
         /\ Stage(entry) <= Stage(findEntry(w)) /\ Stage(findEntry(w)) <= Stage(server[id])
<1>1. /\ id \in Shifts /\ w[id] \in {Absent} \cup Shift /\ server[id] \in {Absent} \cup Shift
      /\ entry \in {Absent} \cup Shift
  BY DEF IndInv, Shape, Window
<1>2. /\ Stage(w[id]) \in 0 .. 4 /\ Stage(server[id]) \in 0 .. 4 /\ Stage(entry) \in 0 .. 4
      /\ (Stage(w[id]) = 0 <=> w[id] = Absent)
      /\ Stage(w[id]) <= Stage(server[id])
  BY <1>1, StageIs DEF NoFurther
<1>3. CASE w[id] # Absent
  BY <1>1, <1>2, <1>3 DEF findEntry
<1>4. CASE w[id] = Absent /\ openEntry = [shift |-> id, known |-> TRUE]
  <2> DEFINE e == [server[id] EXCEPT !.status = "open"]
  <2>1. findEntry(w) = e
    BY <1>4 DEF findEntry
  <2>2. server[id] \in Shift
    BY <1>1, <1>4 DEF IndInv, TapsOnce, Genuine
  <2>3. e \in Shift /\ e.status = "open" /\ e.employer = server[id].employer
    BY <2>2 DEF Shift
  <2> HIDE DEF e
  <2>4. Stage(e) <= Stage(server[id])
    BY <2>2, <2>3, AbsentIsNoShift DEF Stage
  <2>5. Stage(e) \in 0 .. 4 /\ Stage(entry) = 0
    BY <1>2, <1>4, <2>3, StageIs
  <2>6. QED
    BY <2>1, <2>3, <2>4, <2>5
<1>5. CASE w[id] = Absent /\ openEntry # [shift |-> id, known |-> TRUE]
  BY <1>1, <1>2, <1>5 DEF findEntry
<1>6. QED
  BY <1>3, <1>4, <1>5

LEMMA DetailLoadedInv == ASSUME IndInv, DetailLoaded PROVE IndInv' /\ Forward
<1>1. /\ UNCHANGED <<given, begun, server, tap, queue, openEntry>>
      /\ UNCHANGED <<focused, entries, id, assigning>>
  BY DEF DetailLoaded, clock, outbox, list
<1>2. PICK l \in loads["detail"] :
        /\ l.answer # NotLoaded /\ loads' = [loads EXCEPT !["detail"] = @ \ {l}]
        /\ IF l.current THEN entry' = findEntry(l.answer) ELSE entry' = entry
  BY DEF DetailLoaded, Current
<1>3. "history" \in Screens /\ "detail" \in Screens
  BY DEF Screens
<1>4. /\ loads' \in [Screens -> SUBSET Load] /\ Honest' /\ ListBehind'
      /\ UNCHANGED <<id, entry>> => DetailBehind'
      /\ l.current => \A m \in loads'["detail"] : ~m.current
      /\ \A t \in Screens : loads'[t] \subseteq loads[t]
  BY <1>1, <1>2, <1>3, Answered
<1>5. id # 0 /\ l \in Load /\ l.answer \in Window /\ NoFurther(l.answer, server)
  BY <1>2, <1>3 DEF IndInv, Shape, Load, OneScreen, Behind, Honest
<1>6. OneScreen'
  BY <1>1, <1>3, <1>4 DEF IndInv, OneScreen
<1>7. CASE l.current
  <2>1. Stage(entry) <= Stage(l.answer[id])
    BY <1>2, <1>5, <1>7 DEF IndInv, Behind, DetailBehind, Due
  <2>2. /\ entry' = findEntry(l.answer) /\ entry' \in {Absent} \cup Shift
        /\ Stage(entry) <= Stage(entry') /\ Stage(entry') <= Stage(server[id])
    BY <1>2, <1>5, <1>7, <2>1, FindEntryIs
  <2>3. Shape' /\ TapsOnce'
    BY <1>1, <1>4, <2>2, SameTaps DEF IndInv, Shape
  <2>4. DetailBehind'
    BY <1>1, <1>4, <1>5, <1>7, <2>2 DEF DetailBehind, Due
  <2>5. entries # NotLoaded => NoFurther(entries, entries')
    BY <1>1, Sooner DEF IndInv, Shape
  <2>6. QED
    BY <1>4, <1>6, <2>2, <2>3, <2>4, <2>5 DEF IndInv, Behind, Forward
<1>8. CASE ~l.current
  <2>1. entry' = entry
    BY <1>2, <1>8
  <2>2. Shape' /\ TapsOnce'
    BY <1>1, <1>4, <2>1, SameTaps DEF IndInv, Shape
  <2>3. QED
    BY <1>1, <1>4, <1>6, <2>1, <2>2, ShowsTheSame DEF IndInv, Behind
<1>9. QED
  BY <1>7, <1>8

LEMMA LoadFailsInv ==
  ASSUME IndInv, NEW s \in Screens, LoadFails(s)
  PROVE  IndInv' /\ Forward
<1>1. /\ UNCHANGED <<given, begun, server, tap, queue, openEntry>>
      /\ UNCHANGED <<focused, entries, id, entry, assigning>>
  BY DEF LoadFails, clock, outbox
<1>2. PICK l \in loads[s] : loads' = [loads EXCEPT ![s] = @ \ {l}]
  BY DEF LoadFails
<1>3. /\ loads' \in [Screens -> SUBSET Load] /\ Honest' /\ ListBehind' /\ DetailBehind'
      /\ \A t \in Screens : loads'[t] \subseteq loads[t]
  BY <1>1, <1>2, Answered
<1>4. Shape' /\ TapsOnce'
  BY <1>1, <1>3, SameTaps DEF IndInv, Shape
<1>5. OneScreen'
  BY <1>1, <1>3 DEF IndInv, OneScreen, Screens
<1>6. QED
  BY <1>1, <1>3, <1>4, <1>5, ShowsTheSame DEF IndInv, Behind

LEMMA ReloadsInv == ASSUME IndInv, Reload \/ Refresh \/ DetailRefresh PROVE IndInv' /\ Forward
<1>1. /\ UNCHANGED <<given, begun, server, tap, queue, openEntry>>
      /\ UNCHANGED <<focused, entries, id, entry, assigning>>
  BY DEF Reload, Refresh, DetailRefresh, clock, outbox, list, detail
<1>2. PICK s \in Screens, pull \in BOOLEAN :
        loads' = Issued(s, pull) /\ (s = "detail" => id # 0)
  BY DEF Reload, Refresh, DetailRefresh, Screens
<1>3. /\ loads' \in [Screens -> SUBSET Load] /\ \A t \in Screens : Fewer(t)
      /\ \A t \in Screens \ {s} : loads'[t] = loads[t]
  BY <1>2, IssuedFewer
<1>4. Honest' /\ ListBehind' /\ DetailBehind'
  BY <1>1, <1>3, FewerAnswers DEF IndInv
<1>5. Shape' /\ TapsOnce'
  BY <1>1, <1>3, SameTaps DEF IndInv, Shape
<1>6. OneScreen'
  BY <1>1, <1>2, <1>3 DEF IndInv, OneScreen, Screens
<1>7. QED
  BY <1>1, <1>4, <1>5, <1>6, ShowsTheSame DEF IndInv, Behind
-----------------------------------------------------------------------------
(* The screens' other steps *)

LEMMA QuietInv ==
  ASSUME IndInv, clearAttention \/ Focus \/ Blur \/ Pick
  PROVE  IndInv' /\ Forward
<1>1. /\ UNCHANGED <<given, begun, server, tap, queue, openEntry>>
      /\ UNCHANGED <<entries, id, entry, assigning, loads>> /\ (focused' => focused \/ id = 0)
  <2>1. CASE clearAttention
    BY <2>1, Zenon DEF clearAttention, clock, list, detail
  <2>2. CASE Focus
    BY <2>2, Zenon DEF Focus, clock, outbox, detail
  <2>3. CASE Blur
    BY <2>3, Zenon DEF Blur, clock, outbox, detail
  <2>4. CASE Pick
    BY <2>4, Zenon DEF Pick, clock, outbox, list
  <2>5. QED
    BY <2>1, <2>2, <2>3, <2>4
<1>2. Shape' /\ TapsOnce'
  BY <1>1, SameTaps DEF IndInv, Shape
<1>3. Behind' /\ OneScreen' /\ Forward
  BY <1>1, StandsStill, SameScreens DEF IndInv, OneScreen
<1>4. QED
  BY <1>2, <1>3 DEF IndInv

LEMMA OpenDetailInv == ASSUME IndInv, NEW s \in Shifts, OpenDetail(s) PROVE IndInv' /\ Forward
<1>1. /\ UNCHANGED <<given, begun, server, tap, queue, openEntry>>
      /\ UNCHANGED <<entries, entry, assigning>>
      /\ focused /\ id' = s /\ focused' = FALSE /\ loads' = Issued("detail", FALSE)
  BY DEF OpenDetail, clock, outbox
<1>2. id = 0 /\ entry = Absent /\ s # 0
  BY <1>1 DEF IndInv, OneScreen, Behind, DetailBehind, Shifts
<1>3. /\ loads' \in [Screens -> SUBSET Load] /\ \A t \in Screens : Fewer(t)
      /\ \A l \in loads'["detail"] : l.current => l.answer = NotLoaded
  BY <1>1, IssuedFewer DEF Screens
<1>4. Honest' /\ ListBehind'
  BY <1>1, <1>3, FewerAnswers DEF IndInv
<1>5. Shape' /\ TapsOnce'
  BY <1>1, <1>3, SameTaps DEF IndInv, Shape
<1>6. Stage(entry) = 0 /\ Stage(server[s]) \in 0 .. 4
  BY <1>2, StageIs DEF IndInv, Shape, Window
<1>7. DetailBehind'
  <2>1. id' # 0 /\ Stage(entry') <= Stage(server'[id'])
    BY <1>1, <1>2, <1>6
  <2>2. Due("detail")' = {}
    BY <1>3 DEF Due
  <2>3. QED
    BY <2>1, <2>2 DEF DetailBehind
<1>8. OneScreen'
  BY <1>1, <1>2 DEF OneScreen
<1>9. QED
  BY <1>1, <1>4, <1>5, <1>7, <1>8, ShowsTheSame DEF IndInv, Behind

LEMMA BackInv == ASSUME IndInv, Back PROVE IndInv' /\ Forward
<1>1. /\ UNCHANGED <<given, begun, server, tap, queue, openEntry>> /\ UNCHANGED entries
      /\ id # 0 /\ id' = 0 /\ entry' = Absent /\ assigning' = {}
      /\ loads' = [loads EXCEPT !["detail"] = {}]
  BY DEF Back, clock, outbox
<1>2. /\ loads' \in [Screens -> SUBSET Load] /\ loads'["detail"] = {}
      /\ \A t \in Screens : loads'[t] \subseteq loads[t]
  BY <1>1 DEF IndInv, Shape, Screens
<1>3. Honest' /\ ListBehind'
  BY <1>1, <1>2, SameLoadsFewer, FewerAnswers DEF IndInv
<1>4. Shape' /\ TapsOnce'
  BY <1>1, <1>2, SameTaps DEF IndInv, Shape
<1>5. DetailBehind' /\ OneScreen'
  BY <1>1, <1>2 DEF DetailBehind, OneScreen
<1>6. Forward
  BY <1>1, Sooner DEF IndInv, Shape, Forward
<1>7. QED
  BY <1>3, <1>4, <1>5, <1>6 DEF IndInv, Behind

-----------------------------------------------------------------------------
(* Assigning a shift *)

LEMMA AssignInv == ASSUME IndInv, NEW m \in Employers, Assign(m) PROVE IndInv' /\ Forward
<1>1. /\ UNCHANGED <<given, begun, server, tap, queue, openEntry>>
      /\ UNCHANGED <<entries, focused, id, entry, loads>>
      /\ assigning' = assigning \cup {[employer |-> m, reply |-> ""]}
      /\ AssignControl = "employers"
  BY Zenon DEF Assign, clock, outbox, list
<1>2. entry # Absent
  BY <1>1 DEF AssignControl
<1>3. id # 0
  BY <1>2 DEF IndInv, Behind, DetailBehind
<1>4. [employer |-> m, reply |-> ""] \in Request
  BY DEF Request
<1>5. Shape' /\ TapsOnce'
  BY <1>1, <1>4, SameTaps DEF IndInv, Shape
<1>6. Behind' /\ OneScreen' /\ Forward
  BY <1>1, <1>3, StandsStill, SameScreens DEF IndInv, OneScreen
<1>7. QED
  BY <1>5, <1>6 DEF IndInv

LEMMA AssignFailedInv ==
  ASSUME IndInv, NEW r \in assigning, AssignFailed(r)
  PROVE  IndInv' /\ Forward
<1>1. /\ UNCHANGED <<given, begun, server, tap, queue, openEntry>>
      /\ UNCHANGED <<entries, focused, id, entry, loads>> /\ assigning' = assigning \ {r}
  BY Zenon DEF AssignFailed, clock, outbox, list
<1>2. Shape' /\ TapsOnce'
  BY <1>1, SameTaps DEF IndInv, Shape
<1>3. Behind' /\ OneScreen' /\ Forward
  BY <1>1, StandsStill, SameScreens DEF IndInv, OneScreen
<1>4. QED
  BY <1>2, <1>3 DEF IndInv

\* Only a shift that is on record is assigned, so a clock-in under way still finds
\* nothing of its own.
LEMMA AssignServedInv ==
  ASSUME IndInv, NEW r \in assigning, AssignServed(r)
  PROVE  IndInv' /\ Forward
<1>1. /\ UNCHANGED <<given, begun, tap, queue, openEntry>>
      /\ UNCHANGED <<entries, focused, id, entry, loads>>
  BY Zenon DEF AssignServed, clock, outbox, list
<1>2. id # 0 /\ r \in Request
  BY DEF IndInv, OneScreen, Shape
<1>3. assigning' \subseteq Request
  <2>1. [r EXCEPT !.reply = "ok"] \in Request /\ [r EXCEPT !.reply = "refused"] \in Request
    BY <1>2 DEF Request
  <2>2. \/ assigning' = (assigning \ {r}) \cup {[r EXCEPT !.reply = "ok"]}
        \/ assigning' = (assigning \ {r}) \cup {[r EXCEPT !.reply = "refused"]}
    BY Zenon DEF AssignServed
  <2>3. QED
    BY <2>1, <2>2, Zenon DEF IndInv, Shape
<1>4. \/ /\ Assignable(id)
         /\ \E v \in BOOLEAN :
              server' = [server EXCEPT ![id].employer = r.employer, ![id].verified = v]
      \/ server' = server
  BY Zenon DEF AssignServed
<1>5. Advances /\ \A s \in Shifts : server[s] = Absent => server'[s] = Absent
  <2>1. CASE server' = server
    BY <2>1, StandsStill DEF IndInv
  <2>2. ASSUME Assignable(id), NEW v \in BOOLEAN,
               server' = [server EXCEPT ![id].employer = r.employer, ![id].verified = v]
        PROVE  Advances /\ \A s \in Shifts : server[s] = Absent => server'[s] = Absent
    <3>1. r.employer \in Employers
      BY <1>2 DEF Request
    <3>2. Advances
      BY <1>2, <2>2, <3>1, AssignedAdvances DEF IndInv
    <3>3. server[id] # Absent
      BY <2>2 DEF Assignable
    <3>4. \A s \in Shifts \ {id} : server'[s] = server[s]
      BY <2>2 DEF IndInv, Shape, Window
    <3>5. QED
      BY <3>2, <3>3, <3>4
  <2>3. QED
    BY <1>4, <2>1, <2>2
<1>6. \A s \in Shifts : server[s] # Absent => server'[s] # Absent
  BY <1>5, Sooner DEF IndInv, Shape, Advances
<1>7. Shape'
  BY <1>1, <1>3, <1>5 DEF IndInv, Shape, Advances
<1>8. \A e : Genuine(e) => Genuine(e)'
  BY <1>1, <1>6 DEF Genuine
<1>9. TapsOnce'
  <2>1. /\ \A k \in DOMAIN queue : queue[k] \in Item
        /\ tap # Idle => tap.item \in Item
    BY DEF IndInv, Shape
  <2>2. Genuine(openEntry)' /\ (tap # Idle => Genuine(tap.revert)')
    BY <1>1, <1>8 DEF IndInv, TapsOnce, Genuine
  <2>3. QED
    BY <1>1, <1>5, <2>1, <2>2 DEF IndInv, TapsOnce, Item
<1>10. Behind' /\ OneScreen' /\ Forward
  BY <1>1, <1>2, <1>5, SameScreens DEF IndInv, OneScreen
<1>11. QED
  BY <1>7, <1>9, <1>10 DEF IndInv

\* The answer is the assigned shift, and no GET sent before it will be shown.
LEMMA AssignDoneInv == ASSUME IndInv, NEW r \in assigning, AssignDone(r) PROVE IndInv' /\ Forward
<1>1. /\ UNCHANGED <<given, begun, server, tap, queue, openEntry>>
      /\ UNCHANGED <<entries, focused, id>> /\ assigning' = assigning \ {r}
      /\ entry' = server[id]
      /\ loads' = [loads EXCEPT !["detail"] = Outdated(loads["detail"])]
  BY Zenon DEF AssignDone, RetiresLoads, clock, outbox, list
<1>2. id \in Shifts /\ id # 0
  BY DEF IndInv, OneScreen, Shape
<1>3. "history" \in Screens /\ "detail" \in Screens
  BY DEF Screens
<1> DEFINE old == Outdated(loads["detail"])
<1>4. /\ loads["detail"] \in SUBSET Load
      /\ \A m \in old : m \in Load /\ ~m.current /\ \E o \in loads["detail"] : o.answer = m.answer
  BY <1>3, AllOutdated DEF IndInv, Shape
<1>5. loads' = [loads EXCEPT !["detail"] = old]
  BY <1>1
<1> HIDE DEF old
<1>6. /\ loads' \in [Screens -> SUBSET Load] /\ loads'["detail"] = old
      /\ loads'["history"] = loads["history"]
  BY <1>3, <1>4, <1>5 DEF IndInv, Shape
<1>7. \A t \in Screens : Fewer(t)
  <2>1. Fewer("detail")
    BY <1>4, <1>6 DEF Fewer
  <2>2. Fewer("history")
    BY <1>3, <1>6, SameLoadsFewer DEF IndInv
  <2>3. QED
    BY <2>1, <2>2 DEF Screens
<1>8. Honest' /\ ListBehind'
  BY <1>1, <1>7, FewerAnswers DEF IndInv
<1>9. /\ entry' \in {Absent} \cup Shift /\ Stage(entry') \in 0 .. 4
      /\ Stage(entry) <= Stage(entry')
  BY <1>1, <1>2, StageIs DEF IndInv, Shape, Window, Behind, DetailBehind
<1>10. DetailBehind'
  <2>1. Due("detail")' = {}
    BY <1>4, <1>6 DEF Due
  <2>2. id' # 0 /\ Stage(entry') <= Stage(server'[id'])
    BY <1>1, <1>2, <1>9
  <2>3. QED
    BY <2>1, <2>2 DEF DetailBehind
<1>11. Shape' /\ TapsOnce'
  BY <1>1, <1>6, <1>9, SameTaps DEF IndInv, Shape
<1>12. OneScreen'
  BY <1>1, <1>2 DEF IndInv, OneScreen
<1>13. Forward
  BY <1>1, <1>9, Sooner DEF IndInv, Shape, Forward
<1>14. QED
  BY <1>8, <1>10, <1>11, <1>12, <1>13 DEF IndInv, Behind
-----------------------------------------------------------------------------
LEMMA InitInv == Init => IndInv
<1> SUFFICES ASSUME Init PROVE IndInv
  OBVIOUS
<1>1. /\ given \in Condition /\ begun = given.past /\ tap = Idle /\ openEntry = NoEntry
      /\ queue = << >> /\ focused = FALSE /\ entries = NotLoaded /\ id = 0 /\ entry = Absent
      /\ assigning = {} /\ loads = [s \in Screens |-> {}]
      /\ server = [s \in Shifts |-> IF s > given.past THEN Absent
                   ELSE [status |-> "closed", employer |-> Personal, verified |-> TRUE]]
  BY RecordsAssumption DEF Init
<1>2. given.past \in 0 .. MaxShifts /\ given.last \in 0 .. MaxShifts /\ MaxShifts \in Nat
  BY <1>1, RecordsAssumption DEF Condition
<1>3. [status |-> "closed", employer |-> Personal, verified |-> TRUE] \in Shift
  BY DEF Shift
<1>4. server \in Window /\ \A s \in Shifts : s > begun => server[s] = Absent
  BY <1>1, <1>3 DEF Window
<1>5. NoEntry \in Opened /\ queue \in Seq(Item) /\ loads \in [Screens -> SUBSET Load]
  BY <1>1 DEF NoEntry, Opened
<1>6. Shape
  BY <1>1, <1>2, <1>4, <1>5 DEF Shape
<1>7. Genuine(NoEntry)
  BY DEF Genuine, NoEntry
<1>8. TapsOnce
  BY <1>1, <1>4, <1>7 DEF TapsOnce
<1>9. Behind /\ OneScreen
  BY <1>1 DEF Behind, Honest, ListBehind, DetailBehind, OneScreen, Screens
<1>10. QED
  BY <1>6, <1>8, <1>9 DEF IndInv

\* Every step keeps the invariant and takes nothing back.
LEMMA NextInv == ASSUME IndInv, [Next]_vars PROVE IndInv' /\ Forward
<1>1. CASE Tap
  BY <1>1, TapInv
<1>2. CASE TapAnswered
  BY <1>2, TapAnsweredInv
<1>3. CASE TapLost
  BY <1>3, TapLostInv
<1>4. CASE Sync
  <2>1. CASE Accepts(Head(queue)) /\ Drained(TRUE)
    BY <2>1, DrainedInv
  <2>2. CASE Drained(FALSE)
    BY <2>2, DrainedInv
  <2>3. QED
    BY <1>4, <2>1, <2>2 DEF Sync
<1>5. CASE clearAttention \/ Focus \/ Blur \/ Pick
  BY <1>5, QuietInv
<1>6. CASE Reload \/ Refresh \/ DetailRefresh
  BY <1>6, ReloadsInv
<1>7. CASE Loads
  BY <1>7, LoadServedInv, HistoryLoadedInv, DetailLoadedInv DEF Loads
<1>8. CASE \E s \in Screens : LoadFails(s)
  BY <1>8, LoadFailsInv
<1>9. CASE \E s \in Shifts : OpenDetail(s)
  BY <1>9, OpenDetailInv
<1>10. CASE Back
  BY <1>10, BackInv
<1>11. CASE \E m \in Employers : Assign(m)
  BY <1>11, AssignInv
<1>12. CASE \E r \in assigning : AssignServed(r) \/ AssignDone(r) \/ AssignFailed(r)
  BY <1>12, AssignServedInv, AssignDoneInv, AssignFailedInv
<1>13. CASE UNCHANGED vars
  <2>1. /\ UNCHANGED <<given, begun, server, tap, queue, openEntry>>
        /\ UNCHANGED <<entries, focused, id, entry, assigning, loads>>
    BY <1>13, Zenon DEF vars, clock, outbox, list, detail
  <2>2. Shape' /\ TapsOnce'
    BY <2>1, SameTaps DEF IndInv, Shape
  <2>3. Behind' /\ OneScreen' /\ Forward
    BY <2>1, StandsStill, SameScreens DEF IndInv, OneScreen
  <2>4. QED
    BY <2>2, <2>3 DEF IndInv
<1>14. QED
  BY <1>1, <1>2, <1>3, <1>4, <1>5, <1>6, <1>7, <1>8, <1>9, <1>10, <1>11, <1>12, <1>13, Zenon
     DEF Next

\* No step of a screen takes back what it has shown of a shift: an answer to an
\* older GET never replaces a newer one, and a shift once assigned is not shown as
\* personal again (loadGen in history.tsx and entry/[id].tsx).
THEOREM ScreensOnlyGoForward == Spec => ScreensNeverGoBack
<1>1. Init => IndInv
  BY InitInv
<1>2. IndInv /\ [Next]_vars => IndInv'
  BY NextInv
<1> DEFINE Kept ==
      /\ entries # NotLoaded => \A s \in Shifts : Stage(entries[s]) <= Stage(entries'[s])
      /\ id # 0 /\ id' = id => Stage(entry) <= Stage(entry')
<1>3. IndInv /\ [Next]_vars => Kept
  BY NextInv DEF Forward, NoFurther
<1>4. Spec => [][Kept]_vars
  <2> HIDE DEF Kept
  <2> QED
    BY <1>1, <1>2, <1>3, PTL DEF Spec
<1>5. QED
  BY <1>4 DEF ScreensNeverGoBack
-----------------------------------------------------------------------------
(* What the screen says it assigned *)

\* A finished shift with an employer: nothing changes it any more.
Settled(s) ==
  server[s] # Absent /\ server[s].status = "closed" /\ server[s].employer # Personal
Final == \A s \in Shifts : Settled(s) => server'[s] = server[s]

\* The server has assigned the shift to whom it says it has.
Agreed == \A r \in assigning : r.reply = "ok" => Settled(id) /\ server[id].employer = r.employer

\* The screen shows that, and so will every answer that is yet to be shown.
Told ==
  assigned # Personal =>
    /\ id # 0 /\ Settled(id) /\ entry = server[id] /\ entry.employer = assigned
    /\ \A l \in Due("detail") : l.answer[id] = server[id]

LEMMA RecordedIsFinal ==
  ASSUME Shape, NEW i \in Item, Accepts(i), server' = Recorded(i),
         i.kind = "in" => server[i.shift] = Absent
  PROVE  Final
<1>1. \A s \in Shifts \ {i.shift} : server'[s] = server[s]
  BY RecordedAdvances, RecordsAssumption
<1>2. ~Settled(i.shift)
  BY DEF Accepts, Settled, Item
<1>3. QED
  BY <1>1, <1>2 DEF Final

LEMMA StepsAreFinal == ASSUME IndInv, [Next]_vars PROVE Final
<1>1. CASE UNCHANGED server
  BY <1>1 DEF Final
<1>2. CASE TapAnswered
  <2>1. CASE Accepts(tap.item)
    <3>1. tap.item \in Item /\ (tap.item.kind = "in" => server[tap.item.shift] = Absent)
      BY <1>2 DEF TapAnswered, IndInv, Shape, TapsOnce
    <3>2. server' = Recorded(tap.item)
      BY <1>2, <2>1 DEF TapAnswered
    <3>3. QED
      BY <2>1, <3>1, <3>2, RecordedIsFinal DEF IndInv
  <2>2. CASE ~Accepts(tap.item)
    BY <1>1, <1>2, <2>2 DEF TapAnswered
  <2>3. QED
    BY <2>1, <2>2
<1>3. CASE Sync
  <2>1. CASE Accepts(Head(queue)) /\ Drained(TRUE)
    <3>1. queue # << >> /\ server' = Recorded(Head(queue))
      BY <2>1 DEF Drained
    <3>2. queue \in Seq(Item) /\ 1 \in DOMAIN queue /\ Head(queue) = queue[1]
      BY <3>1 DEF IndInv, Shape
    <3>3. Head(queue) \in Item
          /\ (Head(queue).kind = "in" => server[Head(queue).shift] = Absent)
      BY <3>2 DEF IndInv, TapsOnce
    <3>4. QED
      BY <2>1, <3>1, <3>3, RecordedIsFinal DEF IndInv
  <2>2. CASE Drained(FALSE)
    <3>1. server' = server
      BY <2>2 DEF Drained
    <3>2. QED
      BY <1>1, <3>1
  <2>3. QED
    BY <1>3, <2>1, <2>2 DEF Sync
<1>4. ASSUME NEW r \in assigning, AssignServed(r) PROVE Final
  <2>1. \/ /\ Assignable(id)
           /\ \E v \in BOOLEAN :
                server' = [server EXCEPT ![id].employer = r.employer, ![id].verified = v]
        \/ server' = server
    BY Zenon, <1>4 DEF AssignServed
  <2>2. ASSUME Assignable(id), NEW v \in BOOLEAN,
               server' = [server EXCEPT ![id].employer = r.employer, ![id].verified = v]
        PROVE  Final
    <3>1. \A s \in Shifts \ {id} : server'[s] = server[s]
      BY <2>2 DEF IndInv, Shape, Window
    <3>2. ~Settled(id)
      BY <2>2 DEF Assignable, Settled
    <3>3. QED
      BY <3>1, <3>2 DEF Final
  <2>3. QED
    BY <1>1, <2>1, <2>2
<1>5. CASE Tap \/ TapLost \/ clearAttention \/ Focus \/ Blur \/ Reload \/ Refresh
  BY Zenon, <1>1, <1>5 DEF Tap, TapLost, clearAttention, Focus, Blur, Reload, Refresh
<1>6. CASE Loads \/ \E s \in Screens : LoadFails(s)
  BY Zenon, <1>1, <1>6 DEF Loads, LoadServed, HistoryLoaded, DetailLoaded, LoadFails
<1>7. CASE (\E s \in Shifts : OpenDetail(s)) \/ Back \/ DetailRefresh \/ Pick
  BY Zenon, <1>1, <1>7 DEF OpenDetail, Back, DetailRefresh, Pick
<1>8. CASE \E m \in Employers : Assign(m)
  BY Zenon, <1>1, <1>8 DEF Assign
<1>9. CASE \E r \in assigning : AssignDone(r) \/ AssignFailed(r)
  BY Zenon, <1>1, <1>9 DEF AssignDone, AssignFailed
<1>10. CASE UNCHANGED vars
  BY Zenon, <1>1, <1>10 DEF vars
<1>11. QED
  BY Zenon, <1>2, <1>3, <1>4, <1>5, <1>6, <1>7, <1>8, <1>9, <1>10 DEF Next

\* A step that leaves the screen's words alone, and brings it no new answer.
LEMMA ToldStays ==
  ASSUME IndInv, Told, Agreed, Final, UNCHANGED <<id, entry, assigned>>,
         \A l \in Due("detail")' :
           l.answer = server \/ \E o \in Due("detail") : o.answer = l.answer,
         \A r \in assigning' : r.reply = "ok" => r \in assigning
  PROVE  Told' /\ Agreed'
<1>1. id = 0 => assigning = {}
  BY DEF IndInv, OneScreen
<1>2. id # 0 => id \in Shifts
  BY DEF IndInv, Shape
<1>3. id # 0 /\ Settled(id) => server'[id] = server[id] /\ Settled(id)'
  BY <1>2 DEF Final, Settled
<1>4. Agreed'
  BY <1>1, <1>3 DEF Agreed
<1>5. Told'
  BY <1>3 DEF Told
<1>6. QED
  BY <1>4, <1>5

LEMMA SameLoads ==
  ASSUME loads' = loads
  PROVE  \A l \in Due("detail")' : \E o \in Due("detail") : o.answer = l.answer
BY DEF Due

LEMMA FewerDue ==
  ASSUME loads'["detail"] \subseteq loads["detail"]
  PROVE  \A l \in Due("detail")' : \E o \in Due("detail") : o.answer = l.answer
BY DEF Due

LEMMA NextTold ==
  ASSUME IndInv, Told, Agreed, assigned \in {Personal} \cup Employers, [Next]_vars
  PROVE  Told' /\ Agreed' /\ assigned' \in {Personal} \cup Employers
<1> DEFINE Goal == Told' /\ Agreed' /\ assigned' \in {Personal} \cup Employers
           Same == UNCHANGED <<id, entry, assigned>> /\ assigning' = assigning
<1>1. Final
  BY StepsAreFinal
<1>2. loads \in [Screens -> SUBSET Load] /\ "detail" \in Screens /\ "history" \in Screens
  BY DEF IndInv, Shape, Screens
\* Steps that do not touch the screen.
<1>3. ASSUME Same, loads' = loads PROVE Goal
  BY <1>1, <1>3, SameLoads, ToldStays
<1>4. ASSUME Same, loads'["detail"] \subseteq loads["detail"] PROVE Goal
  BY <1>1, <1>4, FewerDue, ToldStays
<1>5. CASE Tap \/ TapAnswered \/ TapLost \/ clearAttention \/ Focus \/ Blur \/ Pick
  <2>1. Same /\ loads' = loads
    BY Zenon, <1>5 DEF Tap, TapAnswered, TapLost, clearAttention, Focus, Blur, Pick, detail
  <2>2. QED
    BY <1>3, <2>1
<1>6. CASE Sync
  <2>1. Same /\ loads' = loads
    BY Zenon, <1>6 DEF Sync, Drained, detail
  <2>2. QED
    BY <1>3, <2>1
<1>7. CASE UNCHANGED vars
  <2>1. Same /\ loads' = loads
    BY Zenon, <1>7 DEF vars, detail
  <2>2. QED
    BY <1>3, <2>1
<1>8. CASE Reload \/ Refresh
  <2>1. Same
    BY Zenon, <1>8 DEF Reload, Refresh, list, detail
  <2>2. PICK pull \in BOOLEAN : loads' = Issued("history", pull)
    BY <1>8 DEF Reload, Refresh
  <2>3. loads'["detail"] = loads["detail"]
    BY <1>2, <2>2, IssuedFewer
  <2>4. QED
    BY <1>4, <2>1, <2>3
<1>9. CASE DetailRefresh
  <2>1. Same /\ loads' = Issued("detail", TRUE)
    BY Zenon, <1>9 DEF DetailRefresh
  <2>2. \A l \in loads'["detail"] : l.current => l.answer = NotLoaded
    BY <1>2, <2>1, IssuedFewer
  <2>3. Due("detail")' = {}
    BY <2>2 DEF Due
  <2>4. QED
    BY <1>1, <2>1, <2>3, ToldStays
<1>10. ASSUME NEW s \in Screens, LoadServed(s) PROVE Goal
  <2>1. Same
    BY Zenon, <1>10 DEF LoadServed, detail
  <2>2. PICK l \in loads[s] :
          /\ l.answer = NotLoaded
          /\ loads' = [loads EXCEPT ![s] = (@ \ {l}) \cup {[l EXCEPT !.answer = server]}]
    BY <1>10 DEF LoadServed
  <2>3. CASE s = "detail"
    <3>1. l \in Load
      BY <1>2, <2>2
    <3> DEFINE m == [l EXCEPT !.answer = server]
    <3>2. m.answer = server
      BY <3>1 DEF Load
    <3>3. loads'["detail"] = (loads["detail"] \ {l}) \cup {m}
      BY <1>2, <2>2, <2>3
    <3> HIDE DEF m
    <3>4. \A k \in Due("detail")' :
            k.answer = server \/ \E o \in Due("detail") : o.answer = k.answer
      BY <3>2, <3>3 DEF Due
    <3>5. QED
      BY <1>1, <2>1, <3>4, ToldStays
  <2>4. CASE s # "detail"
    <3>1. loads'["detail"] = loads["detail"]
      BY <1>2, <2>2, <2>4
    <3>2. QED
      BY <1>4, <2>1, <3>1
  <2>5. QED
    BY <2>3, <2>4
<1>11. CASE HistoryLoaded
  <2>1. Same
    BY Zenon, <1>11 DEF HistoryLoaded, detail
  <2>2. PICK l \in loads["history"] : loads' = [loads EXCEPT !["history"] = @ \ {l}]
    BY <1>11 DEF HistoryLoaded
  <2>3. loads'["detail"] = loads["detail"]
    BY <1>2, <2>2
  <2>4. QED
    BY <1>4, <2>1, <2>3
<1>12. ASSUME NEW s \in Screens, LoadFails(s) PROVE Goal
  <2>1. Same
    BY Zenon, <1>12 DEF LoadFails
  <2>2. PICK l \in loads[s] : loads' = [loads EXCEPT ![s] = @ \ {l}]
    BY <1>12 DEF LoadFails
  <2>3. loads'["detail"] \subseteq loads["detail"]
    BY <1>2, <2>2
  <2>4. QED
    BY <1>4, <2>1, <2>3
\* What is loaded is what is shown already.
<1>13. CASE DetailLoaded
  <2>1. UNCHANGED <<id, assigned, assigning, server>>
    BY Zenon, <1>13 DEF DetailLoaded
  <2>2. PICK l \in loads["detail"] :
          /\ l.answer # NotLoaded /\ loads' = [loads EXCEPT !["detail"] = @ \ {l}]
          /\ IF l.current THEN entry' = findEntry(l.answer) ELSE entry' = entry
    BY <1>13 DEF DetailLoaded, Current
  <2>3. loads'["detail"] \subseteq loads["detail"]
    BY <1>2, <2>2
  <2>4. CASE assigned = Personal
    <3>1. Told' /\ Agreed'
      BY <2>1, <2>4 DEF Told, Agreed, Settled
    <3>2. QED
      BY <2>1, <3>1
  <2>5. CASE assigned # Personal
    <3>1. l.current => l \in Due("detail")
      BY <2>2 DEF Due
    <3>2. l.current => l.answer[id] = server[id] /\ server[id] # Absent /\ entry = server[id]
      BY <2>5, <3>1 DEF Told, Settled
    <3>3. entry' = entry
      BY <2>2, <3>2 DEF findEntry
    <3>4. QED
      BY <1>4, <2>1, <2>3, <3>3
  <2>6. QED
    BY <2>4, <2>5
<1>14. ASSUME NEW s \in Shifts, OpenDetail(s) PROVE Goal
  <2>1. focused /\ UNCHANGED <<assigned, assigning>>
    BY Zenon, <1>14 DEF OpenDetail
  <2>2. id = 0 /\ assigning = {}
    BY <2>1 DEF IndInv, OneScreen
  <2>3. assigned = Personal
    BY <2>2 DEF Told
  <2>4. QED
    BY <2>1, <2>2, <2>3 DEF Told, Agreed
<1>15. CASE Back
  <2>1. assigned' = Personal /\ assigning' = {}
    BY <1>15 DEF Back
  <2>2. QED
    BY <2>1 DEF Told, Agreed
<1>16. ASSUME NEW m \in Employers, Assign(m) PROVE Goal
  <2>1. /\ UNCHANGED <<id, entry, assigned, loads>>
        /\ assigning' = assigning \cup {[employer |-> m, reply |-> ""]}
    BY Zenon, <1>16 DEF Assign
  <2> DEFINE new == [employer |-> m, reply |-> ""]
  <2>2. new.reply # "ok" /\ assigning' = assigning \cup {new}
    BY <2>1
  <2> HIDE DEF new
  <2>3. \A r \in assigning' : r.reply = "ok" => r \in assigning
    BY <2>2
  <2>4. QED
    BY <1>1, <2>1, <2>3, SameLoads, ToldStays
\* An employer is settled by the first request that is served; the others are refused.
<1>17. ASSUME NEW r \in assigning, AssignServed(r) PROVE Goal
  <2>1. UNCHANGED <<id, entry, assigned, loads>> /\ r.reply = ""
    BY Zenon, <1>17 DEF AssignServed
  <2>2. id \in Shifts /\ r \in Request
    BY DEF IndInv, OneScreen, Shape
  <2>3. CASE assigning' = (assigning \ {r}) \cup {[r EXCEPT !.reply = "refused"]}
    <3>1. [r EXCEPT !.reply = "refused"].reply = "refused"
      BY <2>2 DEF Request
    <3>2. \A q \in assigning' : q.reply = "ok" => q \in assigning
      BY <2>3, <3>1
    <3>3. QED
      BY <1>1, <2>1, <3>2, SameLoads, ToldStays
  <2>4. ASSUME Assignable(id), NEW v \in BOOLEAN,
               server' = [server EXCEPT ![id].employer = r.employer, ![id].verified = v],
               assigning' = (assigning \ {r}) \cup {[r EXCEPT !.reply = "ok"]}
        PROVE  Goal
    <3>1. r.employer \in Employers /\ Personal \notin Employers
      BY <2>2, RecordsAssumption DEF Request
    <3>2. server[id] \in Shift /\ server[id].status = "closed" /\ ~Settled(id)
      BY <2>2, <2>4 DEF Assignable, Settled, IndInv, Shape, Window
    <3> DEFINE e == [server[id] EXCEPT !.employer = r.employer, !.verified = v]
    <3>3. e \in Shift /\ e.status = "closed" /\ e.employer = r.employer
      BY <3>1, <3>2 DEF Shift
    <3>4. server'[id] = e
      BY <2>2, <2>4 DEF IndInv, Shape, Window
    <3> HIDE DEF e
    <3>5. server'[id'] # Absent /\ Settled(id)' /\ server'[id'].employer = r.employer
      BY <2>1, <3>1, <3>3, <3>4, AbsentIsNoShift DEF Settled
    <3>6. assigned = Personal
      BY <3>2 DEF Told
    <3>7. \A q \in assigning : q.reply # "ok"
      BY <3>2 DEF Agreed
    <3>8. [r EXCEPT !.reply = "ok"].employer = r.employer
      BY <2>2 DEF Request
    <3>9. Agreed'
      BY <2>4, <3>5, <3>7, <3>8 DEF Agreed
    <3>10. QED
      BY <2>1, <3>6, <3>9 DEF Told
  <2>5. QED
    BY Zenon, <1>17, <2>3, <2>4 DEF AssignServed
\* The answer is what the server has, and no GET sent before it will be shown.
<1>18. ASSUME NEW r \in assigning, AssignDone(r) PROVE Goal
  <2>1. /\ UNCHANGED <<id, server>> /\ assigning' = assigning \ {r} /\ r.reply = "ok"
        /\ entry' = server[id] /\ assigned' = r.employer
        /\ loads' = [loads EXCEPT !["detail"] = Outdated(loads["detail"])]
    BY Zenon, <1>18 DEF AssignDone, RetiresLoads
  <2>2. id # 0 /\ r \in Request
    BY DEF IndInv, OneScreen, Shape
  <2>3. Settled(id) /\ server[id].employer = r.employer
    BY <2>1 DEF Agreed
  <2> DEFINE old == Outdated(loads["detail"])
  <2>4. \A m \in old : ~m.current
    BY <1>2, AllOutdated
  <2>5. loads' = [loads EXCEPT !["detail"] = old]
    BY <2>1
  <2> HIDE DEF old
  <2>6. Due("detail")' = {}
    BY <1>2, <2>4, <2>5 DEF Due
  <2>7. Told'
    BY <2>1, <2>2, <2>3, <2>6 DEF Told, Settled
  <2>8. Agreed'
    BY <2>1 DEF Agreed, Settled
  <2>9. assigned' \in Employers
    BY <2>1, <2>2 DEF Request
  <2>10. QED
    BY <2>7, <2>8, <2>9
<1>19. ASSUME NEW r \in assigning, AssignFailed(r) PROVE Goal
  <2>1. UNCHANGED <<id, entry, assigned, loads>> /\ assigning' = assigning \ {r}
    BY Zenon, <1>19 DEF AssignFailed
  <2>2. QED
    BY <1>1, <2>1, SameLoads, ToldStays
<1>20. CASE Loads \/ \E s \in Screens : LoadFails(s)
  BY <1>10, <1>11, <1>12, <1>13, <1>20, Zenon DEF Loads
<1>21. CASE \E r \in assigning : AssignServed(r) \/ AssignDone(r) \/ AssignFailed(r)
  BY <1>17, <1>18, <1>19, <1>21, Zenon
<1>22. CASE (\E s \in Shifts : OpenDetail(s)) \/ \E m \in Employers : Assign(m)
  BY <1>14, <1>16, <1>22, Zenon
<1>23. QED
  BY <1>5, <1>6, <1>7, <1>8, <1>9, <1>15, <1>20, <1>21, <1>22, Zenon DEF Next

\* A shift that the screen says it assigned is shown as the server has it and for the
\* employer that is named: a second employer tapped before the control is gone is
\* refused, and a GET that left before the PATCH is thrown away (entry/[id].tsx: assign).
THEOREM AssignedIsShownAsRecorded == Spec => []AssignedIsRecorded
<1> DEFINE Inv == IndInv /\ Told /\ Agreed /\ assigned \in {Personal} \cup Employers
<1>1. Init => Inv
  <2>1. Init => assigned = Personal /\ assigning = {}
    BY DEF Init
  <2>2. Init => Told /\ Agreed /\ assigned \in {Personal} \cup Employers
    BY <2>1 DEF Told, Agreed
  <2>3. QED
    BY <2>2, InitInv
<1>2. Inv /\ [Next]_vars => Inv'
  BY NextInv, NextTold
<1>3. Inv => AssignedIsRecorded
  BY DEF Told, AssignedIsRecorded
<1>4. QED
  BY <1>1, <1>2, <1>3, PTL DEF Spec
=============================================================================
