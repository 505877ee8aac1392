----------------------------- MODULE DeskProofs -----------------------------
(***************************************************************************)
(* Theorems about Desk for every set of employers, members, days, ranges   *)
(* and amounts, and every set of conditions.                               *)
(***************************************************************************)
EXTENDS Desk, TLAPS, FiniteSetTheorems

\* A write has its fields, and what they hold suits its kind.
HasFields(w) ==
  w = [kind |-> w.kind, of |-> w.of, row |-> w.row, value |-> w.value, over |-> w.over,
       live |-> w.live, cell |-> w.cell, n |-> w.n, spared |-> w.spared,
       reply |-> w.reply, answer |-> w.answer]

IsWrite(w) ==
  /\ HasFields(w)
  /\ w.of \in Employers
  /\ w.kind \in {"tip", "rate", "remove", "invite"}
  /\ w.kind = "tip" => w.row \in Days /\ w.value \in Amounts
  /\ w.kind # "tip" => w.row \in Members
  /\ w.kind = "rate" => w.value \in Amounts /\ w.over \in Amounts
  /\ w.kind = "invite" /\ w.reply = "ok" => w.answer \in Row

\* The types the arguments below rest on.
Shape ==
  /\ owned \in Seq(Employers) /\ (Loaded => list \in Seq(Employers))
  /\ range \in Ranges
  /\ tips \in [Employers -> [Days -> Amounts]] /\ members \in [Employers -> Rows]
  /\ since \in [Employers -> [Days -> SUBSET Amounts]]
  /\ fetch # None => fetch = [of |-> fetch.of, answer |-> fetch.answer]
  /\ fetch # None => fetch.of \in Employers
  /\ fetch # None /\ fetch.answer # None /\ route = "employees" => fetch.answer \in Rows
  /\ roster \in {None, Failed} \cup [of: Employers, rows: Rows]
  /\ report # None => report.of \in Employers
  /\ settled \in {None} \cup Ranges
  /\ \A w \in writes : IsWrite(w)

\* An employer can only be created from the loaded app, and only onboarding is
\* there for an account without one.
Guarded ==
  /\ creating \in {"sent", "served"} => Loaded
  /\ creating = "served" => owned # << >>
  /\ Loaded /\ list = << >> => route = "onboarding"

\* What is on the page was put there by the page that is mounted.
Mounted ==
  /\ fetch # None => Loaded /\ route # "onboarding"
  /\ roster # None => Loaded /\ route = "employees"
  /\ roster \notin {None, Failed} => fetch = None
  /\ \A w \in writes : w.live =>
       IF w.kind = "tip" THEN Loaded /\ route = "table"
                         ELSE roster \notin {None, Failed}

\* The pools of this report are ones the page's saves allow it to show.
Current(pools, days, e) == \A d \in days : pools[d] \in since[e][d]

\* What the server has, what is on its way, and what the table shows: a report
\* that answers for a range, and did not fail, is current.
Sound ==
  /\ \A e \in Employers : Current(tips[e], Days, e)
  /\ fetch # None /\ fetch.answer # None /\ route = "table" =>
       Current(fetch.answer, range, fetch.of)
  /\ settled # None /\ settled # failed =>
       /\ report.of \in Employers /\ report.range = settled
       /\ Current(report.pools, settled, report.of)

IndInv == Shape /\ Guarded /\ Mounted /\ NothingCrossesEmployers /\ Sound
-----------------------------------------------------------------------------
(* The account's employers *)

\* The active employer is one of the list.
LEMMA EmployerListed ==
  ASSUME Shape, Loaded, list # << >>
  PROVE  employer \in Range(list) /\ employer \in Employers
<1>1. list \in Seq(Employers) /\ 1 \in DOMAIN list
  BY DEF Shape
<1>2. list[1] \in Range(list)
  BY <1>1 DEF Range
<1>3. Range(list) \subseteq Employers
  BY <1>1 DEF Range
<1>4. QED
  BY <1>2, <1>3 DEF employer

LEMMA AtWork ==
  ASSUME Shape, Guarded, Loaded, route # "onboarding"
  PROVE  list # << >> /\ employer \in Range(list) /\ employer \in Employers
BY EmployerListed DEF Guarded

LEMMA EmployersInOrder ==
  ASSUME NEW S \in SUBSET Employers
  PROVE  SetToSeq(S) \in Seq(Employers)
<1>1. IsFiniteSet(S)
  BY DeskAssumption, FS_Subset
<1>2. /\ Cardinality(S) \in Nat
      /\ ExistsBijection(1 .. Cardinality(S), S)
  BY <1>1, FS_CardinalityType
<1>3. \E f \in [1 .. Cardinality(S) -> S] : IsInjective(f)
  BY <1>2 DEF ExistsBijection, Bijection, Injection
<1>4. SetToSeq(S) \in [1 .. Cardinality(S) -> S]
  BY <1>3 DEF SetToSeq
<1>5. QED
  BY <1>2, <1>4
-----------------------------------------------------------------------------
(* Writes *)

LEMMA ChangedWrite ==
  ASSUME NEW w, IsWrite(w), NEW v
  PROVE  /\ IsWrite([w EXCEPT !.cell = v])
         /\ [w EXCEPT !.cell = v].of = w.of /\ [w EXCEPT !.cell = v].live = w.live
         /\ [w EXCEPT !.cell = v].kind = w.kind
BY DEF IsWrite, HasFields

LEMMA SparedWrite ==
  ASSUME NEW w, IsWrite(w), NEW v
  PROVE  /\ IsWrite([w EXCEPT !.spared = v])
         /\ [w EXCEPT !.spared = v].of = w.of /\ [w EXCEPT !.spared = v].live = w.live
         /\ [w EXCEPT !.spared = v].kind = w.kind
BY DEF IsWrite, HasFields

LEMMA AnsweredWrite ==
  ASSUME NEW w, IsWrite(w), NEW u, NEW v, u = "ok" /\ w.kind = "invite" => v \in Row
  PROVE  LET a == [w EXCEPT !.reply = u, !.answer = v]
         IN  IsWrite(a) /\ a.of = w.of /\ a.live = w.live /\ a.kind = w.kind
<1> DEFINE x == [w EXCEPT !.reply = u]
           a == [w EXCEPT !.reply = u, !.answer = v]
<1>1. /\ HasFields(x) /\ x.kind = w.kind /\ x.of = w.of /\ x.row = w.row
      /\ x.value = w.value /\ x.over = w.over /\ x.live = w.live /\ x.reply = u
  BY DEF IsWrite, HasFields
<1> HIDE DEF x
<1>2. LET y == [x EXCEPT !.answer = v]
      IN  /\ HasFields(y) /\ y.kind = x.kind /\ y.of = x.of /\ y.row = x.row
          /\ y.value = x.value /\ y.over = x.over /\ y.live = x.live /\ y.reply = x.reply
          /\ y.answer = v
  BY <1>1 DEF HasFields
<1>3. a = [x EXCEPT !.answer = v]
  BY DEF x
<1> HIDE DEF a
<1>4. /\ HasFields(a) /\ a.kind = w.kind /\ a.of = w.of /\ a.row = w.row
      /\ a.value = w.value /\ a.over = w.over /\ a.live = w.live /\ a.reply = u
      /\ a.answer = v
  BY <1>1, <1>2, <1>3
<1>5. IsWrite(a) /\ a.of = w.of /\ a.live = w.live /\ a.kind = w.kind
  BY <1>4 DEF IsWrite
<1>6. QED
  BY <1>5 DEF a

LEMMA OrphanedWrite ==
  ASSUME NEW w, IsWrite(w)
  PROVE  /\ IsWrite([w EXCEPT !.live = FALSE, !.cell = FALSE])
         /\ ~[w EXCEPT !.live = FALSE, !.cell = FALSE].live
<1> DEFINE x == [w EXCEPT !.live = FALSE]
<1>1. \A v : IsWrite([w EXCEPT !.live = v]) /\ [w EXCEPT !.live = v].live = v
  BY DEF IsWrite, HasFields
<1>2. IsWrite(x) /\ ~x.live
  BY <1>1
<1> HIDE DEF x
<1>3. IsWrite([x EXCEPT !.cell = FALSE]) /\ [x EXCEPT !.cell = FALSE].live = x.live
  BY <1>2, ChangedWrite
<1>4. [w EXCEPT !.live = FALSE, !.cell = FALSE] = [x EXCEPT !.cell = FALSE]
  BY DEF x
<1>5. QED
  BY <1>2, <1>3, <1>4

\* A page that is left has no say over the writes it sent.
LEMMA AllOrphaned ==
  ASSUME Shape, Unmounts
  PROVE  \A w \in writes' : IsWrite(w) /\ ~w.live
<1>1. \A w \in writes : IsWrite(w)
  BY DEF Shape
<1>2. writes' = {[w EXCEPT !.live = FALSE, !.cell = FALSE] : w \in writes}
  BY DEF Unmounts, Orphaned
<1>3. QED
  BY <1>1, <1>2, OrphanedWrite
-----------------------------------------------------------------------------
(* The layout *)

\* What a fresh page holds: its own request, and nothing of another.
LEMMA FreshPage ==
  ASSUME Shape, NEW e \in Employers, NEW r, Mounts(e, r)
  PROVE  /\ r = "onboarding" => fetch' = None
         /\ r # "onboarding" => fetch' = [of |-> e, answer |-> None]
         /\ report' = None /\ settled' = None /\ roster' = None
         /\ \A w \in writes' : IsWrite(w) /\ ~w.live
<1>1. Unmounts
  BY DEF Mounts
<1>2. QED
  BY <1>1, AllOrphaned DEF Mounts, Unmounts, Asked

LEMMA FreshPageInv ==
  ASSUME IndInv, NEW e \in Employers, Mounts(e, route'), UNCHANGED <<tips, members, since>>,
         range' \in Ranges, owned' \in Seq(Employers), list' \in Seq(Employers),
         Loaded', list' # << >>, employer' = e, creating' = "served" => owned' # << >>
  PROVE  IndInv'
<1>1. Shape
  BY DEF IndInv
<1>2. /\ route' = "onboarding" => fetch' = None
      /\ route' # "onboarding" => fetch' = [of |-> e, answer |-> None]
      /\ report' = None /\ settled' = None /\ roster' = None
      /\ \A w \in writes' : IsWrite(w) /\ ~w.live
  BY <1>1, FreshPage
<1>3. fetch' # None => /\ fetch'.of = e /\ fetch'.answer = None
                       /\ fetch' = [of |-> fetch'.of, answer |-> fetch'.answer]
  BY <1>2
<1>4. Shape'
  BY <1>1, <1>2, <1>3 DEF Shape
<1>5. Guarded'
  BY DEF Guarded
<1>6. Mounted'
  BY <1>2 DEF Mounted
<1>7. NothingCrossesEmployers'
  BY <1>2, <1>3 DEF NothingCrossesEmployers
<1>8. Sound'
  BY <1>2, <1>3 DEF IndInv, Sound, Current
<1>9. QED
  BY <1>4, <1>5, <1>6, <1>7, <1>8 DEF IndInv

\* The app that is not loaded, or has no employer to work for, shows no data.
LEMMA NoPageInv ==
  ASSUME IndInv, UNCHANGED <<tips, members, since, range>>,
         owned' \in Seq(Employers), Loaded' => list' \in Seq(Employers), Guarded',
         ~Loaded' \/ list' = << >>, fetch' = None, roster' = None,
         (report' = None /\ settled' = None) \/ UNCHANGED <<report, failed, settled>>,
         \A w \in writes' : IsWrite(w) /\ ~w.live
  PROVE  IndInv'
<1>1. Shape'
  BY DEF IndInv, Shape
<1>2. Mounted'
  BY DEF Mounted
<1>3. NothingCrossesEmployers'
  BY DEF NothingCrossesEmployers
<1>4. Sound'
  BY DEF IndInv, Sound, Current
<1>5. QED
  BY <1>1, <1>2, <1>3, <1>4 DEF IndInv

LEMMA Unloaded ==
  ASSUME IndInv, ~Loaded
  PROVE  /\ creating \notin {"sent", "served"}
         /\ fetch = None /\ roster = None
         /\ \A w \in writes : IsWrite(w) /\ ~w.live
BY DEF IndInv, Shape, Guarded, Mounted

\* A step of the onboarding form, or a choice of what is chosen already.
LEMMA SamePageInv ==
  ASSUME IndInv, UNCHANGED <<tips, members, since, range, route, page, writes, list, employer>>,
         owned' \in Seq(Employers), Guarded'
  PROVE  IndInv'
<1>1. UNCHANGED <<fetch, report, failed, settled, roster>>
  BY DEF page, table, people
<1>2. Shape'
  BY <1>1 DEF IndInv, Shape, Loaded
<1>3. Mounted'
  BY <1>1 DEF IndInv, Mounted, Loaded
<1>4. NothingCrossesEmployers'
  BY <1>1 DEF IndInv, NothingCrossesEmployers, Loaded
<1>5. Sound'
  BY <1>1 DEF IndInv, Sound, Current
<1>6. QED
  BY <1>2, <1>3, <1>4, <1>5 DEF IndInv

LEMMA LayoutInv == IndInv /\ Layout => IndInv'
<1> SUFFICES ASSUME IndInv, Layout PROVE IndInv'
  OBVIOUS
<1>0. /\ owned \in Seq(Employers) /\ (Loaded => list \in Seq(Employers)) /\ range \in Ranges
      /\ Week \in Ranges /\ None \notin Seq(Employers) /\ Failed \notin Seq(Employers)
      /\ Shape /\ Guarded
  BY DeskAssumption DEF IndInv, Shape
<1>1. CASE ListLoaded
  <2>1. /\ list = None /\ list' = owned
        /\ UNCHANGED <<tips, members, since, range, owned, selected, creating>>
    BY <1>1 DEF ListLoaded, server
  <2>2. ~Loaded
    BY <2>1 DEF Loaded
  <2>3. CASE owned = << >>
    <3>1. route' = "onboarding" /\ UNCHANGED <<page, writes>>
      BY <1>1, <2>3 DEF ListLoaded
    <3>2. Guarded'
      BY <2>1, <2>2, <3>1, Unloaded DEF Guarded
    <3>3. QED
      BY <1>0, <2>1, <2>2, <2>3, <3>1, <3>2, Unloaded, NoPageInv DEF page, table, people
  <2>4. CASE owned # << >>
    <3> DEFINE e == IF selected \in Range(owned) THEN selected ELSE owned[1]
    <3>1. Mounts(e, route') /\ route' = route
      BY <1>1, <2>4 DEF ListLoaded
    <3>2. employer' = e
      BY <2>1 DEF employer
    <3>3. e \in Employers
      BY <1>0, <2>4 DEF Range
    <3>4. Loaded'
      BY <1>0, <2>1 DEF Loaded
    <3>5. QED
      BY <1>0, <2>1, <2>2, <2>4, <3>1, <3>2, <3>3, <3>4, Unloaded, FreshPageInv
  <2>5. QED
    BY <2>3, <2>4
<1>2. CASE ListFails
  <2>1. /\ ~Loaded /\ ~Loaded'
        /\ UNCHANGED <<tips, members, since, range, owned, creating, route, page, writes>>
    BY <1>2 DEF ListFails, Loaded, server, url
  <2>2. Guarded'
    BY <2>1, Unloaded DEF Guarded
  <2>3. QED
    BY <1>0, <2>1, <2>2, Unloaded, NoPageInv DEF page, table, people
<1>3. CASE ListRetry
  <2>1. /\ ~Loaded /\ ~Loaded'
        /\ UNCHANGED <<tips, members, since, range, owned, creating, route, page, writes>>
    BY <1>3 DEF ListRetry, Loaded, server, url
  <2>2. Guarded'
    BY <2>1, Unloaded DEF Guarded
  <2>3. QED
    BY <1>0, <2>1, <2>2, Unloaded, NoPageInv DEF page, table, people
<1>4. CASE Reload
  <2>1. /\ list' = None /\ fetch' = None /\ Unmounts /\ creating' \in {"no", "orphan"}
        /\ UNCHANGED <<tips, members, since, range, owned, route>>
    BY <1>4 DEF Reload, server, url
  <2>2. ~Loaded' /\ Guarded'
    BY <2>1 DEF Loaded, Guarded
  <2>3. report' = None /\ settled' = None /\ roster' = None
    BY <2>1 DEF Unmounts
  <2>4. QED
    BY <1>0, <2>1, <2>2, <2>3, AllOrphaned, NoPageInv
<1>5. ASSUME NEW e \in Employers, setEmployerId(e) PROVE IndInv'
  <2>1. /\ Loaded /\ route # "onboarding" /\ e \in Range(list) /\ selected' = e
        /\ UNCHANGED <<tips, members, since, range, owned, list, route, creating>>
    BY <1>5 DEF setEmployerId, server, url
  <2>2. Loaded' /\ Guarded' /\ employer' = e /\ list # << >>
    BY <1>0, <2>1 DEF Loaded, Guarded, employer
  <2>3. CASE e = employer
    BY <1>0, <1>5, <2>1, <2>2, <2>3, SamePageInv DEF setEmployerId
  <2>4. CASE e # employer
    <3>1. Mounts(e, route')
      BY <1>5, <2>1, <2>4 DEF setEmployerId, Switches
    <3>2. QED
      BY <1>0, <2>1, <2>2, <3>1, FreshPageInv DEF Guarded
  <2>5. QED
    BY <2>3, <2>4
<1>6. ASSUME NEW r \in Routes, Navigate(r) PROVE IndInv'
  <2>1. /\ Loaded /\ list # << >> /\ range' = Week /\ route' = r /\ Mounts(employer, route')
        /\ UNCHANGED <<tips, members, since, owned, list, selected, creating>>
    BY <1>6 DEF Navigate, server, layout
  <2>2. Loaded' /\ employer' = employer /\ employer \in Employers
    BY <1>0, <2>1, EmployerListed DEF Loaded, employer
  <2>3. QED
    BY <1>0, <2>1, <2>2, FreshPageInv DEF Guarded
<1>7. CASE Create
  <2>1. /\ Loaded /\ creating' = "sent"
        /\ UNCHANGED <<tips, members, since, range, owned, list, selected, route, page, writes>>
    BY <1>7 DEF Create, server, url
  <2>2. QED
    BY <1>0, <2>1, SamePageInv DEF Guarded, employer, Loaded
<1>8. CASE CreateServed
  <2>1. /\ creating \in {"sent", "orphan"}
        /\ creating' = IF creating = "sent" THEN "served" ELSE "no"
        /\ UNCHANGED <<tips, members, since, range, list, selected, route, page, writes>>
    BY <1>8 DEF CreateServed, url
  <2>2. PICK e \in Employers : owned' = Append(owned, e)
    BY <1>8 DEF CreateServed
  <2>3. owned' \in Seq(Employers) /\ owned' # << >>
    BY <1>0, <2>2
  <2>4. Guarded'
    BY <1>0, <2>1, <2>3 DEF Guarded, Loaded
  <2>5. QED
    BY <2>1, <2>3, <2>4, SamePageInv DEF employer
<1>9. CASE Created
  <2> DEFINE e == owned[Len(owned)]
  <2>1. /\ creating = "served" /\ creating' = "no" /\ list' = Append(list, e) /\ selected' = e
        /\ Mounts(e, "employees") /\ route' = "employees"
        /\ UNCHANGED <<tips, members, since, range, owned>>
    BY <1>9 DEF Created, Switches, server
  <2>2. Loaded /\ e \in Employers
    BY <1>0, <2>1 DEF Guarded
  <2>3. list' \in Seq(Employers) /\ list' # << >> /\ e \in Range(list')
    <3>1. list' \in Seq(Employers) /\ Len(list') \in DOMAIN list' /\ list'[Len(list')] = e
      BY <1>0, <2>1, <2>2
    <3>2. QED
      BY <3>1 DEF Range
  <2>4. Loaded' /\ employer' = e
    BY <1>0, <2>1, <2>3 DEF Loaded, employer
  <2>5. QED
    BY <1>0, <2>1, <2>2, <2>3, <2>4, FreshPageInv
<1>10. CASE CreateFails
  <2>1. /\ creating' = "no"
        /\ UNCHANGED <<tips, members, since, range, owned, list, selected, route, page, writes>>
    BY <1>10 DEF CreateFails, server, url
  <2>2. QED
    BY <1>0, <2>1, SamePageInv DEF Guarded, employer, Loaded
<1>11. QED
  BY <1>1, <1>2, <1>3, <1>4, <1>5, <1>6, <1>7, <1>8, <1>9, <1>10 DEF Layout
-----------------------------------------------------------------------------
(* The pages *)

\* Who works where: no page touches it.
Home == UNCHANGED <<owned, list, selected, creating, route>>

LEMMA AtHome ==
  ASSUME IndInv, Home
  PROVE  Guarded' /\ Loaded' = Loaded /\ employer' = employer
BY DEF IndInv, Home, Guarded, Loaded, employer

LEMMA GetServedInv == ASSUME IndInv, GetServed PROVE IndInv'
<1>1. /\ Home /\ fetch # None
      /\ UNCHANGED <<tips, members, since, range, report, failed, settled, roster, writes>>
      /\ fetch' = [fetch EXCEPT !.answer =
           IF route = "table" THEN [d \in range |-> tips[fetch.of][d]] ELSE members[fetch.of]]
  BY Zenon DEF GetServed, Home, server, layout, url, table, people
<1>2. /\ fetch = [of |-> fetch.of, answer |-> fetch.answer] /\ fetch.of \in Employers
      /\ range \subseteq Days
  BY <1>1, DeskAssumption DEF IndInv, Shape
<1>3. fetch' = [of |-> fetch.of, answer |->
           IF route = "table" THEN [d \in range |-> tips[fetch.of][d]] ELSE members[fetch.of]]
  BY <1>1, <1>2
<1>4. Shape'
  BY <1>1, <1>2, <1>3, AtHome DEF IndInv, Shape, Home
<1>5. Mounted'
  BY <1>1, AtHome DEF IndInv, Mounted, Home
<1>6. NothingCrossesEmployers'
  BY <1>1, <1>3, AtHome DEF IndInv, NothingCrossesEmployers, Home
<1>7. Sound'
  <2>1. route = "table" => Current(fetch'.answer, range, fetch.of)
    BY <1>2, <1>3 DEF IndInv, Sound, Current
  <2>2. QED
    BY <1>1, <1>3, <2>1 DEF IndInv, Sound, Current, Home
<1>8. QED
  BY <1>1, <1>4, <1>5, <1>6, <1>7, AtHome DEF IndInv

LEMMA ReportLoadedInv == ASSUME IndInv, ReportLoaded PROVE IndInv'
<1>1. /\ Home /\ route = "table" /\ fetch # None /\ fetch.answer # None /\ fetch' = None
      /\ report' = [of |-> fetch.of, range |-> range, pools |-> fetch.answer]
      /\ settled' = range
      /\ UNCHANGED <<tips, members, since, range, failed, roster, writes>>
  BY Zenon DEF ReportLoaded, Home, server, layout, url, people
<1>2. /\ fetch.of \in Employers /\ range \in Ranges
      /\ report'.of = fetch.of /\ report'.range = range /\ report'.pools = fetch.answer
  BY <1>1 DEF IndInv, Shape
<1>3. Shape'
  BY <1>1, <1>2, AtHome DEF IndInv, Shape, Home
<1>4. Mounted'
  BY <1>1, AtHome DEF IndInv, Mounted, Home
<1>5. NothingCrossesEmployers'
  BY <1>1, <1>2, AtHome DEF IndInv, NothingCrossesEmployers, Home
<1>6. Sound'
  <2>1. Current(report'.pools, settled', report'.of)
    BY <1>1, <1>2 DEF IndInv, Sound
  <2>2. QED
    BY <1>1, <1>2, <2>1 DEF IndInv, Sound, Current, Home
<1>7. QED
  BY <1>1, <1>3, <1>4, <1>5, <1>6, AtHome DEF IndInv

LEMMA ReportFailsInv == ASSUME IndInv, ReportFails PROVE IndInv'
<1>1. /\ Home /\ fetch' = None /\ failed' = range /\ settled' = range
      /\ UNCHANGED <<tips, members, since, range, report, roster, writes>>
  BY Zenon DEF ReportFails, Home, server, layout, url, people
<1>2. Shape'
  BY <1>1, AtHome DEF IndInv, Shape, Home
<1>3. Mounted'
  BY <1>1, AtHome DEF IndInv, Mounted, Home
<1>4. NothingCrossesEmployers'
  BY <1>1, AtHome DEF IndInv, NothingCrossesEmployers, Home
<1>5. Sound'
  BY <1>1 DEF IndInv, Sound, Current, Home
<1>6. QED
  BY <1>1, <1>2, <1>3, <1>4, <1>5, AtHome DEF IndInv

LEMMA RosterLoadedInv == ASSUME IndInv, RosterLoaded PROVE IndInv'
<1>1. /\ Home /\ route = "employees" /\ fetch # None /\ fetch.answer # None /\ fetch' = None
      /\ roster' = [of |-> fetch.of, rows |-> fetch.answer]
      /\ UNCHANGED <<tips, members, since, range, report, failed, settled, writes>>
  BY Zenon DEF RosterLoaded, Home, server, layout, url, table
<1>2. fetch.of \in Employers /\ fetch.answer \in Rows /\ roster'.of = fetch.of
  BY <1>1 DEF IndInv, Shape
<1>3. Loaded /\ roster \in {None, Failed}
  BY <1>1 DEF IndInv, Mounted
<1>4. Shape'
  BY <1>1, <1>2, AtHome DEF IndInv, Shape, Home
<1>5. Mounted'
  BY <1>1, <1>3, AtHome DEF IndInv, Mounted, Home
<1>6. NothingCrossesEmployers'
  BY <1>1, <1>2, AtHome DEF IndInv, NothingCrossesEmployers, Home
<1>7. Sound'
  BY <1>1 DEF IndInv, Sound, Current, Home
<1>8. QED
  BY <1>1, <1>4, <1>5, <1>6, <1>7, AtHome DEF IndInv

LEMMA RosterFailsInv == ASSUME IndInv, RosterFails PROVE IndInv'
<1>1. /\ Home /\ route = "employees" /\ fetch # None /\ fetch' = None /\ roster' = Failed
      /\ UNCHANGED <<tips, members, since, range, report, failed, settled, writes>>
  BY Zenon DEF RosterFails, Home, server, layout, url, table
<1>2. Loaded /\ roster \in {None, Failed}
  BY <1>1 DEF IndInv, Mounted
<1>3. Shape'
  BY <1>1, AtHome DEF IndInv, Shape, Home
<1>4. Mounted'
  BY <1>1, <1>2, AtHome DEF IndInv, Mounted, Home
<1>5. NothingCrossesEmployers'
  BY <1>1, AtHome DEF IndInv, NothingCrossesEmployers, Home
<1>6. Sound'
  BY <1>1 DEF IndInv, Sound, Current, Home
<1>7. QED
  BY <1>1, <1>3, <1>4, <1>5, <1>6, AtHome DEF IndInv

\* A page that asks again, for the employer it was asking for.
LEMMA AskedInv ==
  ASSUME IndInv, Home, UNCHANGED <<tips, members, report, since>>, range' \in Ranges,
         Loaded, route # "onboarding", Asked(employer),
         roster \in {None, Failed} /\ roster' \in {None, roster},
         settled' = None \/ UNCHANGED <<settled, failed>>,
         \A w \in writes' : IsWrite(w) /\ \E o \in writes :
           w.of = o.of /\ w.kind = o.kind /\ w.live = o.live
  PROVE  IndInv'
<1>1. fetch' = [of |-> employer, answer |-> None]
  BY DEF Asked
<1>2. fetch'.of = employer /\ fetch'.answer = None /\ employer \in Employers
  BY <1>1, AtWork DEF IndInv
<1>3. Shape'
  BY <1>1, <1>2, AtHome DEF IndInv, Shape, Home
<1>4. Mounted'
  BY AtHome DEF IndInv, Mounted, Home
<1>5. NothingCrossesEmployers'
  BY <1>2, AtHome DEF IndInv, NothingCrossesEmployers, Home
<1>6. Sound'
  BY <1>2 DEF IndInv, Sound, Current, Home
<1>7. QED
  BY <1>3, <1>4, <1>5, <1>6, AtHome DEF IndInv

LEMMA RosterRetryInv == ASSUME IndInv, RosterRetry PROVE IndInv'
<1>1. /\ Home /\ roster = Failed /\ roster' = None /\ Asked(employer)
      /\ UNCHANGED <<tips, members, since, range, report, failed, settled, writes>>
  BY Zenon DEF RosterRetry, Home, server, layout, url, table
<1>2. Loaded /\ route = "employees" /\ range \in Ranges /\ \A w \in writes : IsWrite(w)
  BY <1>1, DeskAssumption DEF IndInv, Shape, Mounted
<1>3. QED
  BY <1>1, <1>2, AskedInv

LEMMA TableRetryInv == ASSUME IndInv, TableRetry PROVE IndInv'
<1>1. /\ Home /\ Loaded /\ route = "table" /\ Asked(employer) /\ settled' = None
      /\ UNCHANGED <<tips, members, since, range, report, roster, writes>>
  BY Zenon DEF TableRetry, reload, Home, server, layout, url, people
<1>2. range \in Ranges /\ roster = None /\ \A w \in writes : IsWrite(w)
  BY <1>1 DEF IndInv, Shape, Mounted
<1>3. QED
  BY <1>1, <1>2, AskedInv

LEMMA PickRangeInv == ASSUME IndInv, NEW g \in Ranges, PickRange(g) PROVE IndInv'
<1>1. /\ Home /\ Loaded /\ route = "table" /\ Asked(employer) /\ range' = g
      /\ writes' = {[w EXCEPT !.cell = FALSE] : w \in writes}
      /\ UNCHANGED <<tips, members, since, report, failed, settled, roster>>
  BY Zenon DEF PickRange, Home, server, layout, people
<1>2. roster = None /\ \A w \in writes : IsWrite(w)
  BY <1>1 DEF IndInv, Shape, Mounted
<1>3. \A w \in writes' : IsWrite(w) /\ \E o \in writes :
        w.of = o.of /\ w.kind = o.kind /\ w.live = o.live
  <2> SUFFICES ASSUME NEW w \in writes'
               PROVE  IsWrite(w) /\ \E o \in writes :
                        w.of = o.of /\ w.kind = o.kind /\ w.live = o.live
    OBVIOUS
  <2>1. PICK o \in writes : w = [o EXCEPT !.cell = FALSE]
    BY <1>1
  <2>2. QED
    BY <1>2, <2>1, ChangedWrite
<1>4. QED
  BY <1>1, <1>2, <1>3, AskedInv

\* The page's own writes.
LEMMA WriteSent ==
  ASSUME IndInv, Home, Loaded, route # "onboarding",
         NEW kind \in {"tip", "rate", "remove", "invite"}, NEW row, NEW value, NEW over,
         kind = "tip" => row \in Days /\ value \in Amounts,
         kind # "tip" => row \in Members,
         kind = "rate" => value \in Amounts /\ over \in Amounts,
         Write(kind, row, value, over)
  PROVE  \A w \in writes' : IsWrite(w) /\ (w \in writes \/ (w.of = employer /\ w.kind = kind))
<1> DEFINE new == [kind |-> kind, of |-> employer, row |-> row, value |-> value, over |-> over,
                   live |-> TRUE, cell |-> TRUE, n |-> made', spared |-> FALSE, reply |-> "",
                   answer |-> None]
<1>1. employer \in Employers
  BY AtWork DEF IndInv
<1>2. writes' = writes \cup {new}
  BY DEF Write
<1>3. IsWrite(new) /\ new.of = employer /\ new.kind = kind
  BY <1>1 DEF IsWrite, HasFields
<1>4. \A w \in writes : IsWrite(w)
  BY DEF IndInv, Shape
<1>5. QED
  BY <1>2, <1>3, <1>4

\* A write that is still answered to this page was sent by it.
BelongsHere(w) ==
  w.live => /\ w.of = employer /\ Loaded
            /\ IF w.kind = "tip" THEN route = "table" ELSE roster \notin {None, Failed}

\* The roster may only get other rows.
RosterKept ==
  \/ roster' = roster
  \/ /\ roster \notin {None, Failed}
     /\ roster' \in [of: Employers, rows: Rows] /\ roster'.of = roster.of

\* A step of a page that leaves its request alone.
LEMMA WritesInv ==
  ASSUME IndInv, Home, UNCHANGED <<range, fetch, report, failed, settled>>,
         tips' \in [Employers -> [Days -> Amounts]], members' \in [Employers -> Rows],
         since' \in [Employers -> [Days -> SUBSET Amounts]],
         \A e \in Employers, d \in Days : since[e][d] \subseteq since'[e][d],
         \A e \in Employers, d \in Days : tips'[e][d] \in since'[e][d],
         RosterKept,
         \A w \in writes' : IsWrite(w) /\ BelongsHere(w)
  PROVE  IndInv'
<1>1. Shape'
  BY AtHome DEF IndInv, Shape, Home, RosterKept
<1>2. Mounted'
  <2>1. roster' \notin {None, Failed} <=> roster \notin {None, Failed}
    BY DeskAssumption DEF RosterKept
  <2>2. roster' # None <=> roster # None
    BY DeskAssumption DEF RosterKept
  <2>3. QED
    BY <2>1, <2>2, AtHome DEF IndInv, Mounted, Home, BelongsHere
<1>3. NothingCrossesEmployers'
  BY DeskAssumption, AtHome
     DEF IndInv, NothingCrossesEmployers, Home, BelongsHere, RosterKept
<1>4. Sound'
  <2>1. settled # None /\ settled # failed => settled \subseteq Days
    BY DeskAssumption DEF IndInv, Shape
  <2>2. range \subseteq Days
    BY DeskAssumption DEF IndInv, Shape
  <2>3. fetch # None => fetch.of \in Employers
    BY DEF IndInv, Shape
  <2>4. QED
    BY <2>1, <2>2, <2>3 DEF IndInv, Sound, Current, Home
<1>5. QED
  BY <1>1, <1>2, <1>3, <1>4, AtHome DEF IndInv

LEMMA ServerTypes ==
  ASSUME IndInv
  PROVE  /\ tips \in [Employers -> [Days -> Amounts]] /\ members \in [Employers -> Rows]
         /\ since \in [Employers -> [Days -> SUBSET Amounts]]
         /\ \A e \in Employers, d \in Days : tips[e][d] \in since[e][d]
         /\ \A w \in writes : IsWrite(w) /\ BelongsHere(w)
<1>1. \A w \in writes : w.live =>
        /\ Loaded
        /\ IF w.kind = "tip" THEN route = "table" ELSE roster \notin {None, Failed}
  BY DEF IndInv, Mounted
<1>2. \A w \in writes : w.live => list # << >> /\ route # "onboarding"
  BY <1>1, AtWork DEF IndInv, Mounted
<1>3. \A w \in writes : w.live => w.of = employer
  BY <1>1, <1>2 DEF IndInv, NothingCrossesEmployers
<1>4. QED
  BY <1>1, <1>3 DEF IndInv, Shape, Sound, Current, BelongsHere

\* The same, of a step that leaves the server alone too.
LEMMA OwnWritesInv ==
  ASSUME IndInv, Home, UNCHANGED <<range, fetch, report, failed, settled>>,
         UNCHANGED <<tips, members, since>>,
         RosterKept,
         \A w \in writes' : IsWrite(w) /\ BelongsHere(w)
  PROVE  IndInv'
<1>1. /\ tips' \in [Employers -> [Days -> Amounts]] /\ members' \in [Employers -> Rows]
      /\ since' \in [Employers -> [Days -> SUBSET Amounts]]
      /\ \A e \in Employers, d \in Days : since[e][d] \subseteq since'[e][d]
      /\ \A e \in Employers, d \in Days : tips'[e][d] \in since'[e][d]
  BY ServerTypes
<1>2. QED
  BY <1>1, WritesInv

LEMMA PatchedRow ==
  ASSUME Shape, roster \notin {None, Failed}, NEW r \in Members, NEW row \in Row, Patched(r, row)
  PROVE  roster' \in [of: Employers, rows: Rows] /\ roster'.of = roster.of
BY DEF Shape, Patched, Rows

LEMMA CommitTipInv ==
  ASSUME IndInv, NEW d \in Days, NEW v \in Amounts, CommitTip(d, v)
  PROVE  IndInv'
<1>1. /\ Home /\ Loaded /\ route = "table" /\ Write("tip", d, v, report.pools[d])
      /\ UNCHANGED <<tips, members, since, range, fetch, report, failed, settled, roster>>
  BY Zenon DEF CommitTip, Home, server, layout, url, page, table, people
<1>2. \A w \in writes' : IsWrite(w) /\ BelongsHere(w)
  BY <1>1, WriteSent, ServerTypes DEF BelongsHere
<1>3. RosterKept
  BY <1>1 DEF RosterKept
<1>4. QED
  BY <1>1, <1>2, <1>3, OwnWritesInv

LEMMA RowsAreShown ==
  ASSUME IndInv, RowsShown
  PROVE  Loaded /\ route = "employees" /\ roster \notin {None, Failed} /\ Shape
BY DEF RowsShown, IndInv

LEMMA CommitRateInv ==
  ASSUME IndInv, NEW r \in Members, NEW v \in Amounts, commitRate(r, v)
  PROVE  IndInv'
<1>1. /\ Home /\ RowsShown /\ Patched(r, [roster.rows[r] EXCEPT !.rate = v])
      /\ Write("rate", r, v, roster.rows[r].rate)
      /\ UNCHANGED <<tips, members, since, range, fetch, report, failed, settled>>
  BY Zenon DEF commitRate, Home, server, layout, url, table
<1>2. roster.rows[r] \in Row
  BY <1>1, RowsAreShown DEF Shape, Rows
<1>3. [roster.rows[r] EXCEPT !.rate = v] \in Row /\ roster.rows[r].rate \in Amounts
  BY <1>2 DEF Row
<1>4. \A w \in writes' : IsWrite(w) /\ BelongsHere(w)
  BY <1>1, <1>3, RowsAreShown, WriteSent, ServerTypes DEF BelongsHere
<1>5. roster' \in [of: Employers, rows: Rows] /\ roster'.of = roster.of
  BY <1>1, <1>3, RowsAreShown, PatchedRow
<1>6. RosterKept
  BY <1>1, <1>5, RowsAreShown DEF RosterKept
<1>7. QED
  BY <1>1, <1>4, <1>6, OwnWritesInv

LEMMA RemoveMemberInv ==
  ASSUME IndInv, NEW r \in Members, removeMember(r)
  PROVE  IndInv'
<1>1. /\ Home /\ RowsShown /\ Patched(r, [roster.rows[r] EXCEPT !.status = "removed"])
      /\ Write("remove", r, None, None)
      /\ UNCHANGED <<tips, members, since, range, fetch, report, failed, settled>>
  BY Zenon DEF removeMember, Home, server, layout, url, table
<1>2. roster.rows[r] \in Row
  BY <1>1, RowsAreShown DEF Shape, Rows
<1>3. [roster.rows[r] EXCEPT !.status = "removed"] \in Row
  BY <1>2 DEF Row
<1>4. \A w \in writes' : IsWrite(w) /\ BelongsHere(w)
  BY <1>1, RowsAreShown, WriteSent, ServerTypes DEF BelongsHere
<1>5. roster' \in [of: Employers, rows: Rows] /\ roster'.of = roster.of
  BY <1>1, <1>3, RowsAreShown, PatchedRow
<1>6. RosterKept
  BY <1>1, <1>5, RowsAreShown DEF RosterKept
<1>7. QED
  BY <1>1, <1>4, <1>6, OwnWritesInv

LEMMA InviteInv ==
  ASSUME IndInv, NEW r \in Members, invite(r)
  PROVE  IndInv'
<1>1. /\ Home /\ RowsShown /\ Write("invite", r, None, None)
      /\ UNCHANGED <<tips, members, since, range, fetch, report, failed, settled, roster>>
  BY Zenon DEF invite, Home, server, layout, url, table
<1>2. \A w \in writes' : IsWrite(w) /\ BelongsHere(w)
  BY <1>1, RowsAreShown, WriteSent, ServerTypes DEF BelongsHere
<1>3. RosterKept
  BY <1>1 DEF RosterKept
<1>4. QED
  BY <1>1, <1>2, <1>3, OwnWritesInv

\* A row is put back as it was; what another write has put there stays.
LEMMA RolledBackRow ==
  ASSUME NEW w, IsWrite(w), w.kind # "tip", NEW row \in Row
  PROVE  RolledBack(w, row) \in Row
<1>1. CASE w.kind = "rate"
  BY <1>1 DEF RolledBack, Row, IsWrite
<1>2. CASE w.kind = "remove"
  BY <1>2 DEF RolledBack, Row
<1>3. CASE w.kind = "invite"
  BY <1>3 DEF RolledBack
<1>4. QED
  BY <1>1, <1>2, <1>3 DEF IsWrite

LEMMA WriteFailsInv == ASSUME IndInv, NEW w \in writes, WriteFails(w) PROVE IndInv'
<1>1. /\ Home /\ writes' = writes \ {w}
      /\ UNCHANGED <<tips, members, since, range, fetch, report, failed, settled>>
  BY Zenon DEF WriteFails, Home, server, layout, url, table
<1>2. CASE w.live /\ w.kind # "tip"
  <2>1. roster \notin {None, Failed} /\ w.row \in Members
    BY <1>2, ServerTypes DEF IsWrite, BelongsHere
  <2>2. roster.rows[w.row] \in Row
    BY <2>1 DEF IndInv, Shape, Rows
  <2>3. RolledBack(w, roster.rows[w.row]) \in Row
    BY <1>2, <2>2, ServerTypes, RolledBackRow
  <2>4. Patched(w.row, RolledBack(w, roster.rows[w.row]))
    BY <1>2 DEF WriteFails
  <2>5. roster' \in [of: Employers, rows: Rows] /\ roster'.of = roster.of
    BY <2>1, <2>3, <2>4, PatchedRow DEF IndInv
  <2>6. RosterKept
    BY <2>1, <2>5 DEF RosterKept
  <2>7. QED
    BY <1>1, <2>6, ServerTypes, OwnWritesInv
<1>3. CASE ~(w.live /\ w.kind # "tip")
  <2>1. RosterKept
    BY <1>3 DEF WriteFails, people, RosterKept
  <2>2. QED
    BY <1>1, <2>1, ServerTypes, OwnWritesInv
<1>4. QED
  BY <1>2, <1>3

LEMMA WriteDoneInv == ASSUME IndInv, NEW w \in writes, WriteDone(w) PROVE IndInv'
<1>1. /\ Home /\ writes' = Acknowledged(w) /\ w.kind # "tip" /\ w.reply = "ok"
      /\ UNCHANGED <<tips, members, since, range, fetch, report, failed, settled>>
  BY Zenon DEF WriteDone, Home, server, layout, url, table
<1>2. \A x \in writes' : IsWrite(x) /\ \E o \in writes :
        x.of = o.of /\ x.kind = o.kind /\ x.live = o.live
  <2> SUFFICES ASSUME NEW x \in writes'
               PROVE  IsWrite(x) /\ \E o \in writes :
                        x.of = o.of /\ x.kind = o.kind /\ x.live = o.live
    OBVIOUS
  <2>1. PICK o \in writes : x = o \/ x = [o EXCEPT !.spared = TRUE]
    BY <1>1, Zenon DEF Acknowledged
  <2>2. IsWrite(o)
    BY ServerTypes
  <2>3. CASE x = o
    BY <2>2, <2>3
  <2>4. CASE x = [o EXCEPT !.spared = TRUE]
    BY <2>2, <2>4, SparedWrite
  <2>5. QED
    BY <2>1, <2>3, <2>4
<1>3. \A x \in writes' : IsWrite(x) /\ BelongsHere(x)
  BY <1>2, ServerTypes DEF BelongsHere
<1>4. CASE w.live /\ w.kind = "invite"
  <2>1. roster \notin {None, Failed} /\ w.row \in Members /\ w.answer \in Row
    BY <1>1, <1>4, ServerTypes DEF IsWrite, BelongsHere
  <2>2. Patched(w.row, w.answer)
    BY <1>4 DEF WriteDone
  <2>3. roster' \in [of: Employers, rows: Rows] /\ roster'.of = roster.of
    BY <2>1, <2>2, PatchedRow DEF IndInv
  <2>4. RosterKept
    BY <2>1, <2>3 DEF RosterKept
  <2>5. QED
    BY <1>1, <1>3, <2>4, OwnWritesInv
<1>5. CASE ~(w.live /\ w.kind = "invite")
  <2>1. RosterKept
    BY <1>5 DEF WriteDone, RosterKept
  <2>2. QED
    BY <1>1, <1>3, <2>1, OwnWritesInv
<1>6. QED
  BY <1>4, <1>5

LEMMA TipSavedInv == ASSUME IndInv, NEW w \in writes, TipSaved(w) PROVE IndInv'
<1>1. /\ Home /\ w.kind = "tip" /\ writes' = writes \ {w}
      /\ UNCHANGED <<tips, members, range, report, roster>>
  BY Zenon DEF TipSaved, Home, server, layout, url, people
<1>2. \A x \in writes' : IsWrite(x) /\ BelongsHere(x)
  BY <1>1, ServerTypes
<1>3. CASE ~w.live
  <2>1. UNCHANGED <<fetch, failed, settled, since>>
    BY <1>3 DEF TipSaved
  <2>2. RosterKept
    BY <1>1 DEF RosterKept
  <2>3. QED
    BY <1>1, <1>2, <2>1, <2>2, OwnWritesInv
<1>4. CASE w.live
  <2>1. /\ Asked(w.of) /\ settled' = None
        /\ since' = [since EXCEPT ![w.of][w.row] = {tips[w.of][w.row]}]
    BY <1>4, Zenon DEF TipSaved, reload
  <2>2. w.of = employer /\ w.of \in Employers /\ w.row \in Days /\ Loaded /\ route = "table"
    BY <1>1, <1>4, ServerTypes DEF IsWrite, BelongsHere
  <2>3. /\ since' \in [Employers -> [Days -> SUBSET Amounts]]
        /\ \A e \in Employers, d \in Days : tips[e][d] \in since'[e][d]
    BY <2>1, <2>2, ServerTypes
  <2>4. roster = None
    BY <2>2 DEF IndInv, Mounted
  <2>5. /\ fetch' = [of |-> employer, answer |-> None]
        /\ fetch'.of = employer /\ fetch'.answer = None
    BY <2>1, <2>2 DEF Asked
  <2>6. Shape'
    BY <1>1, <1>2, <2>1, <2>2, <2>3, <2>5, AtHome DEF IndInv, Shape, Home
  <2>7. Mounted'
    BY <1>1, <1>2, <2>2, <2>4, AtHome DEF IndInv, Mounted, Home
  <2>8. NothingCrossesEmployers'
    BY <1>1, <1>2, <2>4, <2>5, AtHome DEF IndInv, NothingCrossesEmployers, Home
  <2>9. Sound'
    BY <1>1, <2>1, <2>3, <2>5 DEF IndInv, Sound, Current, Home
  <2>10. QED
    BY <1>1, <2>6, <2>7, <2>8, <2>9, AtHome DEF IndInv
<1>5. QED
  BY <1>3, <1>4

LEMMA AnsweredWrites ==
  ASSUME IndInv, NEW w \in writes, NEW r, NEW a, r = "ok" /\ w.kind = "invite" => a \in Row,
         writes' = (writes \ {w}) \cup {[w EXCEPT !.reply = r, !.answer = a]}
  PROVE  \A x \in writes' : IsWrite(x) /\ BelongsHere(x)
<1> DEFINE y == [w EXCEPT !.reply = r, !.answer = a]
<1>1. IsWrite(w) /\ BelongsHere(w)
  BY ServerTypes
<1>2. IsWrite(y) /\ y.of = w.of /\ y.live = w.live /\ y.kind = w.kind
  BY <1>1, AnsweredWrite
<1>3. writes' = (writes \ {w}) \cup {y}
  OBVIOUS
<1> HIDE DEF y
<1>4. BelongsHere(y)
  BY <1>1, <1>2 DEF BelongsHere
<1>5. QED
  BY <1>2, <1>3, <1>4, ServerTypes

LEMMA WriteServedInv == ASSUME IndInv, NEW w \in writes, WriteServed(w) PROVE IndInv'
<1> DEFINE row == members[w.of][w.row]
           Answered(r, a) == writes' = (writes \ {w}) \cup {[w EXCEPT !.reply = r, !.answer = a]}
           Stored(new) == members' = [members EXCEPT ![w.of][w.row] = new]
<1>1. Home /\ UNCHANGED <<range, fetch, report, failed, settled, roster>>
  BY Zenon DEF WriteServed, Home, layout, url, page, table, people
<1>2. /\ IsWrite(w) /\ w.of \in Employers
      /\ w.kind = "tip" => w.row \in Days /\ w.value \in Amounts
      /\ w.kind # "tip" => w.row \in Members /\ row \in Row
      /\ w.kind = "rate" => w.value \in Amounts
  BY ServerTypes DEF IsWrite, Rows
<1>3. RosterKept
  BY <1>1 DEF RosterKept
<1>4. CASE Answered("refused", None) /\ UNCHANGED <<tips, members, since>>
  <2>1. writes' = (writes \ {w}) \cup {[w EXCEPT !.reply = "refused", !.answer = None]}
    BY <1>4
  <2>2. "refused" = "ok" /\ w.kind = "invite" => None \in Row
    OBVIOUS
  <2>3. \A x \in writes' : IsWrite(x) /\ BelongsHere(x)
    BY <2>1, <2>2, AnsweredWrites
  <2>4. QED
    BY <1>1, <1>3, <1>4, <2>3, OwnWritesInv
<1>5. CASE /\ w.kind = "tip" /\ Answered("ok", None) /\ UNCHANGED members
           /\ tips' = [tips EXCEPT ![w.of][w.row] = w.value]
           /\ since' = [since EXCEPT ![w.of][w.row] = @ \cup {w.value}]
  <2>1. /\ tips' \in [Employers -> [Days -> Amounts]]
        /\ since' \in [Employers -> [Days -> SUBSET Amounts]]
        /\ \A e \in Employers, d \in Days : since[e][d] \subseteq since'[e][d]
        /\ \A e \in Employers, d \in Days : tips'[e][d] \in since'[e][d]
    BY <1>2, <1>5, ServerTypes
  <2>2. \A x \in writes' : IsWrite(x) /\ BelongsHere(x)
    BY <1>5, AnsweredWrites
  <2>3. QED
    BY <1>1, <1>3, <1>5, <2>1, <2>2, ServerTypes, WritesInv
<1>6. CASE /\ w.kind # "tip" /\ UNCHANGED <<tips, since>>
           /\ \E new \in Row : Stored(new)
           /\ \E a : Answered("ok", a) /\ (w.kind = "invite" => a \in Row)
  <2>1. members' \in [Employers -> Rows]
    BY <1>2, <1>6, ServerTypes DEF Rows
  <2>2. \A x \in writes' : IsWrite(x) /\ BelongsHere(x)
    BY <1>6, AnsweredWrites
  <2>3. /\ tips' \in [Employers -> [Days -> Amounts]]
        /\ since' \in [Employers -> [Days -> SUBSET Amounts]]
        /\ \A e \in Employers, d \in Days : since[e][d] \subseteq since'[e][d]
        /\ \A e \in Employers, d \in Days : tips'[e][d] \in since'[e][d]
    BY <1>6, ServerTypes
  <2>4. QED
    BY <1>1, <1>3, <2>1, <2>2, <2>3, WritesInv
<1>7. CASE /\ w.kind = "rate" /\ Answered("ok", None) /\ UNCHANGED <<tips, since>>
           /\ Stored([row EXCEPT !.rate = w.value])
  <2>1. [row EXCEPT !.rate = w.value] \in Row
    BY <1>2, <1>7 DEF Row
  <2>2. QED
    BY <1>6, <1>7, <2>1
<1>8. CASE /\ w.kind = "remove" /\ Answered("ok", None) /\ UNCHANGED <<tips, since>>
           /\ Stored([row EXCEPT !.status = "removed"])
  <2>1. [row EXCEPT !.status = "removed"] \in Row
    BY <1>2, <1>8 DEF Row
  <2>2. QED
    BY <1>6, <1>8, <2>1
<1>9. CASE /\ w.kind = "invite" /\ Stored([row EXCEPT !.status = "live"])
           /\ Answered("ok", members'[w.of][w.row]) /\ UNCHANGED <<tips, since>>
  <2>1. [row EXCEPT !.status = "live"] \in Row
    BY <1>2, <1>9 DEF Row
  <2>2. members'[w.of][w.row] \in Row
    BY <1>2, <1>9, <2>1, ServerTypes DEF Rows
  <2>3. QED
    BY <1>6, <1>9, <2>1, <2>2
<1>10. QED
  BY <1>4, <1>5, <1>7, <1>8, <1>9 DEF WriteServed

LEMMA PagesInv == IndInv /\ Pages => IndInv'
BY GetServedInv, ReportLoadedInv, ReportFailsInv, RosterLoadedInv, RosterFailsInv,
   RosterRetryInv, PickRangeInv, TableRetryInv, CommitTipInv, RemoveMemberInv, InviteInv,
   CommitRateInv, WriteServedInv, TipSavedInv, WriteDoneInv, WriteFailsInv DEF Pages
-----------------------------------------------------------------------------
(* The invariant *)

LEMMA InitInv == Init => IndInv
<1> SUFFICES ASSUME Init PROVE IndInv
  OBVIOUS
<1>1. given.owned \in SUBSET Employers
  BY DeskAssumption DEF Init, Condition
<1>2. owned \in Seq(Employers)
  BY <1>1, EmployersInOrder DEF Init
<1>3. Shape
  <2>1. [r \in Members |-> [status |-> "live", rate |-> 0]] \in Rows
    BY DeskAssumption DEF Rows, Row
  <2>2. members \in [Employers -> Rows]
    BY <2>1 DEF Init
  <2>3. QED
    BY <1>2, <2>2, DeskAssumption DEF Init, Shape, Loaded
<1>4. Guarded /\ Mounted /\ NothingCrossesEmployers
  BY DEF Init, Guarded, Mounted, NothingCrossesEmployers, Loaded
<1>5. Sound
  BY DEF Init, Sound, Current
<1>6. QED
  BY <1>3, <1>4, <1>5 DEF IndInv

LEMMA StutterInv == IndInv /\ UNCHANGED vars => IndInv'
<1> SUFFICES ASSUME IndInv, UNCHANGED vars PROVE IndInv'
  OBVIOUS
<1>1. /\ UNCHANGED <<tips, members, since, range, route, page, writes, list, owned, creating>>
      /\ employer' = employer
  BY DEF vars, server, layout, url, employer
<1>2. owned' \in Seq(Employers) /\ Guarded'
  BY <1>1 DEF IndInv, Shape, Guarded, Loaded
<1>3. QED
  BY <1>1, <1>2, SamePageInv

LEMMA Invariant == Spec => []IndInv
<1>1. IndInv /\ [Next]_vars => IndInv'
  BY LayoutInv, PagesInv, StutterInv DEF Next
<1>2. QED
  BY <1>1, InitInv, PTL DEF Spec

\* For any employers and any order of answers, nothing of one employer is ever on
\* the page of another, and no write whose answer may still change the page was
\* sent for another employer (AppShell.tsx: writes A's data against B).
THEOREM PagesKeepTheirEmployer == Spec => []NothingCrossesEmployers
<1>1. IndInv => NothingCrossesEmployers
  BY DEF IndInv
<1>2. QED
  BY <1>1, Invariant, PTL

\* Whenever the Export button is enabled, the report behind it was taken after
\* the last save the page was told of (table.tsx: the export waits for it).
THEOREM ExportsAreCurrent == Spec => []ExportHasEverySave
<1>1. IndInv => ExportHasEverySave
  <2> SUFFICES ASSUME IndInv, CanExport
               PROVE  \A d \in range : report.pools[d] \in since[employer][d]
    BY DEF ExportHasEverySave
  <2>1. Loaded /\ route = "table" /\ report # None /\ settled = range /\ failed # range
    BY DEF CanExport, loaded, isFetching, hasFailed
  <2>2. range # None /\ list # << >>
    BY <2>1, DeskAssumption DEF IndInv, Shape, Guarded
  <2>3. report.of = employer
    BY <2>1, <2>2 DEF IndInv, NothingCrossesEmployers
  <2>4. QED
    BY <2>1, <2>2, <2>3 DEF IndInv, Sound, Current
<1>2. QED
  BY <1>1, Invariant, PTL
-----------------------------------------------------------------------------
(* At rest a page shows the server *)

\* A page is not left with writes under way, a row has one write at a time, and
\* every request is answered.
Calm == ~given.leaves /\ ~given.overlap /\ ~given.lost

\* The employer that is being created is not in the list yet.
Unborn ==
  /\ Loaded => Range(list) \subseteq Range(owned)
  /\ creating = "served" => owned[Len(owned)] \notin Range(list)

\* One write per row; what still belongs to no page was sent for another employer.
Alone ==
  /\ \A v, w \in writes : v.row = w.row => v = w
  /\ \A w \in writes : Loaded /\ w.of \in Range(list) /\ (~w.live => w.of # employer)

\* A tip that is stored and will be answered; the page then asks again.
Settling(d) ==
  \E w \in writes : w.live /\ w.kind = "tip" /\ w.row = d /\ w.reply = "ok"
Told(pools, d) == pools[d] = tips[employer][d] \/ Settling(d)

\* An echo has what the server has, as has a report, on its way or shown, but for
\* the days that are settling.
TableTrue ==
  Loaded /\ route = "table" =>
    /\ \A w \in writes : w.live /\ w.reply = "ok" => tips[employer][w.row] = w.value
    /\ \A w \in writes : w.live /\ ~w.cell => saved[w.row] = None
    /\ \A d \in Days : saved[d] # None => saved[d].cents = tips[employer][d] \/ Settling(d)
    /\ fetch # None /\ fetch.answer # None => \A d \in range : Told(fetch.answer, d)
    /\ fetch = None /\ loaded /\ ~hasFailed => \A d \in range : Told(report.pools, d)

\* How a row that is being written is shown, and what the server has for it.
Matches(w, shown, stored) ==
  /\ w.kind # "invite" /\ w.reply = "ok" => shown = stored
  /\ w.kind = "rate" /\ w.reply # "ok" =>
       shown.rate = w.value /\ stored.rate = w.over /\ shown.status = stored.status
  /\ w.kind = "remove" /\ w.reply # "ok" =>
       shown.status = "removed" /\ stored.status = "live" /\ shown.rate = stored.rate
  /\ w.kind = "invite" => (IF w.reply = "ok" THEN w.answer ELSE shown) = stored

\* A row is what the server has, or is being written.
RosterTrue ==
  /\ Loaded /\ route = "employees" /\ fetch # None /\ fetch.answer # None =>
       fetch.answer = members[fetch.of]
  /\ RowsShown => \A r \in Members :
       roster.rows[r] = members[employer][r] \/ \E w \in writes : w.live /\ w.row = r
  /\ RowsShown => \A w \in writes : w.live =>
       Matches(w, roster.rows[w.row], members[employer][w.row])

Truth == DOMAIN saved = Days /\ Unborn /\ (Calm => Alone /\ TableTrue /\ RosterTrue)

\* Two writes that differ in the page's say only.
Alike(x, w) ==
  /\ x.kind = w.kind /\ x.of = w.of /\ x.row = w.row /\ x.value = w.value
  /\ x.over = w.over /\ x.reply = w.reply /\ x.answer = w.answer

LEMMA CellCleared ==
  ASSUME NEW w, IsWrite(w)
  PROVE  LET x == [w EXCEPT !.cell = FALSE] IN Alike(x, w) /\ x.live = w.live /\ x.cell = FALSE
BY DEF IsWrite, HasFields, Alike

\* A write that has its answer.
Answers(y, w, u, v) ==
  /\ y.kind = w.kind /\ y.of = w.of /\ y.row = w.row /\ y.value = w.value
  /\ y.over = w.over /\ y.live = w.live /\ y.cell = w.cell /\ y.reply = u /\ y.answer = v

LEMMA NowAnswered ==
  ASSUME NEW w, IsWrite(w), NEW u, NEW v
  PROVE  Answers([w EXCEPT !.reply = u, !.answer = v], w, u, v)
<1> DEFINE x == [w EXCEPT !.reply = u]
           a == [w EXCEPT !.reply = u, !.answer = v]
<1>1. /\ HasFields(x) /\ x.kind = w.kind /\ x.of = w.of /\ x.row = w.row
      /\ x.value = w.value /\ x.over = w.over /\ x.live = w.live /\ x.cell = w.cell
      /\ x.reply = u
  BY DEF IsWrite, HasFields
<1> HIDE DEF x
<1>2. LET y == [x EXCEPT !.answer = v]
      IN  /\ y.kind = x.kind /\ y.of = x.of /\ y.row = x.row
          /\ y.value = x.value /\ y.over = x.over /\ y.live = x.live /\ y.reply = x.reply
          /\ y.cell = x.cell /\ y.answer = v
  BY <1>1 DEF HasFields
<1>3. a = [x EXCEPT !.answer = v]
  BY DEF x
<1> HIDE DEF a
<1>4. Answers(a, w, u, v)
  BY <1>1, <1>2, <1>3 DEF Answers
<1>5. QED
  BY <1>4 DEF a

LEMMA NotLive ==
  ASSUME NEW w, IsWrite(w), NEW v
  PROVE  LET x == [w EXCEPT !.live = v]
         IN  HasFields(x) /\ x.of = w.of /\ x.row = w.row /\ x.live = v
BY DEF IsWrite, HasFields

LEMMA OrphansAlike ==
  ASSUME IndInv, Unmounts
  PROVE  \A x \in writes' : ~x.live /\ \E w \in writes : x.of = w.of /\ x.row = w.row
                                          /\ x = [w EXCEPT !.live = FALSE, !.cell = FALSE]
<1> SUFFICES ASSUME NEW x \in writes'
             PROVE  ~x.live /\ \E w \in writes : x.of = w.of /\ x.row = w.row
                                          /\ x = [w EXCEPT !.live = FALSE, !.cell = FALSE]
  OBVIOUS
<1>1. PICK w \in writes : x = [w EXCEPT !.live = FALSE, !.cell = FALSE]
  BY DEF Unmounts, Orphaned
<1>2. IsWrite(w)
  BY ServerTypes
<1> DEFINE y == [w EXCEPT !.live = FALSE]
<1>3. HasFields(y) /\ y.of = w.of /\ y.row = w.row /\ y.live = FALSE
  BY <1>2, NotLive
<1> HIDE DEF y
<1>4. LET z == [y EXCEPT !.cell = FALSE] IN z.of = y.of /\ z.row = y.row /\ z.live = y.live
  BY <1>3 DEF HasFields
<1>5. x = [y EXCEPT !.cell = FALSE]
  BY <1>1 DEF y
<1>6. QED
  BY <1>1, <1>3, <1>4, <1>5

\* A fresh page shows nothing that could be untrue.
LEMMA FreshTruth ==
  ASSUME IndInv, NEW e \in Employers, NEW r, Mounts(e, r), UNCHANGED given,
         Unborn', Calm => Alone'
  PROVE  Truth'
<1>1. Shape
  BY DEF IndInv
<1>2. /\ fetch' = None \/ fetch' = [of |-> e, answer |-> None]
      /\ report' = None /\ roster' = None /\ saved' = Blank
  BY DEF Mounts, Asked, Unmounts
<1>3. \A w \in writes' : ~w.live
  BY <1>1, FreshPage
<1>4. fetch' # None => fetch'.answer = None
  BY <1>2
<1>5. DOMAIN saved' = Days /\ \A d \in Days : saved'[d] = None
  BY <1>2 DEF Blank
<1>6. TableTrue'
  BY <1>2, <1>3, <1>4, <1>5 DEF TableTrue, loaded
<1>7. RosterTrue'
  BY <1>2, <1>4 DEF RosterTrue, RowsShown
<1>8. QED
  BY <1>5, <1>6, <1>7 DEF Truth, Calm

\* Not loaded, or without an employer, the app shows no page.
LEMMA NoPageTruth ==
  ASSUME DOMAIN saved' = Days, ~Loaded' \/ route' = "onboarding", Unborn', Calm' => writes' = {}
  PROVE  Truth'
<1>1. Calm' => Alone'
  BY DEF Alone
<1>2. TableTrue' /\ RosterTrue'
  BY DEF TableTrue, RosterTrue, RowsShown
<1>3. QED
  BY <1>1, <1>2 DEF Truth

LEMMA SamePageTruth ==
  ASSUME Truth, UNCHANGED <<given, tips, members, range, route, page, writes, list, employer>>,
         Unborn'
  PROVE  Truth'
<1>1. UNCHANGED <<fetch, report, failed, saved, roster>>
  BY DEF page, table, people
<1>2. Loaded' = Loaded /\ RowsShown' = RowsShown /\ loaded' = loaded /\ hasFailed' = hasFailed
  BY <1>1 DEF Loaded, RowsShown, loaded, hasFailed
<1>3. Calm' = Calm /\ (Alone => Alone')
  BY <1>2 DEF Calm, Alone
<1>4. \A d : Settling(d)' = Settling(d)
  BY DEF Settling
<1>5. \A pools, d : Told(pools, d)' = Told(pools, d)
  BY <1>4 DEF Told
<1>6. TableTrue => TableTrue'
  BY <1>1, <1>2, <1>4, <1>5 DEF TableTrue
<1>7. RosterTrue => RosterTrue'
  BY <1>1, <1>2 DEF RosterTrue, Matches
<1>8. QED
  BY <1>1, <1>3, <1>6, <1>7 DEF Truth

\* The writes of a page that may not be left under way.
LEMMA LeftWithNone ==
  ASSUME IndInv, Calm, MayLeave, Unmounts
  PROVE  writes' = {}
BY OrphansAlike DEF Calm, MayLeave

LEMMA LastOf ==
  ASSUME NEW S, NEW s \in Seq(S), NEW e
  PROVE  /\ Range(Append(s, e)) = Range(s) \cup {e}
         /\ Append(s, e)[Len(Append(s, e))] = e
         /\ s # << >> => s[Len(s)] \in Range(s)
<1>1. DOMAIN Append(s, e) = DOMAIN s \cup {Len(s) + 1} /\ Len(Append(s, e)) = Len(s) + 1
      /\ Append(s, e)[Len(s) + 1] = e /\ \A k \in DOMAIN s : Append(s, e)[k] = s[k]
  OBVIOUS
<1>2. Range(Append(s, e)) = Range(s) \cup {e}
  BY <1>1 DEF Range
<1>3. s # << >> => Len(s) \in DOMAIN s
  OBVIOUS
<1>4. QED
  BY <1>1, <1>2, <1>3 DEF Range

LEMMA CreatedTruth == ASSUME IndInv, Truth, Created PROVE Truth'
<1> DEFINE e == owned[Len(owned)]
<1>1. /\ creating = "served" /\ creating' = "no" /\ list' = Append(list, e) /\ selected' = e
      /\ Mounts(e, "employees") /\ UNCHANGED <<given, owned>>
  BY DEF Created, Switches, server
<1>2. Loaded /\ owned \in Seq(Employers) /\ list \in Seq(Employers) /\ owned # << >>
  BY <1>1 DEF IndInv, Guarded, Shape
<1>3. e \in Range(owned) /\ e \in Employers
  BY <1>2, LastOf
<1>4. Range(list') = Range(list) \cup {e} /\ list' \in Seq(Employers)
  BY <1>1, <1>2, <1>3, LastOf
<1>5. Loaded' /\ employer' = e
  BY <1>1, <1>4, DeskAssumption DEF Loaded, employer
<1>6. Unborn'
  BY <1>1, <1>2, <1>3, <1>4 DEF Truth, Unborn
<1>7. e \notin Range(list)
  BY <1>1 DEF Truth, Unborn
<1>8. Calm => Alone'
  <2> SUFFICES ASSUME Calm PROVE Alone'
    OBVIOUS
  <2>1. Alone
    BY DEF Truth
  <2>2. \A x \in writes' : ~x.live /\ \E w \in writes : x.of = w.of /\ x.row = w.row
                                         /\ x = [w EXCEPT !.live = FALSE, !.cell = FALSE]
    BY <1>1, OrphansAlike DEF Mounts
  <2>3. \A x \in writes' : x.of \in Range(list)
    BY <2>1, <2>2 DEF Alone
  <2>4. ASSUME NEW x \in writes', NEW y \in writes', x.row = y.row PROVE x = y
    <3>1. PICK v \in writes : x.row = v.row /\ x = [v EXCEPT !.live = FALSE, !.cell = FALSE]
      BY <2>2
    <3>2. PICK w \in writes : y.row = w.row /\ y = [w EXCEPT !.live = FALSE, !.cell = FALSE]
      BY <2>2
    <3>3. v = w
      BY <2>1, <2>4, <3>1, <3>2 DEF Alone
    <3>4. QED
      BY <3>1, <3>2, <3>3
  <2>5. QED
    BY <1>4, <1>5, <1>7, <2>2, <2>3, <2>4 DEF Alone
<1>9. QED
  BY <1>1, <1>3, <1>6, <1>8, FreshTruth

LEMMA LayoutTruth == ASSUME IndInv, Truth, Layout PROVE Truth'
<1>0. /\ owned \in Seq(Employers) /\ (Loaded => list \in Seq(Employers))
      /\ None \notin Seq(Employers) /\ Failed \notin Seq(Employers)
      /\ Shape /\ Guarded /\ Unborn /\ DOMAIN saved = Days /\ (Calm => Alone)
  BY DeskAssumption DEF IndInv, Shape, Truth
<1>1. ~Loaded /\ Calm => writes = {}
  BY <1>0 DEF Alone
<1>2. CASE ListLoaded
  <2>1. /\ list = None /\ list' = owned /\ UNCHANGED <<given, owned, creating, selected>>
    BY <1>2 DEF ListLoaded, server
  <2>2. ~Loaded /\ creating # "served"
    BY <2>1, Unloaded DEF Loaded
  <2>3. Unborn'
    BY <2>1, <2>2 DEF Unborn
  <2>4. CASE owned = << >>
    <3>1. route' = "onboarding" /\ UNCHANGED <<saved, writes>>
      BY <1>2, <2>4 DEF ListLoaded, page, table
    <3>2. QED
      BY <1>0, <1>1, <2>1, <2>2, <2>3, <3>1, NoPageTruth DEF Calm
  <2>5. CASE owned # << >>
    <3> DEFINE e == IF selected \in Range(owned) THEN selected ELSE owned[1]
    <3>1. Mounts(e, route)
      BY <1>2, <2>5 DEF ListLoaded
    <3>2. e \in Employers
      BY <1>0, <2>5 DEF Range
    <3>3. Calm => writes' = {}
      BY <1>1, <2>2, <3>1, OrphansAlike DEF Mounts
    <3>4. Calm => Alone'
      BY <3>3 DEF Alone
    <3>5. QED
      BY <2>1, <2>3, <3>1, <3>2, <3>4, FreshTruth
  <2>6. QED
    BY <2>4, <2>5
<1>3. CASE ListFails \/ ListRetry
  <2>1. ~Loaded /\ ~Loaded' /\ UNCHANGED <<given, saved, writes, creating, owned>>
    BY <1>3 DEF ListFails, ListRetry, Loaded, server, page, table
  <2>2. Unborn'
    BY <2>1, Unloaded DEF Unborn
  <2>3. QED
    BY <1>0, <1>1, <2>1, <2>2, NoPageTruth DEF Calm
<1>4. CASE Reload
  <2>1. /\ list' = None /\ MayLeave /\ Unmounts /\ creating' # "served"
        /\ UNCHANGED <<given, owned>>
    BY <1>4 DEF Reload, server
  <2>2. ~Loaded' /\ Unborn'
    BY <2>1 DEF Loaded, Unborn
  <2>3. DOMAIN saved' = Days /\ (Calm => writes' = {})
    BY <2>1, LeftWithNone DEF Unmounts, Blank
  <2>4. QED
    BY <2>1, <2>2, <2>3, NoPageTruth DEF Calm
<1>5. ASSUME NEW e \in Employers, setEmployerId(e) PROVE Truth'
  <2>1. /\ Loaded /\ e \in Range(list) /\ selected' = e /\ MayLeave
        /\ UNCHANGED <<given, tips, members, range, owned, list, route, creating>>
    BY <1>5 DEF setEmployerId, server, url
  <2>2. Unborn'
    BY <1>0, <2>1 DEF Unborn, Loaded
  <2>3. CASE e = employer
    <3>1. employer' = e /\ UNCHANGED <<page, writes>>
      BY <1>5, <2>1, <2>3 DEF setEmployerId, employer
    <3>2. QED
      BY <2>1, <2>2, <2>3, <3>1, SamePageTruth
  <2>4. CASE e # employer
    <3>1. Mounts(e, route)
      BY <1>5, <2>4 DEF setEmployerId, Switches
    <3>2. Calm => Alone'
      BY <2>1, <3>1, LeftWithNone DEF Alone, Mounts
    <3>3. QED
      BY <2>1, <2>2, <3>1, <3>2, FreshTruth
  <2>5. QED
    BY <2>3, <2>4
<1>6. ASSUME NEW r \in Routes, Navigate(r) PROVE Truth'
  <2>1. /\ Loaded /\ list # << >> /\ Mounts(employer, r) /\ MayLeave
        /\ UNCHANGED <<given, owned, list, creating>>
    BY <1>6 DEF Navigate, server, layout
  <2>2. employer \in Employers
    BY <1>0, <2>1, EmployerListed
  <2>3. Unborn'
    BY <1>0, <2>1 DEF Unborn, Loaded
  <2>4. Calm => Alone'
    BY <2>1, LeftWithNone DEF Alone, Mounts
  <2>5. QED
    BY <2>1, <2>2, <2>3, <2>4, FreshTruth
<1>7. CASE Create \/ CreateFails
  <2>1. /\ creating' # "served"
        /\ UNCHANGED <<given, tips, members, range, route, page, writes, list, selected, owned>>
    BY <1>7 DEF Create, CreateFails, server, url
  <2>2. employer' = employer /\ Unborn'
    BY <1>0, <2>1 DEF employer, Unborn, Loaded
  <2>3. QED
    BY <2>1, <2>2, SamePageTruth
<1>8. CASE CreateServed
  <2>1. /\ creating' = IF creating = "sent" THEN "served" ELSE "no"
        /\ UNCHANGED <<given, tips, members, range, route, page, writes, list, selected>>
    BY <1>8 DEF CreateServed, url
  <2>2. PICK e \in Employers \ Range(owned) : owned' = Append(owned, e)
    BY <1>8 DEF CreateServed
  <2>3. Range(owned') = Range(owned) \cup {e} /\ owned'[Len(owned')] = e
    BY <1>0, <2>2, LastOf
  <2>4. creating = "sent" => Loaded
    BY <1>0 DEF Guarded
  <2>5. employer' = employer /\ Unborn'
    BY <1>0, <2>1, <2>2, <2>3, <2>4 DEF employer, Unborn, Loaded
  <2>6. QED
    BY <2>1, <2>5, SamePageTruth
<1>9. QED
  BY <1>2, <1>3, <1>4, <1>5, <1>6, <1>7, <1>8, CreatedTruth DEF Layout

\* What a page's step leaves alone: it is about the page that is mounted.
LEMMA HomeTruth ==
  ASSUME Truth, Home, UNCHANGED given, DOMAIN saved' = Days,
         Calm => Alone' /\ TableTrue' /\ RosterTrue'
  PROVE  Truth'
<1>1. Unborn'
  BY DEF Truth, Unborn, Home, Loaded
<1>2. QED
  BY <1>1 DEF Truth, Calm

LEMMA StillAlone ==
  ASSUME Alone, Home, \A x \in writes' : \E w \in writes : x.row = w.row /\ x.of = w.of
                                                           /\ x.live = w.live,
         \A x, y \in writes' : x.row = y.row => x = y
  PROVE  Alone'
<1>1. Loaded' = Loaded /\ employer' = employer /\ list' = list
  BY DEF Home, Loaded, employer
<1>2. QED
  BY <1>1 DEF Alone

LEMMA FewerAlone ==
  ASSUME Alone, Home, writes' \subseteq writes
  PROVE  Alone'
BY StillAlone DEF Alone

\* Retiring echoes shows no new ones.
LEMMA RetiredEchoes ==
  ASSUME NEW s, NEW pools
  PROVE  /\ DOMAIN Retired(s, pools) = Days
         /\ \A d \in Days : Retired(s, pools)[d] # None => Retired(s, pools)[d] = s[d]
BY DEF Retired

\* The page's employer, of whom its request asks.
LEMMA AskedForHere ==
  ASSUME IndInv, fetch # None
  PROVE  /\ Loaded /\ route # "onboarding" /\ fetch.of = employer /\ employer \in Employers
         /\ fetch = [of |-> employer, answer |-> fetch.answer]
<1>1. Loaded /\ route # "onboarding"
  BY DEF IndInv, Mounted
<1>2. list # << >> /\ employer \in Employers
  BY <1>1, AtWork DEF IndInv
<1>3. QED
  BY <1>1, <1>2 DEF IndInv, NothingCrossesEmployers, Shape

LEMMA GetServedTruth == ASSUME IndInv, Truth, GetServed PROVE Truth'
<1>1. /\ Home /\ fetch # None
      /\ UNCHANGED <<given, tips, members, range, report, failed, saved, roster, writes>>
      /\ fetch' = [fetch EXCEPT !.answer =
           IF route = "table" THEN [d \in range |-> tips[fetch.of][d]] ELSE members[fetch.of]]
  BY Zenon DEF GetServed, Home, server, layout, url, table, people
<1>2. /\ Loaded' = Loaded /\ employer' = employer /\ route' = route /\ hasFailed' = hasFailed
      /\ loaded' = loaded /\ RowsShown' = RowsShown
  BY <1>1 DEF Home, Loaded, employer, hasFailed, loaded, RowsShown
<1>3. /\ fetch = [of |-> employer, answer |-> fetch.answer] /\ fetch.of = employer
      /\ employer \in Employers /\ range \in Ranges
  BY <1>1, AskedForHere DEF IndInv, Shape
<1> DEFINE answer == IF route = "table" THEN [d \in range |-> tips[fetch.of][d]]
                                        ELSE members[fetch.of]
<1>4. fetch' = [of |-> employer, answer |-> answer]
  BY <1>1, <1>3
<1>5. answer \in Pools \cup Rows
  <2>1. /\ tips \in [Employers -> [Days -> Amounts]] /\ members \in [Employers -> Rows]
        /\ range \subseteq Days
    BY <1>3, DeskAssumption DEF IndInv, Shape
  <2>2. [d \in range |-> tips[employer][d]] \in [range -> Amounts]
    BY <1>3, <2>1
  <2>3. [d \in range |-> tips[employer][d]] \in Pools
    BY <1>3, <2>2 DEF Pools
  <2>4. QED
    BY <1>3, <2>1, <2>3
<1>6. fetch' # None /\ fetch'.answer = answer /\ fetch'.of = employer
  BY <1>3, <1>4, <1>5, DeskAssumption
<1>7. /\ route = "table" => \A d \in range : fetch'.answer[d] = tips[employer][d]
      /\ route = "employees" => fetch'.answer = members[employer]
  BY <1>3, <1>6
<1> HIDE DEF answer
<1>8. \A d : Settling(d)' = Settling(d)
  BY <1>1 DEF Settling
<1>9. TableTrue => TableTrue'
  BY <1>1, <1>2, <1>6, <1>7, <1>8 DEF TableTrue, Told
<1>10. RosterTrue => RosterTrue'
  BY <1>1, <1>2, <1>6, <1>7 DEF RosterTrue, Matches
<1>11. Alone => Alone'
  BY <1>1, FewerAlone
<1>12. QED
  BY <1>1, <1>9, <1>10, <1>11, HomeTruth DEF Truth

\* An answer on the table, given or not.
LEMMA ReportTruth == ASSUME IndInv, Truth, ReportLoaded \/ ReportFails PROVE Truth'
<1>1. /\ Home /\ route = "table" /\ fetch # None /\ fetch' = None
      /\ UNCHANGED <<given, tips, members, range, roster, writes>>
      /\ \/ /\ report' = [of |-> fetch.of, range |-> range, pools |-> fetch.answer]
            /\ fetch.answer # None /\ saved' = Retired(saved, fetch.answer)
         \/ failed' = range /\ saved' = saved
  BY Zenon DEF ReportLoaded, ReportFails, Home, server, layout, url, people
<1>2. Loaded' = Loaded /\ employer' = employer /\ route' = "table"
  BY <1>1 DEF Home, Loaded, employer
<1>3. DOMAIN saved' = Days /\ \A d \in Days : saved'[d] # None => saved'[d] = saved[d]
  BY <1>1, RetiredEchoes DEF Truth
<1>4. hasFailed' \/ (fetch.answer # None /\ report'.pools = fetch.answer)
  BY <1>1 DEF hasFailed
<1>5. \A w \in writes : w.live => w.row \in Days
  BY <1>1, ServerTypes DEF IsWrite, BelongsHere, IndInv, Mounted
<1>6. \A d : Settling(d)' = Settling(d)
  BY <1>1 DEF Settling
<1>7. TableTrue => TableTrue'
  BY <1>1, <1>2, <1>3, <1>4, <1>5, <1>6 DEF TableTrue, Told
<1>8. RosterTrue'
  BY <1>1, <1>2 DEF RosterTrue, RowsShown
<1>9. Alone => Alone'
  BY <1>1, FewerAlone
<1>10. QED
  BY <1>1, <1>3, <1>7, <1>8, <1>9, HomeTruth DEF Truth

\* A roster that loads, or fails to, or is asked for again.
LEMMA RosterTruth ==
  ASSUME IndInv, Truth, RosterLoaded \/ RosterFails \/ RosterRetry
  PROVE  Truth'
<1>1. /\ Home /\ UNCHANGED <<given, tips, members, range, report, failed, saved, writes>>
      /\ roster \in {None, Failed} \/ fetch # None
      /\ \/ /\ route = "employees" /\ fetch # None /\ fetch.answer # None
            /\ roster' = [of |-> fetch.of, rows |-> fetch.answer] /\ fetch' = None
         \/ roster' = Failed /\ fetch' = None /\ route = "employees" /\ fetch # None
         \/ roster = Failed /\ roster' = None /\ Asked(employer)
  BY Zenon DEF RosterLoaded, RosterFails, RosterRetry, Home, server, layout, url, table
<1>2. Loaded' = Loaded /\ employer' = employer /\ route' = route /\ route = "employees"
  BY <1>1, DeskAssumption DEF Home, Loaded, employer, IndInv, Mounted
<1>3. roster \in {None, Failed} /\ \A w \in writes : ~w.live
  BY <1>1, <1>2 DEF IndInv, Mounted
<1>4. fetch' # None => fetch'.answer = None
  BY <1>1 DEF Asked
<1>5. RowsShown' => roster'.rows = fetch.answer /\ fetch # None /\ fetch.answer # None /\ Loaded
  BY <1>1, <1>2 DEF RowsShown
<1>6. RosterTrue => RosterTrue'
  <2> SUFFICES ASSUME RosterTrue PROVE RosterTrue'
    OBVIOUS
  <2>1. RowsShown' => roster'.rows = members[employer]
    BY <1>2, <1>5, AskedForHere DEF RosterTrue
  <2>2. QED
    BY <1>1, <1>2, <1>3, <1>4, <2>1 DEF RosterTrue
<1>7. TableTrue'
  BY <1>2 DEF TableTrue
<1>8. Alone => Alone'
  BY <1>1, FewerAlone
<1>9. QED
  BY <1>1, <1>6, <1>7, <1>8, HomeTruth DEF Truth

\* The table asks again.
LEMMA AskedTable ==
  ASSUME NEW e \in Employers, Asked(e)
  PROVE  fetch' # None /\ fetch'.answer = None /\ fetch'.of = e
<1>1. fetch' = [of |-> e, answer |-> None]
  BY DEF Asked
<1>2. fetch' \in [of: Employers, answer: {None} \cup Pools \cup Rows]
  BY <1>1
<1>3. QED
  BY <1>1, <1>2, DeskAssumption

LEMMA TableRetryTruth == ASSUME IndInv, Truth, TableRetry PROVE Truth'
<1>1. /\ Home /\ Loaded /\ route = "table" /\ Asked(employer)
      /\ UNCHANGED <<given, tips, members, range, report, saved, roster, writes>>
  BY Zenon DEF TableRetry, reload, Home, server, layout, url, people
<1>2. fetch' # None /\ fetch'.answer = None
  BY <1>1, AtWork, AskedTable DEF IndInv
<1>3. Loaded' = Loaded /\ employer' = employer /\ route' = "table"
  BY <1>1 DEF Home, Loaded, employer
<1>4. \A d : Settling(d)' = Settling(d)
  BY <1>1 DEF Settling
<1>5. TableTrue => TableTrue'
  BY <1>1, <1>2, <1>3, <1>4 DEF TableTrue
<1>6. RosterTrue'
  BY <1>3 DEF RosterTrue, RowsShown
<1>7. Alone => Alone'
  BY <1>1, FewerAlone
<1>8. QED
  BY <1>1, <1>5, <1>6, <1>7, HomeTruth DEF Truth

LEMMA PickRangeTruth == ASSUME IndInv, Truth, NEW g \in Ranges, PickRange(g) PROVE Truth'
<1>1. /\ Home /\ Loaded /\ route = "table" /\ Asked(employer) /\ saved' = Blank
      /\ writes' = {[w EXCEPT !.cell = FALSE] : w \in writes}
      /\ UNCHANGED <<given, tips, members>>
  BY Zenon DEF PickRange, Home, server, layout
<1>2. fetch' # None /\ fetch'.answer = None
  BY <1>1, AtWork, AskedTable DEF IndInv
<1>3. Loaded' = Loaded /\ employer' = employer /\ route' = "table"
  BY <1>1 DEF Home, Loaded, employer
<1>4. DOMAIN saved' = Days /\ \A d \in Days : saved'[d] = None
  BY <1>1 DEF Blank
<1>5. \A x \in writes' : \E w \in writes :
        x = [w EXCEPT !.cell = FALSE] /\ Alike(x, w) /\ x.live = w.live
  <2> SUFFICES ASSUME NEW x \in writes'
               PROVE  \E w \in writes :
                        x = [w EXCEPT !.cell = FALSE] /\ Alike(x, w) /\ x.live = w.live
    OBVIOUS
  <2>1. PICK w \in writes : x = [w EXCEPT !.cell = FALSE]
    BY <1>1
  <2>2. Alike(x, w) /\ x.live = w.live
    BY <2>1, ServerTypes, CellCleared
  <2>3. QED
    BY <2>1, <2>2
<1>6. \A x \in writes' : x.live => x.row \in Days
  BY <1>1, <1>5, ServerTypes DEF Alike, IsWrite, BelongsHere, IndInv, Mounted
<1>7. TableTrue => TableTrue'
  <2> SUFFICES ASSUME TableTrue PROVE TableTrue'
    OBVIOUS
  <2>1. \A x \in writes' : x.live /\ x.reply = "ok" => tips[employer][x.row] = x.value
    BY <1>1, <1>5 DEF TableTrue, Alike
  <2>2. QED
    BY <1>1, <1>2, <1>3, <1>4, <1>6, <2>1 DEF TableTrue
<1>8. RosterTrue'
  BY <1>3 DEF RosterTrue, RowsShown
<1>9. Alone => Alone'
  <2> SUFFICES ASSUME Alone PROVE Alone'
    OBVIOUS
  <2>1. ASSUME NEW x \in writes', NEW y \in writes', x.row = y.row PROVE x = y
    <3>1. PICK v \in writes : x = [v EXCEPT !.cell = FALSE] /\ Alike(x, v)
      BY <1>5
    <3>2. PICK w \in writes : y = [w EXCEPT !.cell = FALSE] /\ Alike(y, w)
      BY <1>5
    <3>3. v = w
      BY <2>1, <3>1, <3>2 DEF Alone, Alike
    <3>4. QED
      BY <3>1, <3>2, <3>3
  <2>2. \A x \in writes' : \E w \in writes : x.row = w.row /\ x.of = w.of /\ x.live = w.live
    BY <1>5 DEF Alike
  <2>3. QED
    BY <1>1, <2>1, <2>2, StillAlone
<1>10. QED
  BY <1>1, <1>4, <1>7, <1>8, <1>9, HomeTruth DEF Truth

\* A new write, of a row that has none.
Sent(kind, row, value, over) ==
  /\ \A x \in writes' : x \in writes \/
       /\ x.row = row /\ x.kind = kind /\ x.value = value /\ x.over = over
       /\ x.live /\ x.cell /\ x.reply = ""
  /\ \A w \in writes : w \in writes' /\ w.row # row
  /\ \E x \in writes' : x.row = row /\ x.live

LEMMA SentTruth ==
  ASSUME IndInv, Truth, Calm, Home, Loaded, route # "onboarding",
         NEW kind, NEW row, NEW value, NEW over, Free(row), Write(kind, row, value, over)
  PROVE  Alone' /\ Sent(kind, row, value, over)
<1> DEFINE new == [kind |-> kind, of |-> employer, row |-> row, value |-> value, over |-> over,
                   live |-> TRUE, cell |-> TRUE, n |-> made', spared |-> FALSE, reply |-> "",
                   answer |-> None]
<1>1. writes' = writes \cup {new}
  BY DEF Write
<1>2. /\ new.row = row /\ new.kind = kind /\ new.value = value /\ new.over = over
      /\ new.live /\ new.cell /\ new.reply = "" /\ new.of = employer
  OBVIOUS
<1> HIDE DEF new
<1>3. \A w \in writes : w.row # row
  BY DEF Free, Calm
<1>4. employer \in Range(list)
  BY AtWork DEF IndInv
<1>5. Loaded' = Loaded /\ employer' = employer /\ list' = list
  BY DEF Home, Loaded, employer
<1>6. Alone'
  BY <1>1, <1>2, <1>3, <1>4, <1>5 DEF Alone, Truth
<1>7. QED
  BY <1>1, <1>2, <1>3, <1>6 DEF Sent

LEMMA CommitTipTruth ==
  ASSUME IndInv, Truth, NEW d \in Days, NEW v \in Amounts, CommitTip(d, v)
  PROVE  Truth'
<1>1. /\ Home /\ Loaded /\ route = "table" /\ Free(d) /\ Write("tip", d, v, report.pools[d])
      /\ UNCHANGED <<given, tips, members, range, fetch, report, failed, saved, roster>>
  BY Zenon DEF CommitTip, Home, server, layout, url, page, table, people
<1>2. /\ Loaded' = Loaded /\ employer' = employer /\ route' = "table" /\ hasFailed' = hasFailed
      /\ loaded' = loaded
  BY <1>1 DEF Home, Loaded, employer, hasFailed, loaded
<1>3. Calm => Alone' /\ TableTrue'
  <2> SUFFICES ASSUME Calm PROVE Alone' /\ TableTrue'
    OBVIOUS
  <2>0. Alone' /\ Sent("tip", d, v, report.pools[d])
    BY <1>1, SentTruth
  <2>1. /\ Alone'
        /\ \A x \in writes' : x \in writes \/ (x.live /\ x.cell /\ x.reply = "")
        /\ \A w \in writes : w \in writes'
    BY <2>0 DEF Sent
  <2>2. \A c : Settling(c) => Settling(c)'
    BY <2>1 DEF Settling
  <2>3. TableTrue'
    BY <1>1, <1>2, <2>1, <2>2 DEF TableTrue, Told, Truth
  <2>4. QED
    BY <2>1, <2>3
<1>4. RosterTrue'
  BY <1>2 DEF RosterTrue, RowsShown
<1>5. QED
  BY <1>1, <1>3, <1>4, HomeTruth DEF Truth

\* A page of rows has no say over the figures of a table.
LEMMA NotTheTable ==
  ASSUME IndInv, RowsShown, Home
  PROVE  /\ Loaded /\ route = "employees" /\ roster \notin {None, Failed} /\ fetch = None
         /\ employer \in Employers /\ TableTrue'
         /\ Loaded' = Loaded /\ employer' = employer /\ route' = route
BY AtWork DEF RowsShown, IndInv, Mounted, TableTrue, Home, Loaded, employer

\* A row that is patched, and the others.
LEMMA PatchedRows ==
  ASSUME IndInv, roster \notin {None, Failed}, NEW r \in Members, NEW row \in Row,
         Patched(r, row)
  PROVE  /\ roster' \notin {None, Failed} /\ roster'.rows[r] = row
         /\ \A q \in Members \ {r} : roster'.rows[q] = roster.rows[q]
<1>1. roster \in [of: Employers, rows: Rows]
  BY DEF IndInv, Shape
<1>2. roster' = [roster EXCEPT !.rows[r] = row]
  BY DEF Patched
<1>3. roster' \in [of: Employers, rows: Rows]
  BY PatchedRow DEF IndInv
<1>4. QED
  BY <1>1, <1>2, <1>3, DeskAssumption DEF Rows

\* A write of the employees page: the new one matches what it shows, the others are
\* of other rows.
LEMMA SentRows ==
  ASSUME IndInv, Truth, Calm, Home, UNCHANGED <<given, members, fetch>>, RowsShown,
         NEW kind, NEW r \in Members, NEW value, NEW over, Sent(kind, r, value, over),
         roster' = roster \/ (/\ roster' \notin {None, Failed}
                              /\ \A q \in Members \ {r} : roster'.rows[q] = roster.rows[q]),
         \A x : x.kind = kind /\ x.value = value /\ x.over = over /\ x.reply = "" =>
                  Matches(x, roster'.rows[r], members[employer][r])
  PROVE  RosterTrue'
<1>1. /\ Loaded /\ route = "employees" /\ fetch = None
      /\ Loaded' = Loaded /\ employer' = employer /\ route' = route
  BY NotTheTable
<1>2. RosterTrue /\ Alone
  BY DEF Truth
<1>3. /\ \A x \in writes' : x \in writes \/
           /\ x.row = r /\ x.kind = kind /\ x.value = value /\ x.over = over
           /\ x.reply = ""
      /\ \A w \in writes : w \in writes' /\ w.row # r
      /\ \E x \in writes' : x.row = r /\ x.live
  BY DEF Sent
<1>4. \A q \in Members \ {r} : roster'.rows[q] = roster.rows[q]
  OBVIOUS
<1>5. \A w \in writes : w.live => w.row \in Members
  BY <1>1, ServerTypes DEF IsWrite, BelongsHere
<1>6. \A q \in Members : \/ roster'.rows[q] = members[employer][q]
                         \/ \E w \in writes' : w.live /\ w.row = q
  BY <1>2, <1>3, <1>4 DEF RosterTrue
<1>7. ASSUME NEW x \in writes', x.live
      PROVE  Matches(x, roster'.rows[x.row], members[employer][x.row])
  <2>1. CASE x \in writes
    <3>1. x.row \in Members \ {r}
      BY <1>3, <1>5, <1>7, <2>1
    <3>2. QED
      BY <1>2, <1>4, <1>7, <2>1, <3>1 DEF RosterTrue
  <2>2. CASE x \notin writes
    BY <1>3, <2>2
  <2>3. QED
    BY <2>1, <2>2
<1>8. RosterTrue'
  <2>1. \A w \in writes' : w.live => Matches(w, roster'.rows[w.row], members'[employer'][w.row])
    BY <1>1, <1>7
  <2>2. QED
    BY <1>1, <1>6, <2>1 DEF RosterTrue, Matches
<1>9. QED
  BY <1>8

LEMMA CommitRateTruth ==
  ASSUME IndInv, Truth, NEW r \in Members, NEW v \in Amounts, commitRate(r, v)
  PROVE  Truth'
<1> DEFINE shown == roster.rows[r]
           row   == [shown EXCEPT !.rate = v]
<1>1. /\ Home /\ RowsShown /\ Free(r) /\ Patched(r, row) /\ Write("rate", r, v, shown.rate)
      /\ UNCHANGED <<given, members, fetch, saved>>
  BY Zenon DEF commitRate, Home, server, layout, url, table
<1>2. /\ Loaded /\ roster \notin {None, Failed} /\ TableTrue'
      /\ employer \in Employers
  BY <1>1, NotTheTable
<1>3. shown \in Row
  BY <1>2 DEF IndInv, Shape, Rows
<1>4. row \in Row /\ row.rate = v /\ row.status = shown.status
  BY <1>3 DEF Row
<1> HIDE DEF row
<1>5. /\ roster' \notin {None, Failed} /\ roster'.rows[r] = row
      /\ \A q \in Members \ {r} : roster'.rows[q] = roster.rows[q]
  BY <1>1, <1>2, <1>4, PatchedRows
<1>6. Calm => shown = members[employer][r]
  BY <1>1 DEF Truth, RosterTrue, Free, Calm
<1>7. Calm => \A x : x.kind = "rate" /\ x.value = v /\ x.over = shown.rate /\ x.reply = "" =>
                Matches(x, roster'.rows[r], members[employer][r])
  BY <1>4, <1>5, <1>6 DEF Matches
<1>8. route # "onboarding"
  BY <1>1 DEF RowsShown
<1> HIDE DEF shown
<1>9. Calm => Alone' /\ Sent("rate", r, v, shown.rate)
  BY <1>1, <1>2, <1>8, SentTruth
<1>10. Calm => RosterTrue'
  BY <1>1, <1>5, <1>7, <1>9, SentRows
<1>11. QED
  BY <1>1, <1>2, <1>9, <1>10, HomeTruth DEF Truth

LEMMA RemoveMemberTruth ==
  ASSUME IndInv, Truth, NEW r \in Members, removeMember(r)
  PROVE  Truth'
<1> DEFINE shown == roster.rows[r]
           row   == [shown EXCEPT !.status = "removed"]
<1>1. /\ Home /\ RowsShown /\ Free(r) /\ shown.status = "live" /\ Patched(r, row)
      /\ Write("remove", r, None, None)
      /\ UNCHANGED <<given, members, fetch, saved>>
  BY Zenon DEF removeMember, Home, server, layout, url, table
<1>2. /\ Loaded /\ roster \notin {None, Failed} /\ TableTrue'
      /\ employer \in Employers
  BY <1>1, NotTheTable
<1>3. shown \in Row
  BY <1>2 DEF IndInv, Shape, Rows
<1>4. row \in Row /\ row.rate = shown.rate /\ row.status = "removed"
  BY <1>3 DEF Row
<1> HIDE DEF row
<1>5. /\ roster' \notin {None, Failed} /\ roster'.rows[r] = row
      /\ \A q \in Members \ {r} : roster'.rows[q] = roster.rows[q]
  BY <1>1, <1>2, <1>4, PatchedRows
<1>6. Calm => shown = members[employer][r]
  BY <1>1 DEF Truth, RosterTrue, Free, Calm
<1>7. Calm => \A x : x.kind = "remove" /\ x.value = None /\ x.over = None /\ x.reply = "" =>
                Matches(x, roster'.rows[r], members[employer][r])
  BY <1>1, <1>4, <1>5, <1>6 DEF Matches
<1>8. route # "onboarding"
  BY <1>1 DEF RowsShown
<1> HIDE DEF shown
<1>9. Calm => Alone' /\ Sent("remove", r, None, None)
  BY <1>1, <1>2, <1>8, SentTruth
<1>10. Calm => RosterTrue'
  BY <1>1, <1>5, <1>7, <1>9, SentRows
<1>11. QED
  BY <1>1, <1>2, <1>9, <1>10, HomeTruth DEF Truth

LEMMA InviteTruth == ASSUME IndInv, Truth, NEW r \in Members, invite(r) PROVE Truth'
<1>1. /\ Home /\ RowsShown /\ Free(r) /\ Write("invite", r, None, None)
      /\ UNCHANGED <<given, members, fetch, saved, roster>>
  BY Zenon DEF invite, Home, server, layout, url, table
<1>2. TableTrue' /\ employer \in Employers
  BY <1>1, NotTheTable
<1>3. Calm => roster.rows[r] = members[employer][r]
  BY <1>1 DEF Truth, RosterTrue, Free, Calm
<1>4. Calm => \A x : x.kind = "invite" /\ x.value = None /\ x.over = None /\ x.reply = "" =>
                Matches(x, roster'.rows[r], members[employer][r])
  BY <1>1, <1>3 DEF Matches
<1>5. Loaded /\ route # "onboarding"
  BY <1>1 DEF RowsShown
<1>6. Calm => Alone' /\ Sent("invite", r, None, None)
  BY <1>1, <1>5, SentTruth
<1>7. Calm => RosterTrue'
  BY <1>1, <1>4, <1>6, SentRows
<1>8. QED
  BY <1>1, <1>2, <1>6, <1>7, HomeTruth DEF Truth

\* A write that is answered leaves the others of its page where they are.
LEMMA TipSavedTruth == ASSUME IndInv, Truth, NEW w \in writes, TipSaved(w) PROVE Truth'
<1>1. /\ Home /\ w.kind = "tip" /\ w.reply = "ok" /\ writes' = writes \ {w}
      /\ UNCHANGED <<given, tips, members, range, report, roster>>
  BY Zenon DEF TipSaved, Home, server, layout, url, people
<1>2. Loaded' = Loaded /\ employer' = employer /\ route' = route
  BY <1>1 DEF Home, Loaded, employer
<1>3. IsWrite(w) /\ BelongsHere(w) /\ w.row \in Days
  BY <1>1, ServerTypes DEF IsWrite
<1>4. Alone => Alone'
  BY <1>1, FewerAlone
<1>5. CASE ~w.live
  <2>1. UNCHANGED <<fetch, failed, saved>>
    BY <1>5 DEF TipSaved
  <2>2. hasFailed' = hasFailed /\ loaded' = loaded /\ RowsShown' = RowsShown
    BY <1>1, <1>2, <2>1 DEF hasFailed, loaded, RowsShown
  <2>3. \A d : Settling(d) => Settling(d)'
    BY <1>1, <1>5 DEF Settling
  <2>4. TableTrue => TableTrue'
    BY <1>1, <1>2, <2>1, <2>2, <2>3 DEF TableTrue, Told
  <2>5. RosterTrue => RosterTrue'
    BY <1>1, <1>2, <1>5, <2>1, <2>2 DEF RosterTrue, Matches
  <2>6. QED
    BY <1>1, <1>4, <2>1, <2>4, <2>5, HomeTruth DEF Truth
<1>6. CASE w.live
  <2> DEFINE echoed == [saved EXCEPT ![w.row] = [cents |-> w.value, standsFor |-> w.over]]
  <2>1. /\ Asked(w.of)
        /\ saved' = IF w.cell THEN Retired(echoed, report.pools) ELSE saved
    BY <1>6, Zenon DEF TipSaved, reload
  <2>2. w.of = employer /\ w.of \in Employers /\ Loaded /\ route = "table"
    BY <1>1, <1>3, <1>6 DEF BelongsHere, IsWrite
  <2>3. fetch' # None /\ fetch'.answer = None
    BY <2>1, <2>2, AskedTable
  <2>4. DOMAIN saved = Days
    BY DEF Truth
  <2>5. /\ echoed[w.row].cents = w.value
        /\ \A d \in Days : d # w.row => echoed[d] = saved[d]
    BY <1>3, <2>4
  <2> HIDE DEF echoed
  <2>6. /\ DOMAIN saved' = Days
        /\ ~w.cell => saved' = saved
        /\ w.cell /\ saved'[w.row] # None => saved'[w.row].cents = w.value
        /\ \A d \in Days : d # w.row /\ saved'[d] # None => saved'[d] = saved[d]
    BY <1>3, <2>1, <2>4, <2>5, RetiredEchoes
  <2>7. Alone /\ TableTrue => TableTrue'
    <3> SUFFICES ASSUME Alone, TableTrue PROVE TableTrue'
      OBVIOUS
    <3>1. \A x \in writes' : x \in writes /\ x.row # w.row
      BY <1>1 DEF Alone
    <3>2. tips[employer][w.row] = w.value /\ (~w.cell => saved[w.row] = None)
      BY <1>1, <1>6, <2>2 DEF TableTrue
    <3>3. \A d \in Days : d # w.row /\ Settling(d) => Settling(d)'
      BY <1>1 DEF Settling
    <3>4. \A d \in Days : saved'[d] # None => saved'[d].cents = tips[employer][d] \/ Settling(d)'
      <4>1. ASSUME NEW d \in Days, saved'[d] # None
            PROVE  saved'[d].cents = tips[employer][d] \/ Settling(d)'
        <5>1. CASE d = w.row
          BY <2>6, <3>2, <4>1, <5>1
        <5>2. CASE d # w.row
          BY <2>2, <2>6, <3>3, <4>1, <5>2 DEF TableTrue
        <5>3. QED
          BY <5>1, <5>2
      <4>2. QED
        BY <4>1
    <3>5. \A x \in writes' : x.live => x.row \in Days
      BY <2>2, <3>1, ServerTypes DEF IsWrite, BelongsHere, IndInv, Mounted
    <3>6. \A x \in writes' : x.live /\ ~x.cell => saved'[x.row] = None
      BY <2>2, <2>6, <3>1, <3>5 DEF TableTrue
    <3>7. QED
      BY <1>1, <1>2, <2>2, <2>3, <3>1, <3>4, <3>6 DEF TableTrue
  <2>8. RosterTrue'
    BY <1>2, <2>2 DEF RosterTrue, RowsShown
  <2>9. QED
    BY <1>1, <1>4, <2>6, <2>7, <2>8, HomeTruth DEF Truth
<1>7. QED
  BY <1>5, <1>6

\* With one write per row, no older one is there to be spared.
LEMMA NoneSpared ==
  ASSUME Alone, NEW w \in writes
  PROVE  Acknowledged(w) = writes \ {w}
<1> DEFINE Spares(o) == o.kind = "rate" /\ w.kind = "rate" /\ o.of = w.of /\ o.row = w.row
                        /\ o.n < w.n
<1>1. \A o \in writes \ {w} : ~Spares(o)
  BY DEF Alone
<1>2. Acknowledged(w) =
        {IF Spares(o) THEN [o EXCEPT !.spared = TRUE] ELSE o : o \in writes \ {w}}
  BY Zenon DEF Acknowledged
<1> HIDE DEF Spares
<1>3. QED
  BY <1>1, <1>2

\* The answered write is gone, and its row is what the server has.
LEMMA RowSettles ==
  ASSUME IndInv, Truth, Calm, Home, NEW w \in writes, writes' = writes \ {w},
         UNCHANGED <<given, tips, members, range, fetch, report, failed, saved>>,
         w.kind = "tip" => w.reply # "ok",
         \/ roster' = roster /\ (RowsShown /\ w.live =>
                                   roster.rows[w.row] = members[employer][w.row])
         \/ /\ roster \notin {None, Failed} /\ roster' \notin {None, Failed}
            /\ w.row \in Members /\ roster'.rows[w.row] = members[employer][w.row]
            /\ \A q \in Members \ {w.row} : roster'.rows[q] = roster.rows[q]
  PROVE  Truth'
<1>1. Alone /\ TableTrue /\ RosterTrue /\ DOMAIN saved = Days
  BY DEF Truth
<1>2. /\ Loaded' = Loaded /\ employer' = employer /\ route' = route /\ hasFailed' = hasFailed
      /\ loaded' = loaded
  BY DEF Home, Loaded, employer, hasFailed, loaded
<1>3. Alone'
  BY <1>1, FewerAlone
<1>4. TableTrue'
  <2>1. CASE w.live /\ w.kind # "tip"
    <3>1. route = "employees"
      BY <2>1, ServerTypes DEF BelongsHere, IndInv, Mounted
    <3>2. QED
      BY <1>2, <3>1 DEF TableTrue
  <2>2. CASE w.kind = "tip" \/ ~w.live
    <3>1. \A d : Settling(d) => Settling(d)'
      BY <2>2 DEF Settling
    <3>2. QED
      BY <1>1, <1>2, <3>1 DEF TableTrue, Told
  <2>3. QED
    BY <2>1, <2>2
<1>5. RosterTrue'
  <2>1. Loaded' /\ route' = "employees" /\ fetch' # None /\ fetch'.answer # None =>
          fetch'.answer = members'[fetch'.of]
    BY <1>1, <1>2 DEF RosterTrue
  <2>2. CASE ~RowsShown
    <3>1. ~RowsShown'
      BY <1>2, <2>2 DEF RowsShown
    <3>2. QED
      BY <2>1, <3>1 DEF RosterTrue
  <2>3. CASE RowsShown
    <3>1. /\ Loaded /\ route = "employees"
          /\ \A x \in writes' : x \in writes /\ x.row # w.row
      BY <1>1, <2>3 DEF RowsShown, Alone
    <3>2. \A x \in writes : x.live => x.row \in Members
      BY <3>1, ServerTypes DEF IsWrite, BelongsHere
    <3>3. /\ \A q \in Members : q # w.row => roster'.rows[q] = roster.rows[q]
          /\ w.live => roster'.rows[w.row] = members[employer][w.row]
          /\ roster' # roster => w.row \in Members /\ roster'.rows[w.row] = members[employer][w.row]
      BY <2>3
    <3>4. ASSUME NEW r \in Members
          PROVE  roster'.rows[r] = members[employer][r] \/ \E x \in writes' : x.live /\ x.row = r
      <4>1. CASE r = w.row
        <5>1. CASE w.live \/ roster' # roster
          BY <3>3, <4>1, <5>1
        <5>2. CASE ~w.live /\ roster' = roster
          BY <1>1, <2>3, <5>2 DEF RosterTrue
        <5>3. QED
          BY <5>1, <5>2
      <4>2. CASE r # w.row
        BY <1>1, <2>3, <3>3, <4>2 DEF RosterTrue
      <4>3. QED
        BY <4>1, <4>2
    <3>5. ASSUME NEW x \in writes', x.live
          PROVE  Matches(x, roster'.rows[x.row], members[employer][x.row])
      <4>1. x \in writes /\ x.row \in Members /\ x.row # w.row
        BY <3>1, <3>2, <3>5
      <4>2. roster'.rows[x.row] = roster.rows[x.row]
        BY <3>3, <4>1
      <4>3. QED
        BY <1>1, <2>3, <3>5, <4>1, <4>2 DEF RosterTrue
    <3>6. \A x \in writes' : x.live => Matches(x, roster'.rows[x.row], members'[employer'][x.row])
      BY <1>2, <3>5
    <3>7. QED
      BY <1>2, <2>1, <3>4, <3>6 DEF RosterTrue, Matches
  <2>4. QED
    BY <2>2, <2>3
<1>6. QED
  BY <1>1, <1>3, <1>4, <1>5, HomeTruth DEF Truth

LEMMA WriteDoneTruth ==
  ASSUME IndInv, Truth, Calm, NEW w \in writes, WriteDone(w)
  PROVE  Truth'
<1>1. /\ Home /\ w.kind # "tip" /\ w.reply = "ok" /\ writes' = Acknowledged(w)
      /\ UNCHANGED <<given, tips, members, range, fetch, report, failed, saved>>
  BY Zenon DEF WriteDone, Home, server, layout, url, table
<1>2. writes' = writes \ {w}
  BY <1>1, NoneSpared DEF Truth
<1>3. IsWrite(w) /\ BelongsHere(w) /\ w.row \in Members
  BY <1>1, ServerTypes DEF IsWrite
<1>4. RowsShown /\ w.live => Matches(w, roster.rows[w.row], members[employer][w.row])
  BY DEF Truth, RosterTrue
<1>5. CASE w.live /\ w.kind = "invite"
  <2>1. roster \notin {None, Failed} /\ Loaded /\ w.answer \in Row /\ Patched(w.row, w.answer)
    BY <1>1, <1>3, <1>5 DEF BelongsHere, IsWrite, WriteDone
  <2>2. RowsShown
    BY <2>1, DeskAssumption DEF RowsShown, IndInv, Mounted
  <2>3. w.answer = members[employer][w.row]
    BY <1>1, <1>4, <1>5, <2>2 DEF Matches
  <2>4. /\ roster' \notin {None, Failed} /\ roster'.rows[w.row] = w.answer
        /\ \A q \in Members \ {w.row} : roster'.rows[q] = roster.rows[q]
    BY <1>3, <2>1, PatchedRows
  <2>5. QED
    BY <1>1, <1>2, <1>3, <2>1, <2>3, <2>4, RowSettles
<1>6. CASE ~(w.live /\ w.kind = "invite")
  <2>1. roster' = roster
    BY <1>6 DEF WriteDone
  <2>2. RowsShown /\ w.live => roster.rows[w.row] = members[employer][w.row]
    BY <1>1, <1>4, <1>6 DEF Matches
  <2>3. QED
    BY <1>1, <1>2, <2>1, <2>2, RowSettles
<1>7. QED
  BY <1>5, <1>6

\* What is rolled back was not stored.
LEMMA RolledBackIsStored ==
  ASSUME NEW w, w.kind \in {"rate", "remove", "invite"}, NEW shown \in Row, NEW stored \in Row,
         Matches(w, shown, stored), w.reply # "ok"
  PROVE  RolledBack(w, shown) = stored
<1>1. CASE w.kind = "rate"
  <2>1. shown.rate = w.value /\ stored.rate = w.over /\ shown.status = stored.status
    BY <1>1 DEF Matches
  <2>2. RolledBack(w, shown) = [shown EXCEPT !.rate = w.over]
    BY <1>1, <2>1 DEF RolledBack
  <2>3. QED
    BY <2>1, <2>2 DEF Row
<1>2. CASE w.kind = "remove"
  <2>1. stored.status = "live" /\ shown.rate = stored.rate
    BY <1>2 DEF Matches
  <2>2. RolledBack(w, shown) = [shown EXCEPT !.status = "live"]
    BY <1>2 DEF RolledBack
  <2>3. QED
    BY <2>1, <2>2 DEF Row
<1>3. CASE w.kind = "invite"
  <2>1. shown = stored
    BY <1>3 DEF Matches
  <2>2. RolledBack(w, shown) = shown
    BY <1>3 DEF RolledBack
  <2>3. QED
    BY <2>1, <2>2
<1>4. QED
  BY <1>1, <1>2, <1>3

LEMMA WriteFailsTruth ==
  ASSUME IndInv, Truth, Calm, NEW w \in writes, WriteFails(w)
  PROVE  Truth'
<1>1. /\ Home /\ w.reply = "refused" /\ writes' = writes \ {w}
      /\ UNCHANGED <<given, tips, members, range, fetch, report, failed, saved>>
  BY Zenon DEF WriteFails, Home, server, layout, url, table, Calm
<1>2. IsWrite(w) /\ BelongsHere(w)
  BY ServerTypes
<1>3. CASE w.live /\ w.kind # "tip"
  <2>1. /\ roster \notin {None, Failed} /\ Loaded /\ w.row \in Members
        /\ w.of = employer /\ employer \in Employers
        /\ Patched(w.row, RolledBack(w, roster.rows[w.row]))
    BY <1>2, <1>3 DEF BelongsHere, IsWrite, WriteFails
  <2>2. RowsShown
    BY <2>1, DeskAssumption DEF RowsShown, IndInv, Mounted
  <2>3. Matches(w, roster.rows[w.row], members[employer][w.row])
    BY <1>3, <2>2 DEF Truth, RosterTrue
  <2>4. roster.rows[w.row] \in Row /\ members[employer][w.row] \in Row
    BY <2>1 DEF IndInv, Shape, Rows
  <2>5. w.kind \in {"rate", "remove", "invite"}
    BY <1>2, <1>3 DEF IsWrite
  <2>6. RolledBack(w, roster.rows[w.row]) = members[employer][w.row]
    BY <1>1, <2>3, <2>4, <2>5, RolledBackIsStored
  <2>7. Patched(w.row, members[employer][w.row])
    BY <2>1, <2>6
  <2>8. /\ roster' \notin {None, Failed} /\ roster'.rows[w.row] = members[employer][w.row]
        /\ \A q \in Members \ {w.row} : roster'.rows[q] = roster.rows[q]
    BY <2>1, <2>4, <2>7, PatchedRows
  <2>9. QED
    BY <1>1, <2>1, <2>8, RowSettles
<1>4. CASE ~(w.live /\ w.kind # "tip")
  <2>1. roster' = roster
    BY <1>4 DEF WriteFails, people
  <2>2. RowsShown => ~w.live
    BY <1>2, <1>4 DEF RowsShown, BelongsHere
  <2>3. QED
    BY <1>1, <2>1, <2>2, RowSettles
<1>5. QED
  BY <1>3, <1>4

\* A write is served: of its row, and its answer says so.
LEMMA ServedTruth ==
  ASSUME IndInv, Truth, Calm, Home, NEW w \in writes, w.reply = "", NEW u, NEW v, u # "",
         NEW y, Answers(y, w, u, v), writes' = (writes \ {w}) \cup {y},
         UNCHANGED <<given, range, fetch, report, failed, saved, roster>>,
         w.kind = "tip" => members' = members,
         w.kind # "tip" \/ u # "ok" => tips' = tips,
         \A e \in Employers, d \in Days : e # w.of \/ d # w.row => tips'[e][d] = tips[e][d],
         \A e \in Employers \ {w.of} : members'[e] = members[e],
         \A r \in Members \ {w.row} : members'[w.of][r] = members[w.of][r],
         w.kind = "tip" /\ u = "ok" => tips'[w.of][w.row] = w.value,
         w.kind # "tip" => \A x, shown : shown \in Row /\ Answers(x, w, u, v)
           /\ Matches(w, shown, members[w.of][w.row]) => Matches(x, shown, members'[w.of][w.row])
  PROVE  Truth'
<1>1. Alone /\ TableTrue /\ RosterTrue /\ DOMAIN saved = Days
  BY DEF Truth
<1>2. /\ Loaded' = Loaded /\ employer' = employer /\ route' = route /\ hasFailed' = hasFailed
      /\ loaded' = loaded /\ RowsShown' = RowsShown /\ list' = list
  BY DEF Home, Loaded, employer, hasFailed, loaded, RowsShown
<1>3. IsWrite(w) /\ BelongsHere(w) /\ w.of \in Employers
  BY ServerTypes DEF IsWrite
<1>4. /\ y.kind = w.kind /\ y.of = w.of /\ y.row = w.row /\ y.value = w.value
      /\ y.over = w.over /\ y.live = w.live /\ y.cell = w.cell /\ y.reply = u /\ y.answer = v
  BY DEF Answers
<1>6. \A x \in writes \ {w} : x.row # w.row
  BY <1>1 DEF Alone
<1>5. \A x \in writes' : x \in writes \ {w} \/ x = y
  OBVIOUS
<1>7. Alone'
  <2>1. \A x \in writes' : \E o \in writes : x.row = o.row /\ x.of = o.of /\ x.live = o.live
    BY <1>4, <1>5, Zenon
  <2>2. \A x, z \in writes \ {w} : x.row = z.row => x = z
    BY <1>1 DEF Alone
  <2>3. \A x, z \in writes' : x.row = z.row => x = z
    <3>1. y.row = w.row
      BY <1>4
    <3>2. SUFFICES ASSUME NEW x \in writes', NEW z \in writes', x.row = z.row PROVE x = z
      OBVIOUS
    <3>3. x \in writes \ {w} \/ x = y
      BY <1>5
    <3>4. z \in writes \ {w} \/ z = y
      BY <1>5
    <3>5. QED
      BY <1>6, <2>2, <3>1, <3>2, <3>3, <3>4
  <2>4. QED
    BY <1>1, <2>1, <2>3, StillAlone
<1>8. ~w.live => w.of # employer
  BY <1>1 DEF Alone
<1>9. TableTrue'
  <2> SUFFICES ASSUME Loaded, route = "table" PROVE TableTrue'
    BY <1>2 DEF TableTrue
  <2>1. employer \in Employers /\ range \subseteq Days
    BY AtWork, DeskAssumption DEF IndInv, Shape
  <2>2. roster = None
    BY DEF IndInv, Mounted
  <2>3. \A x \in writes : x.live => x.kind = "tip" /\ x.row \in Days /\ x.of = employer
    BY <2>2, ServerTypes DEF BelongsHere, IsWrite
  <2>4. \A d \in Days : tips'[employer][d] = tips[employer][d] \/ (d = w.row /\ Settling(d)')
    <3> SUFFICES ASSUME NEW d \in Days, tips'[employer][d] # tips[employer][d]
                 PROVE  d = w.row /\ Settling(d)'
      OBVIOUS
    <3>1. w.of = employer /\ d = w.row
      BY <1>3, <2>1
    <3>2. w.live /\ w.kind = "tip" /\ u = "ok"
      BY <1>8, <3>1
    <3>3. y \in writes' /\ y.live /\ y.kind = "tip" /\ y.row = d /\ y.reply = "ok"
      BY <1>4, <1>5, <3>1, <3>2, Zenon
    <3>4. QED
      BY <3>1, <3>3 DEF Settling
  <2>5. \A d : Settling(d) => Settling(d)'
    BY <1>5 DEF Settling
  <2>6. \A pools : \A d \in range : Told(pools, d) => Told(pools, d)'
    BY <1>2, <2>1, <2>4, <2>5 DEF Told
  <2>7. \A x \in writes' : x.live /\ x.reply = "ok" => tips'[employer][x.row] = x.value
    <3>1. ASSUME NEW x \in writes \ {w}, x.live, x.reply = "ok"
          PROVE  tips'[employer][x.row] = x.value
      <4>1. tips[employer][x.row] = x.value /\ x.row \in Days /\ x.row # w.row
        BY <1>1, <1>6, <2>3, <3>1 DEF TableTrue
      <4>2. QED
        BY <2>1, <4>1
    <3>2. w.live /\ u = "ok" => tips'[employer][w.row] = w.value
      BY <2>3
    <3>3. y.live /\ y.reply = "ok" => tips'[employer][y.row] = y.value
      BY <1>4, <3>2, Zenon
    <3>4. QED
      BY <1>5, <3>1, <3>3, Zenon
  <2>8. \A x \in writes' : x.live /\ ~x.cell => saved[x.row] = None
    <3>1. \A x \in writes : x.live /\ ~x.cell => saved[x.row] = None
      BY <1>1 DEF TableTrue
    <3>2. y.live /\ ~y.cell => saved[y.row] = None
      BY <1>4, <3>1, Zenon
    <3>3. QED
      BY <1>5, <3>1, <3>2, Zenon
  <2>9. \A d \in Days : saved[d] # None => saved[d].cents = tips'[employer][d] \/ Settling(d)'
    BY <1>1, <2>4, <2>5 DEF TableTrue
  <2>10. fetch # None /\ fetch.answer # None => \A d \in range : Told(fetch.answer, d)'
    BY <1>1, <2>6 DEF TableTrue
  <2>11. fetch = None /\ loaded /\ ~hasFailed => \A d \in range : Told(report.pools, d)'
    BY <1>1, <2>6 DEF TableTrue
  <2>12. QED
    BY <1>2, <2>7, <2>8, <2>9, <2>10, <2>11 DEF TableTrue
<1>10. RosterTrue'
  <2>1. CASE Loaded /\ route = "employees"
    <3>1. employer \in Employers
      BY <2>1, AtWork DEF IndInv
    <3>2. fetch # None => ~w.live \/ w.kind = "tip"
      BY <1>3 DEF BelongsHere, IndInv, Mounted
    <3>3. w.live => w.kind # "tip" /\ w.of = employer /\ w.row \in Members
      BY <1>3, <2>1 DEF BelongsHere, IsWrite
    <3>4. ~w.live => members'[employer] = members[employer]
      BY <1>8, <3>1
    <3>5. fetch # None => fetch.of = employer
      BY AskedForHere
    <3>6. fetch # None /\ fetch.answer # None => fetch.answer = members'[fetch.of]
      BY <1>1, <2>1, <3>2, <3>3, <3>4, <3>5 DEF RosterTrue
    <3>7. \A r \in Members : r = w.row \/ members'[employer][r] = members[employer][r]
      BY <3>3, <3>4
    <3>8. ASSUME RowsShown, NEW r \in Members
          PROVE  roster.rows[r] = members'[employer][r] \/ \E x \in writes' : x.live /\ x.row = r
      <4>1. CASE w.live /\ r = w.row
        BY <1>4, <1>5, <4>1
      <4>2. CASE ~w.live \/ r # w.row
        <5>1. members'[employer][r] = members[employer][r]
          BY <3>4, <3>7, <4>2
        <5>2. CASE roster.rows[r] = members[employer][r]
          BY <5>1, <5>2
        <5>3. CASE \E x \in writes : x.live /\ x.row = r
          <6>1. PICK x \in writes : x.live /\ x.row = r
            BY <5>3
          <6>2. x # w
            BY <4>2, <6>1
          <6>3. QED
            BY <1>5, <6>1, <6>2
        <5>4. QED
          BY <1>1, <3>8, <5>2, <5>3 DEF RosterTrue
      <4>3. QED
        BY <4>1, <4>2
    <3>9. ASSUME RowsShown, NEW x \in writes', x.live
          PROVE  Matches(x, roster.rows[x.row], members'[employer][x.row])
      <4>1. CASE x = y
        <5>1. w.live /\ Matches(w, roster.rows[w.row], members[employer][w.row])
          BY <1>1, <1>4, <3>9, <4>1 DEF RosterTrue
        <5>2. roster.rows[w.row] \in Row
          BY <2>1, <3>3, <3>9, <5>1 DEF IndInv, Shape, Rows, RowsShown
        <5>3. Matches(y, roster.rows[w.row], members'[w.of][w.row])
          BY <3>3, <5>1, <5>2
        <5>4. y.row = w.row
          BY <1>4
        <5>5. QED
          BY <3>3, <4>1, <5>1, <5>3, <5>4
      <4>2. CASE x # y
        <5>1. x \in writes \ {w}
          BY <1>5, <4>2
        <5>2. x.row \in Members
          BY <2>1, <3>9, <5>1, ServerTypes DEF IsWrite, BelongsHere
        <5>3. members'[employer][x.row] = members[employer][x.row]
          BY <1>6, <3>7, <5>1, <5>2
        <5>4. QED
          BY <1>1, <3>9, <5>1, <5>3 DEF RosterTrue
      <4>3. QED
        BY <4>1, <4>2
    <3>10. RowsShown' => \A x \in writes' : x.live =>
             Matches(x, roster'.rows[x.row], members'[employer'][x.row])
      BY <1>2, <3>9
    <3>11. QED
      BY <1>2, <3>6, <3>8, <3>10 DEF RosterTrue, Matches
  <2>2. CASE ~(Loaded /\ route = "employees")
    BY <1>2, <2>2 DEF RosterTrue, RowsShown
  <2>3. QED
    BY <2>1, <2>2
<1>11. QED
  BY <1>1, <1>7, <1>9, <1>10, HomeTruth DEF Truth

LEMMA WriteServedTruth ==
  ASSUME IndInv, Truth, Calm, NEW w \in writes, WriteServed(w)
  PROVE  Truth'
<1> DEFINE row == members[w.of][w.row]
           Answered(r, a) == writes' = (writes \ {w}) \cup {[w EXCEPT !.reply = r, !.answer = a]}
           Stored(new) == members' = [members EXCEPT ![w.of][w.row] = new]
<1>1. /\ Home /\ w.reply = ""
      /\ UNCHANGED <<given, range, fetch, report, failed, saved, roster>>
  BY Zenon DEF WriteServed, Home, layout, url, page, table, people
<1>2. /\ IsWrite(w) /\ w.of \in Employers
      /\ w.kind \in {"tip", "rate", "remove", "invite"}
      /\ w.kind = "tip" => w.row \in Days /\ w.value \in Amounts
      /\ w.kind # "tip" => w.row \in Members /\ row \in Row
      /\ w.kind = "rate" => w.value \in Amounts
      /\ tips \in [Employers -> [Days -> Amounts]] /\ members \in [Employers -> Rows]
  BY ServerTypes DEF IsWrite, Rows
<1>3. \A r, a : Answers([w EXCEPT !.reply = r, !.answer = a], w, r, a)
  BY <1>2, NowAnswered
<1>4. ASSUME Answered("refused", None), UNCHANGED <<tips, members>> PROVE Truth'
  <2> DEFINE y == [w EXCEPT !.reply = "refused", !.answer = None]
  <2>1. Answers(y, w, "refused", None) /\ writes' = (writes \ {w}) \cup {y}
    BY <1>3, <1>4
  <2> HIDE DEF y
  <2>2. w.kind # "tip" => \A x, shown : shown \in Row /\ Answers(x, w, "refused", None)
          /\ Matches(w, shown, members[w.of][w.row]) => Matches(x, shown, members'[w.of][w.row])
    BY <1>1, <1>4 DEF Matches, Answers
  <2>3. QED
    BY <1>1, <1>4, <2>1, <2>2, ServedTruth
<1>5. ASSUME w.kind = "tip", Answered("ok", None), UNCHANGED members,
             tips' = [tips EXCEPT ![w.of][w.row] = w.value]
      PROVE  Truth'
  <2> DEFINE y == [w EXCEPT !.reply = "ok", !.answer = None]
  <2>1. Answers(y, w, "ok", None) /\ writes' = (writes \ {w}) \cup {y}
    BY <1>3, <1>5
  <2> HIDE DEF y
  <2>2. /\ tips'[w.of][w.row] = w.value
        /\ \A e \in Employers, d \in Days : e # w.of \/ d # w.row => tips'[e][d] = tips[e][d]
    BY <1>2, <1>5
  <2>3. QED
    BY <1>1, <1>5, <2>1, <2>2, ServedTruth
<1>6. ASSUME w.kind # "tip", UNCHANGED tips, NEW new \in Row, Stored(new),
             NEW a, Answered("ok", a),
             \A x, shown : shown \in Row /\ Answers(x, w, "ok", a) /\ Matches(w, shown, row)
               => Matches(x, shown, new)
      PROVE  Truth'
  <2> DEFINE y == [w EXCEPT !.reply = "ok", !.answer = a]
  <2>1. Answers(y, w, "ok", a) /\ writes' = (writes \ {w}) \cup {y}
    BY <1>3, <1>6
  <2> HIDE DEF y
  <2>2. /\ members'[w.of][w.row] = new
        /\ \A e \in Employers \ {w.of} : members'[e] = members[e]
        /\ \A r \in Members \ {w.row} : members'[w.of][r] = members[w.of][r]
    BY <1>2, <1>6 DEF Rows
  <2>3. \A x, shown : shown \in Row /\ Answers(x, w, "ok", a)
          /\ Matches(w, shown, members[w.of][w.row]) => Matches(x, shown, members'[w.of][w.row])
    BY <1>6, <2>2
  <2>4. QED
    BY <1>1, <1>6, <2>1, <2>2, <2>3, ServedTruth
<1>7. ASSUME w.kind = "rate", Answered("ok", None), UNCHANGED tips,
             Stored([row EXCEPT !.rate = w.value])
      PROVE  Truth'
  <2> DEFINE new == [row EXCEPT !.rate = w.value]
  <2>1. new \in Row /\ new.rate = w.value /\ new.status = row.status
    BY <1>2, <1>7 DEF Row
  <2>2. Stored(new)
    BY <1>7
  <2> HIDE DEF new
  <2>3. ASSUME NEW x, NEW shown, shown \in Row /\ Answers(x, w, "ok", None)
               /\ Matches(w, shown, row)
        PROVE  Matches(x, shown, new)
    <3>1. shown.rate = w.value /\ shown.status = row.status
      BY <1>1, <1>7, <2>3 DEF Matches
    <3>2. shown = new
      BY <2>1, <2>3, <3>1 DEF Row
    <3>3. x.kind = "rate" /\ x.reply = "ok"
      BY <1>7, <2>3 DEF Answers
    <3>4. QED
      BY <3>2, <3>3 DEF Matches
  <2>4. w.kind # "tip"
    BY <1>7
  <2>5. QED
    BY <1>6, <1>7, <2>1, <2>2, <2>3, <2>4
<1>8. ASSUME w.kind = "remove", row.status = "live", Answered("ok", None), UNCHANGED tips,
             Stored([row EXCEPT !.status = "removed"])
      PROVE  Truth'
  <2> DEFINE new == [row EXCEPT !.status = "removed"]
  <2>1. new \in Row /\ new.rate = row.rate /\ new.status = "removed"
    BY <1>2, <1>8 DEF Row
  <2>2. Stored(new)
    BY <1>8
  <2> HIDE DEF new
  <2>3. ASSUME NEW x, NEW shown, shown \in Row /\ Answers(x, w, "ok", None)
               /\ Matches(w, shown, row)
        PROVE  Matches(x, shown, new)
    <3>1. shown.rate = row.rate /\ shown.status = "removed"
      BY <1>1, <1>8, <2>3 DEF Matches
    <3>2. shown = new
      BY <2>1, <2>3, <3>1 DEF Row
    <3>3. x.kind = "remove" /\ x.reply = "ok"
      BY <1>8, <2>3 DEF Answers
    <3>4. QED
      BY <3>2, <3>3 DEF Matches
  <2>4. w.kind # "tip"
    BY <1>8
  <2>5. QED
    BY <1>6, <1>8, <2>1, <2>2, <2>3, <2>4
<1>9. ASSUME w.kind = "invite", Answered("ok", members'[w.of][w.row]), UNCHANGED tips,
             Stored([row EXCEPT !.status = "live"])
      PROVE  Truth'
  <2> DEFINE new == [row EXCEPT !.status = "live"]
  <2>1. new \in Row
    BY <1>2, <1>9 DEF Row
  <2>2. Stored(new)
    BY <1>9
  <2> HIDE DEF new
  <2>3. members'[w.of][w.row] = new
    BY <1>2, <1>9, <2>2 DEF Rows
  <2>4. Answered("ok", new)
    BY <1>9, <2>3
  <2>5. ASSUME NEW x, NEW shown, shown \in Row /\ Answers(x, w, "ok", new)
               /\ Matches(w, shown, row)
        PROVE  Matches(x, shown, new)
    <3>1. x.kind = "invite" /\ x.reply = "ok" /\ x.answer = new
      BY <1>9, <2>5 DEF Answers
    <3>2. QED
      BY <3>1 DEF Matches
  <2>6. w.kind # "tip"
    BY <1>9
  <2>7. QED
    BY <1>6, <1>9, <2>1, <2>2, <2>4, <2>5, <2>6
<1>10. QED
  BY <1>4, <1>5, <1>7, <1>8, <1>9 DEF WriteServed

\* Any answer; without calm conditions Truth says nothing of the page.
LEMMA AnswerTruth ==
  ASSUME IndInv, Truth, NEW w \in writes, WriteServed(w) \/ WriteDone(w) \/ WriteFails(w)
  PROVE  Truth'
<1>1. CASE Calm
  BY <1>1, WriteServedTruth, WriteDoneTruth, WriteFailsTruth
<1>2. CASE ~Calm
  <2>1. Home /\ UNCHANGED <<given, saved>>
    BY Zenon DEF WriteServed, WriteDone, WriteFails, Home, server, layout, url, page, table
  <2>2. DOMAIN saved' = Days
    BY <2>1 DEF Truth
  <2>3. QED
    BY <1>2, <2>1, <2>2, HomeTruth
<1>3. QED
  BY <1>1, <1>2

LEMMA PagesTruth == IndInv /\ Truth /\ Pages => Truth'
BY GetServedTruth, ReportTruth, RosterTruth, PickRangeTruth, TableRetryTruth, CommitTipTruth,
   RemoveMemberTruth, InviteTruth, CommitRateTruth, TipSavedTruth, AnswerTruth DEF Pages

LEMMA InitTruth == Init => Truth
<1> SUFFICES ASSUME Init PROVE Truth
  OBVIOUS
<1>1. ~Loaded /\ writes = {} /\ creating = "no" /\ DOMAIN saved = Days
  BY DEF Init, Loaded, Blank
<1>2. Unborn /\ Alone /\ TableTrue /\ RosterTrue
  BY <1>1 DEF Unborn, Alone, TableTrue, RosterTrue, RowsShown
<1>3. QED
  BY <1>1, <1>2 DEF Truth

LEMMA StutterTruth == Truth /\ UNCHANGED vars => Truth'
<1> SUFFICES ASSUME Truth, UNCHANGED vars PROVE Truth'
  OBVIOUS
<1>1. UNCHANGED <<given, tips, members, range, route, page, writes, list, selected, owned,
                  creating>>
  BY DEF vars, server, layout, url
<1>2. employer' = employer /\ Unborn'
  BY <1>1 DEF employer, Truth, Unborn, Loaded
<1>3. QED
  BY <1>1, <1>2, SamePageTruth

LEMMA TruthInvariant == Spec => []Truth
<1>1. IndInv /\ Truth /\ [Next]_vars => Truth'
  BY LayoutTruth, PagesTruth, StutterTruth DEF Next
<1>2. QED
  BY <1>1, InitTruth, Invariant, PTL DEF Spec

\* At rest, with one write per row and every request answered, the table shows the
\* tips the server has, and the employees page its members: whatever was saved,
\* refused or rolled back before, and in whichever order (TipCell.tsx, employees.tsx).
THEOREM PagesAreTrue == Spec => []PagesShowTheServer
<1>1. IndInv /\ Truth => PagesShowTheServer
  <2> SUFFICES ASSUME IndInv, Truth, Loaded, fetch = None, writes = {}, Calm
               PROVE  /\ route = "table" /\ loaded /\ ~hasFailed =>
                            \A d \in range : Shown(d) = tips[employer][d]
                      /\ RowsShown => roster.rows = members[employer]
    BY DEF PagesShowTheServer, Calm
  <2>1. TableTrue /\ RosterTrue /\ \A d : ~Settling(d)
    BY DEF Truth, Settling
  <2>2. ASSUME route = "table", loaded, ~hasFailed, NEW d \in range
        PROVE  Shown(d) = tips[employer][d]
    <3>1. d \in Days
      BY DeskAssumption DEF IndInv, Shape
    <3>2. report.pools[d] = tips[employer][d]
      BY <2>1, <2>2 DEF TableTrue, Told
    <3>3. saved[d] # None => saved[d].cents = tips[employer][d]
      BY <2>1, <2>2, <3>1 DEF TableTrue
    <3>4. QED
      BY <3>2, <3>3 DEF Shown
  <2>3. ASSUME RowsShown PROVE roster.rows = members[employer]
    <3>1. \A r \in Members : roster.rows[r] = members[employer][r]
      BY <2>1, <2>3 DEF RosterTrue
    <3>2. route = "employees" /\ roster \notin {None, Failed}
      BY <2>3 DEF RowsShown
    <3>3. employer \in Employers
      BY <3>2, AtWork DEF IndInv
    <3>4. roster.rows \in [Members -> Row] /\ members[employer] \in [Members -> Row]
      BY <3>2, <3>3 DEF IndInv, Shape, Rows
    <3>5. QED
      BY <3>1, <3>4
  <2>4. QED
    BY <2>2, <2>3
<1>2. QED
  BY <1>1, Invariant, TruthInvariant, PTL
=============================================================================
