-------------------------------- MODULE Desk --------------------------------
(***************************************************************************)
(* The employer's web app (web/src): the layout that loads the account's   *)
(* employers and makes one of them active (components/GuardedLayout.tsx,   *)
(* components/AppShell.tsx), the onboarding form (routes/onboarding.tsx),  *)
(* the pay table with its inline tips and its export (routes/table.tsx,    *)
(* components/TipCell.tsx) and the employees page with its optimistic      *)
(* edits (routes/employees.tsx).                                           *)
(*                                                                         *)
(* A day's report is the tips of its pool; a member is a status and a rate.*)
(* A page has one GET under way at most that can still change it: the      *)
(* effect's cleanup cancels the last one.  A write is answered whenever it *)
(* is, to a page that may be gone by then.                                 *)
(***************************************************************************)
EXTENDS Integers, FiniteSets, SequencesExt

CONSTANTS
  Employers, Members,
  None, Failed,        \* what was not fetched yet, or could not be
  Days, Ranges,        \* the days of the table, and the ranges that can be picked
  Week,                \* the range of a bare /table
  Amounts,             \* tips and rates
  Conditions           \* the conditions considered, see Condition

Routes == {"table", "employees", "onboarding"}

\* What a behaviour holds: the account's employers, the routes it visits, how many
\* writes are made, and whether a page may be left with writes under way, a row edited again before
\* its last write is answered, an answer lost.
Condition == [owned: SUBSET Employers, routes: SUBSET Routes, edits: Nat,
              leaves: BOOLEAN, overlap: BOOLEAN, lost: BOOLEAN]

Row    == [status: {"none", "live", "removed"}, rate: Amounts]
Rows   == [Members -> Row]
Pools  == UNION {[g -> Amounts] : g \in Ranges}

ASSUME DeskAssumption ==
  /\ Ranges \subseteq SUBSET Days /\ Week \in Ranges /\ 0 \in Amounts
  /\ Conditions \subseteq Condition /\ IsFiniteSet(Employers) /\ None # Failed
  /\ \A v \in {None, Failed} :
       v \notin Employers \cup Ranges \cup Seq(Employers) \cup [of: Employers, rows: Rows]
  /\ None \notin [of: Employers, answer: {None} \cup Pools \cup Rows]

VARIABLES
  given,               \* the conditions of this behaviour
  owned, tips, members,\* the server: employers in order, pools, memberships
  list, selected,      \* GuardedLayout: the employers; the stored choice
  creating,            \* the onboarding form's POST
  route, range,        \* the URL
  fetch,               \* the page's GET
  report, failed, settled, saved, \* the table and its cells
  roster, error,       \* the employees page
  writes, made,        \* PUT, PATCH, POST and DELETE under way; how many were made
  since                \* what each pool has held since the page was last told of a save

server == <<owned, tips, members>>
layout == <<list, selected, creating>>
url    == <<route, range>>
table  == <<report, failed, settled, saved>>
people == <<roster, error>>
page   == <<fetch, table, people>>
vars   == <<given, server, layout, url, page, writes, made, since>>

Echo   == [cents: Amounts, standsFor: Amounts]
Blank  == [d \in Days |-> None]
Loaded == list \notin {None, Failed}

\* useActiveEmployer: the stored id, or the first.
employer == IF selected \in Range(list) THEN selected ELSE list[1]
-----------------------------------------------------------------------------
(* Mounting a page. *)

Asked(e) == fetch' = [of |-> e, answer |-> None]
Orphaned(ws) == {[w EXCEPT !.live = FALSE, !.cell = FALSE] : w \in ws}

Unmounts ==
  /\ report' = None /\ failed' = None /\ settled' = None /\ saved' = Blank
  /\ roster' = None /\ error' = FALSE /\ writes' = Orphaned(writes)

\* A fresh page, whose effect asks for its data.
Mounts(e, r) ==
  /\ IF r = "onboarding" THEN fetch' = None ELSE Asked(e)
  /\ Unmounts

\* Mutant: no key on <Outlet/>: only the effects follow the employer.
KeepsPage(e, r) == Asked(e) /\ UNCHANGED <<table, people, writes>>
\* <Outlet key={employer.id}/>
Switches(e, r) == Mounts(e, r)

MayLeave == given.leaves \/ writes = {}
-----------------------------------------------------------------------------
(* GuardedLayout, Shell. *)

\* With no employer there is only onboarding.
ListLoaded ==
  /\ list = None /\ list' = owned
  /\ IF owned = << >>
     THEN route' = "onboarding" /\ UNCHANGED <<page, writes>>
     ELSE /\ Mounts(IF selected \in Range(owned) THEN selected ELSE owned[1], route)
          /\ UNCHANGED route
  /\ UNCHANGED <<given, server, selected, creating, range, made, since>>

ListFails ==
  /\ list = None /\ list' = Failed
  /\ UNCHANGED <<given, server, selected, creating, url, page, writes, made, since>>

\* refresh()
ListRetry ==
  /\ list = Failed /\ list' = None
  /\ UNCHANGED <<given, server, selected, creating, url, page, writes, made, since>>

setEmployerId(e) ==
  /\ Loaded /\ route # "onboarding" /\ e \in Range(list) /\ e # selected /\ MayLeave
  /\ selected' = e
  /\ IF e = employer THEN UNCHANGED <<page, writes>> ELSE Switches(e, route)
  /\ UNCHANGED <<given, server, list, creating, url, made, since>>

\* A link of the navigation; it drops the range.
Navigate(r) ==
  /\ Loaded /\ list # << >> /\ r # route /\ r \in given.routes /\ MayLeave
  /\ route' = r /\ range' = Week /\ Mounts(employer, r)
  /\ UNCHANGED <<given, server, layout, made, since>>

\* The browser reloads the page: the URL and the stored choice survive.
Reload ==
  /\ Loaded /\ MayLeave
  /\ list' = None /\ creating' = IF creating = "sent" THEN "orphan" ELSE "no"
  /\ fetch' = None /\ Unmounts
  /\ UNCHANGED <<given, server, selected, url, made, since>>
-----------------------------------------------------------------------------
(* Onboarding. *)

Create ==
  /\ Loaded /\ route = "onboarding" /\ creating = "no" /\ Range(owned) # Employers
  /\ creating' = "sent"
  /\ UNCHANGED <<given, server, list, selected, url, page, writes, made, since>>

CreateServed ==
  /\ creating \in {"sent", "orphan"}
  /\ creating' = IF creating = "sent" THEN "served" ELSE "no"
  /\ \E e \in Employers \ Range(owned) : owned' = Append(owned, e)
  /\ UNCHANGED <<given, tips, members, list, selected, url, page, writes, made, since>>

\* addEmployer, then navigate('/employees'), from wherever the user is by now.
Created ==
  /\ creating = "served" /\ creating' = "no"
  /\ LET e == owned[Len(owned)] IN
       /\ list' = Append(list, e) /\ selected' = e /\ Switches(e, "employees")
  /\ route' = "employees" /\ UNCHANGED range
  /\ UNCHANGED <<given, server, made, since>>

CreateFails ==
  /\ creating = "sent" \/ (creating = "served" /\ given.lost)
  /\ creating' = "no"
  /\ UNCHANGED <<given, server, list, selected, url, page, writes, made, since>>
-----------------------------------------------------------------------------
(* The pages' GETs. *)

GetServed ==
  /\ fetch # None /\ fetch.answer = None
  /\ fetch' = [fetch EXCEPT !.answer =
       IF route = "table" THEN [d \in range |-> tips[fetch.of][d]] ELSE members[fetch.of]]
  /\ UNCHANGED <<given, server, layout, url, table, people, writes, made, since>>

\* The echo is retired once the figure it stands for has moved.
Retired(s, pools) ==
  [d \in Days |-> IF s[d] # None /\ d \in DOMAIN pools /\ s[d].standsFor = pools[d]
                  THEN s[d] ELSE None]

ReportLoaded ==
  /\ route = "table" /\ fetch # None /\ fetch.answer # None /\ fetch' = None
  /\ report' = [of |-> fetch.of, range |-> range, pools |-> fetch.answer]
  /\ settled' = range /\ saved' = Retired(saved, fetch.answer)
  /\ UNCHANGED <<given, server, layout, url, failed, people, writes, made, since>>

ReportFails ==
  /\ route = "table" /\ fetch # None /\ fetch' = None
  /\ failed' = range /\ settled' = range
  /\ UNCHANGED <<given, server, layout, url, report, saved, people, writes, made, since>>

RosterLoaded ==
  /\ route = "employees" /\ fetch # None /\ fetch.answer # None /\ fetch' = None
  /\ roster' = [of |-> fetch.of, rows |-> fetch.answer]
  /\ UNCHANGED <<given, server, layout, url, table, error, writes, made, since>>

RosterFails ==
  /\ route = "employees" /\ fetch # None /\ fetch' = None
  /\ roster' = Failed
  /\ UNCHANGED <<given, server, layout, url, table, error, writes, made, since>>

RosterRetry ==
  /\ roster = Failed /\ roster' = None /\ Asked(employer)
  /\ UNCHANGED <<given, server, layout, url, table, error, writes, made, since>>
-----------------------------------------------------------------------------
(* The table. *)

\* loaded, hasFailed, isFetching
loaded     == report # None /\ report.range = range
hasFailed  == failed = range
isFetching == settled # range

\* reload(): the attempt is part of what `settled` answers for.
reload(e) == Asked(e) /\ failed' = None /\ settled' = None

\* Mutant: the button goes by the request only.
CanExportSettled == Loaded /\ route = "table" /\ loaded /\ ~isFetching
\* The Export button.
CanExport == Loaded /\ route = "table" /\ loaded /\ ~isFetching /\ ~hasFailed

\* The days' cells unmount with the rows.
PickRange(g) ==
  /\ Loaded /\ route = "table" /\ g # range
  /\ range' = g /\ Asked(employer) /\ saved' = Blank
  /\ writes' = {[w EXCEPT !.cell = FALSE] : w \in writes}
  /\ UNCHANGED <<given, server, layout, route, report, failed, settled, people, made, since>>

TableRetry ==
  /\ Loaded /\ route = "table" /\ hasFailed /\ reload(employer)
  /\ UNCHANGED <<given, server, layout, url, report, saved, people, writes, made, since>>

\* What a cell shows.
Shown(d) ==
  IF saved[d] # None /\ saved[d].standsFor = report.pools[d]
  THEN saved[d].cents ELSE report.pools[d]

Free(r) == given.overlap \/ \A w \in writes : w.row # r

\* A write of this page: of a row, over what it showed there.
Write(kind, row, value, over) ==
  /\ made < given.edits /\ made' = made + 1
  /\ writes' = writes \cup
       {[kind |-> kind, of |-> employer, row |-> row, value |-> value, over |-> over,
         live |-> TRUE, cell |-> TRUE, n |-> made', spared |-> FALSE, reply |-> "",
         answer |-> None]}

\* commit(): not when it changes nothing; a saving cell is a spinner.
CommitTip(d, v) ==
  /\ Loaded /\ route = "table" /\ loaded /\ d \in range /\ v # Shown(d)
  /\ Free(d) /\ \A w \in writes : ~(w.cell /\ w.kind = "tip" /\ w.row = d)
  /\ Write("tip", d, v, report.pools[d])
  /\ UNCHANGED <<given, server, layout, url, page, since>>

\* The echo, standing for what the cell showed at the commit; and onSaved().
TipSaved(w) ==
  /\ w.kind = "tip" /\ w.reply = "ok" /\ writes' = writes \ {w}
  /\ IF w.live
     THEN /\ reload(w.of)
          /\ saved' = IF w.cell
                      THEN Retired([saved EXCEPT ![w.row] =
                                      [cents |-> w.value, standsFor |-> w.over]], report.pools)
                      ELSE saved
          /\ since' = [since EXCEPT ![w.of][w.row] = {tips[w.of][w.row]}]
     ELSE UNCHANGED <<fetch, failed, settled, saved, since>>
  /\ UNCHANGED <<given, server, layout, url, report, people, made>>
-----------------------------------------------------------------------------
(* The employees page. *)

RowsShown == Loaded /\ route = "employees" /\ roster \notin {None, Failed}
Patched(r, row) == roster' = [roster EXCEPT !.rows[r] = row]

commitRate(r, v) ==
  /\ RowsShown /\ Free(r) /\ roster.rows[r].status = "live" /\ v # roster.rows[r].rate
  /\ error' = FALSE /\ Patched(r, [roster.rows[r] EXCEPT !.rate = v])
  /\ Write("rate", r, v, roster.rows[r].rate)
  /\ UNCHANGED <<given, server, layout, url, fetch, table, since>>

\* Once the dialog is confirmed.
removeMember(r) ==
  /\ RowsShown /\ Free(r) /\ roster.rows[r].status = "live"
  /\ error' = FALSE /\ Patched(r, [roster.rows[r] EXCEPT !.status = "removed"])
  /\ Write("remove", r, None, None)
  /\ UNCHANGED <<given, server, layout, url, fetch, table, since>>

\* The Add dialog, or Re-invite on a removed row.
invite(r) ==
  /\ RowsShown /\ Free(r) /\ roster.rows[r].status \in {"none", "removed"}
  /\ error' = FALSE /\ Write("invite", r, None, None)
  /\ UNCHANGED <<given, server, layout, url, fetch, table, roster, since>>

\* An answered rate spares the older writes of its row from any rollback.
Acknowledged(w) ==
  {IF o.kind = "rate" /\ w.kind = "rate" /\ o.of = w.of /\ o.row = w.row /\ o.n < w.n
   THEN [o EXCEPT !.spared = TRUE] ELSE o : o \in writes \ {w}}

\* An invitation's answer replaces the row, or adds it.
WriteDone(w) ==
  /\ w.kind # "tip" /\ w.reply = "ok" /\ writes' = Acknowledged(w)
  /\ IF w.live /\ w.kind = "invite" THEN Patched(w.row, w.answer) ELSE UNCHANGED roster
  /\ UNCHANGED <<given, server, layout, url, fetch, table, error, made, since>>

\* Mutant: a failed write is not rolled back.
NotRolledBack(w, row) == row
\* A rate only if it is still the one this write put there.
RolledBack(w, row) ==
  CASE w.kind = "rate"   -> IF row.rate = w.value THEN [row EXCEPT !.rate = w.over] ELSE row
    [] w.kind = "remove" -> [row EXCEPT !.status = "live"]
    [] w.kind = "invite" -> row

\* Refused, or its answer lost.
WriteFails(w) ==
  /\ w.reply = "refused" \/ given.lost
  /\ writes' = writes \ {w}
  /\ IF w.live /\ w.kind # "tip"
     THEN Patched(w.row, RolledBack(w, roster.rows[w.row])) /\ error' = TRUE
     ELSE UNCHANGED people
  /\ UNCHANGED <<given, server, layout, url, fetch, table, made, since>>
-----------------------------------------------------------------------------
(* The server, in short. *)

\* A tip is upserted; an invitation is refused to a member.
WriteServed(w) ==
  LET row == members[w.of][w.row]
      Answered(r, a) == writes' = (writes \ {w}) \cup {[w EXCEPT !.reply = r, !.answer = a]}
      Stored(new) == members' = [members EXCEPT ![w.of][w.row] = new]
  IN /\ w.reply = ""
     /\ \/ Answered("refused", None) /\ UNCHANGED <<tips, members, since>>
        \/ /\ w.kind = "tip" /\ Answered("ok", None)
           /\ tips' = [tips EXCEPT ![w.of][w.row] = w.value]
           /\ since' = [since EXCEPT ![w.of][w.row] = @ \cup {w.value}]
           /\ UNCHANGED members
        \/ /\ w.kind = "rate" /\ row.status # "none" /\ Answered("ok", None)
           /\ Stored([row EXCEPT !.rate = w.value]) /\ UNCHANGED <<tips, since>>
        \/ /\ w.kind = "remove" /\ row.status = "live" /\ Answered("ok", None)
           /\ Stored([row EXCEPT !.status = "removed"]) /\ UNCHANGED <<tips, since>>
        \/ /\ w.kind = "invite" /\ row.status # "live" /\ Stored([row EXCEPT !.status = "live"])
           /\ Answered("ok", members'[w.of][w.row]) /\ UNCHANGED <<tips, since>>
     /\ UNCHANGED <<given, owned, layout, url, page, made>>
-----------------------------------------------------------------------------
Init ==
  /\ given \in Conditions /\ owned = SetToSeq(given.owned)
  /\ tips = [e \in Employers |-> [d \in Days |-> 0]]
  /\ members = [e \in Employers |-> [r \in Members |-> [status |-> "live", rate |-> 0]]]
  /\ list = None /\ selected \in {None} \cup Employers /\ creating = "no"
  /\ route \in given.routes /\ range = Week
  /\ fetch = None /\ report = None /\ failed = None /\ settled = None /\ saved = Blank
  /\ roster = None /\ error = FALSE /\ writes = {} /\ made = 0
  /\ since = [e \in Employers |-> [d \in Days |-> {0}]]

Layout ==
  \/ ListLoaded \/ ListFails \/ ListRetry \/ Reload \/ \E e \in Employers : setEmployerId(e)
  \/ \E r \in Routes : Navigate(r)
  \/ Create \/ CreateServed \/ Created \/ CreateFails

Pages ==
  \/ GetServed \/ ReportLoaded \/ ReportFails \/ RosterLoaded \/ RosterFails \/ RosterRetry
  \/ \E g \in Ranges : PickRange(g)
  \/ TableRetry \/ \E d \in Days, v \in Amounts : CommitTip(d, v)
  \/ \E r \in Members : removeMember(r) \/ invite(r) \/ \E v \in Amounts : commitRate(r, v)
  \/ \E w \in writes : WriteServed(w) \/ TipSaved(w) \/ WriteDone(w) \/ WriteFails(w)

Next == Layout \/ Pages

Spec == Init /\ [][Next]_vars
-----------------------------------------------------------------------------
TypeOK ==
  /\ given \in Conditions /\ Range(owned) \subseteq Employers
  /\ tips \in [Employers -> [Days -> Amounts]] /\ members \in [Employers -> Rows]
  /\ Loaded => Range(list) \subseteq Range(owned)
  /\ selected \in {None} \cup Employers /\ creating \in {"no", "sent", "served", "orphan"}
  /\ route \in Routes /\ range \in Ranges
  /\ fetch = None \/ (fetch.of \in Employers /\ fetch.answer \in {None} \cup Pools \cup Rows)
  /\ report = None \/ report \in [of: Employers, range: Ranges, pools: Pools]
  /\ failed \in {None} \cup Ranges /\ settled \in {None} \cup Ranges
  /\ saved \in [Days -> {None} \cup Echo]
  /\ roster \in {None, Failed} \cup [of: Employers, rows: Rows] /\ error \in BOOLEAN
  /\ made \in 0 .. given.edits /\ \A w \in writes : w.n \in 1 .. made
  /\ since \in [Employers -> [Days -> SUBSET Amounts]]

\* Nothing of one employer is on the page of another, nor can a page write there
\* what it read here (AppShell.tsx: writes A's data against B).
NothingCrossesEmployers ==
  Loaded /\ list # << >> /\ route # "onboarding" =>
    /\ fetch # None => fetch.of = employer
    /\ report # None => report.of = employer
    /\ roster \notin {None, Failed} => roster.of = employer
    /\ \A w \in writes : w.live => w.of = employer

\* A file that can be downloaded is never older than a save its page was told of
\* (table.tsx: the export waits for the answer).
ExportHasEverySave ==
  CanExport => \A d \in range : report.pools[d] \in since[employer][d]

\* At rest a page shows what the server has: the cells' echoes are retired, and
\* the optimistic rows were confirmed or rolled back (TipCell.tsx, employees.tsx).
PagesShowTheServer ==
  Loaded /\ fetch = None /\ writes = {}
  /\ ~given.leaves /\ ~given.overlap /\ ~given.lost =>
    /\ route = "table" /\ loaded /\ ~hasFailed => \A d \in range : Shown(d) = tips[employer][d]
    /\ RowsShown => roster.rows = members[employer]

\* A report that has loaded is not shown under its own failure (table.tsx: a
\* stale one is recognised rather than shown).
LoadEndsTheBanner == [][ReportLoaded => ~hasFailed']_vars

\* A saved cell shows the saved figure (TipCell.tsx: not the one just replaced).
SaveIsShown == [][\A w \in writes : TipSaved(w) /\ w.cell => Shown(w.row)' = w.value]_vars

\* A failed rate takes back no later one that has landed (employees.tsx: rolling
\* back then would overwrite a value the server has).
RollbackSparesLaterEdits ==
  [][\A w \in writes : w.live /\ w.spared /\ WriteFails(w) => roster' = roster]_vars
=============================================================================
