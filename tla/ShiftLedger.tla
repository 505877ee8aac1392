---------------------------- MODULE ShiftLedger ----------------------------
(***************************************************************************)
(* What the time-entry service promises about the time_entries collection, *)
(* with no requests, lookups or retries in sight: a ledger of shifts that  *)
(* changes only by four atomic steps, each legal at the instant it         *)
(* happens.  TimeEntries shows that handlers which decide on stale reads   *)
(* and write later implement exactly this.                                 *)
(***************************************************************************)
EXTENDS Integers, Sequences

CONSTANTS Users, Employers, Locs, Near, Keys, Times, None

VARIABLE ledger   \* the shifts, in the order they were opened

Flags == {"backdated", "speed_anomaly"}

Shift == [user: Users, key: Keys, emp: Employers \cup {None},
          status: {"open", "closed"}, verified: BOOLEAN, flags: SUBSET Flags,
          inAt: Times, inLoc: Locs,
          closeKey: Keys \cup {None}, outAt: Times \cup {None},
          outLoc: Locs \cup {None}]

Init == ledger = << >>

Running == {i \in DOMAIN ledger : ledger[i].status = "open"}
Personal == {i \in DOMAIN ledger : ledger[i].emp = None}

\* A worker may start a shift under a key: none is running, the key is new.
MayOpen(u, k) ==
  \A i \in DOMAIN ledger :
    ledger[i].user = u => i \notin Running /\ ledger[i].key # k

\* A shift starts.
Open(u, k, e, t, l, fl) ==
  ledger' = Append(ledger,
    [user |-> u, key |-> k, emp |-> e, status |-> "open",
     verified |-> TRUE, flags |-> fl, inAt |-> t, inLoc |-> l,
     closeKey |-> None, outAt |-> None, outLoc |-> None])

\* A running shift ends, after it began; a personal one near where it began.
Closed(e, k, t, l, fl) ==
  [e EXCEPT !.status = "closed", !.closeKey = k, !.outAt = t, !.outLoc = l,
            !.flags = @ \cup fl]

Close(i, k, t, l, fl) ==
  /\ t > ledger[i].inAt
  /\ i \in Personal => <<l, ledger[i].inLoc>> \in Near
  /\ ledger' = [ledger EXCEPT ![i] = Closed(@, k, t, l, fl)]

\* A finished personal shift is booked to an employer, once and for all.
Book(i, e, v) == ledger' = [ledger EXCEPT ![i] = [@ EXCEPT !.emp = e, !.verified = v]]

\* An advisory verdict is added to a shift, running or finished.
Marked(e, f) == [e EXCEPT !.flags = @ \cup {f}]
Mark(i, f) == ledger' = [ledger EXCEPT ![i] = Marked(@, f)]

Backdating == {{}, {"backdated"}}

Next ==
  \/ \E u \in Users, k \in Keys :
       /\ MayOpen(u, k)
       /\ \E e \in Employers \cup {None}, t \in Times, l \in Locs, fl \in Backdating :
             Open(u, k, e, t, l, fl)
  \/ \E i \in Running, k \in Keys, t \in Times, l \in Locs, fl \in Backdating :
       Close(i, k, t, l, fl)
  \/ \E i \in Personal \ Running, e \in Employers, v \in BOOLEAN : Book(i, e, v)
  \/ \E i \in DOMAIN ledger, f \in Flags : Mark(i, f)

Spec == Init /\ [][Next]_ledger
=============================================================================
