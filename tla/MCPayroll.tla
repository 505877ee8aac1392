----------------------------- MODULE MCPayroll -----------------------------
(***************************************************************************)
(* Instances of Payroll for TLC.                                           *)
(***************************************************************************)
EXTENDS Payroll

MCDay == 6
UTC == {[before |-> 0, after |-> 0, at |-> 0]}

\* Clocks on either side of UTC, put on or back by up to a third of a day,
\* at any time.
Changes == {[before |-> o, after |-> o + c, at |-> t] :
              o \in {-1, 2}, c \in {-2, -1, 0, 1, 2}, t \in 0 .. 3 * MCDay + 3}
\* Put back while they are at work.
Back == {[before |-> 0, after |-> -2, at |-> MCDay + 3]}

\* Who is first by name is first to begin.
InTheirOrder ==
  LET Begun(w) == \E i \in DOMAIN shifts : shifts[i].who = w
  IN \A w \in Crew : Begun(w) => \A v \in 1 .. w - 1 : Begun(v)

\* One shift of any length in any zone; three people's tips; four people's bars,
\* or three people's with a clock that is put back.
Weeks == {[zones |-> Changes, times |-> -2 .. 3 * MCDay + 4, crew |-> 1, shifts |-> 1,
           grain |-> 1, pools |-> {}],
          [zones |-> UTC, times |-> MCDay .. MCDay + 4, crew |-> 3, shifts |-> 3,
           grain |-> 1, pools |-> {1, 4, 5}],
          [zones |-> UTC, times |-> MCDay .. MCDay + 5, crew |-> 2, shifts |-> 2,
           grain |-> 3, pools |-> {1, 3}],
          [zones |-> UTC, times |-> MCDay .. MCDay + 4, crew |-> 4, shifts |-> 4,
           grain |-> 1, pools |-> {}],
          [zones |-> Back, times |-> MCDay .. MCDay + 4, crew |-> 3, shifts |-> 3,
           grain |-> 1, pools |-> {}]}
\* Two who begin together.
Rush == {[zones |-> UTC, times |-> MCDay .. MCDay + 2, crew |-> 2, shifts |-> 2,
          grain |-> 1, pools |-> {}]}
=============================================================================
