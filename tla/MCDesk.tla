------------------------------- MODULE MCDesk -------------------------------
(***************************************************************************)
(* Instances of Desk for TLC.                                              *)
(***************************************************************************)
EXTENDS Desk

CONSTANTS a, b

Story(o, r, n, leaves, overlap) ==
  [owned |-> o, routes |-> r, edits |-> n,
   leaves |-> leaves, overlap |-> overlap, lost |-> leaves]

MCRanges == {{1}, {1, 2}}
MCWeek == {1}

\* Tips over two ranges; the crew of one employer; and both pages of an account
\* that has two employers, or none yet.
Offices == {Story({a}, {"table"}, 3, FALSE, FALSE), Story({a}, {"employees"}, 3, FALSE, FALSE),
            Story({a, b}, {"table", "employees"}, 2, TRUE, FALSE),
            Story({}, {"employees", "onboarding"}, 1, TRUE, FALSE)}

\* Rates edited while their last edits are under way.
QuickHands == {Story({a}, {"employees"}, 3, FALSE, TRUE)}
\* One table.
OneTable == {Story({a}, {"table"}, 3, FALSE, FALSE)}
=============================================================================
