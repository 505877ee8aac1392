----------------------------- MODULE MCRecords -----------------------------
(***************************************************************************)
(* Instances of Records for TLC.                                           *)
(***************************************************************************)
EXTENDS Records

\* Two shifts are worked and looked at in the list; one is, and is opened; and
\* one on record is opened and assigned.
Evenings == {[past |-> 0, last |-> 2, opens |-> FALSE, memberships |-> {},
              overlap |-> FALSE],
             [past |-> 0, last |-> 1, opens |-> TRUE, memberships |-> {},
              overlap |-> FALSE],
             [past |-> 1, last |-> 1, opens |-> TRUE, memberships |-> Employers,
              overlap |-> FALSE]}

\* History is opened while a live tap is under way.
TapUnderWay == {[past |-> 0, last |-> 1, opens |-> FALSE, memberships |-> {},
                 overlap |-> TRUE]}
=============================================================================
