--------------------------- MODULE MCMemberships ---------------------------
(***************************************************************************)
(* Instances of Memberships for TLC.                                       *)
(***************************************************************************)
EXTENDS Memberships

CONSTANTS ann, bob, cafe, annAt, bobAt

\* Requests race while accounts stay as they are; an account moves while
\* requests take turns.
Settled == [atOnce |-> 2, moves |-> 0, failures |-> 1, rates |-> {}]
Moving  == [atOnce |-> 1, moves |-> 1, failures |-> 0, rates |-> {1}]

MCConditions == {Settled, Moving}
Racing       == {Settled}

\* The first account is an ordinary one, the second anything.
MCInit == Init /\ account[ann] = [email |-> annAt, verified |-> TRUE]
MCSpec == MCInit /\ [][Next]_vars /\ Fairness
=============================================================================
