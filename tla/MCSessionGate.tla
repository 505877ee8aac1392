--------------------------- MODULE MCSessionGate ---------------------------
(***************************************************************************)
(* Instances of SessionGate for TLC.                                       *)
(***************************************************************************)
EXTENDS SessionGate

\* The clock tab in use, on a new phone that is killed once; and the profile
\* tab, on an old one.
HandOvers == {[uses |-> {"tap", "hydrate"}, late |-> FALSE, kills |-> 0, new |-> FALSE],
              [uses |-> {"refresh", "save"}, late |-> FALSE, kills |-> 0, new |-> FALSE],
              [uses |-> {}, late |-> FALSE, kills |-> 2, new |-> TRUE]}

\* A pull on the profile tab that is answered late.
LateAnswer == {[uses |-> {"refresh"}, late |-> TRUE, kills |-> 0, new |-> FALSE]}
=============================================================================
