------------------------------ MODULE MCOutbox ------------------------------
(***************************************************************************)
(* Instances of Outbox for TLC: two workers who share a phone.             *)
(***************************************************************************)
EXTENDS Outbox

CONSTANTS ann, bob

Calm == [taps |-> 2, losses |-> 2, kills |-> 0, readErrors |-> 0, expiries |-> 0,
         signOuts |-> 0, allows |-> {}]

\* The phone changes hands; it is killed at rest, and used before it is ready.
SharedPhone == [Calm EXCEPT !.taps = 3, !.losses = 3, !.kills = 1, !.signOuts = 1,
                            !.allows = {"earlyTap"}]

\* Killed at any moment, even while storage is being worked.
KilledPhone == [Calm EXCEPT !.kills = 2, !.expiries = 1, !.allows = {"killInFlight"}]

\* The session expires or ends in the middle of a tap, and storage fails.
BrokenPhone == [Calm EXCEPT !.losses = 1, !.kills = 1, !.readErrors = 1, !.expiries = 1,
                            !.signOuts = 1, !.allows = {"earlyTap", "tapAcrossSignOut"}]

MCConditions == {SharedPhone, KilledPhone, BrokenPhone}

\* The phone is killed at rest and its storage cannot be read once.
UnreadPhone == {[Calm EXCEPT !.kills = 1, !.readErrors = 1]}
=============================================================================
