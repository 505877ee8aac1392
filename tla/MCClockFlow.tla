---------------------------- MODULE MCClockFlow ----------------------------
(***************************************************************************)
(* Instances of ClockFlow for TLC.                                         *)
(***************************************************************************)
EXTENDS ClockFlow

Calm == [taps |-> 2, losses |-> 0, garbled |-> 0, refusals |-> 0, kills |-> 0,
         failedReads |-> 0, remounts |-> 0, deliveries |-> 0, overlap |-> {}]

\* Taps and syncs take turns.
Turns == [Calm EXCEPT !.taps = 3, !.losses = 3, !.garbled = 1, !.refusals = 1, !.kills = 1]

\* Everything at once.
Mess == [Calm EXCEPT !.losses = 1, !.garbled = 1, !.kills = 1, !.failedReads = 1,
                     !.remounts = 1, !.deliveries = 1,
                     !.overlap = {"taps", "syncs", "gets"}]

MCConditions == {Turns, Mess}

\* Only the signal fails.
BadSignal == {[Calm EXCEPT !.taps = 4, !.losses = 4]}
=============================================================================
