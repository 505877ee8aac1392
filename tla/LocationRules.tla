--------------------------- MODULE LocationRules ---------------------------
(***************************************************************************)
(* The clock-event rules of backend/internal/entry/geo.go, as pure         *)
(* operators.  A position is an element of Locs, and distance is abstracted*)
(* to the relation Near: <<a, b>> \in Near when haversineM(a, b), rounded  *)
(* to the metre, is at most cfg.AnchorRadiusM.  Near is reflexive and need *)
(* not be transitive.  Times are whole units of the shared clock.          *)
(***************************************************************************)
EXTENDS Integers

CONSTANTS Locs,          \* positions a fix can carry
          Near,          \* pairs of positions within the anchor radius
          MaxClockSkew,  \* config.go: MAX_CLOCK_SKEW
          MaxQueuedAge   \* config.go: MAX_QUEUED_AGE

ASSUME NearAssumption ==
  /\ Near \subseteq Locs \X Locs
  /\ \A l \in Locs : <<l, l>> \in Near

\* config.Load refuses to start with MaxQueuedAge < MaxClockSkew.
ASSUME SkewAssumption ==
  /\ MaxClockSkew \in Nat
  /\ MaxQueuedAge \in Nat
  /\ MaxClockSkew <= MaxQueuedAge

\* What the device reports about a fix: usable, from a mock provider, or too
\* inaccurate.  The JSON binding already keeps NaN and Inf out of a request.
Quality == {"good", "mocked", "vague"}

FixCodes == {"OK", "MOCKED_LOCATION", "LOW_ACCURACY", "STALE_TIMESTAMP",
             "QUEUED_TOO_OLD", "OUT_OF_RANGE"}

WithinAnchor(loc, anchor) == <<loc, anchor>> \in Near

\* The freshness switch.  The future bound is MaxClockSkew for every fix; a
\* queued fix may be as old as `maxAge` allows, where Unbounded is MaxInt64.
Unbounded == -1

Freshness(now, at, queued, maxAge) ==
  LET age == now - at IN
  CASE age < -MaxClockSkew                                 -> "STALE_TIMESTAMP"
    [] ~queued /\ age > MaxClockSkew                       -> "STALE_TIMESTAMP"
    [] queued /\ maxAge # Unbounded /\ age > maxAge         -> "QUEUED_TOO_OLD"
    [] OTHER                                               -> "OK"

\* The rules in the order the code reports them; `anchors` is the set of
\* centres to measure against, empty when the distance rule is skipped.
Verdict(fix, now, queued, anchors, maxAge) ==
  LET fresh == Freshness(now, fix.at, queued, maxAge) IN
  CASE fix.quality = "mocked" -> "MOCKED_LOCATION"
    [] fix.quality = "vague"  -> "LOW_ACCURACY"
    [] fix.quality = "good" /\ fresh # "OK" -> fresh
    [] OTHER -> IF \A a \in anchors : WithinAnchor(fix.loc, a)
                THEN "OK" ELSE "OUT_OF_RANGE"

\* A clock-in is held to MaxQueuedAge.  ValidateClose is ValidateFix with that
\* ceiling widened away, so a late close can never strand a shift open.
ValidateFix(fix, now, queued, anchors) ==
  Verdict(fix, now, queued, anchors, MaxQueuedAge)
\* Mutant of ValidateClose: the ceiling of a clock-in applies to a close.
ValidateCloseCapped(fix, now, queued, anchors) ==
  Verdict(fix, now, queued, anchors, MaxQueuedAge)

ValidateClose(fix, now, queued, anchors) ==
  Verdict(fix, now, queued, anchors, Unbounded)

\* backdatedFlags: a queued fix that was older, when it was judged, than a
\* live one may be.
BackdatedFlags(queued, age) ==
  IF queued /\ age > MaxClockSkew THEN {"backdated"} ELSE {}
=============================================================================
