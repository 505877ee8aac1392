------------------------- MODULE SessionGateProofs -------------------------
(***************************************************************************)
(* Theorems about SessionGate for every set of workers and every set of    *)
(* conditions.                                                             *)
(***************************************************************************)
EXTENDS SessionGate, TLAPS

\* The types the arguments below rest on.
Shape ==
  /\ given.late \in BOOLEAN
  /\ keys \in [who: Workers \cup {Nobody}, dead: BOOLEAN]
  /\ keys # NoKeys => keys.who \in Workers
  /\ login \in {"no", "open", "recoverable"}
  /\ isLoading \in BOOLEAN /\ clearing \in BOOLEAN /\ browser \in BOOLEAN
  /\ user \in Workers \cup {Nobody}
  /\ hasCreds \in {"unknown", "yes", "no"} /\ check \in {"none", "asked", "yes", "no"}
  /\ leaving \in {"no", "local", "wiping"}
  /\ calls \in [Kinds -> {Idle} \cup Call]
  /\ clock \in Workers \cup {Nobody}

\* Nothing has begun while the provider loads.
Launching ==
  isLoading => /\ user = Nobody /\ hasCreds = "unknown" /\ check = "none"
               /\ login # "open" /\ leaving = "no" /\ ~browser /\ ~clearing
               /\ calls["gate"] = Idle

\* The sign-in screen is for a phone without credentials: a keychain that holds
\* some is never taken for an empty one.
KnownKeys ==
  /\ keys # NoKeys /\ user = Nobody => hasCreds # "no" /\ check # "no"
  /\ login = "open" => keys = NoKeys

\* The ways out of a session, one after the other.
Exits ==
  /\ browser => leaving = "no"
  /\ leaving = "wiping" => keys = NoKeys

Doors == Launching /\ KnownKeys /\ Exits

\* The answer to this request may still change the shift the clock store shows.
Open(k) == calls[k] # Idle /\ (k = "hydrate" => calls[k].current)

\* A session's shift and its requests are its worker's; and with the session they
\* are gone, unless the phone is still being wiped.
Ours ==
  /\ keys # NoKeys =>
       /\ clock \in {Nobody, keys.who}
       /\ \A k \in {"tap", "hydrate"} : Open(k) => calls[k].who \in {Nobody, keys.who}
  /\ keys = NoKeys /\ leaving # "wiping" =>
       /\ clock = Nobody
       /\ calls["tap"] = Idle
       /\ Open("hydrate") => calls["hydrate"].who = Nobody

IndInv == Shape /\ Doors /\ (~given.late => Ours)
-----------------------------------------------------------------------------
(* Requests *)

LEMMA IdleIsNoCall == Idle \notin Call /\ Idle.who = Nobody
BY DEF Idle, Call

\* A request carries what the keychain held.
LEMMA IssuedIs ==
  ASSUME Shape, NEW k \in Kinds
  PROVE  /\ Issued(k) \in [Kinds -> {Idle} \cup Call]
         /\ Issued(k)[k] # Idle /\ Issued(k)[k].who = keys.who /\ Issued(k)[k].current = TRUE
         /\ \A j \in Kinds \ {k} : Issued(k)[j] = calls[j]
<1>1. [who |-> keys.who, dead |-> keys.dead, current |-> TRUE] \in Call
  BY DEF Shape, Call
<1>2. QED
  BY <1>1, IdleIsNoCall DEF Shape, Issued

LEMMA LandedIs ==
  ASSUME Shape, NEW k \in Kinds
  PROVE  /\ Landed(k) \in [Kinds -> {Idle} \cup Call]
         /\ Landed(k)[k] = Idle
         /\ \A j \in Kinds \ {k} : Landed(k)[j] = calls[j]
BY DEF Shape, Landed

\* A read that has been made out of date is still this account's.
LEMMA StaleIs ==
  ASSUME Shape, calls["hydrate"] # Idle
  PROVE  /\ [calls["hydrate"] EXCEPT !.current = FALSE] \in Call
         /\ [calls["hydrate"] EXCEPT !.current = FALSE].current = FALSE
BY DEF Shape, Call, Kinds, Uses

\* reset(): the other requests stay, and the read is no longer open.
LEMMA ResetIs ==
  ASSUME Shape, ResetClock(calls)
  PROVE  /\ clock' = Nobody
         /\ calls' \in [Kinds -> {Idle} \cup Call]
         /\ \A k \in Kinds \ {"hydrate"} : calls'[k] = calls[k]
         /\ ~Open("hydrate")'
<1>0. "hydrate" \in Kinds
  BY DEF Kinds, Uses
<1>1. CASE calls["hydrate"] = Idle
  BY <1>0, <1>1 DEF Shape, ResetClock, Open
<1>2. CASE calls["hydrate"] # Idle
  <2>1. calls' = [calls EXCEPT !["hydrate"] = [calls["hydrate"] EXCEPT !.current = FALSE]]
    BY <1>2 DEF ResetClock
  <2>2. QED
    BY <1>0, <1>2, <2>1, StaleIs DEF Shape, ResetClock, Open
<1>3. QED
  BY <1>1, <1>2

\* bumpSeq() and a request of one's own.
LEMMA BumpedIs ==
  ASSUME Shape, NEW f \in [Kinds -> {Idle} \cup Call], NEW k \in Kinds \ {"hydrate"},
         \A j \in Kinds \ {k} : f[j] = calls[j],
         calls' = [j \in Kinds |->
           IF j = "hydrate" /\ calls[j] # Idle THEN [calls[j] EXCEPT !.current = FALSE] ELSE f[j]]
  PROVE  /\ calls' \in [Kinds -> {Idle} \cup Call]
         /\ calls'[k] = f[k]
         /\ \A j \in Kinds \ {k, "hydrate"} : calls'[j] = calls[j]
         /\ ~Open("hydrate")'
<1>0. "hydrate" \in Kinds
  BY DEF Kinds, Uses
<1>1. \A j \in Kinds : calls'[j] \in {Idle} \cup Call
  BY StaleIs
<1>2. calls'["hydrate"] = IF calls["hydrate"] # Idle
                         THEN [calls["hydrate"] EXCEPT !.current = FALSE] ELSE Idle
  BY <1>0
<1>3. ~Open("hydrate")'
  BY <1>2, StaleIs DEF Open
<1>4. QED
  BY <1>1, <1>3
-----------------------------------------------------------------------------
(* The screens *)

LEMMA ScreenFacts ==
  ASSUME Shape, KnownKeys
  PROVE  /\ Screen = "signIn" => ~isLoading /\ keys = NoKeys
         /\ Screen = "tabs" => ~isLoading
BY DEF Shape, KnownKeys, Screen, signedIn

LEMMA ControlFacts ==
  ASSUME Shape, KnownKeys, Controls # {}
  PROVE  ~isLoading
BY ScreenFacts DEF Controls

\* What the invariant is about.
doors == <<keys, login, isLoading, user, hasCreds, check, clearing, browser, leaving>>

\* Steps that touch none of it.
Quiet ==
  \/ UiRehydrated \/ PermissionRead \/ ExplainerDismissed \/ GateRetry
  \/ EditName \/ Confirm \/ Sync \/ SyncRefused

LEMMA QuietSteps == Quiet => UNCHANGED <<given, doors, calls, clock>>
BY DEF Quiet, UiRehydrated, PermissionRead, ExplainerDismissed, GateRetry, EditName, Confirm,
       Sync, SyncRefused, gate, session, exit, hours, ui, doors
-----------------------------------------------------------------------------
(* Types *)
LEMMA NextShape ==
  ASSUME Shape, [Next]_vars
  PROVE  Shape'
<1>0. CASE UNCHANGED vars \/ Quiet
  BY <1>0, QuietSteps DEF Shape, vars, doors, gate, exit, hours
<1>1. CASE Initialize
  BY <1>1 DEF Shape, Initialize, gate, exit, hours
<1>2. CASE CheckRead
  BY <1>2 DEF Shape, CheckRead, exit, hours
<1>3. CASE CheckLands
  BY <1>3 DEF Shape, CheckLands, gate, exit, hours
<1>4. CASE GateLoads
  <2>1. "gate" \in Kinds
    BY DEF Kinds, Uses
  <2>2. UNCHANGED <<given, doors, clock>> /\ calls' \in {calls, Issued("gate")}
    BY <1>4, Zenon DEF GateLoads, doors, gate, exit, hours
  <2>3. calls' \in [Kinds -> {Idle} \cup Call]
    BY <2>1, <2>2, IssuedIs DEF Shape
  <2>4. QED
    BY <2>2, <2>3 DEF Shape, doors
<1>5. CASE GateLanded
  BY <1>5, LandedIs DEF Shape, GateLanded, Kinds, Uses, gate, exit, hours
<1>6. CASE ClearsExpired
  BY <1>6, ResetIs DEF Shape, ClearsExpired, ProviderSets, Expired, NoKeys, exit, hours
<1>7. CASE ExpiredRefused
  <2>1. UNCHANGED <<given, keys, login, isLoading, user, hasCreds, check, browser, leaving,
                  calls, clock>>
    BY <1>7, Zenon DEF ExpiredRefused, gate, exit, hours
  <2>2. clearing' \in BOOLEAN
    BY <1>7 DEF ExpiredRefused, Shape
  <2>3. QED
    BY <2>1, <2>2 DEF Shape
<1>8. CASE SignIn
  BY <1>8 DEF Shape, SignIn, gate, exit, hours
<1>9. CASE LoginFails
  BY <1>9 DEF Shape, LoginFails, gate, exit, hours
<1>10. ASSUME NEW w \in Workers, LoggedIn(w) PROVE Shape'
  BY <1>10 DEF Shape, LoggedIn, NoKeys, ProviderSets, gate, exit, hours
<1>11. CASE Refresh
  <2>1. "refresh" \in Kinds
    BY DEF Kinds, Uses
  <2>2. UNCHANGED <<given, doors, clock>> /\ calls' \in {calls, Issued("refresh")}
    BY <1>11, Zenon DEF Refresh, doors, gate, exit, hours
  <2>3. calls' \in [Kinds -> {Idle} \cup Call]
    BY <2>1, <2>2, IssuedIs DEF Shape
  <2>4. QED
    BY <2>2, <2>3 DEF Shape, doors
<1>12. CASE RefreshLanded
  BY <1>12, LandedIs DEF Shape, RefreshLanded, Kinds, Uses, gate, exit, hours
<1>13. CASE Save
  <2>1. "save" \in Kinds
    BY DEF Kinds, Uses
  <2>2. UNCHANGED <<given, doors, clock>> /\ calls' \in {calls, Issued("save")}
    BY <1>13, Zenon DEF Save, doors, gate, exit, hours
  <2>3. calls' \in [Kinds -> {Idle} \cup Call]
    BY <2>1, <2>2, IssuedIs DEF Shape
  <2>4. QED
    BY <2>2, <2>3 DEF Shape, doors
<1>14. CASE SaveLanded
  BY <1>14, LandedIs DEF Shape, SaveLanded, Kinds, Uses, gate, exit, hours
<1>15. CASE RunSignOut
  <2>1. UNCHANGED <<given, keys, login, isLoading, user, hasCreds, check, clearing, calls,
                  clock>>
    BY <1>15, Zenon DEF RunSignOut, gate, exit, hours
  <2>2. browser' \in BOOLEAN /\ leaving' \in {leaving, "local"}
    BY <1>15 DEF RunSignOut, Shape
  <2>3. QED
    BY <2>1, <2>2 DEF Shape
<1>16. CASE SignOutCancelled
  <2>1. UNCHANGED <<given, keys, login, isLoading, user, hasCreds, check, clearing, leaving,
                  calls, clock>>
    BY <1>16, Zenon DEF SignOutCancelled, gate, exit, hours
  <2>2. browser' \in BOOLEAN
    BY <1>16 DEF SignOutCancelled, Shape
  <2>3. QED
    BY <2>1, <2>2 DEF Shape
<1>17. CASE SignOutUnreachable
  BY <1>17 DEF Shape, SignOutUnreachable, gate, exit, hours
<1>18. CASE CredentialsCleared
  BY <1>18 DEF Shape, CredentialsCleared, NoKeys, ProviderSets, gate, exit, hours
<1>19. CASE KeychainRefuses
  BY <1>19 DEF Shape, KeychainRefuses, gate, exit, hours
<1>20. CASE wipeLocalState
  BY <1>20, ResetIs DEF Shape, wipeLocalState, gate, exit
<1>21. CASE ClockIn
  <2>1. "tap" \in Kinds \ {"hydrate"}
    BY DEF Kinds, Uses
  <2>2. calls' \in [Kinds -> {Idle} \cup Call]
    BY <1>21, <2>1, IssuedIs, BumpedIs DEF ClockIn
  <2>3. QED
    BY <1>21, <2>2 DEF Shape, ClockIn, gate, exit
<1>22. CASE ClockInLanded
  <2>1. "tap" \in Kinds \ {"hydrate"}
    BY DEF Kinds, Uses
  <2>2. calls["tap"].who \in Workers \cup {Nobody}
    BY <2>1, IdleIsNoCall DEF Shape, Call
  <2>3. calls' \in [Kinds -> {Idle} \cup Call] /\ clock' \in Workers \cup {Nobody}
    BY <1>22, <2>1, <2>2, LandedIs, BumpedIs DEF ClockInLanded, Shape
  <2>4. QED
    BY <1>22, <2>3 DEF Shape, ClockInLanded, gate, exit
<1>23. CASE Hydrate
  <2>1. "hydrate" \in Kinds
    BY DEF Kinds, Uses
  <2>2. UNCHANGED <<given, doors, clock>> /\ calls' \in {calls, Issued("hydrate")}
    BY <1>23, Zenon DEF Hydrate, doors, gate, exit, hours
  <2>3. calls' \in [Kinds -> {Idle} \cup Call]
    BY <2>1, <2>2, IssuedIs DEF Shape
  <2>4. QED
    BY <2>2, <2>3 DEF Shape, doors
<1>24. CASE HydrateLanded
  <2>1. calls["hydrate"].who \in Workers \cup {Nobody}
    BY IdleIsNoCall DEF Shape, Call, Kinds, Uses
  <2>2. QED
    BY <1>24, <2>1, LandedIs DEF Shape, HydrateLanded, gate, exit, Kinds, Uses
<1>25. CASE Revoke
  <2>1. keys' \in [who: Workers \cup {Nobody}, dead: BOOLEAN] /\ keys'.who = keys.who
    BY <1>25 DEF Shape, Revoke
  <2>2. QED
    BY <1>25, <2>1 DEF Shape, Revoke, gate, exit, hours
<1>26. CASE Kill
  BY <1>26 DEF Shape, Kill, Kinds, Uses, gate, exit, hours
<1>27. QED
  BY <1>0, <1>1, <1>2, <1>3, <1>4, <1>5, <1>6, <1>7, <1>8, <1>9, <1>10, <1>11, <1>12, <1>13,
     <1>14, <1>15, <1>16, <1>17, <1>18, <1>19, <1>20, <1>21, <1>22, <1>23, <1>24, <1>25, <1>26
     DEF Next, Steps, GateSteps, Landings, Quiet
-----------------------------------------------------------------------------
(* The doors *)
LEMMA NextDoors ==
  ASSUME Shape, Doors, [Next]_vars
  PROVE  Doors'
<1>0. CASE UNCHANGED vars \/ Quiet
  BY <1>0, QuietSteps DEF Doors, Launching, KnownKeys, Exits, vars, doors, gate, exit, hours
<1>1. CASE Initialize
  BY <1>1 DEF Shape, Doors, Launching, KnownKeys, Exits, Initialize, ProviderSets, gate,
     session, exit, hours, ui
<1>2. CASE CheckRead
  BY <1>2 DEF Shape, Doors, Launching, KnownKeys, Exits, CheckRead, gate, session, exit,
     hours, ui
<1>3. CASE CheckLands
  BY <1>3 DEF Shape, Doors, Launching, KnownKeys, Exits, CheckLands, gate, session, exit,
     hours, ui
<1>4. CASE GateLoads
  BY <1>4 DEF Shape, Doors, Launching, KnownKeys, Exits, GateLoads, signedIn, inFlight, gate,
     session, exit, hours, ui
<1>5. CASE GateLanded
  BY <1>5, LandedIs DEF Shape, Doors, Launching, KnownKeys, Exits, GateLanded, inFlight,
     Kinds, Uses, gate, session, exit, hours, ui
<1>6. CASE ClearsExpired
  BY <1>6, ResetIs DEF Shape, Doors, Launching, KnownKeys, Exits, ClearsExpired, Kinds, Uses,
     Expired, NoKeys, ProviderSets, gate, session, exit, hours, ui
<1>7. CASE ExpiredRefused
  BY <1>7 DEF Shape, Doors, Launching, KnownKeys, Exits, ExpiredRefused, gate, session, exit,
     hours, ui
<1>8. CASE SignIn
  BY <1>8, ScreenFacts DEF Shape, Doors, Launching, KnownKeys, Exits, SignIn, gate, session,
     exit, hours, ui
<1>9. CASE LoginFails
  BY <1>9 DEF Shape, Doors, Launching, KnownKeys, Exits, LoginFails, gate, session, exit,
     hours, ui
<1>10. ASSUME NEW w \in Workers, LoggedIn(w) PROVE Doors'
  BY <1>10, ScreenFacts DEF Shape, Doors, Launching, KnownKeys, Exits, LoggedIn,
     KeychainQuiet, NoKeys, ProviderSets, gate, session, exit, hours, ui
<1>11. CASE Refresh
  BY <1>11, IssuedIs, ControlFacts DEF Shape, Doors, Launching, KnownKeys, Exits, Refresh,
     Kinds, Uses, MayRunSignOut, signOutInFlight, gate, session, exit, hours, ui
<1>12. CASE RefreshLanded
  BY <1>12, LandedIs DEF Shape, Doors, Launching, KnownKeys, Exits, RefreshLanded, inFlight,
     Kinds, Uses, gate, session, exit, hours, ui
<1>13. CASE Save
  BY <1>13, IssuedIs, ControlFacts DEF Shape, Doors, Launching, KnownKeys, Exits, Save, Kinds,
     Uses, MayRunSignOut, signOutInFlight, gate, session, exit, hours, ui
<1>14. CASE SaveLanded
  BY <1>14, LandedIs DEF Shape, Doors, Launching, KnownKeys, Exits, SaveLanded, inFlight,
     Kinds, Uses, gate, session, exit, hours, ui
<1>15. CASE RunSignOut
  BY <1>15, ControlFacts DEF Shape, Doors, Launching, KnownKeys, Exits, RunSignOut,
     MayRunSignOut, signOutInFlight, gate, session, exit, hours, ui
<1>16. CASE SignOutCancelled
  BY <1>16 DEF Shape, Doors, Launching, KnownKeys, Exits, SignOutCancelled, gate, session,
     exit, hours, ui
<1>17. CASE SignOutUnreachable
  BY <1>17 DEF Shape, Doors, Launching, KnownKeys, Exits, SignOutUnreachable, gate, session,
     exit, hours, ui
<1>18. CASE CredentialsCleared
  BY <1>18 DEF Shape, Doors, Launching, KnownKeys, Exits, CredentialsCleared, NoKeys,
     ProviderSets, gate, session, exit, hours, ui
<1>19. CASE KeychainRefuses
  BY <1>19 DEF Shape, Doors, Launching, KnownKeys, Exits, KeychainRefuses, gate, session,
     exit, hours, ui
<1>20. CASE wipeLocalState
  BY <1>20, ResetIs DEF Shape, Doors, Launching, KnownKeys, Exits, wipeLocalState, Kinds,
     Uses, Expired, gate, session, exit, hours, ui
<1>21. CASE ClockIn
  <2>1. "tap" \in Kinds \ {"hydrate"} /\ "gate" \in Kinds \ {"tap", "hydrate"}
    BY DEF Kinds, Uses
  <2>2. calls'["gate"] = calls["gate"]
    BY <1>21, <2>1, IssuedIs, BumpedIs DEF ClockIn
  <2>3. QED
    BY <1>21, <2>2 DEF Doors, Launching, KnownKeys, Exits, ClockIn, gate, exit
<1>22. CASE ClockInLanded
  <2>1. "tap" \in Kinds \ {"hydrate"} /\ "gate" \in Kinds \ {"tap", "hydrate"}
    BY DEF Kinds, Uses
  <2>2. calls'["gate"] = calls["gate"]
    BY <1>22, <2>1, LandedIs, BumpedIs DEF ClockInLanded
  <2>3. QED
    BY <1>22, <2>2 DEF Doors, Launching, KnownKeys, Exits, ClockInLanded, gate, exit
<1>23. CASE Hydrate
  BY <1>23, IssuedIs, ScreenFacts DEF Shape, Doors, Launching, KnownKeys, Exits, Hydrate,
     Kinds, Uses, gate, session, exit, hours, ui
<1>24. CASE HydrateLanded
  BY <1>24, LandedIs DEF Shape, Doors, Launching, KnownKeys, Exits, HydrateLanded, inFlight,
     Kinds, Uses, gate, session, exit, hours, ui
<1>25. CASE Revoke
  BY <1>25 DEF Shape, Doors, Launching, KnownKeys, Exits, Revoke, NoKeys, gate, session, exit,
     hours, ui
<1>26. CASE Kill
  BY <1>26 DEF Shape, Doors, Launching, KnownKeys, Exits, Kill, gate, session, exit, hours,
     ui, Kinds, Uses
<1>27. QED
  BY <1>0, <1>1, <1>2, <1>3, <1>4, <1>5, <1>6, <1>7, <1>8, <1>9, <1>10, <1>11, <1>12, <1>13,
     <1>14, <1>15, <1>16, <1>17, <1>18, <1>19, <1>20, <1>21, <1>22, <1>23, <1>24, <1>25, <1>26
     DEF Next, Steps, GateSteps, Landings, Quiet
-----------------------------------------------------------------------------
(* Whose shift it is *)
LEMMA NextOurs ==
  ASSUME Shape, Doors, ~given.late, Ours, [Next]_vars
  PROVE  Ours'
<1>0. CASE UNCHANGED vars \/ Quiet
  BY <1>0, QuietSteps DEF Ours, Open, vars, doors, gate, exit, hours
<1>1. CASE Initialize
  BY <1>1 DEF Shape, Ours, Open, Initialize, gate, exit, hours
<1>2. CASE CheckRead
  BY <1>2 DEF Shape, Ours, Open, CheckRead, gate, exit, hours
<1>3. CASE CheckLands
  BY <1>3 DEF Shape, Ours, Open, CheckLands, gate, exit, hours
<1>4. CASE GateLoads
  <2>1. {"gate", "tap", "hydrate"} \subseteq Kinds
    BY DEF Kinds, Uses
  <2>2. UNCHANGED <<doors, clock>> /\ calls' \in {calls, Issued("gate")}
    BY <1>4, Zenon DEF GateLoads, doors, gate, exit, hours
  <2>3. CASE calls' = calls
    BY <2>2, <2>3 DEF Ours, Open, doors
  <2>4. CASE calls' = Issued("gate")
    <3>1. /\ calls'["gate"].who = keys.who
          /\ \A j \in {"tap", "hydrate"} \ {"gate"} : calls'[j] = calls[j]
      BY <2>1, <2>4, IssuedIs
    <3>2. QED
      BY <2>2, <3>1 DEF Ours, Open, doors, NoKeys
  <2>5. QED
    BY <2>2, <2>3, <2>4
<1>5. CASE GateLanded
  BY <1>5, LandedIs DEF Shape, Ours, Open, GateLanded, Kinds, Uses, gate, exit, hours
<1>6. CASE ClearsExpired
  BY <1>6, ResetIs DEF Shape, Ours, Open, ClearsExpired, Settled, Kinds, Uses, NoKeys, gate,
     exit, hours
<1>7. CASE ExpiredRefused
  BY <1>7 DEF Shape, Ours, Open, ExpiredRefused, gate, exit, hours
<1>8. CASE SignIn
  BY <1>8 DEF Shape, Ours, Open, SignIn, gate, exit, hours
<1>9. CASE LoginFails
  BY <1>9 DEF Shape, Ours, Open, LoginFails, gate, exit, hours
<1>10. ASSUME NEW w \in Workers, LoggedIn(w) PROVE Ours'
  BY <1>10, ScreenFacts DEF Shape, Ours, Open, LoggedIn, Doors, KnownKeys, KeychainQuiet,
     Settled, Kinds, Uses, NoKeys, gate, exit, hours
<1>11. CASE Refresh
  <2>1. {"refresh", "tap", "hydrate"} \subseteq Kinds
    BY DEF Kinds, Uses
  <2>2. UNCHANGED <<doors, clock>> /\ calls' \in {calls, Issued("refresh")}
    BY <1>11, Zenon DEF Refresh, doors, gate, exit, hours
  <2>3. CASE calls' = calls
    BY <2>2, <2>3 DEF Ours, Open, doors
  <2>4. CASE calls' = Issued("refresh")
    <3>1. /\ calls'["refresh"].who = keys.who
          /\ \A j \in {"tap", "hydrate"} \ {"refresh"} : calls'[j] = calls[j]
      BY <2>1, <2>4, IssuedIs
    <3>2. QED
      BY <2>2, <3>1 DEF Ours, Open, doors, NoKeys
  <2>5. QED
    BY <2>2, <2>3, <2>4
<1>12. CASE RefreshLanded
  BY <1>12, LandedIs DEF Shape, Ours, Open, RefreshLanded, Kinds, Uses, gate, exit, hours
<1>13. CASE Save
  <2>1. {"save", "tap", "hydrate"} \subseteq Kinds
    BY DEF Kinds, Uses
  <2>2. UNCHANGED <<doors, clock>> /\ calls' \in {calls, Issued("save")}
    BY <1>13, Zenon DEF Save, doors, gate, exit, hours
  <2>3. CASE calls' = calls
    BY <2>2, <2>3 DEF Ours, Open, doors
  <2>4. CASE calls' = Issued("save")
    <3>1. /\ calls'["save"].who = keys.who
          /\ \A j \in {"tap", "hydrate"} \ {"save"} : calls'[j] = calls[j]
      BY <2>1, <2>4, IssuedIs
    <3>2. QED
      BY <2>2, <3>1 DEF Ours, Open, doors, NoKeys
  <2>5. QED
    BY <2>2, <2>3, <2>4
<1>14. CASE SaveLanded
  BY <1>14, LandedIs DEF Shape, Ours, Open, SaveLanded, Kinds, Uses, gate, exit, hours
<1>15. CASE RunSignOut
  BY <1>15 DEF Shape, Ours, Open, RunSignOut, Doors, Exits, gate, exit, hours
<1>16. CASE SignOutCancelled
  BY <1>16 DEF Shape, Ours, Open, SignOutCancelled, gate, exit, hours
<1>17. CASE SignOutUnreachable
  BY <1>17 DEF Shape, Ours, Open, SignOutUnreachable, Doors, Exits, gate, exit, hours
<1>18. CASE CredentialsCleared
  BY <1>18 DEF Shape, Ours, Open, CredentialsCleared, Doors, Exits, NoKeys, gate, exit, hours
<1>19. CASE KeychainRefuses
  BY <1>19 DEF Shape, Ours, Open, KeychainRefuses, Doors, Exits, gate, exit, hours
<1>20. CASE wipeLocalState
  BY <1>20, ResetIs DEF Shape, Ours, Open, wipeLocalState, Settled, Kinds, Uses, gate, exit,
     hours
<1>21. CASE ClockIn
  <2>1. "tap" \in Kinds \ {"hydrate"}
    BY DEF Kinds, Uses
  <2>2. calls'["tap"] = Issued("tap")["tap"] /\ ~Open("hydrate")'
    BY <1>21, <2>1, IssuedIs, BumpedIs DEF ClockIn
  <2>3. calls'["tap"].who = keys.who
    BY <2>1, <2>2, IssuedIs
  <2>4. QED
    BY <1>21, <2>2, <2>3 DEF Ours, Open, ClockIn
<1>22. CASE ClockInLanded
  <2>1. "tap" \in Kinds \ {"hydrate"} /\ Landed("tap")["tap"] = Idle
    BY LandedIs DEF Kinds, Uses
  <2>2. /\ calls'["tap"] = Idle
        /\ Open("hydrate")' => Open("hydrate") /\ calls'["hydrate"] = calls["hydrate"]
    BY <1>22, <2>1, LandedIs, BumpedIs DEF ClockInLanded, Open
  <2>3. clock' \in {clock, calls["tap"].who, Nobody}
    BY <1>22 DEF ClockInLanded
  <2>4. Open("tap")
    BY <1>22 DEF ClockInLanded, Open
  <2>5. QED
    BY <1>22, <2>2, <2>3, <2>4 DEF Ours, Open, ClockInLanded, gate, exit
<1>23. CASE Hydrate
  <2>1. {"hydrate", "tap", "hydrate"} \subseteq Kinds
    BY DEF Kinds, Uses
  <2>2. UNCHANGED <<doors, clock>> /\ calls' \in {calls, Issued("hydrate")}
    BY <1>23, Zenon DEF Hydrate, doors, gate, exit, hours
  <2>3. CASE calls' = calls
    BY <2>2, <2>3 DEF Ours, Open, doors
  <2>4. CASE calls' = Issued("hydrate")
    <3>1. /\ calls'["hydrate"].who = keys.who
          /\ \A j \in {"tap", "hydrate"} \ {"hydrate"} : calls'[j] = calls[j]
      BY <2>1, <2>4, IssuedIs
    <3>2. QED
      BY <2>2, <3>1 DEF Ours, Open, doors, NoKeys
  <2>5. QED
    BY <2>2, <2>3, <2>4
<1>24. CASE HydrateLanded
  BY <1>24, LandedIs DEF Shape, Ours, Open, HydrateLanded, Kinds, Uses, Outcomes, gate, exit,
     hours
<1>25. CASE Revoke
  BY <1>25 DEF Shape, Ours, Open, Revoke, NoKeys, gate, exit, hours
<1>26. CASE Kill
  BY <1>26 DEF Shape, Ours, Open, Kill, Kinds, Uses, gate, exit, hours
<1>27. QED
  BY <1>0, <1>1, <1>2, <1>3, <1>4, <1>5, <1>6, <1>7, <1>8, <1>9, <1>10, <1>11, <1>12, <1>13,
     <1>14, <1>15, <1>16, <1>17, <1>18, <1>19, <1>20, <1>21, <1>22, <1>23, <1>24, <1>25, <1>26
     DEF Next, Steps, GateSteps, Landings, Quiet
-----------------------------------------------------------------------------
(* The invariant *)

LEMMA InitInv == Init => IndInv
<1> SUFFICES ASSUME Init PROVE IndInv
  OBVIOUS
<1>1. Shape
  BY GateAssumption DEF Init, Shape, NoKeys, Condition
<1>2. Doors
  BY DEF Init, Doors, Launching, KnownKeys, Exits, Kinds
<1>3. Ours
  BY DEF Init, Ours, Open, Kinds, Uses
<1>4. QED
  BY <1>1, <1>2, <1>3 DEF IndInv

LEMMA GivenStays == [Next]_vars => given' = given
<1> SUFFICES ASSUME [Next]_vars PROVE given' = given
  OBVIOUS
<1>0. CASE UNCHANGED vars
  BY <1>0 DEF vars, hours
<1>1. CASE Initialize \/ CheckRead \/ CheckLands \/ GateLoads \/ GateRetry \/ GateLanded
            \/ ClearsExpired \/ ExpiredRefused \/ RefreshLanded \/ SaveLanded
            \/ ClockInLanded
  BY <1>1, Zenon DEF Initialize, CheckRead, CheckLands, GateLoads, GateRetry, GateLanded,
     ClearsExpired, ExpiredRefused, RefreshLanded, SaveLanded, ClockInLanded, hours
<1>2. CASE HydrateLanded \/ UiRehydrated \/ PermissionRead \/ ExplainerDismissed \/ SignIn
            \/ LoginFails \/ (\E w \in Workers : LoggedIn(w)) \/ Refresh \/ EditName \/ Save
            \/ Confirm
  BY <1>2, Zenon DEF HydrateLanded, UiRehydrated, PermissionRead, ExplainerDismissed, SignIn,
     LoginFails, LoggedIn, Refresh, EditName, Save, Confirm, hours
<1>3. CASE RunSignOut \/ SignOutCancelled \/ SignOutUnreachable \/ CredentialsCleared
            \/ KeychainRefuses \/ wipeLocalState \/ ClockIn \/ Hydrate \/ Sync
            \/ SyncRefused \/ Revoke
  BY <1>3, Zenon DEF RunSignOut, SignOutCancelled, SignOutUnreachable, CredentialsCleared,
     KeychainRefuses, wipeLocalState, ClockIn, Hydrate, Sync, SyncRefused, Revoke, hours
<1>4. CASE Kill
  BY <1>4, Zenon DEF Kill, hours
<1>5. QED
  BY <1>0, <1>1, <1>2, <1>3, <1>4, Zenon DEF Next, Steps, GateSteps, Landings

LEMMA NextInv == IndInv /\ [Next]_vars => IndInv'
BY NextShape, NextDoors, NextOurs, GivenStays DEF IndInv

LEMMA Invariant == Spec => []IndInv
BY InitInv, NextInv, PTL DEF Spec

\* On every phone that is handed from worker to worker, where requests do not
\* outlive their session, the tabs never show a shift of another worker: whichever
\* way the last session ended (signOut.ts, _layout.tsx), and whatever was under way.
THEOREM TheShiftShownIsTheWorkers == Spec => []ClockIsTheWorkers
<1>1. IndInv => ClockIsTheWorkers
  BY DEF IndInv, Ours, ClockIsTheWorkers
<1>2. QED
  BY <1>1, Invariant, PTL

LEMMA StepsKeepHours ==
  ASSUME IndInv, [Next]_vars
  PROVE  unsent \subseteq unsent' \/ Sync \/ (keys = NoKeys /\ ~browser)
<1>0. CASE UNCHANGED vars
  BY <1>0 DEF vars, hours
<1>1. CASE Initialize \/ CheckRead \/ CheckLands \/ GateLoads \/ GateRetry \/ GateLanded
            \/ ClearsExpired \/ ExpiredRefused \/ RefreshLanded \/ SaveLanded
            \/ HydrateLanded
  BY <1>1, Zenon DEF Initialize, CheckRead, CheckLands, GateLoads, GateRetry, GateLanded,
     ClearsExpired, ExpiredRefused, RefreshLanded, SaveLanded, HydrateLanded, hours
<1>2. CASE UiRehydrated \/ PermissionRead \/ ExplainerDismissed \/ SignIn \/ LoginFails
            \/ (\E w \in Workers : LoggedIn(w)) \/ Refresh \/ EditName \/ Save \/ Confirm
            \/ RunSignOut
  BY <1>2, Zenon DEF UiRehydrated, PermissionRead, ExplainerDismissed, SignIn, LoginFails,
     LoggedIn, Refresh, EditName, Save, Confirm, RunSignOut, hours
<1>3. CASE SignOutCancelled \/ SignOutUnreachable \/ CredentialsCleared \/ KeychainRefuses
            \/ ClockIn \/ Hydrate \/ SyncRefused \/ Revoke \/ Kill
  BY <1>3, Zenon DEF SignOutCancelled, SignOutUnreachable, CredentialsCleared,
     KeychainRefuses, ClockIn, Hydrate, SyncRefused, Revoke, Kill, hours
<1>4. CASE ClockInLanded
  BY <1>4 DEF ClockInLanded
<1>5. CASE Sync
  BY <1>5
<1>6. CASE wipeLocalState
  BY <1>6 DEF wipeLocalState, IndInv, Shape, Doors, Exits
<1>7. QED
  BY <1>0, <1>1, <1>2, <1>3, <1>4, <1>5, <1>6, Zenon DEF Next, Steps, GateSteps, Landings

\* Whatever the requests under way, no step empties the queue but one that sends
\* it, or the wipe that follows a session whose credentials are gone and whose
\* dialog is closed (signOut.ts).
THEOREM HoursAreNotWipedEarly == Spec => HoursOutliveADialog
<1>1. IndInv /\ [Next]_vars =>
        [unsent \subseteq unsent' \/ Sync \/ (keys = NoKeys /\ ~browser)]_vars
  BY StepsKeepHours
<1>2. QED
  BY <1>1, Invariant, PTL DEF Spec, HoursOutliveADialog
-----------------------------------------------------------------------------
(* The end of a session *)

\* There is no session, or the tenant has revoked it.
Ended == keys = NoKeys \/ keys.dead

\* What the gate drops, and what it may yet be told to drop, has ended.
Over ==
  /\ clearing => Ended
  /\ inFlight /\ (calls["gate"].who = Nobody \/ calls["gate"].dead) => Ended

LEMMA StillOver ==
  ASSUME Over, calls'["gate"] = calls["gate"], clearing' => clearing, Ended => Ended'
  PROVE  Over'
BY DEF Over, inFlight

\* Steps that leave the keychain, the clearing and the gate's request alone.
LEMMA Aside ==
  ASSUME Shape, [Next]_vars
  PROVE  \/ UNCHANGED <<keys, clearing>> /\ calls'["gate"] = calls["gate"]
         \/ GateLoads \/ GateLanded \/ ClearsExpired \/ ExpiredRefused
         \/ (\E w \in Workers : LoggedIn(w)) \/ CredentialsCleared \/ wipeLocalState
         \/ Revoke \/ Kill
<1>0. CASE UNCHANGED vars \/ Quiet
  BY <1>0, QuietSteps DEF vars, doors, gate
<1>1. CASE Initialize \/ CheckRead \/ CheckLands \/ SignIn \/ LoginFails \/ RunSignOut
            \/ SignOutCancelled \/ SignOutUnreachable \/ KeychainRefuses
  BY <1>1, Zenon DEF Initialize, CheckRead, CheckLands, SignIn, LoginFails, RunSignOut,
     SignOutCancelled, SignOutUnreachable, KeychainRefuses, gate
<1>2. CASE Refresh \/ Hydrate \/ Save
  <2>1. /\ UNCHANGED <<keys, clearing>>
        /\ calls' \in {calls, Issued("refresh"), Issued("hydrate"), Issued("save")}
    BY <1>2, Zenon DEF Refresh, Hydrate, Save, gate
  <2>2. QED
    BY <2>1, IssuedIs DEF Kinds, Uses
<1>3. CASE RefreshLanded \/ SaveLanded \/ HydrateLanded
  <2>1. /\ UNCHANGED <<keys, clearing>>
        /\ calls' \in {Landed("refresh"), Landed("hydrate"), Landed("save")}
    BY <1>3, Zenon DEF RefreshLanded, SaveLanded, HydrateLanded, gate
  <2>2. QED
    BY <2>1, LandedIs DEF Kinds, Uses
<1>4. CASE ClockIn
  <2>1. /\ UNCHANGED <<keys, clearing>>
        /\ calls' = [k \in Kinds |->
             IF k = "hydrate" /\ calls[k] # Idle THEN [calls[k] EXCEPT !.current = FALSE]
             ELSE Issued("tap")[k]]
    BY <1>4, Zenon DEF ClockIn, gate
  <2>2. QED
    BY <2>1, IssuedIs, BumpedIs DEF Kinds, Uses
<1>5. CASE ClockInLanded
  <2>1. UNCHANGED <<keys, clearing>>
    BY <1>5, Zenon DEF ClockInLanded, gate
  <2>2. \/ calls' = Landed("tap")
        \/ calls' = [k \in Kinds |->
             IF k = "hydrate" /\ calls[k] # Idle THEN [calls[k] EXCEPT !.current = FALSE]
             ELSE Landed("tap")[k]]
    BY <1>5, Zenon DEF ClockInLanded
  <2>3. QED
    BY <2>1, <2>2, LandedIs, BumpedIs DEF Kinds, Uses
<1>6. QED
  BY <1>0, <1>1, <1>2, <1>3, <1>4, <1>5, Zenon DEF Next, Steps, GateSteps, Landings, Quiet

LEMMA NextOver ==
  ASSUME Shape, ~given.late, Over, [Next]_vars
  PROVE  Over'
<1>0. "gate" \in Kinds
  BY DEF Kinds
<1>1. CASE UNCHANGED <<keys, clearing>> /\ calls'["gate"] = calls["gate"]
  BY <1>1, StillOver DEF Ended
<1>2. CASE GateLoads
  <2>1. UNCHANGED <<keys, clearing>> /\ calls' \in {calls, Issued("gate")}
    BY <1>2, Zenon DEF GateLoads, gate
  <2>2. CASE calls' = calls
    BY <2>1, <2>2, StillOver DEF Ended
  <2>3. CASE calls' = Issued("gate")
    <3>1. calls'["gate"] = [who |-> keys.who, dead |-> keys.dead, current |-> TRUE]
      BY <1>0, <2>3 DEF Shape, Issued
    <3>2. keys.who = Nobody => keys = NoKeys
      BY GateAssumption DEF Shape
    <3>3. QED
      BY <2>1, <3>1, <3>2 DEF Over, Ended
  <2>4. QED
    BY <2>1, <2>2, <2>3
<1>3. CASE GateLanded
  <2>1. keys' = keys /\ inFlight /\ calls' = Landed("gate")
    BY <1>3, Zenon DEF GateLanded
  <2>2. PICK o \in Outcomes(calls["gate"]) : clearing' = (clearing \/ o = "401")
    BY <1>3, Zenon DEF GateLanded
  <2>3. o = "401" => calls["gate"].who = Nobody \/ calls["gate"].dead
    BY <2>2 DEF Outcomes
  <2>4. clearing' => Ended
    BY <2>1, <2>2, <2>3 DEF Over
  <2>5. ~inFlight'
    BY <1>0, <2>1, LandedIs DEF inFlight
  <2>6. QED
    BY <2>1, <2>4, <2>5 DEF Over, Ended
<1>4. CASE ClearsExpired \/ CredentialsCleared
  BY <1>4 DEF ClearsExpired, CredentialsCleared, Over, Ended
<1>5. CASE ExpiredRefused
  BY <1>5, StillOver DEF ExpiredRefused, Ended
<1>6. ASSUME NEW w \in Workers, LoggedIn(w) PROVE Over'
  <2>1. ~clearing /\ calls["gate"] = Idle /\ UNCHANGED <<clearing, calls>>
    BY <1>0, <1>6 DEF LoggedIn, KeychainQuiet, Settled
  <2>2. QED
    BY <2>1 DEF Over, inFlight
<1>7. CASE wipeLocalState
  <2>1. UNCHANGED <<keys, clearing>> /\ ResetClock(calls)
    BY <1>7, Zenon DEF wipeLocalState, gate
  <2>2. calls'["gate"] = calls["gate"]
    BY <1>0, <2>1, ResetIs
  <2>3. QED
    BY <2>1, <2>2, StillOver DEF Ended
<1>8. CASE Revoke
  <2>1. UNCHANGED <<clearing, calls>> /\ keys' = [keys EXCEPT !.dead = TRUE]
    BY <1>8, Zenon DEF Revoke, gate
  <2>2. Ended'
    BY <2>1 DEF Ended, Shape
  <2>3. QED
    BY <2>1, <2>2, StillOver
<1>9. CASE Kill
  BY <1>0, <1>9 DEF Kill, Over, inFlight
<1>10. QED
  BY <1>1, <1>2, <1>3, <1>4, <1>5, <1>6, <1>7, <1>8, <1>9, Aside

LEMMA StepsEndWhatEnded ==
  ASSUME Shape, ~given.late, Over, [Next]_vars
  PROVE  keys # NoKeys /\ ~keys.dead /\ keys' = NoKeys => signOutInFlight
<1> SUFFICES ASSUME keys # NoKeys, ~keys.dead, keys' = NoKeys PROVE signOutInFlight
  OBVIOUS
<1>1. CASE CredentialsCleared
  BY <1>1 DEF CredentialsCleared, signOutInFlight
<1>2. CASE ClearsExpired
  BY <1>2 DEF ClearsExpired, Over, Ended
<1>3. ASSUME NEW w \in Workers, LoggedIn(w) PROVE FALSE
  BY <1>3, GateAssumption DEF LoggedIn, NoKeys
<1>4. CASE Revoke
  BY <1>4, GateAssumption DEF Revoke, Shape, NoKeys
<1>5. CASE GateLoads \/ GateLanded \/ ExpiredRefused \/ wipeLocalState \/ Kill
  BY <1>5, Zenon DEF GateLoads, GateLanded, ExpiredRefused, wipeLocalState, Kill
<1>6. QED
  BY <1>1, <1>2, <1>3, <1>4, <1>5, Aside

\* Where requests end with their session, one that could still be renewed is only
\* dropped with its worker's logout under way: no lost signal, launch without a
\* network, late gate or kill ends it (session.ts: a transport failure stays retryable).
THEOREM SessionsEndByTheirWorker == Spec => OnlyItsWorkerEndsASession
<1>1. Init => (~given.late => Over)
  BY DEF Init, Over, inFlight, Kinds
<1>2. IndInv /\ (~given.late => Over) /\ [Next]_vars => (~given.late => Over)'
  BY NextOver, GivenStays DEF IndInv
<1>3. IndInv /\ (~given.late => Over) /\ [Next]_vars =>
        [~given.late /\ keys # NoKeys /\ ~keys.dead /\ keys' = NoKeys => signOutInFlight]_vars
  BY StepsEndWhatEnded DEF IndInv
<1>4. QED
  BY <1>1, <1>2, <1>3, Invariant, PTL DEF Spec, OnlyItsWorkerEndsASession
=============================================================================
