---------------------------- MODULE SessionGate ----------------------------
(***************************************************************************)
(* Sessions on a phone that is handed from one worker to the next: the gate*)
(* that decides what a launch lands on (mobile/src/app/_layout.tsx), the   *)
(* session store and the API client's 401 path (stores/session.ts,         *)
(* api/client.ts), signing in (app/sign-in.tsx), signing out               *)
(* (lib/signOut.ts) and the profile screen that asks for it                *)
(* (app/(tabs)/(profile)/profile.tsx).                                     *)
(*                                                                         *)
(* What belongs to a worker is known by that worker's name: the keychain,  *)
(* the two halves of `me`, the shift the clock store shows, the unsent     *)
(* hours in the queue.  A request carries the account whose token it was   *)
(* given and lands at any later time, whoever is signed in by then.        *)
(***************************************************************************)
EXTENDS Naturals, FiniteSets

CONSTANTS
  Workers, Nobody,
  Conditions           \* the conditions considered, see Condition

Uses == {"refresh", "save", "tap", "hydrate"}

\* What a behaviour may hold: which requests the screens make, whether one may
\* outlive its session, how often the OS kills the app, and whether the phone is
\* new.
Condition == [uses: SUBSET Uses, late: BOOLEAN, kills: Nat, new: BOOLEAN]

ASSUME GateAssumption == Nobody \notin Workers /\ Conditions \subseteq Condition

VARIABLES
  given,               \* the conditions of this behaviour
  keys,                \* the keychain: whose credentials, and whether revoked
  login,               \* Universal Login: not open, open, or cut off by a kill
  isLoading, user,     \* Auth0Provider
  hasCreds, check,     \* the gate's flag, and the keychain check that sets it
  me, meError,         \* the session store's envelope; the gate's Retry
  due,                 \* the gate's load effect is to run
  calls,               \* the requests under way
  clearing,            \* the gate is dropping credentials that cannot be renewed
  browser, leaving,    \* signOut(): the logout dialog; what follows it
  profile,             \* the profile screen's own state
  clock, unsent,       \* whose shift the clock store shows, whose hours wait
  seen, hydrated, read,\* stores/ui.ts: the explainer; the OS status at launch
  os,                  \* the OS location permission
  kills                \* how often the app has been killed

session == <<me, meError>>
gate    == <<hasCreds, check, clearing>>
ui      == <<seen, hydrated, read, os>>
exit    == <<browser, leaving>>
hours   == <<clock, unsent>>
vars    == <<given, keys, login, isLoading, user, gate, session, due, calls, exit, profile,
             hours, ui, kills>>

Kinds   == {"gate"} \cup Uses
Idle    == [who |-> Nobody, state |-> "idle"]
Call    == [who: Workers \cup {Nobody}, dead: BOOLEAN, current: BOOLEAN]
NoKeys  == [who |-> Nobody, dead |-> FALSE]
None    == [user |-> Nobody, of |-> Nobody]
Envelope(w) == [user |-> w, of |-> w]
Status  == {"undetermined", "granted", "denied"}
Fresh   == [draft |-> "same", saveError |-> FALSE, confirming |-> FALSE, signOutError |-> FALSE]

signedIn == user # Nobody \/ hasCreds = "yes"
inFlight == calls["gate"] # Idle

\* Gate: which of its returns is rendered.
Screen ==
  CASE isLoading \/ (user = Nobody /\ hasCreds = "unknown")
       \/ (signedIn /\ me = None /\ ~meError)                       -> "spinner"
    [] ~isLoading /\ signedIn /\ me = None /\ meError               -> "retry"
    [] ~isLoading /\ ~signedIn /\ hasCreds # "unknown"              -> "signIn"
    [] ~isLoading /\ signedIn /\ me # None ->
         CASE ~hydrated \/ (~seen /\ read = "unread")               -> "spinner"
           [] hydrated /\ ~seen /\ read = "undetermined"            -> "explainer"
           [] OTHER                                                 -> "tabs"

\* The provider dispatches: a new user re-runs the keychain check, and cancels
\* the one under way.
ProviderSets(u) ==
  /\ user' = u
  /\ check' = IF u # user THEN "asked" ELSE check

\* Mutant: the store is left alone.
KeepClock(cs) == clock' = clock /\ calls' = cs
\* reset(): the shift goes, and answers to reads under way are out of date.
ResetClock(cs) ==
  /\ clock' = Nobody
  /\ calls' = IF cs["hydrate"] = Idle THEN cs
              ELSE [cs EXCEPT !["hydrate"] = [@ EXCEPT !.current = FALSE]]
-----------------------------------------------------------------------------
(* Requests: api(), getAccessToken(). *)

Issued(k) == [calls EXCEPT ![k] = [who |-> keys.who, dead |-> keys.dead, current |-> TRUE]]
Landed(k) == [calls EXCEPT ![k] = Idle]

\* Mutant: an offline renew is taken for a session that cannot be renewed.
OutcomesUnsorted(c) == IF c.who = Nobody THEN {"401"} ELSE {"ok", "network", "401"}
\* A revoked session works until its access token expires.  No signal is a
\* NETWORK error; only no credentials, or a refused renew, is a 401.
Outcomes(c) ==
  IF c.who = Nobody THEN {"401"}
  ELSE {"ok", "network"} \cup (IF c.dead THEN {"401"} ELSE {})

\* onUnauthorized: clear().
MeAfter(o, m) == me' = IF o = "401" THEN None ELSE IF o = "ok" THEN m ELSE me
-----------------------------------------------------------------------------
(* The gate. *)

\* Auth0Provider's initialize(): the user only if a token can be had.
Initialize ==
  /\ isLoading /\ isLoading' = FALSE
  /\ user' \in {Nobody, keys.who}
  /\ check' = "asked"
  /\ UNCHANGED <<given, keys, login, hasCreds, clearing, session, calls, exit, profile, hours,
                 ui, kills>>

CheckRead ==
  /\ check = "asked"
  /\ check' = IF keys = NoKeys THEN "no" ELSE "yes"
  /\ UNCHANGED <<given, keys, login, isLoading, user, hasCreds, clearing, session, calls, exit,
                 profile, hours, ui, kills>>

CheckLands ==
  /\ check \in {"yes", "no"}
  /\ hasCreds' = check /\ check' = "none"
  /\ UNCHANGED <<given, keys, login, isLoading, user, clearing, session, calls, exit, profile,
                 hours, ui, kills>>

\* The load effect runs when signedIn, me or the attempt has changed; the ref
\* keeps it from a second fetch.
GateLoads ==
  /\ due /\ due' = FALSE
  /\ IF signedIn /\ me = None /\ ~inFlight
     THEN calls' = Issued("gate") /\ meError' = FALSE
     ELSE UNCHANGED <<calls, meError>>
  /\ UNCHANGED <<given, keys, login, isLoading, user, gate, me, exit, profile, hours, ui, kills>>

GateRetry ==
  /\ Screen = "retry" /\ due' = TRUE
  /\ UNCHANGED <<given, keys, login, isLoading, user, gate, session, calls, exit, profile,
                 hours, ui, kills>>

GateLanded ==
  /\ inFlight
  /\ \E o \in Outcomes(calls["gate"]) :
       /\ MeAfter(o, Envelope(calls["gate"].who))
       /\ meError' = (meError \/ o = "network")
       /\ clearing' = (clearing \/ o = "401")
  /\ calls' = Landed("gate")
  /\ profile' = IF me = None THEN Fresh ELSE profile
  /\ UNCHANGED <<given, keys, login, isLoading, user, hasCreds, check, exit, hours, ui, kills>>

\* Only for the condition `late`: what is under way ends with its session.
Settled == given.late \/ \A k \in Kinds \ {"hydrate"} : calls[k] = Idle

\* Mutant: the 401 path forgets setHasCreds(false).
ExpiredNoFlag == UNCHANGED hasCreds
Expired == hasCreds' = "no"

\* clearCredentials(): the keychain goes, the clock store with it, the queue
\* stays; or the keychain refuses.
ClearsExpired ==
  /\ clearing /\ Settled /\ clearing' = FALSE
  /\ keys' = NoKeys /\ ProviderSets(Nobody) /\ Expired
  /\ ResetClock(calls)
  /\ UNCHANGED <<given, login, isLoading, session, exit, profile, unsent, ui, kills>>

ExpiredRefused ==
  /\ clearing /\ clearing' = FALSE /\ meError' = TRUE
  /\ UNCHANGED <<given, keys, login, isLoading, user, hasCreds, check, me, calls, exit, profile,
                 hours, ui, kills>>
-----------------------------------------------------------------------------
(* stores/ui.ts and the location explainer. *)

UiRehydrated ==
  /\ ~hydrated /\ hydrated' = TRUE
  /\ UNCHANGED <<given, keys, login, isLoading, user, gate, session, calls, exit, profile,
                 hours, seen, read, os, kills>>

PermissionRead ==
  /\ read = "unread" /\ read' = os
  /\ UNCHANGED <<given, keys, login, isLoading, user, gate, session, calls, exit, profile,
                 hours, seen, hydrated, os, kills>>

\* Continue, whatever the answer, or Not now: markSeen().
ExplainerDismissed ==
  /\ Screen = "explainer" /\ seen' = TRUE
  /\ os' \in Status
  /\ UNCHANGED <<given, keys, login, isLoading, user, gate, session, calls, exit, profile,
                 hours, hydrated, read, kills>>
-----------------------------------------------------------------------------
(* Signing in. *)

\* The button; a logout dialog still open makes the SDK refuse.
SignIn ==
  /\ Screen = "signIn" /\ login # "open" /\ ~browser
  /\ login' = "open"
  /\ UNCHANGED <<given, keys, isLoading, user, gate, session, calls, exit, profile, hours, ui,
                 kills>>

LoginFails ==
  /\ login = "open" /\ login' = "no"
  /\ UNCHANGED <<given, keys, isLoading, user, gate, session, calls, exit, profile, hours, ui,
                 kills>>

\* What the last session has left to do on the phone itself takes milliseconds,
\* a login seconds.
KeychainQuiet == leaving = "no" /\ ~clearing /\ (inFlight => calls["gate"].who # Nobody)

\* authorize(), or resumeSession() for a login the kill cut off.
LoggedIn(w) ==
  /\ KeychainQuiet /\ Settled
  /\ login = "open" \/ (login = "recoverable" /\ Screen = "signIn")
  /\ login' = "no"
  /\ keys' = [who |-> w, dead |-> FALSE] /\ ProviderSets(w)
  /\ UNCHANGED <<given, isLoading, hasCreds, clearing, session, calls, exit, profile, hours, ui,
                 kills>>
-----------------------------------------------------------------------------
(* The profile screen. *)

signOutInFlight == browser \/ leaving # "no"

\* Profile: the controls that can be used.  `disabled` lands a render late, so
\* a second tap on "Sign out anyway" is still one.
Controls ==
  IF Screen # "tabs" THEN {}
  ELSE (IF calls["refresh"] = Idle THEN {"refresh"} ELSE {})
       \cup (IF calls["save"] = Idle THEN {"name"} ELSE {})
       \cup (IF calls["save"] = Idle /\ profile.draft # "same" THEN {"save", "revert"} ELSE {})
       \cup (IF profile.confirming
             THEN {"anyway"} \cup (IF signOutInFlight THEN {} ELSE {"cancel"})
             ELSE {"signOut"})

\* A pull; `me` is replaced by whatever account answers.
Refresh ==
  /\ "refresh" \in Controls \cap given.uses
  /\ calls' = Issued("refresh")
  /\ UNCHANGED <<given, keys, login, isLoading, user, gate, session, exit, profile, hours, ui,
                 kills>>

RefreshLanded ==
  /\ calls["refresh"] # Idle
  /\ \E o \in Outcomes(calls["refresh"]) : MeAfter(o, Envelope(calls["refresh"].who))
  /\ calls' = Landed("refresh")
  /\ profile' = IF me = None THEN Fresh ELSE profile
  /\ UNCHANGED <<given, keys, login, isLoading, user, gate, meError, exit, hours, ui, kills>>

EditName ==
  /\ "name" \in Controls /\ "save" \in given.uses
  /\ \E d \in {"same", "edited", "blank"} :
       \/ d # "same" /\ profile' = [profile EXCEPT !.draft = d]
       \/ d = "same" /\ "revert" \in Controls
          /\ profile' = [profile EXCEPT !.draft = "same", !.saveError = FALSE]
  /\ UNCHANGED <<given, keys, login, isLoading, user, gate, session, calls, exit, hours, ui,
                 kills>>

\* An empty name is refused here; an edit that only adds blanks is undone and not
\* sent.
Save ==
  /\ "save" \in Controls
  /\ \/ /\ profile.draft = "blank"
        /\ profile' = [profile EXCEPT !.saveError = TRUE] /\ UNCHANGED calls
     \/ /\ profile.draft = "edited"
        /\ profile' = [profile EXCEPT !.saveError = FALSE, !.draft = "same"] /\ UNCHANGED calls
     \/ /\ profile.draft = "edited"
        /\ profile' = [profile EXCEPT !.saveError = FALSE] /\ calls' = Issued("save")
  /\ UNCHANGED <<given, keys, login, isLoading, user, gate, session, exit, hours, ui, kills>>

\* setProfile: only into an envelope that is there.
SetProfile(w) == IF me = None THEN None ELSE [me EXCEPT !.user = w]

SaveLanded ==
  /\ calls["save"] # Idle
  /\ \E o \in Outcomes(calls["save"]) :
       /\ MeAfter(o, SetProfile(calls["save"].who))
       /\ profile' = IF o = "ok" THEN [profile EXCEPT !.draft = "same"]
                     ELSE [profile EXCEPT !.saveError = TRUE]
  /\ calls' = Landed("save")
  /\ UNCHANGED <<given, keys, login, isLoading, user, gate, meError, exit, hours, ui, kills>>

\* Always confirmed; Cancel takes it back.
Confirm ==
  /\ \/ "signOut" \in Controls /\ profile' = [profile EXCEPT !.confirming = TRUE]
     \/ "cancel" \in Controls
        /\ profile' = [profile EXCEPT !.confirming = FALSE, !.signOutError = FALSE]
  /\ UNCHANGED <<given, keys, login, isLoading, user, gate, session, calls, exit, hours, ui,
                 kills>>
-----------------------------------------------------------------------------
(* lib/signOut.ts *)

\* Mutant: no signOutInFlight ref.
SignOutUnguarded == "anyway" \in Controls
MayRunSignOut == "anyway" \in Controls /\ ~signOutInFlight

\* runSignOut: the dialog opens.  With one open already, the SDK refuses and the
\* fallback follows.
RunSignOut ==
  /\ MayRunSignOut
  /\ IF browser THEN leaving' = "local" /\ UNCHANGED browser
                ELSE browser' = TRUE /\ UNCHANGED leaving
  /\ profile' = [profile EXCEPT !.signOutError = FALSE]
  /\ UNCHANGED <<given, keys, login, isLoading, user, gate, session, calls, hours, ui, kills>>

\* The worker backs out: nothing is touched.
SignOutCancelled ==
  /\ browser /\ browser' = FALSE
  /\ UNCHANGED <<given, keys, login, isLoading, user, gate, session, calls, leaving, profile,
                 hours, ui, kills>>

\* No signal, no logout page: the fallback.
SignOutUnreachable ==
  /\ browser /\ browser' = FALSE /\ leaving' = "local"
  /\ UNCHANGED <<given, keys, login, isLoading, user, gate, session, calls, profile, hours, ui,
                 kills>>

\* The credentials are gone, by the SDK or by the fallback.
CredentialsCleared ==
  /\ \/ browser /\ browser' = FALSE
     \/ leaving = "local" /\ UNCHANGED browser
  /\ leaving' = "wiping"
  /\ keys' = NoKeys /\ ProviderSets(Nobody)
  /\ UNCHANGED <<given, login, isLoading, hasCreds, clearing, session, calls, profile, hours,
                 ui, kills>>

KeychainRefuses ==
  /\ leaving = "local" /\ leaving' = "no"
  /\ profile' = [profile EXCEPT !.signOutError = TRUE]
  /\ UNCHANGED <<given, keys, login, isLoading, user, gate, session, calls, browser, hours, ui,
                 kills>>

\* The queue, the clock store and the session store.
wipeLocalState ==
  /\ leaving = "wiping" /\ Settled /\ leaving' = "no"
  /\ me' = None /\ unsent' = {} /\ ResetClock(calls)
  /\ UNCHANGED <<given, keys, login, isLoading, user, gate, meError, browser, profile, ui, kills>>
-----------------------------------------------------------------------------
(* The clock store and the queue, as far as sessions touch them. *)

\* A live clock-in: the optimistic write, and the request.
ClockIn ==
  /\ Screen = "tabs" /\ "tap" \in given.uses /\ keys # NoKeys
  /\ calls["tap"] = Idle /\ clock = Nobody
  /\ clock' = keys.who
  /\ calls' = [k \in Kinds |->
       IF k = "hydrate" /\ calls[k] # Idle THEN [calls[k] EXCEPT !.current = FALSE]
       ELSE Issued("tap")[k]]
  /\ UNCHANGED <<given, keys, login, isLoading, user, gate, session, exit, profile, unsent, ui,
                 kills>>

\* A retryable failure queues it, a 401 among them; or the server refuses it.
ClockInLanded ==
  /\ calls["tap"] # Idle
  /\ \E o \in Outcomes(calls["tap"]) \cup {"refused"} :
       /\ MeAfter(o, me)
       /\ unsent' = IF o \in {"network", "401"} THEN unsent \cup {calls["tap"].who} ELSE unsent
       /\ IF o \in {"ok", "refused"}
          THEN /\ clock' = IF o = "ok" THEN calls["tap"].who ELSE Nobody
               /\ calls' = [k \in Kinds |->
                    IF k = "hydrate" /\ calls[k] # Idle THEN [calls[k] EXCEPT !.current = FALSE]
                    ELSE Landed("tap")[k]]
          ELSE clock' = clock /\ calls' = Landed("tap")
  /\ UNCHANGED <<given, keys, login, isLoading, user, gate, meError, exit, profile, ui, kills>>

Hydrate ==
  /\ Screen = "tabs" /\ "hydrate" \in given.uses
  /\ calls' = Issued("hydrate")
  /\ UNCHANGED <<given, keys, login, isLoading, user, gate, session, exit, profile, hours, ui,
                 kills>>

HydrateLanded ==
  /\ calls["hydrate"] # Idle
  /\ \E o \in Outcomes(calls["hydrate"]) :
       /\ MeAfter(o, me)
       /\ IF o = "ok" /\ calls["hydrate"].current
          THEN clock' \in {Nobody, calls["hydrate"].who}
          ELSE clock' = clock
  /\ calls' = Landed("hydrate")
  /\ UNCHANGED <<given, keys, login, isLoading, user, gate, meError, exit, profile, unsent, ui,
                 kills>>

\* startSync is keyed on signedIn, not on me: the queue is worked, or refused.
Sync ==
  /\ signedIn /\ unsent # {} /\ keys # NoKeys
  /\ unsent' = {}
  /\ UNCHANGED <<given, keys, login, isLoading, user, gate, session, calls, exit, profile,
                 clock, ui, kills>>

SyncRefused ==
  /\ signedIn /\ unsent # {} /\ (keys.dead \/ keys = NoKeys) /\ me' = None
  /\ UNCHANGED <<given, keys, login, isLoading, user, gate, meError, calls, exit, profile,
                 hours, ui, kills>>
-----------------------------------------------------------------------------
Revoke ==
  /\ keys # NoKeys /\ keys' = [keys EXCEPT !.dead = TRUE]
  /\ UNCHANGED <<given, login, isLoading, user, gate, session, calls, exit, profile, hours, ui,
                 kills>>

\* The keychain, the queue and the explainer's flag survive.  A login open in
\* the browser can still be completed (Android).
Kill ==
  /\ kills < given.kills /\ kills' = kills + 1
  /\ login' = IF login = "open" THEN "recoverable" ELSE login
  /\ isLoading' = TRUE /\ user' = Nobody /\ hasCreds' = "unknown" /\ check' = "none"
  /\ me' = None /\ meError' = FALSE /\ due' = FALSE /\ calls' = [k \in Kinds |-> Idle]
  /\ clearing' = FALSE /\ browser' = FALSE /\ leaving' = "no" /\ profile' = Fresh
  /\ clock' = Nobody /\ hydrated' = FALSE /\ read' = "unread"
  /\ UNCHANGED <<given, keys, unsent, seen, os>>

Init ==
  /\ given \in Conditions
  /\ keys = NoKeys /\ login = "no" /\ unsent = {} /\ kills = 0
  /\ seen = ~given.new /\ os = IF given.new THEN "undetermined" ELSE "granted"
  /\ isLoading = TRUE /\ user = Nobody /\ hasCreds = "unknown" /\ check = "none"
  /\ me = None /\ meError = FALSE /\ due = FALSE /\ calls = [k \in Kinds |-> Idle]
  /\ clearing = FALSE /\ browser = FALSE /\ leaving = "no" /\ profile = Fresh
  /\ clock = Nobody /\ hydrated = FALSE /\ read = "unread"

GateSteps ==
  Initialize \/ CheckRead \/ CheckLands \/ GateLanded \/ ClearsExpired \/ ExpiredRefused
Landings == RefreshLanded \/ SaveLanded \/ ClockInLanded \/ HydrateLanded

Steps ==
  \/ GateSteps \/ Landings
  \/ UiRehydrated \/ PermissionRead \/ ExplainerDismissed
  \/ SignIn \/ LoginFails \/ \E w \in Workers : LoggedIn(w)
  \/ Refresh \/ EditName \/ Save \/ Confirm
  \/ RunSignOut \/ SignOutCancelled \/ SignOutUnreachable \/ CredentialsCleared
  \/ KeychainRefuses \/ wipeLocalState
  \/ ClockIn \/ Hydrate \/ Sync \/ SyncRefused \/ Revoke

\* React re-runs the load effect when what it depends on has changed.
Effects == due' = (due \/ signedIn' # signedIn \/ (me' = None) # (me = None))

Next == (Steps /\ Effects) \/ GateLoads \/ GateRetry \/ Kill

Spec == Init /\ [][Next]_vars

\* Promises settle, effects run, storage and the OS answer.
FairSpec ==
  /\ Spec
  /\ WF_vars(Initialize /\ Effects) /\ WF_vars(CheckRead /\ Effects)
  /\ WF_vars(CheckLands /\ Effects) /\ WF_vars(GateLoads) /\ WF_vars(GateLanded /\ Effects)
  /\ WF_vars(ClearsExpired /\ Effects) /\ WF_vars(RefreshLanded /\ Effects)
  /\ WF_vars(SaveLanded /\ Effects) /\ WF_vars(ClockInLanded /\ Effects)
  /\ WF_vars(UiRehydrated /\ Effects) /\ WF_vars(PermissionRead /\ Effects)
-----------------------------------------------------------------------------
TypeOK ==
  /\ given \in Conditions /\ kills \in 0 .. given.kills
  /\ keys \in [who: Workers \cup {Nobody}, dead: BOOLEAN]
  /\ login \in {"no", "open", "recoverable"} /\ isLoading \in BOOLEAN
  /\ user \in Workers \cup {Nobody}
  /\ hasCreds \in {"unknown", "yes", "no"} /\ check \in {"none", "asked", "yes", "no"}
  /\ me \in [user: Workers \cup {Nobody}, of: Workers \cup {Nobody}]
  /\ meError \in BOOLEAN /\ due \in BOOLEAN /\ clearing \in BOOLEAN /\ browser \in BOOLEAN
  /\ calls \in [Kinds -> {Idle} \cup Call]
  /\ leaving \in {"no", "local", "wiping"}
  /\ profile.draft \in {"same", "edited", "blank"}
  /\ clock \in Workers \cup {Nobody} /\ unsent \subseteq Workers
  /\ seen \in BOOLEAN /\ hydrated \in BOOLEAN /\ read \in {"unread"} \cup Status
  /\ os \in Status

\* The gate never stays on its spinner (_layout.tsx: the gate would sit on a
\* spinner forever; ui.ts: this cannot hang).
GateSettles == Screen = "spinner" ~> Screen # "spinner"

\* Hours leave the queue by being sent, or with a session that is really over:
\* never while the worker can still back out of the logout dialog (signOut.ts:
\* wiping first and asking second would destroy a queue for nothing).
HoursOutliveADialog ==
  [][unsent \subseteq unsent' \/ Sync \/ (keys = NoKeys /\ ~browser)]_vars

\* A session that could be renewed is ended by its worker and by nothing else:
\* not by an offline launch, not by an outage (session.ts: a transport failure
\* must stay retryable).
OnlyItsWorkerEndsASession ==
  [][~given.late /\ keys # NoKeys /\ ~keys.dead /\ keys' = NoKeys => signOutInFlight]_vars

\* The tabs are the signed-in worker's: the shift shown is not the last one's,
\* by whichever way that session ended (signOut.ts, _layout.tsx on reset()).
ClockIsTheWorkers ==
  ~given.late /\ Screen = "tabs" /\ keys # NoKeys => clock \in {Nobody, keys.who}

\* And so are the profile and the memberships (signOut.ts: a store missed here is
\* a leak onto the next person to use the phone).
MeIsTheWorkers ==
  Screen = "tabs" /\ keys # NoKeys => me = Envelope(keys.who)
=============================================================================
