---------------------------- MODULE Memberships ----------------------------
(***************************************************************************)
(* Who works for whom: the users and memberships collections, under        *)
(* backend/internal/user/{handler,store}.go and the member operations of   *)
(* backend/internal/employer/{handler,store}.go.                           *)
(*                                                                         *)
(* There is no signup: every authenticated request first finds or creates  *)
(* the user of its token and claims the invitations sent to its address.   *)
(* An employer adds members by address.  As in TimeEntries every access to *)
(* the database is an action, so requests of several people interleave     *)
(* between lookup and write; what holds them together is the unique indexes*)
(* users(auth0_sub), users(email) and memberships(employer_id, email), and *)
(* the filters of the updates.  Ownership of an employer never changes and *)
(* is left out: the owner's requests are the ones here.                    *)
(***************************************************************************)
EXTENDS Integers, FiniteSets

CONSTANTS
  Subs, Emails, Employers, None,
  Rates,         \* what a worker can be paid, None before a rate is set
  Slots,
  Conditions     \* the conditions considered, see Condition

\* What can happen in a behaviour: how many requests are served at once, how
\* many accounts change their address, how many requests die half-way, and the
\* rates employers set.
Condition == [atOnce: Nat, moves: Nat, failures: Nat, rates: SUBSET Rates]

ASSUME BoundAssumption ==
  /\ Conditions \subseteq Condition
  /\ None \notin Subs \cup Emails \cup Rates
  /\ None \notin [email: Emails \cup {None}]

VARIABLES
  given,      \* the conditions of this behaviour
  account,    \* Auth0: the address of each subject, and whether it is verified
  issued,     \* the identities its tokens carry; an old token outlives a change
  users,      \* the users documents: the address each was created with
  members,    \* the memberships documents, by employer and address
  worked,     \* history: pairs <<employer, subject>> with a shift on record
  req,        \* what each slot is serving
  moves, failures

vars == <<given, account, issued, users, members, worked, req, moves, failures>>

Rows == Employers \X Emails
AddressOf(r) == r[2]

\* A token may carry no address.
Identity == [email: Emails \cup {None}, verified: BOOLEAN]

Absent == [status |-> "absent"]
Membership ==
  [status: {"invited", "removed"}, user: Subs \cup {None}, rate: Rates \cup {None}] \cup
  [status: {"active"}, user: Subs, rate: Rates \cup {None}]

Idle    == [step |-> "idle"]
Request == [step: {"insert", "reread", "claim"}, sub: Subs, as: Identity] \cup
           [step: {"add"}, row: Rows, found: Subs \cup {None}]

Free(s) == req[s] = Idle /\ Cardinality({t \in Slots : req[t] # Idle}) < given.atOnce
At(s, step)      == req[s].step = step
Proceed(s, step) == req' = [req EXCEPT ![s] = [@ EXCEPT !.step = step]]
Done(s)          == req' = [req EXCEPT ![s] = Idle]

Provisioned(u) == users[u] # None
HasRow(r)      == members[r] # Absent
-----------------------------------------------------------------------------
(* Every authenticated request: Middleware, GetOrCreate. *)

\* Mutant: invitations are claimed at the user's creation only.
AfterFindDone(u, as) == IF Provisioned(u) THEN Idle ELSE [step |-> "insert", sub |-> u, as |-> as]
\* findOrInsert reads first.
AfterFind(u, as) ==
  [step |-> IF Provisioned(u) THEN "claim" ELSE "insert", sub |-> u, as |-> as]

Authenticate(s, u, as) ==
  /\ Free(s) /\ as \in issued[u]
  /\ req' = [req EXCEPT ![s] = AfterFind(u, as)]
  /\ UNCHANGED <<given, account, issued, users, members, worked, moves, failures>>

\* A document without an address: [email |-> ""], outside the unique index.
NoAddress == [email |-> None]

\* The unique index on the address, which documents without one escape.
Taken(email, u) ==
  email # None /\ \E v \in Subs \ {u} : Provisioned(v) /\ users[v].email = email

\* FindOneAndUpdate with $setOnInsert leaves a document that is there alone; of
\* two upserts that both saw none, the later meets the key of the earlier.
Insert(s) ==
  LET u == req[s].sub
      email == req[s].as.email
  IN  /\ At(s, "insert")
      /\ \/ ~Provisioned(u) /\ ~Taken(email, u)
            /\ users' = [users EXCEPT ![u] = [email |-> email]] /\ Proceed(s, "claim")
         \/ Provisioned(u) /\ Proceed(s, "claim") /\ UNCHANGED users
         \/ (Provisioned(u) \/ Taken(email, u)) /\ Proceed(s, "reread") /\ UNCHANGED users
      /\ UNCHANGED <<given, account, issued, members, worked, moves, failures>>

\* Whose key was it: the caller's own, inserted in the meantime, or another's
\* address (ErrEmailTaken).
Reread(s) ==
  /\ At(s, "reread")
  /\ IF Provisioned(req[s].sub) THEN Proceed(s, "claim") ELSE Done(s)
  /\ UNCHANGED <<given, account, issued, users, members, worked, moves, failures>>

\* Mutants of the filter: without the address, without the status.
ClaimableByAnyone(as) ==
  {r \in Rows : HasRow(r) /\ members[r].user = None /\ members[r].status = "invited"
                /\ as.verified}
ClaimableAnyStatus(as) ==
  {r \in Rows : HasRow(r) /\ members[r].user = None
                /\ as.verified /\ as.email = AddressOf(r)}
\* claimInvitations: what the filter matches, for a verified address.
Claimable(as) ==
  {r \in Rows : HasRow(r) /\ members[r].user = None /\ members[r].status = "invited"
                /\ as.verified /\ as.email = AddressOf(r)}

\* UpdateMany writes one document at a time; then the request goes its way.
Claim(s) ==
  LET open == Claimable(req[s].as) IN
  /\ At(s, "claim")
  /\ \/ open = {} /\ Done(s) /\ UNCHANGED members
     \/ /\ \E r \in open :
             members' = [members EXCEPT ![r] = [@ EXCEPT !.user = req[s].sub, !.status = "active"]]
        /\ UNCHANGED req
  /\ UNCHANGED <<given, account, issued, users, worked, moves, failures>>
-----------------------------------------------------------------------------
(* The owner's requests. *)

UserByEmail(email) == {u \in Subs : Provisioned(u) /\ users[u].email = email}

\* AddMember looks the address up among the users ...
AddMember(s, r) ==
  /\ Free(s)
  /\ \E u \in IF UserByEmail(AddressOf(r)) = {} THEN {None} ELSE UserByEmail(AddressOf(r)) :
       req' = [req EXCEPT ![s] = [step |-> "add", row |-> r, found |-> u]]
  /\ UNCHANGED <<given, account, issued, users, members, worked, moves, failures>>

\* ... then inserts a row, or revives a removed one, with what it found.  A row
\* that is revived keeps its rate, and its user if no other was found.
Invited(m, u) ==
  IF u = None THEN [m EXCEPT !.status = "invited"]
              ELSE [m EXCEPT !.status = "active", !.user = u]

Blank == [status |-> "invited", user |-> None, rate |-> None]

\* The upsert, filtered on status removed; a live row is refused by the index.
AddMemberWrite(s) ==
  LET r == req[s].row IN
  /\ At(s, "add")
  /\ members' = CASE ~HasRow(r) -> [members EXCEPT ![r] = Invited(Blank, req[s].found)]
                  [] HasRow(r) /\ members[r].status = "removed" ->
                       [members EXCEPT ![r] = Invited(@, req[s].found)]
                  [] OTHER -> members
  /\ Done(s)
  /\ UNCHANGED <<given, account, issued, users, worked, moves, failures>>

Live(r) == HasRow(r) /\ members[r].status # "removed"

\* Mutant: the user is taken off the row.
RemovedUnlinked(m) == [m EXCEPT !.status = "removed", !.user = None]
\* Soft: the row keeps its user.
Removed(m) == [m EXCEPT !.status = "removed"]

RemoveMember(r) ==
  /\ Live(r)
  /\ members' = [members EXCEPT ![r] = Removed(@)]
  /\ UNCHANGED <<given, account, issued, users, worked, req, moves, failures>>

SetMemberRate(r, cents) ==
  /\ Live(r) /\ cents \in given.rates
  /\ members' = [members EXCEPT ![r] = [@ EXCEPT !.rate = cents]]
  /\ UNCHANGED <<given, account, issued, users, worked, req, moves, failures>>
-----------------------------------------------------------------------------
(* Around the service. *)

\* A shift is recorded at an employer (TimeEntries): ActiveMembership.
Work(e, u) ==
  /\ \E r \in Rows : r[1] = e /\ Live(r) /\ members[r].status = "active" /\ members[r].user = u
  /\ worked' = worked \cup {<<e, u>>}
  /\ UNCHANGED <<given, account, issued, users, members, req, moves, failures>>

Reissue(u, as) ==
  /\ account' = [account EXCEPT ![u] = as]
  /\ issued' = [issued EXCEPT ![u] = @ \cup {as}]
  /\ UNCHANGED <<given, users, members, worked, req, failures>>

Verify(u) ==
  /\ account[u].email # None /\ ~account[u].verified
  /\ Reissue(u, [account[u] EXCEPT !.verified = TRUE])
  /\ UNCHANGED moves

\* The address of an Auth0 account is changed there; nothing tells the service.
Move(u, email) ==
  /\ moves < given.moves /\ email # account[u].email
  /\ moves' = moves + 1
  /\ Reissue(u, [email |-> email, verified |-> FALSE])

\* A request dies between two of its accesses.
Fail(s) ==
  /\ req[s] # Idle /\ failures < given.failures
  /\ failures' = failures + 1
  /\ Done(s)
  /\ UNCHANGED <<given, account, issued, users, members, worked, moves>>

Init ==
  /\ given \in Conditions
  /\ account \in [Subs -> {as \in Identity : as.email = None => ~as.verified}]
  /\ issued = [u \in Subs |-> {account[u]}]
  /\ users = [u \in Subs |-> None]
  /\ members = [r \in Rows |-> Absent]
  /\ worked = {} /\ moves = 0 /\ failures = 0
  /\ req = [s \in Slots |-> Idle]

Handle(s) == Insert(s) \/ Reread(s) \/ Claim(s) \/ AddMemberWrite(s)

Next ==
  \/ \E s \in Slots : \/ \E u \in Subs, as \in Identity : Authenticate(s, u, as)
                      \/ \E r \in Rows : AddMember(s, r)
                      \/ Handle(s) \/ Fail(s)
  \/ \E r \in Rows : RemoveMember(r) \/ \E cents \in Rates : SetMemberRate(r, cents)
  \/ \E e \in Employers, u \in Subs : Work(e, u)
  \/ \E u \in Subs : Verify(u) \/ \E email \in Emails : Move(u, email)

Spec == Init /\ [][Next]_vars

\* Handlers finish, and a worker's app comes back with a current token; strong,
\* because the bound on requests at once is not the server's.
Fairness ==
  /\ \A s \in Slots : WF_vars(Handle(s))
  /\ \A u \in Subs : SF_vars(\E s \in Slots : Authenticate(s, u, account[u]))

FairSpec == Spec /\ Fairness
-----------------------------------------------------------------------------
TypeOK ==
  /\ account \in [Subs -> Identity]
  /\ issued \in [Subs -> SUBSET Identity]
  /\ users \in [Subs -> {None} \cup [email: Emails \cup {None}]]
  /\ members \in [Rows -> {Absent} \cup Membership]
  /\ worked \subseteq Employers \X Subs
  /\ req \in [Slots -> {Idle} \cup Request]
  /\ given \in Conditions
  /\ moves \in 0 .. given.moves /\ failures \in 0 .. given.failures

RowsOf(e, u) == {r \in Rows : r[1] = e /\ HasRow(r) /\ members[r].user = u}

\* A worker has one membership at an employer, so there is one rate to pay and
\* one row to remove (tip/handler.go buildReport keys the rows by user), as
\* long as accounts keep their address.
OneMembershipEach ==
  moves = 0 => \A e \in Employers, u \in Subs : Cardinality(RowsOf(e, u)) <= 1

\* The hours of everybody who ever worked there find a membership to be paid
\* under, after any removal and revival (buildReport skips an entry without one
\* as corrupt data), as long as accounts keep their address.
HoursHaveAMember == moves = 0 => \A p \in worked : RowsOf(p[1], p[2]) # {}

\* A removed membership is brought back by the employer alone, never by a
\* login, and comes back at the rate it had (claimInvitations, AddMember,
\* updateMember).
RemovedIsFrozen ==
  [][\A r \in Rows : HasRow(r) /\ members[r].status = "removed" /\ members'[r] # members[r] =>
       /\ \E s \in Slots : At(s, "add") /\ req[s].row = r
       /\ members'[r].rate = members[r].rate]_vars

\* What an invitation looks like that nobody has claimed, as claimInvitations
\* says of its filter: it has no user.
InvitationsAreOpen ==
  \A r \in Rows : HasRow(r) /\ members[r].status = "invited" => members[r].user = None

\* An invitation reaches the verified owner of its address in the end, however
\* it races the account's first request (design.md 4.3, membership linking),
\* unless another account holds the address.  An invitation that is not open
\* (InvitationsAreOpen, which does not hold) reaches nobody.
InvitationsAreClaimed ==
  \A r \in Rows, u \in Subs :
    /\ HasRow(r) /\ members[r].status = "invited" /\ members[r].user = None /\ moves = 0
    /\ account[u] = [email |-> AddressOf(r), verified |-> TRUE]
    ~> \/ members[r].status # "invited"
       \/ moves > 0 \/ Taken(AddressOf(r), u)
=============================================================================
