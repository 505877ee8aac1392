-------------------------- MODULE EmployerProofs ---------------------------
(***************************************************************************)
(* Theorems about an employer's people and their pay: about Memberships    *)
(* for every set of accounts, addresses, employers and handlers, and about *)
(* Payroll for every zone, range of days and set of shifts.                *)
(***************************************************************************)
EXTENDS Memberships, Payroll, TLAPS, FiniteSetTheorems, FunctionTheorems
-----------------------------------------------------------------------------
(* Types *)

\* The changes a row goes through keep it a membership.
LEMMA RowTypes ==
  ASSUME NEW m \in Membership, NEW u \in Subs \cup {None}
  PROVE  /\ u # None => [m EXCEPT !.user = u, !.status = "active"] \in Membership
         /\ m.status = "removed" => Invited(m, u) \in Membership
         /\ Removed(m) \in Membership
         /\ \A cents \in Rates : [m EXCEPT !.rate = cents] \in Membership
BY BoundAssumption DEF Membership, Invited, Removed

\* What a row is written as when there is none yet.
LEMMA BlankTypes ==
  ASSUME NEW u \in Subs \cup {None}
  PROVE  Invited(Blank, u) \in Membership
BY DEF Membership, Invited, Blank

\* A request under way carries what its step goes by.
LEMMA RequestFields ==
  ASSUME TypeOK, NEW s \in Slots, req[s].step # "idle"
  PROVE  /\ req[s].step = "add" => /\ req[s].row \in Rows /\ req[s].found \in Subs \cup {None}
         /\ req[s].step # "add" => /\ req[s] \in [step: {"insert", "reread", "claim"},
                                                  sub: Subs, as: Identity]
                                   /\ req[s].sub \in Subs /\ req[s].as \in Identity
BY DEF TypeOK, Request, Idle

\* A row that is there is a membership.
LEMMA RowOfMembers ==
  ASSUME TypeOK, NEW r \in Rows
  PROVE  HasRow(r) => members[r] \in Membership
BY DEF TypeOK, HasRow

\* A request that goes a step on stays one.
LEMMA GoneOn ==
  ASSUME TypeOK, NEW s \in Slots, req[s].step \in {"insert", "reread", "claim"},
         NEW step \in {"insert", "reread", "claim"}
  PROVE  [req[s] EXCEPT !.step = step] \in Request
BY RequestFields DEF Request

LEMMA InitTypes == Init => TypeOK
<1> SUFFICES ASSUME Init PROVE TypeOK
  OBVIOUS
<1>1. given.moves \in Nat /\ given.failures \in Nat
  BY BoundAssumption DEF Init, Condition
<1>2. QED
  BY <1>1 DEF Init, TypeOK

LEMMA NextTypes == TypeOK /\ [Next]_vars => TypeOK'
<1> SUFFICES ASSUME TypeOK, [Next]_vars PROVE TypeOK'
  OBVIOUS
<1>0. given.moves \in Nat /\ given.failures \in Nat
  BY BoundAssumption DEF TypeOK, Condition
<1>1. CASE UNCHANGED vars
  BY <1>1 DEF vars, TypeOK
<1>2. ASSUME NEW s \in Slots, NEW u \in Subs, NEW as \in Identity, Authenticate(s, u, as)
      PROVE  TypeOK'
  <2>1. AfterFind(u, as) \in Request
    BY DEF AfterFind, Request
  <2>2. QED
    BY <1>2, <2>1 DEF Authenticate, TypeOK
<1>3. ASSUME NEW s \in Slots, NEW r \in Rows, AddMember(s, r) PROVE TypeOK'
  <2>1. PICK u \in Subs \cup {None} :
          req' = [req EXCEPT ![s] = [step |-> "add", row |-> r, found |-> u]]
    BY <1>3 DEF AddMember, UserByEmail
  <2>2. [step |-> "add", row |-> r, found |-> u] \in Request
    BY DEF Request
  <2>3. QED
    BY <1>3, <2>1, <2>2 DEF AddMember, TypeOK
<1>4. ASSUME NEW s \in Slots, Insert(s) PROVE TypeOK'
  <2>1. req[s].step = "insert"
    BY <1>4 DEF Insert, At
  <2>2. req[s].sub \in Subs /\ req[s].as.email \in Emails \cup {None}
    BY <2>1, RequestFields DEF Identity
  <2>3. req' \in [Slots -> {Idle} \cup Request]
    BY <1>4, <2>1, GoneOn DEF Insert, Proceed, TypeOK
  <2>4. users' \in [Subs -> {None} \cup [email: Emails \cup {None}]]
    BY <1>4, <2>2 DEF Insert, TypeOK
  <2>5. QED
    BY <1>4, <2>3, <2>4 DEF Insert, TypeOK
<1>5. ASSUME NEW s \in Slots, Reread(s) PROVE TypeOK'
  <2>1. req[s].step = "reread"
    BY <1>5 DEF Reread, At
  <2>2. req' \in [Slots -> {Idle} \cup Request]
    BY <1>5, <2>1, GoneOn DEF Reread, Proceed, Done, TypeOK
  <2>3. QED
    BY <1>5, <2>2 DEF Reread, TypeOK
<1>6. ASSUME NEW s \in Slots, Claim(s) PROVE TypeOK'
  <2>1. req[s].step = "claim" /\ req[s].sub \in Subs
    BY <1>6, RequestFields DEF Claim, At
  <2>2. req' \in [Slots -> {Idle} \cup Request]
    BY <1>6 DEF Claim, Done, TypeOK
  <2>3. ASSUME NEW r \in Claimable(req[s].as)
        PROVE  r \in Rows /\ [members[r] EXCEPT !.user = req[s].sub, !.status = "active"]
                             \in Membership
    <3>1. r \in Rows /\ members[r] \in Membership
      BY <2>3, RowOfMembers DEF Claimable
    <3>2. req[s].sub # None
      BY <2>1, BoundAssumption
    <3>3. QED
      BY <2>1, <3>1, <3>2, RowTypes
  <2>4. members' \in [Rows -> {Absent} \cup Membership]
    BY <1>6, <2>3 DEF Claim, TypeOK
  <2>5. QED
    BY <1>6, <2>2, <2>4 DEF Claim, TypeOK
<1>7. ASSUME NEW s \in Slots, AddMemberWrite(s) PROVE TypeOK'
  <2> DEFINE r == req[s].row
             u == req[s].found
  <2>1. r \in Rows /\ u \in Subs \cup {None}
    BY <1>7, RequestFields DEF AddMemberWrite, At
  <2>2. Invited(Blank, u) \in Membership
    BY <2>1, BlankTypes
  <2>3. HasRow(r) /\ members[r].status = "removed" => Invited(members[r], u) \in Membership
    BY <2>1, RowOfMembers, RowTypes
  <2>4. members' \in [Rows -> {Absent} \cup Membership]
    <3>1. \/ members' = [members EXCEPT ![r] = Invited(Blank, u)]
          \/ HasRow(r) /\ members[r].status = "removed"
             /\ members' = [members EXCEPT ![r] = Invited(members[r], u)]
          \/ members' = members
      BY <1>7 DEF AddMemberWrite
    <3> HIDE DEF r, u
    <3>2. QED
      BY <2>1, <2>2, <2>3, <3>1 DEF TypeOK
  <2>5. QED
    BY <1>7, <2>4 DEF AddMemberWrite, Done, TypeOK
<1>8. ASSUME NEW r \in Rows, RemoveMember(r) PROVE TypeOK'
  <2>1. Removed(members[r]) \in Membership
    BY <1>8, RowOfMembers, RowTypes DEF RemoveMember, Live
  <2>2. QED
    BY <1>8, <2>1 DEF RemoveMember, TypeOK
<1>9. ASSUME NEW r \in Rows, NEW cents \in Rates, SetMemberRate(r, cents) PROVE TypeOK'
  <2>1. [members[r] EXCEPT !.rate = cents] \in Membership
    BY <1>9, RowOfMembers, RowTypes DEF SetMemberRate, Live
  <2>2. QED
    BY <1>9, <2>1 DEF SetMemberRate, TypeOK
<1>10. ASSUME NEW e \in Employers, NEW u \in Subs, Work(e, u) PROVE TypeOK'
  BY <1>10 DEF Work, TypeOK
<1>11. ASSUME NEW u \in Subs, NEW as \in Identity, Reissue(u, as),
              moves' \in 0 .. given.moves
       PROVE  TypeOK'
  BY <1>11 DEF Reissue, TypeOK
<1>12. ASSUME NEW u \in Subs, Verify(u) PROVE TypeOK'
  <2>1. [account[u] EXCEPT !.verified = TRUE] \in Identity
    BY DEF TypeOK, Identity
  <2>2. QED
    BY <1>11, <1>12, <2>1 DEF Verify, TypeOK
<1>13. ASSUME NEW u \in Subs, NEW email \in Emails, Move(u, email) PROVE TypeOK'
  <2>1. [email |-> email, verified |-> FALSE] \in Identity
    BY DEF Identity
  <2>2. moves' \in 0 .. given.moves
    BY <1>0, <1>13 DEF Move, TypeOK
  <2>3. QED
    BY <1>11, <1>13, <2>1, <2>2 DEF Move
<1>14. ASSUME NEW s \in Slots, Fail(s) PROVE TypeOK'
  BY <1>0, <1>14 DEF Fail, Done, TypeOK
<1>15. QED
  BY <1>1, <1>2, <1>3, <1>4, <1>5, <1>6, <1>7, <1>8, <1>9, <1>10, <1>12, <1>13, <1>14
     DEF Next, Handle
-----------------------------------------------------------------------------
(* Who is who, as long as accounts keep their address *)

\* Identities and users carry the address their account has.
Addressed ==
  \A u \in Subs : /\ \A as \in issued[u] : as.email = account[u].email
                  /\ Provisioned(u) => users[u].email = account[u].email

\* The unique index on the address.
OneUserEach ==
  \A u, v \in Subs :
    Provisioned(u) /\ Provisioned(v) /\ users[u].email = users[v].email /\ users[u].email # None
    => u = v

\* What a request read of an account is still so when it writes.
Knows(q, us, acc) ==
  /\ q.step \in {"insert", "reread", "claim"} => q.as.email = acc[q.sub].email
  /\ q.step = "claim" => us[q.sub] # None
  /\ q.step = "add" /\ q.found # None =>
       us[q.found] # None /\ us[q.found].email = AddressOf(q.row)

\* A row belongs to an account that has its address.
Belongs(m, r, us, acc) ==
  m # Absent /\ m.user # None => us[m.user] # None /\ acc[m.user].email = AddressOf(r)

Informed   == \A s \in Slots : Knows(req[s], users, account)
Linked     == \A r \in Rows : Belongs(members[r], r, users, account)
Remembered == \A p \in worked : RowsOf(p[1], p[2]) # {}

Faithful == Addressed /\ OneUserEach /\ Informed /\ Linked /\ Remembered

IndInv == TypeOK /\ (moves = 0 => Faithful)

\* A user document is written once.
LEMMA UsersStay ==
  ASSUME TypeOK, [Next]_vars, NEW u \in Subs, users[u] # None
  PROVE  users'[u] = users[u]
<1>1. CASE users' = users
  BY <1>1
<1>2. ASSUME NEW s \in Slots, Insert(s) PROVE users'[u] = users[u]
  <2>1. req[s].sub \in Subs
    BY <1>2, RequestFields DEF Insert, At
  <2>2. QED
    BY <1>2, <2>1 DEF Insert, Provisioned, TypeOK
<1>3. QED
  BY <1>1, <1>2 DEF Next, vars, Handle, Authenticate, AddMember, Reread, Claim, AddMemberWrite,
     Fail, RemoveMember, SetMemberRate, Work, Verify, Move, Reissue

\* As long as no account has moved, every account keeps its address.
LEMMA EmailsStay ==
  ASSUME TypeOK, [Next]_vars, moves' = 0
  PROVE  moves = 0 /\ \A u \in Subs : account'[u].email = account[u].email
<1>0. moves \in Nat
  BY BoundAssumption DEF TypeOK, Condition
<1>1. CASE moves' = moves /\ account' = account
  BY <1>1
<1>2. ASSUME NEW u \in Subs, Verify(u)
      PROVE  moves' = moves /\ \A v \in Subs : account'[v].email = account[v].email
  <2> DEFINE as == [account[u] EXCEPT !.verified = TRUE]
  <2>1. as.email = account[u].email
    BY DEF TypeOK, Identity
  <2>2. account' = [account EXCEPT ![u] = as] /\ moves' = moves
    BY <1>2 DEF Verify, Reissue
  <2> HIDE DEF as
  <2>3. QED
    BY <2>1, <2>2 DEF TypeOK
<1>3. ASSUME NEW u \in Subs, NEW email, Move(u, email) PROVE FALSE
  BY <1>0, <1>3 DEF Move
<1>4. QED
  BY <1>1, <1>2, <1>3 DEF Next, vars, Handle, Insert, Authenticate, AddMember, Reread, Claim,
     AddMemberWrite, Fail, RemoveMember, SetMemberRate, Work

\* Each part of Faithful is kept by every step.
LEMMA AddressedStep ==
  ASSUME TypeOK, [Next]_vars, moves' = 0, Addressed, Informed
  PROVE  Addressed'
<1>0. \A u \in Subs : account'[u].email = account[u].email
  BY EmailsStay
<1>1. CASE issued' = issued /\ users' = users
  BY <1>0, <1>1 DEF Addressed, Provisioned
<1>2. ASSUME NEW s \in Slots, Insert(s) PROVE Addressed'
  <2> DEFINE u == req[s].sub
  <2>1. u \in Subs /\ req[s].step = "insert"
    BY <1>2, RequestFields DEF Insert, At
  <2>2. req[s].as.email = account[u].email
    BY <2>1 DEF Informed, Knows
  <2>3. issued' = issued
        /\ (users' = users \/ users' = [users EXCEPT ![u] = [email |-> req[s].as.email]])
    BY <1>2 DEF Insert
  <2>4. \A v \in Subs : users'[v] = users[v] \/ users'[v].email = account[v].email
    BY <2>1, <2>2, <2>3 DEF TypeOK
  <2>5. QED
    BY <1>0, <2>3, <2>4 DEF Addressed, Provisioned
<1>3. ASSUME NEW u \in Subs, Verify(u) PROVE Addressed'
  <2> DEFINE as == [account[u] EXCEPT !.verified = TRUE]
  <2>1. as.email = account[u].email
    BY DEF TypeOK, Identity
  <2>2. issued' = [issued EXCEPT ![u] = @ \cup {as}] /\ users' = users
    BY <1>3 DEF Verify, Reissue
  <2> HIDE DEF as
  <2>3. \A v \in Subs : \A old \in issued'[v] : old.email = account[v].email
    BY <2>1, <2>2 DEF TypeOK, Addressed
  <2>4. QED
    BY <1>0, <2>2, <2>3 DEF Addressed, Provisioned
<1>4. ASSUME NEW u \in Subs, NEW email, Move(u, email) PROVE FALSE
  BY <1>4, EmailsStay DEF Move
<1>5. QED
  BY <1>1, <1>2, <1>3, <1>4 DEF Next, vars, Handle, Authenticate, AddMember, Reread, Claim,
     AddMemberWrite, Fail, RemoveMember, SetMemberRate, Work

LEMMA OneUserStep ==
  ASSUME TypeOK, [Next]_vars, OneUserEach
  PROVE  OneUserEach'
<1>1. CASE users' = users
  BY <1>1 DEF OneUserEach, Provisioned
<1>2. ASSUME NEW s \in Slots, Insert(s), users' # users PROVE OneUserEach'
  <2> DEFINE u == req[s].sub
             email == req[s].as.email
  <2>1. u \in Subs
    BY <1>2, RequestFields DEF Insert, At
  <2>2. users' = [users EXCEPT ![u] = [email |-> email]] /\ ~Taken(email, u)
    BY <1>2 DEF Insert
  <2>3. /\ users'[u].email = email
        /\ \A v \in Subs \ {u} : users'[v] = users[v]
    BY <2>1, <2>2 DEF TypeOK
  <2>4. \A v \in Subs \ {u} : users'[v] # None /\ email # None => users'[v].email # email
    BY <2>2, <2>3 DEF Taken, Provisioned
  <2> HIDE DEF u, email
  <2>5. QED
    BY <2>1, <2>3, <2>4 DEF OneUserEach, Provisioned
<1>3. QED
  BY <1>1, <1>2 DEF Next, vars, Handle, Authenticate, AddMember, Reread, Claim, AddMemberWrite,
     Fail, RemoveMember, SetMemberRate, Work, Verify, Move, Reissue

LEMMA InformedStep ==
  ASSUME TypeOK, [Next]_vars, moves' = 0, Addressed, Informed
  PROVE  Informed'
<1>0. /\ \A u \in Subs : account'[u].email = account[u].email
      /\ \A u \in Subs : users[u] # None => users'[u] = users[u]
  BY EmailsStay, UsersStay
<1>1. ASSUME NEW s \in Slots PROVE Knows(req[s], users', account')
  <2>1. Knows(req[s], users, account)
    BY DEF Informed
  <2>2. CASE req[s].step = "idle"
    BY <2>2 DEF Knows
  <2>3. CASE req[s].step # "idle"
    BY <1>0, <2>1, <2>3, RequestFields DEF Knows
  <2>4. QED
    BY <2>2, <2>3
<1>2. ASSUME NEW s \in Slots, NEW R, req' = [req EXCEPT ![s] = R], Knows(R, users', account')
      PROVE  Informed'
  <2>1. \A t \in Slots : req'[t] = IF t = s THEN R ELSE req[t]
    BY <1>2 DEF TypeOK
  <2>2. QED
    BY <1>1, <1>2, <2>1 DEF Informed
<1>3. CASE req' = req
  BY <1>1, <1>3 DEF Informed
<1>4. ASSUME NEW s \in Slots, Done(s) PROVE Informed'
  BY <1>2, <1>4 DEF Done, Knows, Idle
<1>5. ASSUME NEW s \in Slots, NEW step, Proceed(s, step),
             req[s].step \in {"insert", "reread"},
             step \in {"claim", "reread"}, step = "claim" => users'[req[s].sub] # None
      PROVE  Informed'
  <2> DEFINE R == [req[s] EXCEPT !.step = step]
  <2>1. R.step = step /\ R.sub = req[s].sub /\ R.as = req[s].as
    BY <1>5, RequestFields
  <2>2. req' = [req EXCEPT ![s] = R]
    BY <1>5 DEF Proceed
  <2> HIDE DEF R
  <2>3. Knows(R, users', account')
    BY <1>1, <1>5, <2>1 DEF Knows
  <2>4. QED
    BY <1>2, <2>2, <2>3
<1>6. ASSUME NEW s \in Slots, NEW u \in Subs, NEW as \in Identity, Authenticate(s, u, as)
      PROVE  Informed'
  <2> DEFINE R == AfterFind(u, as)
  <2>1. /\ R.sub = u /\ R.as = as /\ R.step \in {"insert", "claim"}
        /\ R.step = "claim" => users[u] # None
    BY DEF AfterFind, Provisioned
  <2>2. req' = [req EXCEPT ![s] = R] /\ as.email = account[u].email /\ users' = users
    BY <1>6 DEF Authenticate, Addressed
  <2> HIDE DEF R
  <2>3. Knows(R, users', account')
    BY <1>0, <2>1, <2>2 DEF Knows
  <2>4. QED
    BY <1>2, <2>2, <2>3
<1>7. ASSUME NEW s \in Slots, NEW r \in Rows, AddMember(s, r) PROVE Informed'
  <2>1. PICK u : /\ req' = [req EXCEPT ![s] = [step |-> "add", row |-> r, found |-> u]]
                 /\ u = None \/ u \in UserByEmail(AddressOf(r))
    BY <1>7 DEF AddMember
  <2> DEFINE R == [step |-> "add", row |-> r, found |-> u]
  <2>2. users' = users
    BY <1>7 DEF AddMember
  <2>3. Knows(R, users', account')
    BY <2>1, <2>2 DEF Knows, UserByEmail, Provisioned
  <2>4. QED
    BY <1>2, <2>1, <2>3
<1>8. ASSUME NEW s \in Slots, Insert(s) PROVE Informed'
  <2>1. req[s].step = "insert" /\ req[s].sub \in Subs /\ req[s].as.email \in Emails \cup {None}
    BY <1>8, RequestFields DEF Insert, At, Identity
  <2>2. [email |-> req[s].as.email] # None
    BY <2>1, BoundAssumption
  <2>3. \/ Proceed(s, "claim") /\ users'[req[s].sub] # None
        \/ Proceed(s, "reread")
    BY <1>8, <2>1, <2>2 DEF Insert, Provisioned, TypeOK
  <2>4. QED
    BY <1>5, <2>1, <2>3
<1>9. ASSUME NEW s \in Slots, Reread(s) PROVE Informed'
  BY <1>4, <1>5, <1>9 DEF Reread, At, Provisioned
<1>10. QED
  BY <1>3, <1>4, <1>6, <1>7, <1>8, <1>9 DEF Next, vars, Handle, Claim, AddMemberWrite, Fail,
     RemoveMember, SetMemberRate, Work, Verify, Move, Reissue
-----------------------------------------------------------------------------
(* Rows keep their worker *)

\* Every way a row comes to be or changes: a claim, an invitation of a new or
\* of a removed row, a removal, a rate.
ClaimedBy(s, r) ==
  /\ req[s].step = "claim" /\ r \in Claimable(req[s].as)
  /\ members'[r] = [members[r] EXCEPT !.user = req[s].sub, !.status = "active"]
AddedBy(s, r) ==
  /\ req[s].step = "add" /\ req[s].row = r
  /\ \/ ~HasRow(r) /\ members'[r] = Invited(Blank, req[s].found)
     \/ /\ HasRow(r) /\ members[r].status = "removed"
        /\ members'[r] = Invited(members[r], req[s].found)
TakenOff(r) == Live(r) /\ members'[r] = Removed(members[r])
Priced(r)   == Live(r) /\ \E cents \in Rates : members'[r] = [members[r] EXCEPT !.rate = cents]

\* The four ways in which a row changes.
LEMMA RowChanges ==
  ASSUME TypeOK, [Next]_vars, NEW r \in Rows, members'[r] # members[r]
  PROVE  (\E s \in Slots : ClaimedBy(s, r) \/ AddedBy(s, r)) \/ TakenOff(r) \/ Priced(r)
<1>1. CASE members' = members
  BY <1>1
<1>2. ASSUME NEW s \in Slots, Claim(s) PROVE ClaimedBy(s, r)
  <2> DEFINE m(x) == [members[x] EXCEPT !.user = req[s].sub, !.status = "active"]
  <2>1. PICK x \in Claimable(req[s].as) : members' = [members EXCEPT ![x] = m(x)]
    BY <1>2 DEF Claim
  <2>2. x \in Rows
    BY DEF Claimable
  <2> HIDE DEF m
  <2>3. x = r /\ members'[r] = m(r)
    BY <2>1, <2>2 DEF TypeOK
  <2>4. QED
    BY <1>2, <2>1, <2>3 DEF Claim, At, m, ClaimedBy
<1>3. ASSUME NEW s \in Slots, AddMemberWrite(s) PROVE AddedBy(s, r)
  <2> DEFINE x == req[s].row
             u == req[s].found
  <2>1. x \in Rows /\ req[s].step = "add"
    BY <1>3, RequestFields DEF AddMemberWrite, At
  <2>2. \/ ~HasRow(x) /\ members' = [members EXCEPT ![x] = Invited(Blank, u)]
        \/ /\ HasRow(x) /\ members[x].status = "removed"
           /\ members' = [members EXCEPT ![x] = Invited(members[x], u)]
        \/ members' = members
    BY <1>3 DEF AddMemberWrite
  <2> HIDE DEF x, u
  <2>3. x = r
    BY <2>1, <2>2 DEF TypeOK
  <2>4. QED
    BY <2>1, <2>2, <2>3 DEF TypeOK, x, u, AddedBy
<1>4. ASSUME NEW x \in Rows, RemoveMember(x) PROVE TakenOff(r)
  BY <1>4 DEF RemoveMember, TypeOK, TakenOff
<1>5. ASSUME NEW x \in Rows, NEW cents \in Rates, SetMemberRate(x, cents) PROVE Priced(r)
  <2> DEFINE m == [members[x] EXCEPT !.rate = cents]
  <2>1. members' = [members EXCEPT ![x] = m] /\ Live(x)
    BY <1>5 DEF SetMemberRate
  <2>2. x = r
    BY <2>1 DEF TypeOK
  <2>3. QED
    BY <2>1, <2>2 DEF TypeOK, Priced
<1>6. QED
  BY <1>1, <1>2, <1>3, <1>4, <1>5 DEF Next, vars, Handle, Insert, Authenticate, AddMember, Reread,
     Fail, Work, Verify, Move, Reissue

\* While accounts keep their address a row that has a worker keeps that worker:
\* whom AddMember finds by the row's address is that worker.
LEMMA RowKeepsUser ==
  ASSUME TypeOK, Faithful, [Next]_vars, NEW r \in Rows, HasRow(r), members[r].user # None
  PROVE  HasRow(r)' /\ members'[r].user = members[r].user
<1>1. members[r] \in Membership
  BY RowOfMembers
<1>2. CASE members'[r] = members[r]
  BY <1>2 DEF HasRow
<1>3. CASE members'[r] # members[r]
  <2>1. ASSUME NEW s \in Slots, req[s].step = "add", req[s].row = r
        PROVE  Invited(members[r], req[s].found).user = members[r].user
    <3> DEFINE u == members[r].user
               v == req[s].found
    <3>1. u \in Subs /\ v \in Subs \cup {None}
      BY <1>1, <2>1, RequestFields DEF Membership
    <3>2. Provisioned(u) /\ users[u].email = AddressOf(r)
      BY <3>1 DEF HasRow, Faithful, Linked, Belongs, Addressed, Provisioned
    <3>3. v # None => Provisioned(v) /\ users[v].email = AddressOf(r)
      BY <2>1 DEF Faithful, Informed, Knows, Provisioned
    <3>4. AddressOf(r) # None
      BY BoundAssumption DEF AddressOf, Rows
    <3>5. v # None => v = u
      BY <3>1, <3>2, <3>3, <3>4 DEF Faithful, OneUserEach
    <3> HIDE DEF u, v
    <3>6. QED
      BY <1>1, <3>5 DEF Invited, Membership, u, v
  <2>2. /\ Removed(members[r]).user = members[r].user
        /\ \A cents \in Rates : [members[r] EXCEPT !.rate = cents].user = members[r].user
    BY <1>1 DEF Claimable, Removed, Membership
  <2>3. \A s \in Slots : ~ClaimedBy(s, r)
    BY DEF Claimable, ClaimedBy
  <2>4. members'[r].user = members[r].user
    BY <1>3, <2>1, <2>2, <2>3, RowChanges DEF AddedBy, TakenOff, Priced
  <2>5. HasRow(r)'
    <3>1. \A m \in Membership, u \in Subs \cup {None} :
            Removed(m) # Absent /\ Invited(m, u) # Absent
      BY DEF Removed, Invited, Membership, Absent
    <3>2. \A cents \in Rates : [members[r] EXCEPT !.rate = cents] # Absent
      BY <1>1 DEF Membership, Absent
    <3>3. QED
      BY <1>1, <1>3, <2>3, <3>1, <3>2, RowChanges, RequestFields
         DEF HasRow, AddedBy, TakenOff, Priced
  <2>6. QED
    BY <2>4, <2>5
<1>4. QED
  BY <1>2, <1>3

LEMMA LinkedStep ==
  ASSUME TypeOK, Faithful, [Next]_vars, moves' = 0
  PROVE  Linked'
<1>0. /\ \A u \in Subs : account'[u].email = account[u].email
      /\ \A u \in Subs : users[u] # None => users'[u] = users[u]
  BY EmailsStay, UsersStay
<1>1. ASSUME NEW r \in Rows, NEW u \in Subs, users[u] # None, account[u].email = AddressOf(r),
             members'[r].user = u
      PROVE  Belongs(members'[r], r, users', account')
  BY <1>0, <1>1 DEF Belongs
<1>2. ASSUME NEW r \in Rows, HasRow(r), members[r].user # None
      PROVE  Belongs(members'[r], r, users', account')
  <2>1. members[r].user \in Subs
    BY <1>2, RowOfMembers DEF Membership
  <2>2. users[members[r].user] # None /\ account[members[r].user].email = AddressOf(r)
    BY <1>2 DEF Faithful, Linked, Belongs, HasRow
  <2>3. QED
    BY <1>1, <1>2, <2>1, <2>2, RowKeepsUser
<1>3. ASSUME NEW r \in Rows, ~HasRow(r) \/ members[r].user = None
      PROVE  Belongs(members'[r], r, users', account')
  <2>1. CASE members'[r] = members[r]
    BY <1>3, <2>1 DEF Belongs, HasRow
  <2>2. ASSUME NEW s \in Slots, ClaimedBy(s, r)
        PROVE  Belongs(members'[r], r, users', account')
    <3>1. req[s].sub \in Subs /\ members[r] \in Membership
      BY <2>2, RequestFields, RowOfMembers DEF Claimable, ClaimedBy
    <3>2. members'[r].user = req[s].sub
      BY <2>2, <3>1 DEF Membership, ClaimedBy
    <3>3. users[req[s].sub] # None /\ account[req[s].sub].email = AddressOf(r)
      BY <2>2 DEF Faithful, Informed, Knows, Claimable, ClaimedBy
    <3>4. QED
      BY <1>1, <3>1, <3>2, <3>3
  <2>3. ASSUME NEW s \in Slots, NEW m, req[s].step = "add", req[s].row = r,
               m = Blank \/ (m \in Membership /\ m.user = None),
               members'[r] = Invited(m, req[s].found)
        PROVE  Belongs(members'[r], r, users', account')
    <3> DEFINE u == req[s].found
    <3>1. u \in Subs \cup {None}
      BY <2>3, RequestFields
    <3>2. CASE u = None
      <4>1. Invited(m, None).user = None
        BY <2>3 DEF Invited, Blank, Membership
      <4>2. QED
        BY <2>3, <3>2, <4>1 DEF Belongs
    <3>3. CASE u # None
      <4>1. Invited(m, u).user = u
        BY <2>3, <3>3 DEF Invited, Blank, Membership
      <4>2. users[u] # None /\ users[u].email = AddressOf(r)
        BY <2>3, <3>3 DEF Faithful, Informed, Knows
      <4>3. account[u].email = AddressOf(r)
        BY <3>1, <3>3, <4>2 DEF Faithful, Addressed, Provisioned
      <4> HIDE DEF u
      <4>4. QED
        BY <1>1, <2>3, <3>1, <3>3, <4>1, <4>2, <4>3 DEF u
    <3>4. QED
      BY <3>2, <3>3
  <2>4. CASE TakenOff(r)
    <3>1. members'[r].user = None
      BY <1>3, <2>4, RowOfMembers DEF TakenOff, Live, Removed, Membership
    <3>2. QED
      BY <3>1 DEF Belongs
  <2>5. CASE Priced(r)
    <3>1. members'[r].user = None
      BY <1>3, <2>5, RowOfMembers DEF Priced, Live, Membership
    <3>2. QED
      BY <3>1 DEF Belongs
  <2>6. ASSUME NEW s \in Slots, AddedBy(s, r)
        PROVE  Belongs(members'[r], r, users', account')
    <3>1. HasRow(r) => members[r] \in Membership /\ members[r].user = None
      BY <1>3, RowOfMembers
    <3>2. QED
      BY <2>3, <2>6, <3>1 DEF AddedBy
  <2>7. QED
    BY <2>1, <2>2, <2>3, <2>4, <2>5, <2>6, RowChanges
<1>4. QED
  BY <1>2, <1>3 DEF Linked

LEMMA RememberedStep ==
  ASSUME TypeOK, Faithful, [Next]_vars
  PROVE  Remembered'
<1>1. ASSUME NEW e \in Employers, NEW u \in Subs, RowsOf(e, u) # {} PROVE RowsOf(e, u)' # {}
  <2>1. PICK r \in Rows : r[1] = e /\ HasRow(r) /\ members[r].user = u
    BY <1>1 DEF RowsOf
  <2>2. members[r].user # None
    BY <2>1, BoundAssumption
  <2>3. HasRow(r)' /\ members'[r].user = u
    BY <2>1, <2>2, RowKeepsUser
  <2>4. QED
    BY <2>1, <2>3 DEF RowsOf
<1>2. ASSUME NEW p \in worked' PROVE RowsOf(p[1], p[2])' # {}
  <2>1. CASE p \in worked
    <3>1. p[1] \in Employers /\ p[2] \in Subs
      BY <2>1 DEF TypeOK
    <3>2. RowsOf(p[1], p[2]) # {}
      BY <2>1 DEF Faithful, Remembered
    <3>3. QED
      BY <1>1, <3>1, <3>2
  <2>2. ASSUME NEW e \in Employers, NEW u \in Subs, Work(e, u) PROVE RowsOf(p[1], p[2])' # {}
    <3>1. RowsOf(e, u) # {}
      BY <2>2 DEF Work, Live, RowsOf
    <3>2. p \in worked \/ p = <<e, u>>
      BY <2>2 DEF Work
    <3>3. QED
      BY <1>1, <2>1, <3>1, <3>2
  <2>3. CASE worked' = worked
    BY <2>1, <2>3
  <2>4. QED
    BY <2>2, <2>3 DEF Next, vars, Handle, Insert, Authenticate, AddMember, Reread, Claim,
       AddMemberWrite, Fail, RemoveMember, SetMemberRate, Verify, Move, Reissue
<1>3. QED
  BY <1>2 DEF Remembered
-----------------------------------------------------------------------------
LEMMA InitInv == Init => IndInv
<1> SUFFICES ASSUME Init PROVE Faithful
  BY InitTypes DEF IndInv
<1>1. Addressed /\ OneUserEach
  BY DEF Init, Addressed, OneUserEach, Provisioned
<1>2. Informed
  BY DEF Init, Informed, Knows, Idle
<1>3. Linked /\ Remembered
  BY DEF Init, Linked, Belongs, Remembered
<1>4. QED
  BY <1>1, <1>2, <1>3 DEF Faithful

LEMMA NextInv == IndInv /\ [Next]_vars => IndInv'
<1> SUFFICES ASSUME TypeOK, moves = 0 => Faithful, [Next]_vars, moves' = 0 PROVE Faithful'
  BY NextTypes DEF IndInv
<1>1. Faithful
  BY EmailsStay
<1>2. QED
  BY <1>1, AddressedStep, OneUserStep, InformedStep, LinkedStep, RememberedStep DEF Faithful

\* A worker has one membership at an employer, whatever invitations, logins and
\* removals race, as long as accounts keep their address: its rows all carry
\* the address of the account, and the index on (employer_id, email) leaves one.
THEOREM OneMembershipPerWorker == Spec => []OneMembershipEach
<1>1. IndInv => OneMembershipEach
  <2> SUFFICES ASSUME TypeOK, Faithful, NEW e \in Employers, NEW u \in Subs
               PROVE  Cardinality(RowsOf(e, u)) <= 1
    BY DEF IndInv, OneMembershipEach
  <2>1. \A r \in RowsOf(e, u) : r = <<e, account[u].email>>
    BY BoundAssumption DEF RowsOf, Faithful, Linked, Belongs, HasRow, Rows, AddressOf
  <2>2. CASE RowsOf(e, u) = {}
    BY <2>2, FS_EmptySet
  <2>3. CASE RowsOf(e, u) # {}
    <3>1. RowsOf(e, u) = {<<e, account[u].email>>}
      BY <2>1, <2>3
    <3>2. Cardinality(RowsOf(e, u)) = 1
      BY <3>1, FS_Singleton, Zenon
    <3>3. QED
      BY <3>2
  <2>4. QED
    BY <2>2, <2>3
<1>2. QED
  BY <1>1, InitInv, NextInv, PTL DEF Spec

\* The hours of everybody who ever worked at an employer find a membership to
\* be paid under, after any removal, revival and claim, as long as accounts
\* keep their address: a row that has a worker never passes to another.
THEOREM HoursKeepAMember == Spec => []HoursHaveAMember
<1>1. IndInv => HoursHaveAMember
  BY DEF IndInv, Faithful, Remembered, HoursHaveAMember
<1>2. QED
  BY <1>1, InitInv, NextInv, PTL DEF Spec

\* What a removed membership comes back by, the address changing or not: the
\* employer adds it again, at the rate it had.
RemovedStays ==
  \A r \in Rows : HasRow(r) /\ members[r].status = "removed" /\ members'[r] # members[r] =>
    /\ \E s \in Slots : At(s, "add") /\ req[s].row = r
    /\ members'[r].rate = members[r].rate

\* No login, claim or rate change touches a removed membership, whatever
\* requests race: only the employer's own write brings it back.
THEOREM RemovedComesBackByTheEmployer == Spec => RemovedIsFrozen
<1>1. IndInv /\ [Next]_vars => [RemovedStays]_vars
  <2> SUFFICES ASSUME TypeOK, [Next]_vars, NEW r \in Rows, HasRow(r),
                      members[r].status = "removed", members'[r] # members[r]
               PROVE  /\ \E s \in Slots : At(s, "add") /\ req[s].row = r
                      /\ members'[r].rate = members[r].rate
    BY DEF IndInv, RemovedStays
  <2>1. \A s \in Slots : ~ClaimedBy(s, r)
    BY DEF Claimable, ClaimedBy
  <2>2. ~TakenOff(r) /\ ~Priced(r)
    BY DEF Live, TakenOff, Priced
  <2>3. PICK s \in Slots : /\ req[s].step = "add" /\ req[s].row = r
                           /\ members'[r] = Invited(members[r], req[s].found)
    BY <2>1, <2>2, RowChanges DEF AddedBy
  <2>4. Invited(members[r], req[s].found).rate = members[r].rate
    BY RowOfMembers DEF Invited, Membership
  <2>5. QED
    BY <2>3, <2>4 DEF At
<1>2. Spec => []IndInv
  BY InitInv, NextInv, PTL DEF Spec
<1>3. [RemovedStays]_vars <=>
        [\A r \in Rows : HasRow(r) /\ members[r].status = "removed" /\ members'[r] # members[r] =>
           /\ \E s \in Slots : At(s, "add") /\ req[s].row = r
           /\ members'[r].rate = members[r].rate]_vars
  BY DEF RemovedStays
<1>4. QED
  BY <1>1, <1>2, <1>3, PTL DEF Spec, RemovedIsFrozen
-----------------------------------------------------------------------------
(* Days *)

\* What every behaviour keeps.
PayShape ==
  /\ story \in Story /\ zone \in Zone /\ shifts \in Seq(Shift) /\ pools \in [Days -> Nat]
  /\ \A i \in DOMAIN shifts : shifts[i].out # Open => shifts[i].out > shifts[i].in

\* A quotient is at least d when there are d of it.
LEMMA DayIs ==
  ASSUME NEW x \in Int, NEW d \in Int, NEW n \in Nat \ {0}
  PROVE  (x \div n >= d) <=> (x >= d * n)
<1> DEFINE k == x \div n
<1>1. k \in Int /\ k * n <= x /\ x < k * n + n
  OBVIOUS
<1> HIDE DEF k
<1>2. CASE k >= d
  <2>1. k * n >= d * n
    <3>1. PICK m \in Nat : k = d + m
      BY <1>1, <1>2
    <3>2. k * n = d * n + m * n /\ m * n >= 0
      BY <3>1
    <3>3. QED
      BY <1>1, <3>2
  <2>2. QED
    BY <1>1, <1>2, <2>1 DEF k
<1>3. CASE ~(k >= d)
  <2>1. k * n + n <= d * n
    <3>1. PICK m \in Nat : d = k + 1 + m
      BY <1>1, <1>3
    <3>2. d * n = k * n + n + m * n /\ m * n >= 0
      BY <1>1, <3>1
    <3>3. QED
      BY <1>1, <3>2
  <2>2. QED
    BY <1>1, <1>3, <2>1 DEF k
<1>4. QED
  BY <1>2, <1>3

\* A shift, and when it began.
LEMMA ShiftIs ==
  ASSUME PayShape, NEW i \in DOMAIN shifts
  PROVE  shifts[i] \in Shift /\ shifts[i].in \in Int
<1>1. shifts \in Seq(Shift)
  BY DEF PayShape
<1>2. shifts[i] \in Shift
  BY <1>1
<1>3. QED
  BY <1>2 DEF Shift

\* The day of an instant, by the clock.
LEMMA ClockIs ==
  ASSUME PayrollAssumption, PayShape, NEW t \in Int, NEW d \in Int
  PROVE  /\ offset(t) \in Int /\ Local(t) \in Int /\ d * Day \in Int /\ dayKey(t) \in Int
         /\ Local(t) = t + (IF t < zone.at THEN zone.before ELSE zone.after)
         /\ dayKey(t) >= d <=> Local(t) >= d * Day
         /\ dayKey(t) = d <=> Local(t) >= d * Day /\ Local(t) < d * Day + Day
<1>1. offset(t) \in Int /\ Local(t) \in Int /\ Day \in Nat \ {0}
  BY DEF PayrollAssumption, PayShape, Zone, offset, Local
<1>2. dayKey(t) \in Int /\ d * Day \in Int /\ (d + 1) * Day = d * Day + Day
  BY <1>1 DEF dayKey
<1>3. dayKey(t) >= d <=> Local(t) >= d * Day
  BY <1>1, DayIs DEF dayKey
<1>4. dayKey(t) >= d + 1 <=> Local(t) >= (d + 1) * Day
  BY <1>1, DayIs DEF dayKey
<1>5. dayKey(t) = d <=> dayKey(t) >= d /\ ~(dayKey(t) >= d + 1)
  BY <1>2
<1>6. Local(t) = t + (IF t < zone.at THEN zone.before ELSE zone.after)
  BY DEF Local, offset
<1>7. QED
  BY <1>1, <1>2, <1>3, <1>4, <1>5, <1>6

\* Where it is neither repeated nor skipped, midnight parts the days.
LEMMA DayStarts ==
  ASSUME PayrollAssumption, PayShape, NEW d \in Int, ~Rewound(d)
  PROVE  /\ startOfDay(d) \in Int
         /\ \A t \in Int : ~(dayKey(t) >= d) => t < startOfDay(d)
         /\ ~Skipped(d) => \A t \in Int : dayKey(t) >= d => t >= startOfDay(d)
<1> DEFINE D == d * Day
           a == zone.after
           b == zone.before
           c == zone.at
           guess == D - offset(D)
           corrected == D - offset(guess)
<1>1. /\ D \in Int /\ a \in Int /\ b \in Int /\ c \in Int /\ Day \in Nat \ {0}
      /\ a - b <= Day /\ b - a <= Day
  BY DEF PayrollAssumption, PayShape, Zone
<1>2. guess \in Int /\ corrected \in Int
      /\ guess = (IF D < c THEN D - b ELSE D - a)
      /\ corrected = (IF guess < c THEN D - b ELSE D - a)
  BY <1>1 DEF offset
<1>3. dayKey(corrected) = d <=> Local(corrected) >= D /\ Local(corrected) < D + Day
  BY <1>2, ClockIs
<1>4. Local(corrected) = corrected + (IF corrected < c THEN b ELSE a)
  BY <1>2, ClockIs
<1>5. startOfDay(d) = IF dayKey(corrected) = d THEN corrected
                      ELSE IF guess > corrected THEN guess ELSE corrected
  BY DEF startOfDay
<1>6. ~(c + a <= D /\ D < c + b)
  BY DEF Rewound
<1>7. ~Skipped(d) => ~(c + b < D /\ D < c + a)
  BY DEF Skipped
<1> DEFINE start == startOfDay(d)
<1>8. /\ start = D - b \/ start = D - a
      /\ start >= c => start >= D - a
      /\ start < c => start = D - b
      /\ D - b < c => start = D - b
      /\ D - a >= c => start = D - a
      /\ D - b >= c /\ D - a < c => start = D - b
  <2> HIDE DEF guess, corrected, start, D, a, b, c
  <2> QED
    BY <1>1, <1>2, <1>3, <1>4, <1>5, <1>6 DEF start
<1>9. ASSUME NEW t \in Int PROVE
        /\ Local(t) = t + (IF t < c THEN b ELSE a)
        /\ dayKey(t) >= d <=> Local(t) >= D
  BY ClockIs
<1> HIDE DEF guess, corrected, start, D, a, b, c
<1>10. start \in Int
  BY <1>1, <1>8
<1>11. ASSUME NEW t \in Int, ~(dayKey(t) >= d) PROVE t < start
  BY <1>1, <1>6, <1>8, <1>9, <1>10, <1>11
<1>12. ASSUME ~Skipped(d), NEW t \in Int, dayKey(t) >= d PROVE t >= start
  BY <1>1, <1>6, <1>7, <1>8, <1>9, <1>10, <1>12
<1>13. QED
  BY <1>10, <1>11, <1>12 DEF start

\* The lesser and the greater of two.
LEMMA OfTwo ==
  ASSUME NEW x \in Int, NEW y \in Int
  PROVE  /\ Min({x, y}) = (IF x <= y THEN x ELSE y)
         /\ Max({x, y}) = (IF x <= y THEN y ELSE x)
<1>1. \E m \in {x, y} : \A n \in {x, y} : m <= n
  OBVIOUS
<1>2. \E m \in {x, y} : \A n \in {x, y} : m >= n
  OBVIOUS
<1>3. Min({x, y}) \in {x, y} /\ \A n \in {x, y} : Min({x, y}) <= n
  BY <1>1 DEF Min
<1>4. Max({x, y}) \in {x, y} /\ \A n \in {x, y} : Max({x, y}) >= n
  BY <1>2 DEF Max
<1>5. QED
  BY <1>3, <1>4

\* An instant of the days on screen lies between their midnights.
LEMMA WithinDays ==
  ASSUME PayrollAssumption, PayShape, NEW t \in Int, dayKey(t) \in Days
  PROVE  /\ from \in Int /\ to + 1 \in Int /\ from * Day \in Int /\ (to + 1) * Day \in Int
         /\ dayKey(t) >= from /\ ~(dayKey(t) >= to + 1)
         /\ Local(t) \in Int /\ Local(t) >= from * Day /\ Local(t) < (to + 1) * Day
         /\ (Local(t) = t + zone.before \/ Local(t) = t + zone.after)
<1>1. from \in Int /\ to \in Int /\ to + 1 \in Int
  BY DEF PayrollAssumption
<1>2. dayKey(t) \in Int /\ from <= dayKey(t) /\ dayKey(t) <= to
  BY <1>1, ClockIs DEF Days
<1>3. /\ Local(t) \in Int /\ from * Day \in Int
      /\ (Local(t) = t + zone.before \/ Local(t) = t + zone.after)
      /\ dayKey(t) >= from <=> Local(t) >= from * Day
  BY <1>1, ClockIs
<1>4. /\ (to + 1) * Day \in Int
      /\ dayKey(t) >= to + 1 <=> Local(t) >= (to + 1) * Day
  BY <1>1, ClockIs
<1>5. QED
  BY <1>1, <1>2, <1>3, <1>4

\* The report asks for every shift of its days.
LEMMA ReportReaches ==
  ASSUME PayrollAssumption, PayShape, NEW t \in Int, dayKey(t) \in Days
  PROVE  /\ t >= from * Day - Min({zone.before, zone.after}) - Day
         /\ t < (to + 1) * Day - Max({zone.before, zone.after}) + Day
<1> DEFINE a == zone.after
           b == zone.before
<1>1. /\ Day \in Nat \ {0} /\ a \in Int /\ b \in Int /\ a - b <= Day /\ b - a <= Day
  BY DEF PayrollAssumption, PayShape, Zone
<1>2. /\ from * Day \in Int /\ (to + 1) * Day \in Int /\ Local(t) \in Int
      /\ Local(t) >= from * Day /\ Local(t) < (to + 1) * Day
      /\ (Local(t) = t + b \/ Local(t) = t + a)
  BY WithinDays
<1>3. /\ Min({b, a}) = (IF b <= a THEN b ELSE a)
      /\ Max({b, a}) = (IF b <= a THEN a ELSE b)
  BY <1>1, OfTwo
<1>4. QED
  BY <1>1, <1>2, <1>3

\* So does the table, with midnights that part the days.
LEMMA TableReaches ==
  ASSUME PayrollAssumption, PayShape, ~Rewound(from), ~Skipped(from), ~Rewound(to + 1),
         NEW t \in Int, dayKey(t) \in Days
  PROVE  t >= startOfDay(from) /\ t < startOfDay(to + 1)
<1>1. from \in Int /\ to + 1 \in Int /\ dayKey(t) >= from /\ ~(dayKey(t) >= to + 1)
  BY WithinDays
<1>2. t >= startOfDay(from)
  BY <1>1, DayStarts
<1>3. t < startOfDay(to + 1)
  BY <1>1, DayStarts
<1>4. QED
  BY <1>2, <1>3

\* And they do.
LEMMA PayShapeHolds ==
  ASSUME PayrollAssumption
  PROVE  (PayInit => PayShape) /\ (PayShape /\ [PayNext]_payVars => PayShape')
<1>1. PayInit => PayShape
  BY DEF PayInit, PayShape, PayrollAssumption, Story
<1>2. ASSUME PayShape, [PayNext]_payVars PROVE PayShape'
  <2>1. CASE UNCHANGED <<story, zone, shifts, pools>>
    BY <1>2, <2>1 DEF PayShape
  <2>2. ASSUME NEW t \in story.times, NEW w \in Crew, ClockIn(w, t) PROVE PayShape'
    <3> DEFINE e == [who |-> w, in |-> t, out |-> Open]
    <3>1. t \in Int /\ w \in Nat
      BY <1>2 DEF PayShape, Story, Crew
    <3>2. e \in Shift /\ e.out = Open
      BY <3>1 DEF Shift
    <3>3. shifts' = Append(shifts, e) /\ UNCHANGED <<story, zone, pools>>
      BY <2>2 DEF ClockIn
    <3> HIDE DEF e
    <3>4. QED
      BY <1>2, <3>2, <3>3 DEF PayShape
  <2>3. ASSUME NEW t \in story.times, NEW i \in DOMAIN shifts, ClockOut(i, t) PROVE PayShape'
    <3> DEFINE e == [shifts[i] EXCEPT !.out = t]
    <3>1. t \in Int /\ shifts[i] \in Shift
      BY <1>2 DEF PayShape, Story
    <3>2. e \in Shift /\ e.out = t /\ e.in = shifts[i].in
      BY <3>1 DEF Shift
    <3>3. shifts' = [shifts EXCEPT ![i] = e] /\ UNCHANGED <<story, zone, pools>>
      BY <2>3 DEF ClockOut
    <3>4. t > shifts[i].in
      BY <2>3 DEF ClockOut
    <3> HIDE DEF e
    <3>5. shifts' \in Seq(Shift) /\ DOMAIN shifts' = DOMAIN shifts
      BY <1>2, <3>2, <3>3 DEF PayShape
    <3>6. \A j \in DOMAIN shifts : shifts'[j] = IF j = i THEN e ELSE shifts[j]
      BY <1>2, <3>3 DEF PayShape
    <3>7. \A j \in DOMAIN shifts' : shifts'[j].out # Open => shifts'[j].out > shifts'[j].in
      <4> SUFFICES ASSUME NEW j \in DOMAIN shifts, shifts'[j].out # Open
                   PROVE  shifts'[j].out > shifts'[j].in
        BY <3>5
      <4>1. CASE j = i
        <5>1. shifts'[j] = e
          BY <3>6, <4>1
        <5>2. QED
          BY <3>2, <3>4, <5>1
      <4>2. CASE j # i
        <5>1. shifts'[j] = shifts[j]
          BY <3>6, <4>2
        <5>2. QED
          BY <1>2, <5>1 DEF PayShape
      <4>3. QED
        BY <4>1, <4>2
    <3>8. QED
      BY <1>2, <3>3, <3>5, <3>7 DEF PayShape
  <2>4. ASSUME NEW d \in Days, NEW c \in story.pools, SetTip(d, c) PROVE PayShape'
    <3>1. c \in Nat
      BY <1>2 DEF PayShape, Story
    <3>2. pools' = [pools EXCEPT ![d] = c] /\ UNCHANGED <<story, zone, shifts>>
      BY <2>4 DEF SetTip
    <3>3. pools' \in [Days -> Nat]
      BY <1>2, <3>1, <3>2 DEF PayShape
    <3>4. QED
      BY <1>2, <3>2, <3>3 DEF PayShape
  <2>5. QED
    BY <1>2, <2>1, <2>2, <2>3, <2>4 DEF PayNext, payVars, Tick
<1>3. QED
  BY <1>1, <1>2

\* Whatever the zone, the shifts and the days on screen, a member's row lists exactly
\* the shifts that the report pays it for, unless the clocks were changed over a
\* midnight that bounds the range (table.tsx: the two agree row for row).
THEOREM RowsAreTheReports == PaySpec => []RowsListWhatTheyPay
<1>1. PayInit => PayShape
  BY PayShapeHolds, PayrollAssumption
<1>2. PayShape /\ [PayNext]_payVars => PayShape'
  BY PayShapeHolds, PayrollAssumption
<1>3. PayShape => RowsListWhatTheyPay
  <2> SUFFICES ASSUME PayShape, ~Rewound(from), ~Skipped(from), ~Rewound(to + 1),
                      NEW d \in Days, NEW w \in Crew
               PROVE  Listed(d, w) = Paid(d, w)
    BY DEF RowsListWhatTheyPay
  <2>1. ASSUME NEW i \in Closed, dayKey(shifts[i].in) = d PROVE InReport(i) /\ Fetched(i)
    <3>1. shifts[i].in \in Int
      BY ShiftIs DEF Closed
    <3>2. InReport(i)
      BY <2>1, <3>1, PayrollAssumption, ReportReaches DEF InReport
    <3>3. Fetched(i)
      BY <2>1, <3>1, PayrollAssumption, TableReaches DEF Fetched
    <3>4. QED
      BY <3>2, <3>3
  <2>2. QED
    BY <2>1 DEF Listed, Paid
<1>4. QED
  BY <1>1, <1>2, <1>3, PTL DEF PaySpec
-----------------------------------------------------------------------------
(* The week grid *)

\* A day is over when a later one begins.
LEMMA DaysInOrder ==
  ASSUME NEW n \in Nat \ {0}, NEW d \in Int, NEW e \in Int, d < e
  PROVE  d * n \in Int /\ e * n \in Int /\ d * n + n <= e * n
<1>1. PICK k \in Nat : e = d + 1 + k
  BY SMT
<1>2. e * n = d * n + n + k * n /\ k * n >= 0
  BY <1>1
<1>3. QED
  BY <1>2

\* An instant on the clock is a day and the minutes since its midnight.
LEMMA ClockParts ==
  ASSUME PayrollAssumption, PayShape, NEW t \in Int
  PROVE  /\ dayKey(t) \in Int /\ minutes(t) \in Int /\ dayKey(t) * Day \in Int
         /\ 0 <= minutes(t) /\ minutes(t) < Day
         /\ Local(t) = dayKey(t) * Day + minutes(t)
<1>1. Local(t) \in Int /\ Day \in Nat \ {0} /\ dayKey(t) * Day \in Int
  BY ClockIs DEF PayrollAssumption
<1>2. QED
  BY <1>1 DEF dayKey, minutes

\* Some piece of shift i shows minute x of day d.
Covers(i, d, x) == \E g \in segmentsFor(i) : g.day = d /\ g.startMin <= x /\ x < g.endMin

\* A piece by its fields.
LEMMA PieceIs ==
  ASSUME NEW i, NEW d, NEW a, NEW b
  PROVE  /\ Segment(i, d, a, b).shift = i /\ Segment(i, d, a, b).day = d
         /\ Segment(i, d, a, b).startMin = a /\ Segment(i, d, a, b).endMin = b
  BY DEF Segment

\* The pieces of a shift, in the three cases of the code.
LEMMA PiecesAre ==
  ASSUME NEW i, NEW b \in Int, NEW m \in Int, NEW e \in Int, NEW k \in Int,
         b = dayKey(shifts[i].in), m = minutes(shifts[i].in),
         e = BarEnd(i).day, k = BarEnd(i).min
  PROVE  /\ e < b \/ (e = b /\ k < m) => segmentsFor(i) = {Segment(i, b, m, m)}
         /\ e = b /\ k >= m => segmentsFor(i) = {Segment(i, b, m, k)}
         /\ e > b => segmentsFor(i) =
              {Segment(i, b, m, Day)} \cup {Segment(i, f, 0, Day) : f \in b + 1 .. e - 1}
                \cup (IF k > 0 THEN {Segment(i, e, 0, k)} ELSE {})
<1>1. CASE e < b \/ (e = b /\ k < m)
  <2>1. ~(e = b /\ k >= m) /\ ~(e > b)
    BY <1>1
  <2>2. QED
    BY <1>1, <2>1 DEF segmentsFor
<1>2. CASE e = b /\ k >= m
  <2>1. ~(e < b \/ (e = b /\ k < m)) /\ ~(e > b)
    BY <1>2
  <2>2. QED
    BY <1>2, <2>1 DEF segmentsFor
<1>3. CASE e > b
  <2>1. ~(e < b \/ (e = b /\ k < m)) /\ ~(e = b /\ k >= m)
    BY <1>3
  <2>2. QED
    BY <1>3, <2>1 DEF segmentsFor
<1>4. QED
  BY <1>1, <1>2, <1>3

\* The bar of shift i begins at minute m of day b and ends at minute k of day e.
IsBar(i, b, m, e, k) ==
  /\ b = dayKey(shifts[i].in) /\ m = minutes(shifts[i].in)
  /\ e = BarEnd(i).day /\ k = BarEnd(i).min
  /\ 0 <= m /\ m < Day /\ 0 <= k /\ k <= Day /\ (k = Day => e = b)

\* What the pieces of a bar show of day d.
LEMMA PiecesShow ==
  ASSUME Day \in Nat \ {0},
         NEW i, NEW b \in Int, NEW m \in Int, NEW e \in Int, NEW k \in Int, IsBar(i, b, m, e, k),
         NEW d \in Int, NEW x \in 0 .. Day - 1
  PROVE  /\ e < b \/ (e = b /\ k < m) => ~Covers(i, d, x)
         /\ e = b /\ k >= m => (Covers(i, d, x) <=> (d = b /\ m <= x /\ x < k))
         /\ e > b => (Covers(i, d, x) <=> \/ d = b /\ m <= x
                                          \/ b < d /\ d < e
                                          \/ d = e /\ x < k)
<1>1. /\ e < b \/ (e = b /\ k < m) => segmentsFor(i) = {Segment(i, b, m, m)}
      /\ e = b /\ k >= m => segmentsFor(i) = {Segment(i, b, m, k)}
      /\ e > b => segmentsFor(i) =
           {Segment(i, b, m, Day)} \cup {Segment(i, f, 0, Day) : f \in b + 1 .. e - 1}
             \cup (IF k > 0 THEN {Segment(i, e, 0, k)} ELSE {})
  BY PiecesAre DEF IsBar
<1>2. x \in Int /\ 0 <= x /\ x < Day
  OBVIOUS
<1>3. ASSUME e < b \/ (e = b /\ k < m) PROVE ~Covers(i, d, x)
  <2>1. segmentsFor(i) = {Segment(i, b, m, m)}
    BY <1>1, <1>3
  <2>2. QED
    BY <1>2, <2>1, PieceIs DEF Covers
<1>4. ASSUME e = b /\ k >= m PROVE Covers(i, d, x) <=> (d = b /\ m <= x /\ x < k)
  <2>1. segmentsFor(i) = {Segment(i, b, m, k)}
    BY <1>1, <1>4
  <2>2. QED
    BY <2>1, PieceIs DEF Covers
<1>5. ASSUME e > b, Covers(i, d, x)
      PROVE  (d = b /\ m <= x) \/ (b < d /\ d < e) \/ (d = e /\ x < k)
  <2>1. segmentsFor(i) =
          {Segment(i, b, m, Day)} \cup {Segment(i, f, 0, Day) : f \in b + 1 .. e - 1}
            \cup (IF k > 0 THEN {Segment(i, e, 0, k)} ELSE {})
    BY <1>1, <1>5
  <2>2. PICK g \in segmentsFor(i) : g.day = d /\ g.startMin <= x /\ x < g.endMin
    BY <1>5 DEF Covers
  <2>3. CASE g = Segment(i, b, m, Day)
    <3>1. g.day = b /\ g.startMin = m
      BY <2>3, PieceIs
    <3>2. d = b /\ m <= x
      BY Zenon, <2>2, <3>1
    <3>3. QED
      BY <3>2
  <2>4. CASE \E f \in b + 1 .. e - 1 : g = Segment(i, f, 0, Day)
    <3>1. PICK f \in b + 1 .. e - 1 : g = Segment(i, f, 0, Day)
      BY <2>4
    <3>2. d = f
      BY <2>2, <3>1, PieceIs
    <3>3. d \in b + 1 .. e - 1
      BY Zenon, <3>2
    <3>4. b < d /\ d < e
      BY <3>3
    <3>5. QED
      BY <3>4
  <2>5. CASE g = Segment(i, e, 0, k)
    <3>1. g.day = e /\ g.endMin = k
      BY <2>5, PieceIs
    <3>2. d = e /\ x < k
      BY Zenon, <2>2, <3>1
    <3>3. QED
      BY <3>2
  <2>6. QED
    BY <2>1, <2>2, <2>3, <2>4, <2>5
<1>6. ASSUME e > b, (d = b /\ m <= x) \/ (b < d /\ d < e) \/ (d = e /\ x < k)
      PROVE  Covers(i, d, x)
  <2>1. segmentsFor(i) =
          {Segment(i, b, m, Day)} \cup {Segment(i, f, 0, Day) : f \in b + 1 .. e - 1}
            \cup (IF k > 0 THEN {Segment(i, e, 0, k)} ELSE {})
    BY <1>1, <1>6
  <2>2. CASE d = b /\ m <= x
    <3>1. Segment(i, d, m, Day) \in segmentsFor(i)
      BY <2>1, <2>2
    <3>2. QED
      BY <1>2, <2>2, <3>1, PieceIs DEF Covers
  <2>3. CASE b < d /\ d < e
    <3>1. d \in b + 1 .. e - 1
      BY <2>3
    <3>2. Segment(i, d, 0, Day) \in segmentsFor(i)
      BY <2>1, <3>1
    <3>3. QED
      BY <1>2, <3>2, PieceIs DEF Covers
  <2>4. CASE d = e /\ x < k
    <3>1. k > 0
      BY <1>2, <2>4
    <3>2. Segment(i, d, 0, k) \in segmentsFor(i)
      BY <2>1, <2>4, <3>1
    <3>3. QED
      BY <1>2, <2>4, <3>2, PieceIs DEF Covers
  <2>5. QED
    BY <1>6, <2>2, <2>3, <2>4
<1>7. QED
  BY <1>3, <1>4, <1>5, <1>6

\* Together they show the minutes from the beginning to the end of the bar, no others.
LEMMA PiecesCover ==
  ASSUME Day \in Nat \ {0},
         NEW i, NEW b \in Int, NEW m \in Int, NEW e \in Int, NEW k \in Int, IsBar(i, b, m, e, k),
         NEW d \in Int, NEW x \in 0 .. Day - 1
  PROVE  Covers(i, d, x) <=> (b * Day + m <= d * Day + x /\ d * Day + x < e * Day + k)
<1> DEFINE B == b * Day
           D == d * Day
           E == e * Day
<1>1. /\ B \in Int /\ D \in Int /\ E \in Int /\ x \in Int /\ 0 <= x /\ x < Day
      /\ d = b => D = B
      /\ d = e => D = E
      /\ e = b => E = B
  BY DaysInOrder
<1>2. /\ d < b => D + Day <= B
      /\ b < d => B + Day <= D
      /\ d < e => D + Day <= E
      /\ e < d => E + Day <= D
      /\ e < b => E + Day <= B
      /\ b < e => B + Day <= E
  BY DaysInOrder
<1>3. 0 <= m /\ m < Day /\ 0 <= k /\ k <= Day /\ (k = Day => e = b)
  BY Zenon DEF IsBar
<1>4. /\ e < b \/ (e = b /\ k < m) => ~Covers(i, d, x)
      /\ e = b /\ k >= m => (Covers(i, d, x) <=> (d = b /\ m <= x /\ x < k))
      /\ e > b => (Covers(i, d, x) <=> \/ d = b /\ m <= x
                                       \/ b < d /\ d < e
                                       \/ d = e /\ x < k)
  BY PiecesShow
<1> HIDE DEF B, D, E
<1>5. CASE e < b \/ (e = b /\ k < m)
  <2>1. ~(B + m <= D + x /\ D + x < E + k)
    BY <1>1, <1>2, <1>3, <1>5
  <2>2. QED
    BY <1>4, <1>5, <2>1 DEF B, D, E
<1>6. CASE e = b /\ k >= m
  <2>1. (B + m <= D + x /\ D + x < E + k) <=> (d = b /\ m <= x /\ x < k)
    BY <1>1, <1>2, <1>3, <1>6
  <2>2. QED
    BY <1>4, <1>6, <2>1 DEF B, D, E
<1>7. CASE e > b
  <2>1. (B + m <= D + x /\ D + x < E + k) <=>
          (d = b /\ m <= x) \/ (b < d /\ d < e) \/ (d = e /\ x < k)
    BY <1>1, <1>2, <1>3, <1>7
  <2>2. QED
    BY <1>4, <1>7, <2>1 DEF B, D, E
<1>8. QED
  BY <1>5, <1>6, <1>7

\* Every piece names its shift.
LEMMA PiecesName ==
  ASSUME NEW i, NEW b \in Int, NEW m \in Int, NEW e \in Int, NEW k \in Int,
         b = dayKey(shifts[i].in), m = minutes(shifts[i].in),
         e = BarEnd(i).day, k = BarEnd(i).min,
         NEW g \in segmentsFor(i)
  PROVE  g.shift = i
<1>1. /\ e < b \/ (e = b /\ k < m) => segmentsFor(i) = {Segment(i, b, m, m)}
      /\ e = b /\ k >= m => segmentsFor(i) = {Segment(i, b, m, k)}
      /\ e > b => segmentsFor(i) =
           {Segment(i, b, m, Day)} \cup {Segment(i, f, 0, Day) : f \in b + 1 .. e - 1}
             \cup (IF k > 0 THEN {Segment(i, e, 0, k)} ELSE {})
  BY PiecesAre
<1>2. \E f, a, z : g = Segment(i, f, a, z)
  <2>1. CASE e < b \/ (e = b /\ k < m)
    <3>1. segmentsFor(i) = {Segment(i, b, m, m)}
      BY <2>1, <1>1
    <3>2. QED
      BY <3>1
  <2>2. CASE e = b /\ k >= m
    <3>1. segmentsFor(i) = {Segment(i, b, m, k)}
      BY <2>2, <1>1
    <3>2. QED
      BY <3>1
  <2>3. CASE e > b
    <3>1. segmentsFor(i) =
            {Segment(i, b, m, Day)} \cup {Segment(i, f, 0, Day) : f \in b + 1 .. e - 1}
              \cup (IF k > 0 THEN {Segment(i, e, 0, k)} ELSE {})
      BY <2>3, <1>1
    <3>2. QED
      BY <3>1
  <2>4. QED
    BY <2>1, <2>2, <2>3
<1>3. QED
  BY <1>2, PieceIs

\* Where a bar ends, and the minutes of its shift that the grid is to show.
LEMMA EndsAre ==
  ASSUME PayrollAssumption, PayShape, now \in Int, NEW i \in DOMAIN shifts
  PROVE  /\ BarEnd(i).day \in Int /\ BarEnd(i).min \in Int
         /\ 0 <= BarEnd(i).min /\ BarEnd(i).min <= Day
         /\ BarEnd(i).min = Day => BarEnd(i).day = dayKey(shifts[i].in)
         /\ Wall(i) = Local(shifts[i].in) .. (BarEnd(i).day * Day + BarEnd(i).min) - 1
<1> DEFINE in == shifts[i].in
           out == shifts[i].out
           b == dayKey(in)
<1>1. in \in Int /\ (out = Open \/ out \in Int) /\ Day \in Nat \ {0}
  BY ShiftIs DEF Shift, PayrollAssumption
<1>2. /\ dayKey(in) \in Int /\ minutes(in) \in Int /\ dayKey(in) * Day \in Int
      /\ 0 <= minutes(in) /\ minutes(in) < Day /\ Local(in) \in Int
  BY <1>1, ClockParts, ClockIs
<1>3. /\ dayKey(now) \in Int /\ minutes(now) \in Int /\ dayKey(now) * Day \in Int
      /\ 0 <= minutes(now) /\ minutes(now) < Day /\ Local(now) \in Int
      /\ Local(now) = dayKey(now) * Day + minutes(now)
  BY ClockParts, ClockIs
<1>4. (b + 1) * Day = b * Day + Day
  BY <1>1, <1>2
<1> HIDE DEF in, out
<1>5. CASE out # Open
  <2>1. /\ dayKey(out) \in Int /\ minutes(out) \in Int /\ dayKey(out) * Day \in Int
        /\ 0 <= minutes(out) /\ minutes(out) < Day
        /\ Local(out) = dayKey(out) * Day + minutes(out)
    BY <1>1, <1>5, ClockParts
  <2>2. BarEnd(i) = [day |-> dayKey(out), min |-> minutes(out)]
    BY <1>5 DEF BarEnd, out
  <2>3. BarEnd(i).day = dayKey(out) /\ BarEnd(i).min = minutes(out)
    BY <2>2
  <2>4. Wall(i) = Local(in) .. Local(out) - 1
    BY <1>5 DEF Wall, in, out
  <2>5. QED
    BY <1>1, <2>1, <2>3, <2>4 DEF in
<1>6. CASE out = Open /\ dayKey(now) > b
  <2>1. ~(dayKey(now) <= b)
    BY <1>2, <1>3, <1>6
  <2>2. BarEnd(i) = [day |-> b, min |-> Day]
    BY <1>6, <2>1 DEF BarEnd, in, out
  <2>3. BarEnd(i).day = b /\ BarEnd(i).min = Day
    BY <2>2
  <2>4. dayKey(now) * Day >= b * Day + Day
    BY <1>1, <1>2, <1>3, <1>6, DaysInOrder
  <2>5. Min({Local(now), (b + 1) * Day}) = b * Day + Day
    BY <1>1, <1>2, <1>3, <1>4, <2>4, OfTwo
  <2>6. Wall(i) = Local(in) .. (b * Day + Day) - 1
    <3>1. Wall(i) = Local(in) .. Min({Local(now), (b + 1) * Day}) - 1
      BY <1>6 DEF Wall, in, out
    <3>2. QED
      BY <2>5, <3>1
  <2>7. QED
    BY <1>1, <1>2, <2>3, <2>6 DEF in
<1>7. CASE out = Open /\ dayKey(now) <= b
  <2>1. ~(dayKey(now) > b)
    BY <1>2, <1>3, <1>7
  <2>2. BarEnd(i) = [day |-> dayKey(now), min |-> minutes(now)]
    BY <1>7, <2>1 DEF BarEnd, in, out
  <2>3. BarEnd(i).day = dayKey(now) /\ BarEnd(i).min = minutes(now)
    BY <2>2
  <2>4. dayKey(now) = b \/ dayKey(now) * Day + Day <= b * Day
    <3>1. dayKey(now) = b \/ dayKey(now) < b
      <4>1. dayKey(now) \in Int /\ b \in Int /\ dayKey(now) <= b
        BY Zenon, <1>2, <1>3, <1>7
      <4>2. QED
        BY <4>1
    <3>2. QED
      BY <1>1, <1>2, <1>3, <3>1, DaysInOrder
  <2>5. Local(now) <= b * Day + Day
    BY <1>1, <1>2, <1>3, <2>4
  <2>6. Min({Local(now), (b + 1) * Day}) = Local(now)
    BY <1>1, <1>2, <1>3, <1>4, <2>5, OfTwo
  <2>7. Wall(i) = Local(in) .. Local(now) - 1
    BY <1>7, <2>6 DEF Wall, in, out
  <2>8. QED
    BY <1>1, <1>3, <2>3, <2>7 DEF in
<1>8. dayKey(now) > b \/ dayKey(now) <= b
  BY <1>2, <1>3
<1>9. QED
  BY <1>5, <1>6, <1>7, <1>8

\* A shift of up to a day with a minute on screen is among those the grid fetches.
LEMMA GridReaches ==
  ASSUME PayrollAssumption, PayShape, now \in Int,
         ~Rewound(from - 1), ~Skipped(from - 1), ~Rewound(to + 1),
         NEW i \in DOMAIN shifts, Cardinality(Wall(i)) <= Day,
         NEW d \in Days, NEW x \in 0 .. Day - 1, d * Day + x \in Wall(i)
  PROVE  Drawable(i)
<1> DEFINE a == Local(shifts[i].in)
           e == BarEnd(i).day * Day + BarEnd(i).min
           y == d * Day + x
<1>1. /\ Day \in Nat \ {0} /\ from \in Int /\ to \in Int /\ from - 1 \in Int /\ to + 1 \in Int
      /\ d \in Int /\ from <= d /\ d <= to /\ x \in Int /\ 0 <= x /\ x < Day
  BY DEF PayrollAssumption, Days
<1>2. shifts[i].in \in Int
  BY ShiftIs
<1>3. /\ a \in Int /\ (from - 1) * Day \in Int /\ (to + 1) * Day \in Int
      /\ dayKey(shifts[i].in) >= from - 1 <=> a >= (from - 1) * Day
      /\ dayKey(shifts[i].in) >= to + 1 <=> a >= (to + 1) * Day
  BY <1>1, <1>2, ClockIs
<1>4. BarEnd(i).day \in Int /\ BarEnd(i).min \in Int /\ Wall(i) = a .. e - 1
  BY EndsAre
<1>5. e \in Int
  BY <1>1, <1>4
<1>6. (from - 1) * Day + Day <= d * Day /\ d * Day + Day <= (to + 1) * Day /\ d * Day \in Int
  BY <1>1, DaysInOrder
<1> HIDE DEF a, e
<1>7. a <= y /\ y < e
  BY <1>1, <1>3, <1>4, <1>5, <1>6
<1>8. Cardinality(Wall(i)) = IF a > e - 1 THEN 0 ELSE e - 1 - a + 1
  BY <1>3, <1>4, <1>5, FS_Interval
<1>9. e - a <= Day
  BY <1>1, <1>3, <1>5, <1>6, <1>7, <1>8
<1>10. a >= (from - 1) * Day /\ ~(a >= (to + 1) * Day)
  BY <1>1, <1>3, <1>5, <1>6, <1>7, <1>9
<1>11. shifts[i].in >= startOfDay(from - 1)
  BY <1>1, <1>2, <1>3, <1>10, DayStarts
<1>12. shifts[i].in < startOfDay(to + 1)
  BY <1>1, <1>2, <1>3, <1>10, DayStarts
<1>13. QED
  BY <1>11, <1>12 DEF Drawable

\* What the grid rests on: the shifts keep their shape and the clock its whole minutes.
Clocked == PayShape /\ now \in Int

LEMMA ClockedAlways == PaySpec => []Clocked
<1>1. PayInit => Clocked
  <2>1. PayInit => PayShape
    BY PayShapeHolds, PayrollAssumption
  <2>2. PayInit => now \in Int
    BY PayrollAssumption DEF PayInit, PayrollAssumption, Story
  <2>3. QED
    BY <2>1, <2>2 DEF Clocked
<1>2. Clocked /\ [PayNext]_payVars => Clocked'
  <2>1. PayShape /\ [PayNext]_payVars => PayShape'
    BY PayShapeHolds, PayrollAssumption
  <2>2. Clocked /\ [PayNext]_payVars => now' \in Int
    BY DEF Clocked, PayShape, Story, PayNext, payVars, Tick, ClockIn, ClockOut, SetTip, Later
  <2>3. QED
    BY <2>1, <2>2 DEF Clocked
<1>3. QED
  BY <1>1, <1>2, PTL DEF PaySpec

\* Whatever the zone, the shifts and the days on screen, a shift of up to a day on the
\* clock is drawn over exactly its minutes, a running one up to now or to the end of its
\* day, unless the clocks were changed over a midnight that bounds what is fetched
\* (calendar.tsx, lib/week.ts).
THEOREM TheWeekIsDrawn == PaySpec => []ShiftsAreDrawn
<1>1. Clocked => ShiftsAreDrawn
  <2> SUFFICES ASSUME Clocked, ~Rewound(from - 1), ~Skipped(from - 1), ~Rewound(to + 1),
                      NEW i \in DOMAIN shifts, Cardinality(Wall(i)) <= Day,
                      NEW d \in Days, NEW x \in 0 .. Day - 1
               PROVE  (d * Day + x \in Wall(i)) =
                        (\E g \in Bars(d) : g.shift = i /\ g.startMin <= x /\ x < g.endMin)
    BY DEF ShiftsAreDrawn
  <2> USE DEF Clocked
  <2> DEFINE Shown == \E g \in Bars(d) : g.shift = i /\ g.startMin <= x /\ x < g.endMin
  <2>1. ASSUME NEW j \in DOMAIN shifts, NEW g \in segmentsFor(j) PROVE g.shift = j
    <3>1. dayKey(shifts[j].in) \in Int /\ minutes(shifts[j].in) \in Int
      BY PayrollAssumption, ShiftIs, ClockParts
    <3>2. BarEnd(j).day \in Int /\ BarEnd(j).min \in Int
      BY PayrollAssumption, EndsAre
    <3>3. QED
      BY <2>1, <3>1, <3>2, PiecesName
  <2>2. Shown <=> Drawable(i) /\ Covers(i, d, x)
    BY <2>1 DEF Bars, Covers
  <2>3. Covers(i, d, x) <=> d * Day + x \in Wall(i)
    <3> DEFINE b == dayKey(shifts[i].in)
               m == minutes(shifts[i].in)
               e == BarEnd(i).day
               k == BarEnd(i).min
    <3>1. /\ b \in Int /\ m \in Int /\ 0 <= m /\ m < Day /\ Local(shifts[i].in) = b * Day + m
      BY PayrollAssumption, ShiftIs, ClockParts
    <3>2. /\ e \in Int /\ k \in Int /\ 0 <= k /\ k <= Day /\ (k = Day => e = b)
          /\ Wall(i) = Local(shifts[i].in) .. (e * Day + k) - 1
      BY PayrollAssumption, EndsAre
    <3>3. d \in Int /\ Day \in Nat \ {0} /\ x \in Int
      BY PayrollAssumption DEF PayrollAssumption, Days
    <3>4. IsBar(i, b, m, e, k)
      BY <3>1, <3>2 DEF IsBar
    <3> HIDE DEF b, m, e, k
    <3>5. Covers(i, d, x) <=> (b * Day + m <= d * Day + x /\ d * Day + x < e * Day + k)
      BY <3>1, <3>2, <3>3, <3>4, PiecesCover
    <3>6. PICK p \in Int, q \in Int, y \in Int :
            p = b * Day + m /\ q = e * Day + k /\ y = d * Day + x
      BY <3>1, <3>2, <3>3
    <3>7. Wall(i) = p .. q - 1
      BY <3>1, <3>2, <3>6
    <3>8. y \in Wall(i) <=> (p <= y /\ y < q)
      BY <3>7
    <3>9. QED
      BY Zenon, <3>5, <3>6, <3>8
  <2>4. d * Day + x \in Wall(i) => Drawable(i)
    BY PayrollAssumption, GridReaches
  <2>5. d * Day + x \in Wall(i) <=> Shown
    BY <2>2, <2>3, <2>4
  <2> HIDE DEF Shown
  <2>6. (d * Day + x \in Wall(i)) = Shown
    BY <2>5
  <2>7. QED
    BY <2>6 DEF Shown
<1>2. QED
  BY <1>1, ClockedAlways, PTL
-----------------------------------------------------------------------------
(* Sums, which the library takes over the parts of a finite set *)

\* An element of s, as the library's folds take them.
AnyOf(s) == CHOOSE x \in s : TRUE

\* g is the sum of f over every part of S, element by element.
IsSum(g, f, S) ==
  g = [s \in SUBSET S |-> IF s = {} THEN 0 ELSE f[AnyOf(s)] + g[s \ {AnyOf(s)}]]

\* A set of naturals has a least one.
LEMMA LeastOf ==
  ASSUME NEW D \in SUBSET Nat, D # {}
  PROVE  \E m \in D : \A k \in D : m <= k
<1>1. PICK m \in D : \A k \in D : <<k, m>> \notin OpToRel(<, Nat)
  BY WFMin, NatLessThanWellFounded, Zenon
<1>2. \A k \in D : ~(k < m)
  BY <1>1, Zenon DEF OpToRel
<1>3. QED
  BY <1>2

\* Of the parts of a finite set that fail, one fails though it would not without any
\* one of its elements.
LEMMA Minimal ==
  ASSUME NEW S, IsFiniteSet(S), NEW Bad \in SUBSET SUBSET S, Bad # {}
  PROVE  \E s \in Bad : \A x \in s : s \ {x} \notin Bad
<1> DEFINE D == {Cardinality(s) : s \in Bad}
<1>1. \A s \in SUBSET S : IsFiniteSet(s) /\ Cardinality(s) \in Nat
  BY FS_Subset, FS_CardinalityType
<1>2. D \in SUBSET Nat /\ D # {}
  BY <1>1
<1>3. PICK m \in D : \A k \in D : m <= k
  <2> HIDE DEF D
  <2> QED
    BY <1>2, LeastOf
<1>4. PICK s \in Bad : Cardinality(s) = m
  BY <1>3
<1>5. ASSUME NEW x \in s PROVE s \ {x} \notin Bad
  <2>1. Cardinality(s \ {x}) = m - 1 /\ m \in Nat
    BY <1>1, <1>4, FS_RemoveElement
  <2>2. QED
    BY <1>3, <2>1
<1>6. QED
  BY <1>5

\* As the sums take them apart.
LEMMA Smallest ==
  ASSUME NEW S, IsFiniteSet(S), NEW Bad \in SUBSET SUBSET S, Bad # {}
  PROVE  \E s \in Bad : s = {} \/ (AnyOf(s) \in s /\ s \ {AnyOf(s)} \notin Bad)
<1>1. PICK s \in Bad : \A x \in s : s \ {x} \notin Bad
  BY Minimal
<1>2. s # {} => AnyOf(s) \in s
  BY DEF AnyOf
<1>3. QED
  BY <1>1, <1>2

\* The sum of the parts of at most n elements.
IsSumUpTo(g, n, f, S) ==
  g = [s \in {t \in SUBSET S : Cardinality(t) <= n} |->
         IF s = {} THEN 0 ELSE f[AnyOf(s)] + g[s \ {AnyOf(s)}]]

\* Sums over the parts of up to n elements: there are such, for every n.
LEMMA SumUpToExists ==
  ASSUME NEW f, NEW S, IsFiniteSet(S), NEW n \in Nat
  PROVE  \E g : IsSumUpTo(g, n, f, S)
<1> DEFINE D == {k \in Nat : ~ \E g : IsSumUpTo(g, k, f, S)}
           U(k) == {t \in SUBSET S : Cardinality(t) <= k}
<1>1. SUFFICES ASSUME D # {} PROVE FALSE
  OBVIOUS
<1>2. PICK m \in D : \A k \in D : m <= k
  BY <1>1, LeastOf
<1>3. \A s \in SUBSET S : /\ IsFiniteSet(s) /\ Cardinality(s) \in Nat
                          /\ (Cardinality(s) = 0 <=> s = {})
  BY FS_Subset, FS_CardinalityType, FS_EmptySet
<1>4. m # 0
  <2>1. U(0) = {{}}
    BY <1>3
  <2>2. IsSumUpTo([s \in U(0) |-> 0], 0, f, S)
    BY <2>1 DEF IsSumUpTo
  <2>3. QED
    BY <2>2
<1>5. m - 1 \in Nat /\ m - 1 \notin D /\ m \in Nat
  BY <1>2, <1>4
<1>6. PICK g : IsSumUpTo(g, m - 1, f, S)
  BY <1>5
<1> DEFINE Entry(s) == IF s = {} THEN 0 ELSE f[AnyOf(s)] + g[s \ {AnyOf(s)}]
           h == [s \in U(m) |-> Entry(s)]
           r == [s \in U(m) |-> IF s = {} THEN 0 ELSE f[AnyOf(s)] + h[s \ {AnyOf(s)}]]
<1>7. ASSUME NEW s \in U(m), s # {}
      PROVE  s \ {AnyOf(s)} \in U(m - 1) /\ s \ {AnyOf(s)} \in U(m)
  <2>1. AnyOf(s) \in s
    BY <1>7 DEF AnyOf
  <2>2. Cardinality(s \ {AnyOf(s)}) = Cardinality(s) - 1 /\ Cardinality(s) \in Nat
    BY <1>3, <2>1, FS_RemoveElement
  <2>3. QED
    BY <1>5, <2>2
<1>8. ASSUME NEW s \in U(m - 1) PROVE g[s] = Entry(s)
  BY <1>6 DEF IsSumUpTo
<1>9. \A s \in U(m) : h[s] = r[s]
  BY <1>7, <1>8
<1>10. h = r
  <2> HIDE DEF Entry, U
  <2>1. h = [s \in U(m) |-> h[s]] /\ r = [s \in U(m) |-> r[s]]
    OBVIOUS
  <2>2. QED
    BY <1>9, <2>1, Zenon
<1>11. IsSumUpTo(h, m, f, S)
  BY <1>10, Zenon DEF IsSumUpTo
<1>12. QED
  BY <1>5, <1>11

\* So every function has its sums over the parts of a finite set.
LEMMA SumExists ==
  ASSUME NEW f, NEW S, IsFiniteSet(S)
  PROVE  \E g : IsSum(g, f, S)
<1>1. Cardinality(S) \in Nat /\ {t \in SUBSET S : Cardinality(t) <= Cardinality(S)} = SUBSET S
  BY FS_CardinalityType, FS_Subset
<1>2. PICK g : IsSumUpTo(g, Cardinality(S), f, S)
  BY <1>1, SumUpToExists
<1>3. IsSum(g, f, S)
  BY <1>1, <1>2, Zenon DEF IsSum, IsSumUpTo
<1>4. QED
  BY <1>3

\* What they are, part by part.
LEMMA SumStep ==
  ASSUME NEW f, NEW S, NEW g, IsSum(g, f, S)
  PROVE  \A s \in SUBSET S : /\ s = {} => g[s] = 0
                             /\ s # {} => g[s] = f[AnyOf(s)] + g[s \ {AnyOf(s)}]
BY DEF IsSum

\* A sum of whole numbers is one.
LEMMA SumIsInt ==
  ASSUME NEW f, NEW S, IsFiniteSet(S), \A x \in S : f[x] \in Int,
         NEW g, IsSum(g, f, S)
  PROVE  \A s \in SUBSET S : g[s] \in Int
<1>a. \A s \in SUBSET S : /\ s = {} => g[s] = 0
                          /\ s # {} => g[s] = f[AnyOf(s)] + g[s \ {AnyOf(s)}]
  BY DEF IsSum
<1> DEFINE Bad == {s \in SUBSET S : g[s] \notin Int}
<1>1. SUFFICES ASSUME Bad # {} PROVE FALSE
  OBVIOUS
<1>2. PICK s \in Bad : s = {} \/ (AnyOf(s) \in s /\ s \ {AnyOf(s)} \notin Bad)
  BY <1>1, Smallest
<1>0. s \in SUBSET S
  BY <1>2
<1>3. CASE s = {}
  <2>1. g[s] = 0
    BY <1>0, <1>3, <1>a
  <2>2. QED
    BY <1>2, <2>1
<1>4. CASE s # {}
  <2>1. g[s] = f[AnyOf(s)] + g[s \ {AnyOf(s)}]
    BY <1>0, <1>4, <1>a
  <2>2. f[AnyOf(s)] \in Int /\ g[s \ {AnyOf(s)}] \in Int
    BY <1>2, <1>4
  <2>3. QED
    BY <1>2, <2>1, <2>2
<1>5. QED
  BY <1>3, <1>4

\* A factor can be taken out of a sum.
LEMMA SumScales ==
  ASSUME NEW S, IsFiniteSet(S), NEW a \in Int, NEW f1, NEW f2,
         \A x \in S : f1[x] \in Int /\ f2[x] = a * f1[x],
         NEW g1, IsSum(g1, f1, S), NEW g2, IsSum(g2, f2, S)
  PROVE  g2[S] = a * g1[S]
<1> DEFINE Bad == {s \in SUBSET S : g2[s] # a * g1[s]}
<1>a. \A s \in SUBSET S : /\ s = {} => g1[s] = 0
                          /\ s # {} => g1[s] = f1[AnyOf(s)] + g1[s \ {AnyOf(s)}]
  BY DEF IsSum
<1>b. \A s \in SUBSET S : /\ s = {} => g2[s] = 0
                          /\ s # {} => g2[s] = f2[AnyOf(s)] + g2[s \ {AnyOf(s)}]
  BY DEF IsSum
<1>1. SUFFICES ASSUME Bad # {} PROVE FALSE
  OBVIOUS
<1>2. PICK s \in Bad : s = {} \/ (AnyOf(s) \in s /\ s \ {AnyOf(s)} \notin Bad)
  BY <1>1, Smallest
<1>0. s \in SUBSET S
  BY <1>2
<1>3. CASE s = {}
  <2>1. g1[s] = 0 /\ g2[s] = 0
    BY <1>0, <1>3, <1>a, <1>b
  <2>2. QED
    BY <1>2, <2>1
<1>4. CASE s # {}
  <2> DEFINE x == AnyOf(s)
             t == s \ {x}
  <2>1. x \in S /\ t \in SUBSET S /\ g2[t] = a * g1[t]
    BY <1>2, <1>4
  <2>2. g1[s] = f1[x] + g1[t] /\ g2[s] = f2[x] + g2[t]
    BY <1>0, <1>4, <1>a, <1>b
  <2>3. g1[t] \in Int
    BY <2>1, SumIsInt
  <2>4. f1[x] \in Int /\ f2[x] = a * f1[x]
    BY <2>1
  <2>5. g2[s] # a * g1[s]
    BY <1>2
  <2> HIDE DEF x, t, Bad
  <2>6. a * (f1[x] + g1[t]) = a * f1[x] + a * g1[t]
    BY <2>3, <2>4
  <2>7. QED
    BY <2>1, <2>2, <2>3, <2>4, <2>5, <2>6
<1>5. QED
  BY <1>3, <1>4

\* The sum of sums.
LEMMA SumAdds ==
  ASSUME NEW S, IsFiniteSet(S), NEW f1, NEW f2, NEW f3,
         \A x \in S : f1[x] \in Int /\ f2[x] \in Int /\ f3[x] = f1[x] + f2[x],
         NEW g1, IsSum(g1, f1, S), NEW g2, IsSum(g2, f2, S), NEW g3, IsSum(g3, f3, S)
  PROVE  g3[S] = g1[S] + g2[S]
<1> DEFINE Bad == {s \in SUBSET S : g3[s] # g1[s] + g2[s]}
<1>a. \A s \in SUBSET S : /\ s = {} => g1[s] = 0
                          /\ s # {} => g1[s] = f1[AnyOf(s)] + g1[s \ {AnyOf(s)}]
  BY DEF IsSum
<1>b. \A s \in SUBSET S : /\ s = {} => g2[s] = 0
                          /\ s # {} => g2[s] = f2[AnyOf(s)] + g2[s \ {AnyOf(s)}]
  BY DEF IsSum
<1>c. \A s \in SUBSET S : /\ s = {} => g3[s] = 0
                          /\ s # {} => g3[s] = f3[AnyOf(s)] + g3[s \ {AnyOf(s)}]
  BY DEF IsSum
<1>1. SUFFICES ASSUME Bad # {} PROVE FALSE
  OBVIOUS
<1>2. PICK s \in Bad : s = {} \/ (AnyOf(s) \in s /\ s \ {AnyOf(s)} \notin Bad)
  BY <1>1, Smallest
<1>0. s \in SUBSET S
  BY <1>2
<1>3. CASE s = {}
  <2>1. g1[s] = 0 /\ g2[s] = 0 /\ g3[s] = 0
    BY <1>0, <1>3, <1>a, <1>b, <1>c
  <2>2. QED
    BY <1>2, <2>1
<1>4. CASE s # {}
  <2> DEFINE x == AnyOf(s)
             t == s \ {x}
  <2>1. x \in S /\ t \in SUBSET S /\ g3[t] = g1[t] + g2[t]
    BY <1>2, <1>4
  <2>2. /\ g1[s] = f1[x] + g1[t] /\ g2[s] = f2[x] + g2[t] /\ g3[s] = f3[x] + g3[t]
    BY <1>0, <1>4, <1>a, <1>b, <1>c
  <2>3. g1[t] \in Int /\ g2[t] \in Int
    BY <2>1, SumIsInt
  <2>4. f1[x] \in Int /\ f2[x] \in Int /\ f3[x] = f1[x] + f2[x]
    BY <2>1
  <2>5. g3[s] # g1[s] + g2[s]
    BY <1>2
  <2> HIDE DEF x, t, Bad
  <2>6. QED
    BY <2>1, <2>2, <2>3, <2>4, <2>5
<1>5. QED
  BY <1>3, <1>4

\* The greater summands have the greater sum.
LEMMA SumIsMonotone ==
  ASSUME NEW S, IsFiniteSet(S), NEW f1, NEW f2,
         \A x \in S : f1[x] \in Int /\ f2[x] \in Int /\ f1[x] <= f2[x],
         NEW g1, IsSum(g1, f1, S), NEW g2, IsSum(g2, f2, S)
  PROVE  g1[S] <= g2[S]
<1>a. \A s \in SUBSET S : /\ s = {} => g1[s] = 0
                          /\ s # {} => g1[s] = f1[AnyOf(s)] + g1[s \ {AnyOf(s)}]
  BY DEF IsSum
<1>b. \A s \in SUBSET S : /\ s = {} => g2[s] = 0
                          /\ s # {} => g2[s] = f2[AnyOf(s)] + g2[s \ {AnyOf(s)}]
  BY DEF IsSum
<1> DEFINE Bad == {s \in SUBSET S : ~(g1[s] <= g2[s])}
<1>1. SUFFICES ASSUME Bad # {} PROVE FALSE
  OBVIOUS
<1>2. PICK s \in Bad : s = {} \/ (AnyOf(s) \in s /\ s \ {AnyOf(s)} \notin Bad)
  BY <1>1, Smallest
<1>0. s \in SUBSET S
  BY <1>2
<1>3. CASE s = {}
  <2>1. g1[s] = 0 /\ g2[s] = 0
    BY <1>0, <1>3, <1>a, <1>b
  <2>2. QED
    BY <1>2, <2>1
<1>4. CASE s # {}
  <2> DEFINE x == AnyOf(s)
             t == s \ {x}
  <2>1. x \in S /\ t \in SUBSET S /\ g1[t] <= g2[t]
    BY <1>2, <1>4
  <2>2. g1[s] = f1[x] + g1[t] /\ g2[s] = f2[x] + g2[t]
    BY <1>0, <1>4, <1>a, <1>b
  <2>3. g1[t] \in Int /\ g2[t] \in Int
    BY <2>1, SumIsInt
  <2>4. f1[x] \in Int /\ f2[x] \in Int /\ f1[x] <= f2[x]
    BY <2>1
  <2>5. ~(g1[s] <= g2[s])
    BY <1>2
  <2> HIDE DEF x, t, Bad
  <2>6. QED
    BY <2>1, <2>2, <2>3, <2>4, <2>5
<1>5. QED
  BY <1>3, <1>4

\* Ones add up to how many there are.
LEMMA SumCounts ==
  ASSUME NEW S, IsFiniteSet(S), NEW A \in SUBSET S, NEW f,
         \A x \in S : f[x] = IF x \in A THEN 1 ELSE 0,
         NEW g, IsSum(g, f, S)
  PROVE  g[S] = Cardinality(A)
<1>a. \A s \in SUBSET S : /\ s = {} => g[s] = 0
                          /\ s # {} => g[s] = f[AnyOf(s)] + g[s \ {AnyOf(s)}]
  BY DEF IsSum
<1> DEFINE Bad == {s \in SUBSET S : g[s] # Cardinality(A \cap s)}
<1>1. SUFFICES ASSUME Bad # {} PROVE FALSE
  <2>1. A \cap S = A
    OBVIOUS
  <2>2. QED
    BY <2>1
<1>2. PICK s \in Bad : s = {} \/ (AnyOf(s) \in s /\ s \ {AnyOf(s)} \notin Bad)
  BY <1>1, Smallest
<1>0. s \in SUBSET S
  BY <1>2
<1>3. CASE s = {}
  <2>1. g[s] = 0 /\ A \cap s = {}
    BY <1>0, <1>3, <1>a
  <2>2. QED
    BY <1>2, <2>1, FS_EmptySet
<1>4. CASE s # {}
  <2> DEFINE x == AnyOf(s)
             t == s \ {x}
  <2>1. x \in s /\ x \in S /\ t \in SUBSET S /\ g[t] = Cardinality(A \cap t)
    BY <1>2, <1>4
  <2>2. g[s] = f[x] + g[t]
    BY <1>0, <1>4, <1>a
  <2>3. IsFiniteSet(A \cap s) /\ Cardinality(A \cap s) \in Nat
    BY <1>2, FS_Subset, FS_CardinalityType
  <2>4. g[s] # Cardinality(A \cap s)
    BY <1>2
  <2>5. CASE x \in A
    <3>1. x \in A \cap s /\ A \cap t = (A \cap s) \ {x} /\ f[x] = 1
      BY <2>1, <2>5
    <3>2. Cardinality(A \cap t) = Cardinality(A \cap s) - 1
      <4> DEFINE u == A \cap s
                 v == A \cap t
      <4>1. x \in u /\ v = u \ {x} /\ IsFiniteSet(u)
        BY <2>3, <3>1
      <4> HIDE DEF u, v, x
      <4>2. Cardinality(v) = Cardinality(u) - 1
        BY <4>1, FS_RemoveElement
      <4>3. QED
        BY <4>2 DEF u, v
    <3> HIDE DEF x, t, Bad
    <3>3. QED
      BY <2>1, <2>2, <2>3, <2>4, <3>1, <3>2
  <2>6. CASE x \notin A
    <3>1. A \cap t = A \cap s /\ f[x] = 0
      BY <2>1, <2>6
    <3> HIDE DEF x, t, Bad
    <3>2. QED
      BY <2>1, <2>2, <2>3, <2>4, <3>1
  <2>7. QED
    BY <2>5, <2>6
<1>5. QED
  BY <1>3, <1>4

\* The values of f over S add up to n.
AddsUp(f, S, n) == \E g : IsSum(g, f, S) /\ g[S] = n

\* The library's sum of a function is its sum.
LEMMA SumFunctionIs ==
  ASSUME NEW f, IsFiniteSet(DOMAIN f)
  PROVE  AddsUp(f, DOMAIN f, SumFunction(f))
<1> DEFINE D == DOMAIN f
<1>1. PICK g : IsSum(g, f, D)
  BY SumExists
<1>2. SumFunction(f) = (CHOOSE h : IsSum(h, f, D))[D]
  BY Zenon DEF SumFunction, SumFunctionOnSet, FoldFunctionOnSet, MapThenFoldSet, IsSum, AnyOf
<1>3. IsSum(CHOOSE h : IsSum(h, f, D), f, D)
  BY <1>1, Zenon
<1>4. QED
  BY <1>2, <1>3, Zenon DEF AddsUp

\* Nothing adds up to nothing, and natural numbers to one.
LEMMA NothingAddsUp ==
  ASSUME NEW S, IsFiniteSet(S), NEW f, \A x \in S : f[x] = 0, NEW n, AddsUp(f, S, n)
  PROVE  n = 0
<1>1. PICK g : IsSum(g, f, S) /\ g[S] = n
  BY Zenon DEF AddsUp
<1>2. {} \in SUBSET S /\ \A x \in S : f[x] = IF x \in {} THEN 1 ELSE 0
  OBVIOUS
<1>3. g[S] = Cardinality({})
  BY <1>1, <1>2, SumCounts
<1>4. QED
  BY <1>1, <1>3, FS_EmptySet

\* Naturals add up to one.
LEMMA NaturalsAddUp ==
  ASSUME NEW S, IsFiniteSet(S), NEW f, \A x \in S : f[x] \in Nat, NEW n, AddsUp(f, S, n)
  PROVE  n \in Nat
<1> DEFINE zero == [x \in S |-> 0]
<1>1. PICK g : IsSum(g, f, S) /\ g[S] = n
  BY Zenon DEF AddsUp
<1>2. PICK z : IsSum(z, zero, S)
  BY SumExists
<1>3. \A x \in S : zero[x] = 0 /\ zero[x] \in Int /\ f[x] \in Int /\ zero[x] <= f[x]
  OBVIOUS
<1> HIDE DEF zero
<1>4. z[S] = 0
  <2>1. AddsUp(zero, S, z[S])
    BY <1>2, Zenon DEF AddsUp
  <2>2. QED
    BY <1>3, <2>1, NothingAddsUp
<1>5. g[S] \in Int
  BY <1>1, <1>3, SumIsInt
<1>6. z[S] <= g[S]
  BY <1>1, <1>2, <1>3, SumIsMonotone
<1>7. QED
  BY <1>1, <1>4, <1>5, <1>6
-----------------------------------------------------------------------------
(* The split *)

\* The first k of P by R.
FirstOf(P, R, k) == {p \in P : Cardinality({q \in P : <<q, p>> \in R}) < k}

\* Of n things in a strict total order R, k are preceded by fewer than k others.
LEMMA FirstOnes ==
  ASSUME NEW P, IsFiniteSet(P), NEW R,
         \A p \in P : <<p, p>> \notin R,
         \A p, q \in P : p # q => <<p, q>> \in R \/ <<q, p>> \in R,
         \A p, q, r \in P : <<p, q>> \in R /\ <<q, r>> \in R => <<p, r>> \in R,
         NEW k \in Nat, k <= Cardinality(P)
  PROVE  Cardinality(FirstOf(P, R, k)) = k
<1> DEFINE n == Cardinality(P)
           Earlier(p) == {q \in P : <<q, p>> \in R}
           rank == [p \in P |-> Cardinality(Earlier(p))]
           F == {p \in P : rank[p] < k}
<1>1. n \in Nat
  BY FS_CardinalityType
<1>2. \A p \in P : /\ Earlier(p) \in SUBSET P /\ p \notin Earlier(p)
                   /\ IsFiniteSet(Earlier(p)) /\ Cardinality(Earlier(p)) \in Nat
  BY FS_Subset, FS_CardinalityType
<1>3. \A p \in P : rank[p] \in 0 .. n - 1
  <2> SUFFICES ASSUME NEW p \in P PROVE rank[p] \in 0 .. n - 1
    OBVIOUS
  <2> DEFINE e == Earlier(p)
  <2>1. e \in SUBSET P /\ e # P /\ Cardinality(e) \in Nat /\ rank[p] = Cardinality(e)
    BY <1>2
  <2> HIDE DEF e, rank
  <2>2. Cardinality(e) <= n /\ Cardinality(e) # n
    BY <2>1, FS_Subset
  <2>3. QED
    BY <1>1, <2>1, <2>2
<1>4. ASSUME NEW p \in P, NEW q \in P, <<p, q>> \in R PROVE rank[p] < rank[q]
  <2> DEFINE a == Earlier(p)
             b == Earlier(q)
  <2>1. a \in SUBSET b /\ a # b /\ IsFiniteSet(b)
    BY <1>2, <1>4
  <2>2. /\ Cardinality(a) \in Nat /\ Cardinality(b) \in Nat
        /\ rank[p] = Cardinality(a) /\ rank[q] = Cardinality(b)
    BY <1>2
  <2> HIDE DEF a, b, rank
  <2>3. Cardinality(a) <= Cardinality(b) /\ Cardinality(a) # Cardinality(b)
    BY <2>1, FS_Subset
  <2>4. QED
    BY <2>2, <2>3
<1>5. \A p, q \in P : rank[p] = rank[q] => p = q
  <2> SUFFICES ASSUME NEW p \in P, NEW q \in P, rank[p] = rank[q], p # q PROVE FALSE
    OBVIOUS
  <2>1. rank[p] < rank[q] \/ rank[q] < rank[p]
    BY <1>4
  <2>2. rank[p] \in Int /\ rank[q] \in Int
    BY <1>1, <1>3
  <2> HIDE DEF rank
  <2>3. QED
    BY <2>1, <2>2
<1>6. rank \in Injection(P, 0 .. n - 1)
  <2>1. rank \in [P -> 0 .. n - 1]
    BY <1>3
  <2>2. QED
    BY <1>5, <2>1 DEF Injection, IsInjective
<1>7. IsFiniteSet(0 .. n - 1) /\ Cardinality(0 .. n - 1) = n
  <2> HIDE DEF n
  <2>1. n - 1 \in Int /\ 0 \in Int /\ n \in Nat
    BY <1>1
  <2>2. IsFiniteSet(0 .. n - 1)
        /\ Cardinality(0 .. n - 1) = IF 0 > n - 1 THEN 0 ELSE (n - 1) - 0 + 1
    BY <2>1, FS_Interval
  <2>3. QED
    BY <2>1, <2>2
<1>8. rank \in Surjection(P, 0 .. n - 1)
  <2> HIDE DEF rank
  <2>1. QED
    BY <1>6, <1>7, FS_Injection
<1>9. \A m \in 0 .. n - 1 : \E p \in P : rank[p] = m
  <2> HIDE DEF rank
  <2>1. QED
    BY <1>8 DEF Surjection
<1> DEFINE f == [p \in F |-> rank[p]]
<1>10. f \in Bijection(F, 0 .. k - 1)
  <2> HIDE DEF rank
  <2>1. f \in [F -> 0 .. k - 1]
    BY <1>1, <1>3
  <2>2. \A p, q \in F : f[p] = f[q] => p = q
    BY <1>5
  <2>3. \A m \in 0 .. k - 1 : \E p \in F : f[p] = m
    <3> SUFFICES ASSUME NEW m \in 0 .. k - 1 PROVE \E p \in F : f[p] = m
      OBVIOUS
    <3>1. m \in 0 .. n - 1
      BY <1>1
    <3>2. PICK p \in P : rank[p] = m
      BY <1>9, <3>1
    <3>3. p \in F /\ f[p] = m
      BY <3>2
    <3>4. QED
      BY <3>3
  <2> HIDE DEF f, F
  <2>4. QED
    BY <2>1, <2>2, <2>3 DEF Bijection, Injection, Surjection, IsInjective
<1>11. IsFiniteSet(F)
  <2>1. F \in SUBSET P
    OBVIOUS
  <2> HIDE DEF F
  <2>2. QED
    BY <2>1, FS_Subset
<1>12. Cardinality(0 .. k - 1) = Cardinality(F)
  <2> HIDE DEF F, f
  <2>1. ExistsBijection(F, 0 .. k - 1)
    BY <1>10 DEF ExistsBijection
  <2>2. QED
    BY <1>11, <2>1, FS_Bijection
<1>13. Cardinality(0 .. k - 1) = k
  BY FS_Interval
<1>14. F = FirstOf(P, R, k)
  BY DEF FirstOf
<1>15. QED
  <2> HIDE DEF F
  <2>1. QED
    BY <1>12, <1>13, <1>14

\* A share of the amount is its part of the total, but for a remainder.
Divides(amount, total, min, share, rem) ==
  /\ min \in Nat /\ share \in Int /\ rem \in Int /\ 0 <= rem /\ rem < total
  /\ amount * min = total * share + rem
IsDivided(D, amount, total, mins, share, rem) ==
  \A i \in D : Divides(amount, total, mins[i], share[i], rem[i])

\* Dividing what is proportionate to each leaves no more units than there are remainders.
LEMMA LeftoverFits ==
  ASSUME NEW D, IsFiniteSet(D), NEW amount \in Nat, NEW total \in Nat \ {0},
         NEW mins, NEW share, NEW rem,
         IsDivided(D, amount, total, mins, share, rem),
         AddsUp(mins, D, total), NEW spent, AddsUp(share, D, spent)
  PROVE  /\ amount - spent \in Nat
         /\ amount - spent <= Cardinality({i \in D : rem[i] > 0})
<1> DEFINE A == {i \in D : rem[i] > 0}
           zero == [i \in D |-> IF i \in {} THEN 1 ELSE 0]
           one == [i \in D |-> IF i \in A THEN 1 ELSE 0]
           all == [i \in D |-> amount * mins[i]]
           whole == [i \in D |-> total * share[i]]
           most == [i \in D |-> total * one[i]]
<1>0. PICK gm : IsSum(gm, mins, D) /\ gm[D] = total
  BY Zenon DEF AddsUp
<1>s. PICK gs : IsSum(gs, share, D) /\ gs[D] = spent
  BY Zenon DEF AddsUp
<1>1. PICK gr : IsSum(gr, rem, D)
  BY SumExists
<1>2. PICK gz : IsSum(gz, zero, D)
  BY SumExists
<1>3. PICK go : IsSum(go, one, D)
  BY SumExists
<1>4. PICK ga : IsSum(ga, all, D)
  BY SumExists
<1>5. PICK gt : IsSum(gt, most, D)
  BY SumExists
<1>6. /\ A \in SUBSET D /\ \A i \in D : one[i] = IF i \in A THEN 1 ELSE 0
      /\ \A i \in D : zero[i] = (IF i \in {} THEN 1 ELSE 0) /\ zero[i] = 0
      /\ \A i \in D : /\ all[i] = amount * mins[i] /\ whole[i] = total * share[i]
                      /\ most[i] = total * one[i]
  OBVIOUS
<1>7. \A i \in D : one[i] \in Int /\ most[i] \in Int /\ rem[i] <= most[i]
  <2> SUFFICES ASSUME NEW i \in D PROVE one[i] \in Int /\ most[i] \in Int /\ rem[i] <= most[i]
    OBVIOUS
  <2>1. CASE i \in A
    BY <1>6, <2>1 DEF IsDivided, Divides
  <2>2. CASE i \notin A
    BY <1>6, <2>2 DEF IsDivided, Divides
  <2>3. QED
    BY <2>1, <2>2
<1> HIDE DEF zero, one, all, whole, most, A
<1>8. gm[D] \in Int /\ gs[D] \in Int /\ gr[D] \in Int /\ go[D] \in Int
  <2>1. gm[D] \in Int
    BY <1>0
  <2>2. gs[D] \in Int
    <3>1. \A i \in D : share[i] \in Int
      BY DEF IsDivided, Divides
    <3>2. QED
      BY <1>s, <3>1, SumIsInt
  <2>3. gr[D] \in Int
    <3>1. \A i \in D : rem[i] \in Int
      BY DEF IsDivided, Divides
    <3>2. QED
      BY <1>1, <3>1, SumIsInt
  <2>4. go[D] \in Int
    BY <1>3, <1>7, SumIsInt
  <2>5. QED
    BY <2>1, <2>2, <2>3, <2>4
<1>9. go[D] = Cardinality(A)
  BY <1>3, <1>6, SumCounts
<1>10. gz[D] = 0
  <2>1. {} \in SUBSET D
    OBVIOUS
  <2>2. gz[D] = Cardinality({})
    BY <1>2, <1>6, <2>1, SumCounts
  <2>3. QED
    BY <2>2, FS_EmptySet
<1>11. ga[D] = amount * gm[D]
  <2>1. \A i \in D : mins[i] \in Int /\ all[i] = amount * mins[i]
    BY <1>6 DEF IsDivided, Divides
  <2>2. amount \in Int /\ IsSum(gm, mins, D)
    BY <1>0
  <2>3. QED
    BY <1>4, <2>1, <2>2, SumScales
<1>12. ga[D] = total * gs[D] + gr[D]
  <2>1. PICK gw : IsSum(gw, whole, D)
    BY SumExists
  <2>2. \A i \in D : share[i] \in Int /\ whole[i] = total * share[i]
    BY <1>6 DEF IsDivided, Divides
  <2>3. gw[D] = total * gs[D]
    <3>1. total \in Int /\ IsSum(gs, share, D)
      BY <1>s
    <3>2. QED
      BY <2>1, <2>2, <3>1, SumScales
  <2>4. \A i \in D : whole[i] \in Int /\ rem[i] \in Int /\ all[i] = whole[i] + rem[i]
    BY <1>6 DEF IsDivided, Divides
  <2>5. ga[D] = gw[D] + gr[D]
    BY <1>1, <1>4, <2>1, <2>4, SumAdds
  <2>6. QED
    BY <2>3, <2>5
<1>13. gt[D] = total * go[D]
  <2>1. \A i \in D : one[i] \in Int /\ most[i] = total * one[i]
    BY <1>6, <1>7
  <2>2. QED
    BY <1>3, <1>5, <2>1, SumScales
<1>14. gz[D] <= gr[D]
  <2>1. \A i \in D : zero[i] \in Int /\ rem[i] \in Int /\ zero[i] <= rem[i]
    BY <1>6 DEF IsDivided, Divides
  <2>2. QED
    BY <1>1, <1>2, <2>1, SumIsMonotone
<1>15. gr[D] <= gt[D]
  <2>1. \A i \in D : rem[i] \in Int /\ most[i] \in Int /\ rem[i] <= most[i]
    BY <1>7 DEF IsDivided, Divides
  <2>2. QED
    BY <1>1, <1>5, <2>1, SumIsMonotone
<1>16. IsFiniteSet(A) /\ Cardinality(A) \in Nat
  BY <1>6, FS_Subset, FS_CardinalityType
<1> DEFINE left == amount - spent
           c == Cardinality(A)
<1>17. left \in Int /\ c \in Nat /\ total * left = gr[D] /\ gr[D] >= 0 /\ gr[D] <= total * c
  <2>1. total * gs[D] \in Int /\ total * left = total * amount - total * gs[D]
    BY <1>8, <1>s
  <2> DEFINE p == total * gs[D]
             q == total * left
             r == total * amount
             u == total * c
  <2>2. r = p + gr[D] /\ q = r - p /\ p \in Int
    BY <1>0, <1>11, <1>12, <2>1
  <2>3. gr[D] >= 0 /\ gr[D] <= u
    BY <1>9, <1>10, <1>13, <1>14, <1>15
  <2>4. left \in Int /\ c \in Nat
    BY <1>8, <1>16, <1>s
  <2> HIDE DEF p, q, r, u, left, c
  <2>5. q = gr[D]
    BY <1>8, <2>2
  <2>6. QED
    BY <2>3, <2>4, <2>5 DEF q, u
<1> HIDE DEF left, c
<1>18. left >= 0
  <2> SUFFICES ASSUME ~(left >= 0) PROVE FALSE
    OBVIOUS
  <2>1. PICK m \in Nat : left = -1 - m
    BY <1>17
  <2>2. total * left = -total - total * m /\ total * m >= 0
    BY <2>1
  <2>3. QED
    BY <1>17, <2>2
<1>19. left <= c
  <2> SUFFICES ASSUME ~(left <= c) PROVE FALSE
    OBVIOUS
  <2>1. PICK m \in Nat : left = c + 1 + m
    BY <1>17
  <2>2. total * left = total * c + total + total * m /\ total * m >= 0
    BY <1>17, <2>1
  <2>3. QED
    BY <1>17, <2>2
<1>20. QED
  BY <1>17, <1>18, <1>19 DEF left, c, A

\* Who shares, as split.go sorts them, and who of them gets one of k units left over.
Sharers(D, mins) == {j \in D : mins[j] > 0}
PartOf(mins, rem, i) == [idx |-> i, remainder |-> rem[i], min |-> mins[i]]
PartsAt(A, mins, rem) == {PartOf(mins, rem, i) : i \in A}
PartsOf(D, mins, rem) == PartsAt(Sharers(D, mins), mins, rem)
Ahead(parts, p) == {q \in parts : LeftoverFirst(q, p)}
Lucky(D, parts, k) ==
  {i \in D : \E p \in parts : p.idx = i /\ Cardinality(Ahead(parts, p)) < k}

\* The order of the sharers is one.
LEMMA SharersInOrder ==
  ASSUME NEW D \in SUBSET Int, NEW mins, NEW rem,
         \A i \in D : mins[i] \in Nat /\ rem[i] \in Int
  PROVE  LET parts == PartsOf(D, mins, rem) IN
         /\ \A p \in parts : ~LeftoverFirst(p, p)
         /\ \A p, q \in parts : p # q => LeftoverFirst(p, q) \/ LeftoverFirst(q, p)
         /\ \A p, q, r \in parts : LeftoverFirst(p, q) /\ LeftoverFirst(q, r) => LeftoverFirst(p, r)
<1> DEFINE parts == PartsOf(D, mins, rem)
<1>1. \A p \in parts : /\ p.idx \in Int /\ p.remainder \in Int /\ p.min \in Int
                       /\ p.remainder = rem[p.idx] /\ p.min = mins[p.idx]
  BY DEF PartsOf, PartsAt, PartOf, Sharers
<1>2. \A p, q \in parts : p.idx = q.idx => p = q
  BY DEF PartsOf, PartsAt, PartOf
<1> HIDE DEF parts
<1>3. \A p \in parts : ~LeftoverFirst(p, p)
  BY <1>1 DEF LeftoverFirst
<1>4. \A p, q \in parts : p # q => LeftoverFirst(p, q) \/ LeftoverFirst(q, p)
  BY <1>1, <1>2 DEF LeftoverFirst
<1>5. \A p, q, r \in parts : LeftoverFirst(p, q) /\ LeftoverFirst(q, r) => LeftoverFirst(p, r)
  BY <1>1 DEF LeftoverFirst
<1>6. QED
  BY <1>3, <1>4, <1>5 DEF parts

\* There are as many parts as sharers.
LEMMA PartsAreSharers ==
  ASSUME NEW D, IsFiniteSet(D), NEW mins, NEW rem, NEW A \in SUBSET Sharers(D, mins)
  PROVE  /\ IsFiniteSet(PartsAt(A, mins, rem))
         /\ Cardinality(PartsAt(A, mins, rem)) = Cardinality(A)
<1> DEFINE parts == PartsAt(A, mins, rem)
           f == [i \in A |-> PartOf(mins, rem, i)]
<1>1. IsFiniteSet(A)
  <2>1. A \in SUBSET D
    BY DEF Sharers
  <2>2. QED
    BY <2>1, FS_Subset
<1>2. f \in [A -> parts] /\ \A p \in parts : \E i \in A : f[i] = p
  BY DEF PartsAt
<1>3. \A i, j \in A : f[i] = f[j] => i = j
  BY DEF PartOf
<1> HIDE DEF f, parts
<1>4. f \in Bijection(A, parts)
  BY <1>2, <1>3 DEF Bijection, Injection, Surjection, IsInjective
<1>5. ExistsBijection(A, parts)
  BY <1>4 DEF ExistsBijection
<1>6. QED
  BY <1>1, <1>5, FS_Bijection DEF parts

\* The units left over go to as many sharers, each with a remainder of its own, and to
\* nobody before whoever has a larger one.
LEMMA LeftoverIsShared ==
  ASSUME NEW D \in SUBSET Int, IsFiniteSet(D), NEW mins, NEW rem,
         \A i \in D : mins[i] \in Nat /\ rem[i] \in Int /\ (rem[i] > 0 => mins[i] > 0),
         NEW k \in Nat, k <= Cardinality({i \in D : rem[i] > 0})
  PROVE  LET F == Lucky(D, PartsOf(D, mins, rem), k) IN
         /\ F \in SUBSET D /\ Cardinality(F) = k
         /\ \A i \in F : rem[i] > 0
         /\ \A i \in Sharers(D, mins), j \in F : rem[i] > rem[j] => i \in F
<1> DEFINE A == {i \in D : rem[i] > 0}
           W == Sharers(D, mins)
           parts == PartsOf(D, mins, rem)
           R == {pq \in parts \X parts : LeftoverFirst(pq[1], pq[2])}
           G == {p \in parts : Cardinality(Ahead(parts, p)) < k}
           F == Lucky(D, parts, k)
           part(i) == PartOf(mins, rem, i)
<1>1. A \in SUBSET W /\ W \in SUBSET D /\ IsFiniteSet(W)
  <2>1. A \in SUBSET W /\ W \in SUBSET D
    BY DEF Sharers
  <2> HIDE DEF W, A
  <2>2. QED
    BY <2>1, FS_Subset
<1>2. IsFiniteSet(parts) /\ Cardinality(parts) = Cardinality(W)
  <2>1. W \in SUBSET W
    OBVIOUS
  <2>2. QED
    BY <2>1, PartsAreSharers DEF PartsOf
<1>3. /\ \A p \in parts : ~LeftoverFirst(p, p)
      /\ \A p, q \in parts : p # q => LeftoverFirst(p, q) \/ LeftoverFirst(q, p)
      /\ \A p, q, r \in parts : LeftoverFirst(p, q) /\ LeftoverFirst(q, r) => LeftoverFirst(p, r)
  BY SharersInOrder
<1>4. \A p, q \in parts : <<p, q>> \in R <=> LeftoverFirst(p, q)
  OBVIOUS
<1>5. \A p \in parts : Ahead(parts, p) = {q \in parts : <<q, p>> \in R}
  BY <1>4 DEF Ahead
<1>6. k <= Cardinality(parts)
  <2> HIDE DEF A, W, parts
  <2>1. Cardinality(A) <= Cardinality(W)
    BY <1>1, FS_Subset
  <2>2. Cardinality(A) \in Nat /\ Cardinality(W) \in Nat
    BY <1>1, FS_Subset, FS_CardinalityType
  <2>3. k <= Cardinality(A)
    BY DEF A
  <2>4. QED
    BY <1>2, <2>1, <2>2, <2>3
<1>7. Cardinality(G) = k
  <2> DEFINE H == FirstOf(parts, R, k)
  <2>1. G = H
    BY <1>5 DEF FirstOf
  <2>2. /\ \A p \in parts : <<p, p>> \notin R
        /\ \A p, q \in parts : p # q => <<p, q>> \in R \/ <<q, p>> \in R
        /\ \A p, q, r \in parts : <<p, q>> \in R /\ <<q, r>> \in R => <<p, r>> \in R
    BY <1>3, <1>4
  <2>3. Cardinality(H) = k
    <3> HIDE DEF parts, R
    <3>1. QED
      BY <1>2, <1>6, <2>2, FirstOnes
  <2>4. QED
    BY <2>1, <2>3
<1>8. \A p \in parts : p.idx \in W /\ p = part(p.idx)
  BY DEF PartsOf, PartsAt, PartOf
<1>9. \A i \in W : part(i) \in parts /\ part(i).idx = i
  BY DEF PartsOf, PartsAt, PartOf
<1>10. F = {i \in W : part(i) \in G}
  <2>1. \A i \in F : i \in W /\ part(i) \in G
    BY <1>8 DEF Lucky
  <2>2. \A i \in W : part(i) \in G => i \in F
    BY <1>1, <1>9 DEF Lucky
  <2>3. F \in SUBSET D
    BY DEF Lucky
  <2>4. QED
    BY <2>1, <2>2, <2>3
<1>11. F \in SUBSET W /\ F \in SUBSET D
  BY <1>1, <1>10
<1>12. G = PartsAt(F, mins, rem)
  BY <1>8, <1>9, <1>10 DEF PartsAt
<1>13. Cardinality(F) = k
  <2>1. Cardinality(PartsAt(F, mins, rem)) = Cardinality(F)
    <3> HIDE DEF F
    <3>1. QED
      BY <1>11, PartsAreSharers
  <2>2. QED
    BY <1>7, <1>12, <2>1
<1>14. ASSUME NEW i \in F, ~(rem[i] > 0) PROVE FALSE
  <2> DEFINE p == part(i)
             a == Ahead(parts, p)
             b == PartsAt(A, mins, rem)
  <2>1. p \in parts /\ Cardinality(a) < k /\ p.remainder = rem[i] /\ rem[i] \in Int
    BY <1>10, <1>11, <1>14 DEF PartOf
  <2>2. \A j \in A : part(j) \in parts /\ part(j).remainder = rem[j] /\ rem[j] \in Int /\ rem[j] > 0
    BY <1>1, <1>9 DEF PartOf
  <2>3. \A j \in A : LeftoverFirst(part(j), p)
    BY <1>14, <2>1, <2>2 DEF LeftoverFirst
  <2>4. b \in SUBSET a /\ IsFiniteSet(a)
    <3>1. b \in SUBSET a
      BY <2>2, <2>3 DEF Ahead, PartsAt
    <3>2. a \in SUBSET parts
      BY DEF Ahead
    <3> HIDE DEF a, b, parts
    <3>3. QED
      BY <1>2, <3>1, <3>2, FS_Subset
  <2>5. Cardinality(b) = Cardinality(A)
    <3> HIDE DEF A, W
    <3>1. QED
      BY <1>1, PartsAreSharers DEF W
  <2>6. /\ Cardinality(b) <= Cardinality(a)
        /\ Cardinality(a) \in Nat /\ Cardinality(b) \in Nat
    <3> HIDE DEF a, b
    <3>1. QED
      BY <2>4, FS_Subset, FS_CardinalityType
  <2>7. k <= Cardinality(A)
    OBVIOUS
  <2> HIDE DEF a, b, A
  <2>8. QED
    BY <2>1, <2>5, <2>6, <2>7
<1>15. ASSUME NEW i \in W, NEW j \in F, rem[i] > rem[j] PROVE i \in F
  <2> DEFINE a == Ahead(parts, part(i))
             b == Ahead(parts, part(j))
  <2>1. part(i) \in parts /\ part(j) \in parts /\ Cardinality(b) < k
    BY <1>9, <1>10
  <2>2. LeftoverFirst(part(i), part(j))
    BY <1>15 DEF PartOf, LeftoverFirst
  <2>3. a \in SUBSET b /\ b \in SUBSET parts
    <3> HIDE DEF parts, part
    <3>1. QED
      BY <1>3, <2>1, <2>2 DEF Ahead
  <2>4. Cardinality(a) <= Cardinality(b) /\ Cardinality(a) \in Nat /\ Cardinality(b) \in Nat
    <3> HIDE DEF a, b, parts
    <3>1. IsFiniteSet(b)
      BY <1>2, <2>3, FS_Subset
    <3>2. IsFiniteSet(a) /\ Cardinality(a) <= Cardinality(b)
      BY <2>3, <3>1, FS_Subset
    <3>3. QED
      BY <3>1, <3>2, FS_CardinalityType
  <2>5. Cardinality(a) < k
    <3> HIDE DEF a, b
    <3>1. QED
      BY <2>1, <2>4
  <2>6. QED
    BY <1>10, <2>1, <2>5
<1>16. QED
  BY <1>11, <1>13, <1>14, <1>15

\* What split.go gives everyone before the leftover, and what remains of each.
ShareOf(amount, mins, total) == [i \in DOMAIN mins |-> (amount * mins[i]) \div total]
RestOf(amount, mins, total) == [i \in DOMAIN mins |-> (amount * mins[i]) % total]
Shared(amount, mins, total) ==
  LET Share(i) == (amount * mins[i]) \div total IN MapThenSumSet(Share, DOMAIN mins)

\* So is its sum of an operator.
LEMMA SharesAddUp ==
  ASSUME NEW amount, NEW mins, NEW total, IsFiniteSet(DOMAIN mins)
  PROVE  AddsUp(ShareOf(amount, mins, total), DOMAIN mins, Shared(amount, mins, total))
<1> DEFINE D == DOMAIN mins
           f == ShareOf(amount, mins, total)
           Share(i) == (amount * mins[i]) \div total
           Adds(h) == h = [s \in SUBSET D |->
                             IF s = {} THEN 0 ELSE Share(AnyOf(s)) + h[s \ {AnyOf(s)}]]
<1>1. PICK g : IsSum(g, f, D)
  BY SumExists
<1>2. Shared(amount, mins, total) = (CHOOSE h : Adds(h))[D]
  BY Zenon DEF Shared, MapThenSumSet, MapThenFoldSet, AnyOf
<1>3. ASSUME NEW h PROVE Adds(h) <=> IsSum(h, f, D)
  <2> DEFINE a == [s \in SUBSET D |->
                     IF s = {} THEN 0 ELSE Share(AnyOf(s)) + h[s \ {AnyOf(s)}]]
             b == [s \in SUBSET D |-> IF s = {} THEN 0 ELSE f[AnyOf(s)] + h[s \ {AnyOf(s)}]]
  <2>1. \A s \in SUBSET D : s # {} => AnyOf(s) \in D
    BY DEF AnyOf
  <2>2. \A i \in D : f[i] = Share(i)
    BY DEF ShareOf
  <2>3. a = b
    <3> HIDE DEF f, Share, D
    <3>1. QED
      BY <2>1, <2>2
  <2>4. QED
    BY <2>3, Zenon DEF IsSum
<1> HIDE DEF Adds, f
<1>4. Adds(CHOOSE h : Adds(h))
  <2>1. Adds(g)
    BY <1>1, <1>3
  <2>2. QED
    BY <2>1, Zenon
<1>5. IsSum(CHOOSE h : Adds(h), f, D)
  BY <1>3, <1>4, Zenon
<1>6. QED
  BY <1>2, <1>5, Zenon DEF AddsUp, f

\* The split: everyone's share, and a unit of what is left over for the first ones.
LEMMA SplitIs ==
  ASSUME NEW amount \in Nat \ {0}, NEW mins, IsFiniteSet(DOMAIN mins), SumFunction(mins) # 0
  PROVE  LET D == DOMAIN mins
             total == SumFunction(mins)
             share == ShareOf(amount, mins, total)
             parts == PartsOf(D, mins, RestOf(amount, mins, total))
         IN \E spent : /\ AddsUp(share, D, spent)
                       /\ SplitByMinutes(amount, mins) =
                            [i \in D |-> share[i] +
                               IF i \in Lucky(D, parts, amount - spent) THEN 1 ELSE 0]
<1> DEFINE D == DOMAIN mins
           total == SumFunction(mins)
           Share(i) == (amount * mins[i]) \div total
           share == ShareOf(amount, mins, total)
           rem == RestOf(amount, mins, total)
           parts == PartsOf(D, mins, rem)
           listed == {[idx |-> i, remainder |-> (amount * mins[i]) % total, min |-> mins[i]]
                        : i \in {j \in D : mins[j] > 0}}
           spent == MapThenSumSet(Share, D)
           left == amount - spent
           First(i) == \E p \in listed :
                         /\ p.idx = i
                         /\ Cardinality({q \in listed : LeftoverFirst(q, p)}) < left
           split == [i \in D |-> Share(i) + IF First(i) THEN 1 ELSE 0]
           shares == [i \in D |-> share[i] + IF i \in Lucky(D, parts, left) THEN 1 ELSE 0]
<1>1. AddsUp(share, D, spent)
  <2>1. spent = Shared(amount, mins, total)
    BY DEF Shared
  <2>2. AddsUp(share, D, Shared(amount, mins, total))
    BY SharesAddUp
  <2> HIDE DEF spent
  <2>3. QED
    BY <2>1, <2>2
<1>2. SplitByMinutes(amount, mins) = split
  <2>1. SplitByMinutes(amount, mins) =
          IF amount = 0 \/ total = 0 THEN [i \in D |-> 0] ELSE split
    BY DEF SplitByMinutes
  <2>2. amount # 0 /\ total # 0
    OBVIOUS
  <2> HIDE DEF split, total
  <2>3. QED
    BY <2>1, <2>2
<1>3. listed = parts
  BY DEF PartsOf, PartsAt, PartOf, Sharers, RestOf
<1>4. \A i \in D : Share(i) = share[i]
  BY DEF ShareOf
<1>5. \A i \in D : First(i) <=> i \in Lucky(D, parts, left)
  <2> HIDE DEF listed, parts, left
  <2>1. QED
    BY <1>3 DEF Lucky, Ahead
<1>6. split = shares
  <2> HIDE DEF Share, share, First, parts, left, D
  <2>1. QED
    BY <1>4, <1>5
<1>7. SplitByMinutes(amount, mins) = shares
  BY <1>2, <1>6, Zenon
<1> HIDE DEF split, spent, share, parts
<1>8. QED
  BY <1>1, <1>7, Zenon DEF share, parts

\* A quotient and its remainder.
LEMMA Remains ==
  ASSUME NEW x \in Nat, NEW n \in Nat \ {0}
  PROVE  /\ x \div n \in Int /\ x % n \in Int /\ 0 <= x % n /\ x % n < n
         /\ x = n * (x \div n) + (x % n)
         /\ x = 0 => x % n = 0
<1>1. x \div n \in Int
  OBVIOUS
<1>2. x % n \in Int /\ 0 <= x % n /\ x % n < n
  OBVIOUS
<1>3. x = n * (x \div n) + (x % n)
  OBVIOUS
<1>4. x = 0 => x % n = 0
  OBVIOUS
<1>5. QED
  BY <1>1, <1>2, <1>3, <1>4

\* The quotients and remainders of a split divide the amount.
LEMMA SplitDivides ==
  ASSUME NEW amount \in Nat, NEW mins, \A i \in DOMAIN mins : mins[i] \in Nat,
         NEW total \in Nat \ {0}
  PROVE  /\ IsDivided(DOMAIN mins, amount, total, mins,
                      ShareOf(amount, mins, total), RestOf(amount, mins, total))
         /\ \A i \in DOMAIN mins : mins[i] = 0 => RestOf(amount, mins, total)[i] = 0
<1> SUFFICES ASSUME NEW i \in DOMAIN mins
    PROVE LET s == ShareOf(amount, mins, total)[i]
              r == RestOf(amount, mins, total)[i]
          IN /\ s \in Int /\ r \in Int /\ 0 <= r /\ r < total
             /\ amount * mins[i] = total * s + r
             /\ mins[i] = 0 => r = 0
  BY DEF IsDivided, Divides
<1> DEFINE x == amount * mins[i]
<1>1. x \in Nat /\ (mins[i] = 0 => x = 0)
  OBVIOUS
<1>2. /\ ShareOf(amount, mins, total)[i] = x \div total
      /\ RestOf(amount, mins, total)[i] = x % total
  BY DEF ShareOf, RestOf
<1> HIDE DEF x
<1> DEFINE s == ShareOf(amount, mins, total)[i]
           r == RestOf(amount, mins, total)[i]
<1>3. /\ s \in Int /\ r \in Int /\ 0 <= r /\ r < total
      /\ x = total * s + r
      /\ x = 0 => r = 0
  BY <1>1, <1>2, Remains
<1> HIDE DEF s, r
<1>4. QED
  BY <1>1, <1>3, Zenon DEF x, s, r

\* One person's share against another's: what the split promises of each of them.
IsFair(s, amount, mins, total, i) ==
  /\ s[i] * total < amount * mins[i] + total
  /\ amount * mins[i] < s[i] * total + total
  /\ \A j \in DOMAIN mins : mins[i] > mins[j] => s[i] >= s[j]

\* A share and its unit of the leftover.
LEMMA UnitIsFair ==
  ASSUME NEW total \in Nat \ {0}, NEW x \in Int, NEW share \in Int, NEW rem \in Int,
         0 <= rem, rem < total, x = total * share + rem,
         NEW one \in {0, 1}, one = 1 => rem > 0
  PROVE  (share + one) * total < x + total /\ x < (share + one) * total + total
<1> DEFINE p == total * share
<1>1. (share + one) * total = p + one * total /\ p \in Int
  OBVIOUS
<1> HIDE DEF p
<1>2. one * total = IF one = 0 THEN 0 ELSE total
  OBVIOUS
<1>3. x = p + rem
  BY DEF p
<1>4. QED
  BY <1>1, <1>2, <1>3

\* The longer of two has the larger share, or the same and the larger remainder.
LEMMA LongerHasMore ==
  ASSUME NEW total \in Nat \ {0}, NEW amount \in Nat \ {0},
         NEW m, NEW s, NEW r, Divides(amount, total, m, s, r),
         NEW n, NEW t, NEW q, Divides(amount, total, n, t, q), m > n
  PROVE  s > t \/ (s = t /\ r > q)
<1>0. /\ m \in Nat /\ s \in Int /\ r \in Int /\ 0 <= r /\ r < total
      /\ n \in Nat /\ t \in Int /\ q \in Int /\ 0 <= q /\ q < total
      /\ amount * m = total * s + r /\ amount * n = total * t + q
  BY DEF Divides
<1>1. PICK d \in Nat : m = n + 1 + d
  BY <1>0
<1>2. amount * m = amount * n + amount + amount * d /\ amount * d >= 0
  BY <1>0, <1>1
<1> DEFINE a == total * s
           b == total * t
<1>3. a + r > b + q /\ a \in Int /\ b \in Int
  BY <1>0, <1>2
<1>4. CASE s = t
  <2> HIDE DEF a, b
  <2>1. a = b
    BY <1>4 DEF a, b
  <2>2. QED
    BY <1>0, <1>3, <1>4, <2>1
<1>5. CASE s < t
  <2>1. PICK e \in Nat : t = s + 1 + e
    BY <1>0, <1>5
  <2>2. b = a + total + total * e /\ total * e >= 0
    BY <1>0, <2>1
  <2> HIDE DEF a, b
  <2>3. QED
    BY <1>0, <1>3, <2>2
<1>6. QED
  BY <1>0, <1>4, <1>5

\* A split of something among somebody hands out all of it, and fairly.
LEMMA SplitIsFair ==
  ASSUME NEW amount \in Nat \ {0}, NEW mins, DOMAIN mins \in SUBSET Int,
         IsFiniteSet(DOMAIN mins), \A i \in DOMAIN mins : mins[i] \in Nat,
         SumFunction(mins) # 0
  PROVE  /\ SumFunction(SplitByMinutes(amount, mins)) = amount
         /\ \A i \in DOMAIN mins :
              IsFair(SplitByMinutes(amount, mins), amount, mins, SumFunction(mins), i)
<1> DEFINE D == DOMAIN mins
           total == SumFunction(mins)
           share == ShareOf(amount, mins, total)
           rem == RestOf(amount, mins, total)
           parts == PartsOf(D, mins, rem)
<1>1. total \in Nat \ {0} /\ AddsUp(mins, D, total)
  <2>1. AddsUp(mins, D, total)
    BY SumFunctionIs
  <2>2. total \in Nat
    BY <2>1, NaturalsAddUp
  <2>3. QED
    BY <2>1, <2>2
<1>2. /\ IsDivided(D, amount, total, mins, share, rem)
      /\ \A i \in D : mins[i] = 0 => rem[i] = 0
  BY <1>1, SplitDivides
<1>3. PICK spent :
        /\ AddsUp(share, D, spent)
        /\ SplitByMinutes(amount, mins) =
             [i \in D |-> share[i] + IF i \in Lucky(D, parts, amount - spent) THEN 1 ELSE 0]
  BY SplitIs
<1> DEFINE left == amount - spent
           F == Lucky(D, parts, left)
           one == [i \in D |-> IF i \in F THEN 1 ELSE 0]
           split == [i \in D |-> share[i] + IF i \in F THEN 1 ELSE 0]
<1>4. left \in Nat /\ left <= Cardinality({i \in D : rem[i] > 0})
  <2> HIDE DEF share, rem, total
  <2>1. QED
    BY <1>1, <1>2, <1>3, LeftoverFits
<1>5. \A i \in D : /\ mins[i] \in Nat /\ share[i] \in Int /\ rem[i] \in Int
                   /\ 0 <= rem[i] /\ rem[i] < total
                   /\ amount * mins[i] = total * share[i] + rem[i]
  BY <1>2 DEF IsDivided, Divides
<1>6. /\ F \in SUBSET D /\ Cardinality(F) = left
      /\ \A i \in F : rem[i] > 0
      /\ \A i \in Sharers(D, mins), j \in F : rem[i] > rem[j] => i \in F
  <2>1. \A i \in D : mins[i] \in Nat /\ rem[i] \in Int /\ (rem[i] > 0 => mins[i] > 0)
    BY <1>2, <1>5
  <2> HIDE DEF rem, left
  <2>2. QED
    BY <1>4, <2>1, LeftoverIsShared
<1>7. \A i \in D : /\ one[i] \in {0, 1} /\ one[i] \in Int /\ (one[i] = 1 <=> i \in F)
                   /\ one[i] = (IF i \in F THEN 1 ELSE 0)
                   /\ split[i] = share[i] + one[i]
  OBVIOUS
<1>8. SplitByMinutes(amount, mins) = split /\ DOMAIN split = D
  BY <1>3
<1> HIDE DEF D, total, share, rem, parts, left, F, one, split
<1>9. SumFunction(split) = amount
  <2>1. PICK gs : IsSum(gs, share, D) /\ gs[D] = spent
    BY <1>3, Zenon DEF AddsUp
  <2>2. IsFiniteSet(D)
    BY DEF D
  <2>3. PICK go : IsSum(go, one, D)
    BY <2>2, SumExists
  <2>4. go[D] = left
    BY <1>6, <1>7, <2>2, <2>3, SumCounts
  <2>5. AddsUp(split, D, SumFunction(split))
    BY <1>8, <2>2, SumFunctionIs
  <2>6. PICK g : IsSum(g, split, D) /\ g[D] = SumFunction(split)
    BY <2>5, Zenon DEF AddsUp
  <2>7. \A i \in D : share[i] \in Int /\ one[i] \in Int /\ split[i] = share[i] + one[i]
    BY <1>5, <1>7
  <2>8. g[D] = gs[D] + go[D]
    BY <2>1, <2>2, <2>3, <2>6, <2>7, SumAdds
  <2>9. gs[D] \in Int
    BY <2>1, <2>2, <2>7, SumIsInt
  <2>10. QED
    BY <2>1, <2>4, <2>6, <2>8, <2>9 DEF left
<1>10. ASSUME NEW i \in D PROVE IsFair(split, amount, mins, total, i)
  <2>1. /\ split[i] * total < amount * mins[i] + total
        /\ amount * mins[i] < split[i] * total + total
    <3>1. amount * mins[i] \in Int /\ (one[i] = 1 => rem[i] > 0)
      BY <1>5, <1>6, <1>7
    <3>2. QED
      BY <1>1, <1>5, <1>7, <3>1, UnitIsFair
  <2>2. ASSUME NEW j \in D, mins[i] > mins[j] PROVE split[i] >= split[j]
    <3>1. share[i] > share[j] \/ (share[i] = share[j] /\ rem[i] > rem[j])
      <4>1. /\ Divides(amount, total, mins[i], share[i], rem[i])
            /\ Divides(amount, total, mins[j], share[j], rem[j])
        BY <1>2 DEF IsDivided
      <4>2. QED
        BY <1>1, <2>2, <4>1, LongerHasMore
    <3>2. j \in F /\ rem[i] > rem[j] => i \in F
      BY <1>5, <1>6, <2>2 DEF Sharers
    <3>3. QED
      BY <1>5, <1>7, <3>1, <3>2
  <2>3. QED
    BY <2>1, <2>2 DEF IsFair, D
<1>11. QED
  BY <1>8, <1>9, <1>10 DEF D, total
-----------------------------------------------------------------------------
(* Tips *)

\* What is paid is paid in whole minutes.
LEMMA PaidMinutesAreNatural ==
  ASSUME PayShape, NEW d, NEW w
  PROVE  PaidMinutes(d, w) \in Nat
<1> DEFINE P == Paid(d, w)
           Rounded(i) == (shifts[i].out - shifts[i].in + story.grain \div 2) \div story.grain
           f == [i \in P |-> Rounded(i)]
           Adds(h) == h = [s \in SUBSET P |->
                             IF s = {} THEN 0 ELSE Rounded(AnyOf(s)) + h[s \ {AnyOf(s)}]]
<1>1. IsFiniteSet(P)
  <2>1. P \in SUBSET DOMAIN shifts
    BY DEF Paid, Closed
  <2>2. DOMAIN shifts = 1 .. Len(shifts) /\ Len(shifts) \in Nat
    BY DEF PayShape
  <2>3. IsFiniteSet(1 .. Len(shifts))
    BY <2>2, FS_Interval
  <2> HIDE DEF P
  <2>4. QED
    BY <2>1, <2>2, <2>3, FS_Subset
<1>2. PICK g : IsSum(g, f, P)
  BY <1>1, SumExists
<1>3. PaidMinutes(d, w) = (CHOOSE h : Adds(h))[P]
  BY Zenon DEF PaidMinutes, MapThenSumSet, MapThenFoldSet, AnyOf
<1>4. ASSUME NEW h PROVE Adds(h) <=> IsSum(h, f, P)
  <2> DEFINE a == [s \in SUBSET P |->
                     IF s = {} THEN 0 ELSE Rounded(AnyOf(s)) + h[s \ {AnyOf(s)}]]
             b == [s \in SUBSET P |-> IF s = {} THEN 0 ELSE f[AnyOf(s)] + h[s \ {AnyOf(s)}]]
  <2>1. \A s \in SUBSET P : s # {} => AnyOf(s) \in P
    BY DEF AnyOf
  <2>2. \A i \in P : f[i] = Rounded(i)
    OBVIOUS
  <2>3. a = b
    <3> HIDE DEF f, Rounded, P
    <3>1. QED
      BY <2>1, <2>2
  <2>4. QED
    BY <2>3, Zenon DEF IsSum
<1>5. \A i \in P : f[i] \in Nat
  <2> SUFFICES ASSUME NEW i \in P PROVE Rounded(i) \in Nat
    OBVIOUS
  <2>1. i \in DOMAIN shifts /\ shifts[i].out # Open
    BY DEF Paid, Closed
  <2>2. shifts[i] \in Shift /\ shifts[i].out > shifts[i].in
    BY <2>1 DEF PayShape
  <2>3. shifts[i].in \in Int /\ shifts[i].out \in Int /\ story.grain \in Nat \ {0}
    BY <2>1, <2>2 DEF PayShape, Shift, Story
  <2> DEFINE n == shifts[i].out - shifts[i].in
             k == story.grain
  <2>4. n \in Nat /\ k \in Nat \ {0}
    BY <2>2, <2>3
  <2> HIDE DEF n, k
  <2>5. (n + k \div 2) \div k \in Nat
    <3>1. k \div 2 \in Nat
      BY <2>4
    <3> DEFINE m == n + k \div 2
    <3>2. m \in Nat
      BY <2>4, <3>1
    <3> HIDE DEF m
    <3>3. m \div k \in Nat
      BY <2>4, <3>2
    <3>4. QED
      BY <3>3 DEF m
  <2>6. QED
    BY <2>5 DEF n, k
<1> HIDE DEF Adds, f
<1>6. Adds(CHOOSE h : Adds(h))
  <2>1. Adds(g)
    BY <1>2, <1>4
  <2>2. QED
    BY <2>1, Zenon
<1>7. AddsUp(f, P, PaidMinutes(d, w))
  BY <1>3, <1>4, <1>6, Zenon DEF AddsUp
<1>8. QED
  BY <1>1, <1>5, <1>7, NaturalsAddUp

\* The minutes of a day are naturals, of members of the crew.
LEMMA MinsAre ==
  ASSUME PayShape, NEW d
  PROVE  /\ DOMAIN Mins(d) \in SUBSET Int /\ IsFiniteSet(DOMAIN Mins(d))
         /\ \A w \in DOMAIN Mins(d) : Mins(d)[w] \in Nat
<1>1. DOMAIN Mins(d) = Worked(d) /\ Worked(d) \in SUBSET Crew
  BY DEF Mins, Worked
<1>2. story.crew \in Nat
  BY DEF PayShape, Story
<1>3. Crew \in SUBSET Int /\ IsFiniteSet(Crew)
  BY <1>2, FS_Interval DEF Crew
<1>4. IsFiniteSet(Worked(d))
  BY <1>1, <1>3, FS_Subset
<1>5. \A w \in DOMAIN Mins(d) : Mins(d)[w] \in Nat
  BY PaidMinutesAreNatural DEF Mins
<1>6. QED
  BY <1>1, <1>3, <1>4, <1>5

\* A pool of nothing, or one that nobody worked for, is shared as zeros.
LEMMA SplitOfNothing ==
  ASSUME NEW amount, NEW mins, IsFiniteSet(DOMAIN mins),
         amount = 0 \/ SumFunction(mins) = 0
  PROVE  /\ SumFunction(SplitByMinutes(amount, mins)) = 0
         /\ SplitByMinutes(amount, mins) = [i \in DOMAIN mins |-> 0]
<1> DEFINE z == [i \in DOMAIN mins |-> 0]
<1>1. SplitByMinutes(amount, mins) = z
  BY DEF SplitByMinutes
<1>2. DOMAIN z = DOMAIN mins /\ \A i \in DOMAIN z : z[i] = 0
  OBVIOUS
<1> HIDE DEF z
<1>3. IsFiniteSet(DOMAIN z)
  BY <1>2
<1>4. AddsUp(z, DOMAIN z, SumFunction(z))
  BY <1>3, SumFunctionIs
<1>5. SumFunction(z) = 0
  BY <1>2, <1>3, <1>4, NothingAddsUp
<1>6. QED
  BY <1>1, <1>5 DEF z

\* Every day's tips are in the file to the cent, each share is within a cent of its
\* proportion and a longer day does not get less, for any crew, shifts and pools
\* (split.go, lib/csv.ts).
THEOREM TipsAreSharedToTheCent == PaySpec => []EveryCentIsShared
<1>1. PayInit => PayShape
  BY PayShapeHolds, PayrollAssumption
<1>2. PayShape /\ [PayNext]_payVars => PayShape'
  BY PayShapeHolds, PayrollAssumption
<1>3. PayShape => EveryCentIsShared
  <2> SUFFICES ASSUME PayShape, NEW d \in Days
      PROVE LET total == SumFunction(Mins(d)) IN
            /\ TipColumn(d) = pools[d]
            /\ total > 0 => \A i \in DOMAIN Mins(d) :
                              IsFair(Shares(d), pools[d], Mins(d), total, i)
    BY Zenon DEF EveryCentIsShared, IsFair
  <2> DEFINE mins == Mins(d)
             total == SumFunction(mins)
             amount == pools[d]
             split == SplitByMinutes(amount, mins)
  <2>1. /\ DOMAIN mins \in SUBSET Int /\ IsFiniteSet(DOMAIN mins)
        /\ \A i \in DOMAIN mins : mins[i] \in Nat
    BY MinsAre
  <2>2. amount \in Nat
    BY DEF PayShape
  <2>3. Shares(d) = split
    BY DEF Shares
  <2>4. TipColumn(d) = SumFunction(split) + IF amount # SumFunction(split) THEN amount ELSE 0
    BY <2>3 DEF TipColumn, UnassignedTip
  <2> HIDE DEF mins, amount, split
  <2>5. CASE amount = 0 \/ total = 0
    <3>1. SumFunction(split) = 0 /\ split = [i \in DOMAIN mins |-> 0]
      BY <2>1, <2>5, SplitOfNothing DEF split
    <3>2. TipColumn(d) = amount
      BY <2>2, <2>4, <3>1
    <3>3. ASSUME total > 0, NEW i \in DOMAIN mins PROVE IsFair(split, amount, mins, total, i)
      <4>1. total \in Nat
        <5>1. AddsUp(mins, DOMAIN mins, total)
          BY <2>1, SumFunctionIs
        <5>2. QED
          BY <2>1, <5>1, NaturalsAddUp
      <4>2. amount = 0
        BY <2>5, <3>3, <4>1
      <4>3. \A j \in DOMAIN mins : split[j] = 0
        BY <3>1
      <4> HIDE DEF total
      <4>4. QED
        BY <2>1, <3>3, <4>1, <4>2, <4>3 DEF IsFair
    <3>4. QED
      BY <2>3, <3>2, <3>3 DEF mins, amount
  <2>6. CASE amount # 0 /\ total # 0
    <3>1. /\ SumFunction(split) = amount
          /\ \A i \in DOMAIN mins : IsFair(split, amount, mins, total, i)
      BY <2>1, <2>2, <2>6, SplitIsFair DEF split
    <3>2. TipColumn(d) = amount
      BY <2>2, <2>4, <3>1
    <3>3. QED
      BY <2>3, <3>1, <3>2 DEF mins, amount
  <2>7. QED
    BY <2>5, <2>6
<1>4. QED
  BY <1>1, <1>2, <1>3, PTL DEF PaySpec
-----------------------------------------------------------------------------
(* Lanes *)

\* The bars of a day: none ends before it begins, and no two agree in all that the
\* order goes by.
AreBars(B) ==
  /\ IsFiniteSet(B)
  /\ \A b \in B : /\ b.startMin \in Int /\ b.endMin \in Int /\ b.shift \in Int
                  /\ b.startMin <= b.endMin
  /\ \A b, c \in B :
       b.startMin = c.startMin /\ b.endMin = c.endMin /\ b.shift = c.shift => b = c

\* Before orders them.
LEMMA BarsInOrder ==
  ASSUME NEW B, AreBars(B), NEW b \in B, NEW c \in B, NEW e \in B
  PROVE  /\ b = c \/ Before(b, c) \/ Before(c, b)
         /\ Before(b, c) /\ Before(c, e) => Before(b, e)
         /\ Before(b, c) => b.startMin <= c.startMin
<1> DEFINE bs == b.startMin
           be == b.endMin
           bi == b.shift
           cs == c.startMin
           ce == c.endMin
           ci == c.shift
           es == e.startMin
           ee == e.endMin
           ei == e.shift
<1>1. /\ bs \in Int /\ be \in Int /\ bi \in Int /\ cs \in Int /\ ce \in Int /\ ci \in Int
      /\ es \in Int /\ ee \in Int /\ ei \in Int
      /\ bs = cs /\ be = ce /\ bi = ci => b = c
  BY DEF AreBars
<1>2. /\ Before(b, c) <=> \/ bs < cs
                          \/ bs = cs /\ be < ce
                          \/ bs = cs /\ be = ce /\ bi > ci
      /\ Before(c, b) <=> \/ cs < bs
                          \/ cs = bs /\ ce < be
                          \/ cs = bs /\ ce = be /\ ci > bi
      /\ Before(c, e) <=> \/ cs < es
                          \/ cs = es /\ ce < ee
                          \/ cs = es /\ ce = ee /\ ci > ei
      /\ Before(b, e) <=> \/ bs < es
                          \/ bs = es /\ be < ee
                          \/ bs = es /\ be = ee /\ bi > ei
  BY Zenon DEF Before
<1>3. (bs <= cs) <=> (b.startMin <= c.startMin)
  OBVIOUS
<1> HIDE DEF bs, be, bi, cs, ce, ci, es, ee, ei
<1>4. QED
  BY <1>1, <1>2, <1>3

\* The last of some bars is one of them, and none begins after it.
LEMMA LastIs ==
  ASSUME NEW B, AreBars(B), NEW s \in SUBSET B, s # {}
  PROVE  LastOf(s) \in s /\ \A c \in s : c.startMin <= LastOf(s).startMin
<1> DEFINE IsLast(b, t) == \A c \in t : c = b \/ Before(c, b)
           Bad == {t \in SUBSET B : t # {} /\ ~ \E b \in t : IsLast(b, t)}
<1>1. Bad = {}
  <2> SUFFICES ASSUME Bad # {} PROVE FALSE
    OBVIOUS
  <2>1. PICK t \in Bad : \A x \in t : t \ {x} \notin Bad
    BY Minimal DEF AreBars
  <2>2. PICK x \in t : t \ {x} \notin Bad
    BY <2>1
  <2>3. CASE t \ {x} = {}
    BY <2>2, <2>3
  <2>4. CASE t \ {x} # {}
    <3>1. PICK y \in t \ {x} : IsLast(y, t \ {x})
      BY <2>2, <2>4
    <3>2. x \in B /\ y \in B
      BY <2>2, <3>1
    <3>3. CASE Before(x, y)
      <4>1. IsLast(y, t)
        BY <3>1, <3>3
      <4>2. QED
        BY <3>1, <4>1
    <3>4. CASE Before(y, x)
      <4>1. ASSUME NEW c \in t PROVE c = x \/ Before(c, x)
        <5>1. c = x \/ c = y \/ Before(c, y)
          BY <3>1
        <5>2. c \in B
          OBVIOUS
        <5>3. QED
          BY <3>2, <3>4, <5>1, <5>2, BarsInOrder
      <4>2. QED
        BY <2>2, <4>1
    <3>5. x = y \/ Before(x, y) \/ Before(y, x)
      BY <3>2, BarsInOrder
    <3>6. QED
      BY <3>1, <3>3, <3>4, <3>5
  <2>5. QED
    BY <2>3, <2>4
<1>2. \E b \in s : IsLast(b, s)
  BY <1>1
<1>3. LastOf(s) \in s /\ IsLast(LastOf(s), s)
  BY <1>2 DEF LastOf
<1>4. ASSUME NEW c \in s PROVE c.startMin <= LastOf(s).startMin
  <2>1. c \in B /\ LastOf(s) \in B
    BY <1>3
  <2>2. CASE c = LastOf(s)
    <3>1. LastOf(s).startMin \in Int
      BY <2>1 DEF AreBars
    <3>2. QED
      BY <2>2, <3>1
  <2>3. CASE Before(c, LastOf(s))
    BY <2>1, <2>3, BarsInOrder
  <2>4. QED
    BY <1>3, <2>2, <2>3
<1>5. QED
  BY <1>3, <1>4

\* g is the layout of every part of B, bar by bar.
Unplaced == [ends |-> << >>, group |-> 0, placed |-> {}]
IsLayout(g, B) ==
  g = [s \in SUBSET B |->
         IF s = {} THEN Unplaced ELSE Place(LastOf(s), g[s \ {LastOf(s)}])]
IsLayoutUpTo(g, n, B) ==
  g = [s \in {t \in SUBSET B : Cardinality(t) <= n} |->
         IF s = {} THEN Unplaced ELSE Place(LastOf(s), g[s \ {LastOf(s)}])]

\* There are such, for every n.
LEMMA LayoutUpToExists ==
  ASSUME NEW B, AreBars(B), NEW n \in Nat
  PROVE  \E g : IsLayoutUpTo(g, n, B)
<1> DEFINE D == {k \in Nat : ~ \E g : IsLayoutUpTo(g, k, B)}
           U(k) == {t \in SUBSET B : Cardinality(t) <= k}
<1>1. SUFFICES ASSUME D # {} PROVE FALSE
  OBVIOUS
<1>2. PICK m \in D : \A k \in D : m <= k
  BY <1>1, LeastOf
<1>3. \A s \in SUBSET B : /\ IsFiniteSet(s) /\ Cardinality(s) \in Nat
                          /\ (Cardinality(s) = 0 <=> s = {})
  BY FS_Subset, FS_CardinalityType, FS_EmptySet DEF AreBars
<1>4. m # 0
  <2>1. U(0) = {{}}
    BY <1>3
  <2>2. IsLayoutUpTo([s \in U(0) |-> Unplaced], 0, B)
    BY <2>1 DEF IsLayoutUpTo
  <2>3. QED
    BY <2>2
<1>5. m - 1 \in Nat /\ m - 1 \notin D /\ m \in Nat
  BY <1>2, <1>4
<1>6. PICK g : IsLayoutUpTo(g, m - 1, B)
  BY <1>5
<1> DEFINE Entry(s) == IF s = {} THEN Unplaced ELSE Place(LastOf(s), g[s \ {LastOf(s)}])
           h == [s \in U(m) |-> Entry(s)]
           r == [s \in U(m) |->
                   IF s = {} THEN Unplaced ELSE Place(LastOf(s), h[s \ {LastOf(s)}])]
<1>7. ASSUME NEW s \in U(m), s # {}
      PROVE  s \ {LastOf(s)} \in U(m - 1) /\ s \ {LastOf(s)} \in U(m)
  <2>1. LastOf(s) \in s
    BY <1>7, LastIs
  <2>2. Cardinality(s \ {LastOf(s)}) = Cardinality(s) - 1 /\ Cardinality(s) \in Nat
    BY <1>3, <2>1, FS_RemoveElement
  <2>3. QED
    BY <1>5, <2>2
<1>8. ASSUME NEW s \in U(m - 1) PROVE g[s] = Entry(s)
  BY <1>6 DEF IsLayoutUpTo
<1>9. \A s \in U(m) : h[s] = r[s]
  BY <1>7, <1>8
<1>10. h = r
  <2> HIDE DEF Entry, U
  <2>1. h = [s \in U(m) |-> h[s]] /\ r = [s \in U(m) |-> r[s]]
    OBVIOUS
  <2>2. QED
    BY <1>9, <2>1, Zenon
<1>11. IsLayoutUpTo(h, m, B)
  BY <1>10, Zenon DEF IsLayoutUpTo
<1>12. QED
  BY <1>5, <1>11

\* So there is a layout, and Placed is what it has of all the bars.
LEMMA PlacedIs ==
  ASSUME NEW B, AreBars(B)
  PROVE  \E g : IsLayout(g, B) /\ Placed(B) = g[B]
<1>1. /\ Cardinality(B) \in Nat
      /\ {t \in SUBSET B : Cardinality(t) <= Cardinality(B)} = SUBSET B
  BY FS_CardinalityType, FS_Subset DEF AreBars
<1>2. PICK g : IsLayoutUpTo(g, Cardinality(B), B)
  BY <1>1, LayoutUpToExists
<1>3. IsLayout(g, B)
  BY <1>1, <1>2, Zenon DEF IsLayout, IsLayoutUpTo
<1>4. Placed(B) = (CHOOSE h : IsLayout(h, B))[B]
  BY Zenon DEF Placed, MapThenFoldSet, IsLayout, Unplaced
<1>5. IsLayout(CHOOSE h : IsLayout(h, B), B)
  BY <1>3, Zenon
<1>6. QED
  BY <1>4, <1>5, Zenon

\* What holds of the lanes E and the bars P that are placed when the group is G and the
\* bars s have had their turn.
PlacesOf(P, s) == P \subseteq [bar: s, lane: Nat \ {0}, group: Nat]
EachHasOne(P, s) == /\ \A b \in s : \E p \in P : p.bar = b
                    /\ \A p, q \in P : p.bar = q.bar => p = q
\* The group that is open has bars, and a lane ends with the last of its bars.
LanesEnd(E, G, P) ==
  /\ \A p \in P : p.group <= G
  /\ P # {} => \E q \in P : q.group = G
  /\ \A p \in P : p.group = G => p.lane <= Len(E) /\ p.bar.endMin <= E[p.lane]
  /\ \A l \in 1 .. Len(E) : \E q \in P : q.group = G /\ q.lane = l /\ q.bar.endMin = E[l]
\* A group is over when the next begins, and so is a bar of a lane.
GroupsApart(P) == \A p, q \in P : p.group < q.group => p.bar.endMin <= q.bar.startMin
LanesApart(P) ==
  \A p, q \in P : p # q /\ p.group = q.group /\ p.lane = q.lane =>
    p.bar.endMin <= q.bar.startMin \/ q.bar.endMin <= p.bar.startMin
\* A lane is opened when all lanes before it are taken: by q, for the bar of p.
Opens(q, p, P) ==
  /\ q.group = p.group /\ q.lane = p.lane
  /\ \A l \in 1 .. p.lane - 1 : \E o \in P :
       /\ o.group = p.group /\ o.lane = l
       /\ o.bar.startMin <= q.bar.startMin /\ q.bar.startMin < o.bar.endMin
LanesNeeded(P) == \A p \in P : \E q \in P : Opens(q, p, P)

Laid(E, G, P, s) ==
  /\ E \in Seq(Int) /\ G \in Nat /\ PlacesOf(P, s) /\ EachHasOne(P, s)
  /\ LanesEnd(E, G, P) /\ GroupsApart(P) /\ LanesApart(P) /\ LanesNeeded(P)

\* The three ways in which a bar finds its lane.
PlaceAt(b, l, k) == [bar |-> b, lane |-> l, group |-> k]
Finds(b, E, G, P, after) ==
  \/ /\ \A l \in 1 .. Len(E) : E[l] <= b.startMin
     /\ after = [ends |-> <<b.endMin>>, group |-> G + 1,
                 placed |-> P \cup {PlaceAt(b, 1, G + 1)}]
  \/ /\ \A l \in 1 .. Len(E) : b.startMin < E[l]
     /\ after = [ends |-> Append(E, b.endMin), group |-> G,
                 placed |-> P \cup {PlaceAt(b, Len(E) + 1, G)}]
  \/ \E l \in 1 .. Len(E) :
       /\ E[l] <= b.startMin
       /\ after = [ends |-> [E EXCEPT ![l] = b.endMin], group |-> G,
                   placed |-> P \cup {PlaceAt(b, l, G)}]

LEMMA PlaceIs ==
  ASSUME NEW E \in Seq(Int), NEW G \in Nat, NEW P, NEW b, b.startMin \in Int, b.endMin \in Int
  PROVE  Finds(b, E, G, P, Place(b, [ends |-> E, group |-> G, placed |-> P]))
<1> DEFINE acc == [ends |-> E, group |-> G, placed |-> P]
           New(l, k) == [bar |-> b, lane |-> l, group |-> k]
           free == FreeLanes(E, b)
<1>1. acc.ends = E /\ acc.group = G /\ acc.placed = P
  OBVIOUS
<1>2. DOMAIN E = 1 .. Len(E) /\ Len(E) \in Nat
  OBVIOUS
<1>3. free = {l \in 1 .. Len(E) : E[l] <= b.startMin}
  BY <1>2 DEF FreeLanes
<1>4. FreeLanes(<< >>, b) = {}
  BY DEF FreeLanes
<1> HIDE DEF acc
<1>5. CASE free = DOMAIN E
  <2>1. Place(b, acc) =
          [ends   |-> IF FreeLanes(<< >>, b) = {} THEN Append(<< >>, b.endMin)
                      ELSE [<< >> EXCEPT ![Min(FreeLanes(<< >>, b))] = b.endMin],
           group  |-> G + 1,
           placed |-> P \cup {New(IF FreeLanes(<< >>, b) = {} THEN Len(<< >>) + 1
                                  ELSE Min(FreeLanes(<< >>, b)), G + 1)}]
    BY Zenon, <1>1, <1>5 DEF Place
  <2>2. Place(b, acc) = [ends |-> Append(<< >>, b.endMin), group |-> G + 1,
                         placed |-> P \cup {New(Len(<< >>) + 1, G + 1)}]
    BY Zenon, <1>4, <2>1
  <2>3. Append(<< >>, b.endMin) = <<b.endMin>> /\ Len(<< >>) + 1 = 1
    OBVIOUS
  <2>4. Place(b, acc) = [ends |-> <<b.endMin>>, group |-> G + 1,
                         placed |-> P \cup {New(1, G + 1)}]
    BY Zenon, <2>2, <2>3
  <2>5. \A l \in 1 .. Len(E) : E[l] <= b.startMin
    BY <1>2, <1>3, <1>5
  <2>6. QED
    BY Zenon, <2>4, <2>5 DEF acc, Finds, PlaceAt
<1>6. CASE free # DOMAIN E
  <2>1. Place(b, acc) =
          [ends   |-> IF free = {} THEN Append(E, b.endMin) ELSE [E EXCEPT ![Min(free)] = b.endMin],
           group  |-> G,
           placed |-> P \cup {New(IF free = {} THEN Len(E) + 1 ELSE Min(free), G)}]
    BY Zenon, <1>1, <1>6 DEF Place
  <2>2. CASE free = {}
    <3>1. Place(b, acc) = [ends |-> Append(E, b.endMin), group |-> G,
                           placed |-> P \cup {New(Len(E) + 1, G)}]
      BY Zenon, <2>1, <2>2
    <3>2. \A l \in 1 .. Len(E) : b.startMin < E[l]
      BY <1>3, <2>2
    <3>3. QED
      BY Zenon, <3>1, <3>2 DEF acc, Finds, PlaceAt
  <2>3. CASE free # {}
    <3>1. free \in SUBSET Nat
      BY <1>3
    <3>2. \E m \in free : \A k \in free : m <= k
      BY <2>3, <3>1, LeastOf
    <3>3. Min(free) \in free
      BY <3>2, Zenon DEF Min
    <3>4. Place(b, acc) = [ends |-> [E EXCEPT ![Min(free)] = b.endMin], group |-> G,
                           placed |-> P \cup {New(Min(free), G)}]
      BY Zenon, <2>1, <2>3
    <3>5. Min(free) \in 1 .. Len(E) /\ E[Min(free)] <= b.startMin
      BY <1>3, <3>3
    <3>6. QED
      BY Zenon, <3>4, <3>5 DEF acc, Finds, PlaceAt
  <2>4. QED
    BY <2>2, <2>3
<1>7. QED
  BY <1>5, <1>6

\* The bars s have their times.
Timed(s) ==
  \A b \in s : b.startMin \in Int /\ b.endMin \in Int /\ b.startMin <= b.endMin

\* One place more: what is to be shown of it alone.
LEMMA OneMore ==
  ASSUME NEW E, NEW G, NEW P, NEW s, Laid(E, G, P, s), NEW F, F \in Seq(Int),
         NEW n, n.bar \notin s, n \in [bar: s \cup {n.bar}, lane: Nat \ {0}, group: Nat],
         n.group \in {G, G + 1}, LanesEnd(F, n.group, P \cup {n}),
         \A p \in P : /\ p.group < n.group => p.bar.endMin <= n.bar.startMin
                      /\ p.group = n.group /\ p.lane = n.lane => p.bar.endMin <= n.bar.startMin,
         \E q \in P \cup {n} : Opens(q, n, P \cup {n})
  PROVE  Laid(F, n.group, P \cup {n}, s \cup {n.bar})
<1> DEFINE Q == P \cup {n}
<1>1. /\ G \in Nat /\ PlacesOf(P, s) /\ EachHasOne(P, s) /\ LanesEnd(E, G, P)
      /\ GroupsApart(P) /\ LanesApart(P) /\ LanesNeeded(P) /\ n.group \in Nat
  BY DEF Laid
<1>2. PlacesOf(Q, s \cup {n.bar})
  BY <1>1 DEF PlacesOf
<1>3. \A p \in P : p.bar \in s /\ p.group \in Nat /\ p.group <= G
  BY <1>1 DEF PlacesOf, LanesEnd
<1>4. EachHasOne(Q, s \cup {n.bar})
  BY <1>1, <1>3 DEF EachHasOne
<1>5. GroupsApart(Q)
  <2> SUFFICES ASSUME NEW p \in Q, NEW q \in Q, p.group < q.group
               PROVE  p.bar.endMin <= q.bar.startMin
    BY DEF GroupsApart
  <2>1. CASE p \in P /\ q \in P
    BY <1>1, <2>1 DEF GroupsApart
  <2>2. CASE p \in P /\ q = n
    BY <2>2
  <2>3. CASE p = n
    BY <1>1, <1>3, <2>3
  <2>4. QED
    BY <2>1, <2>2, <2>3
<1>6. LanesApart(Q)
  <2> SUFFICES ASSUME NEW p \in Q, NEW q \in Q, p # q, p.group = q.group, p.lane = q.lane
               PROVE  p.bar.endMin <= q.bar.startMin \/ q.bar.endMin <= p.bar.startMin
    BY Zenon DEF LanesApart
  <2>1. CASE p \in P /\ q \in P
    BY <1>1, <2>1 DEF LanesApart
  <2>2. CASE p = n \/ q = n
    BY <2>2
  <2>3. QED
    BY <2>1, <2>2
<1>7. LanesNeeded(Q)
  <2>1. ASSUME NEW p \in P PROVE \E q \in Q : Opens(q, p, Q)
    <3>1. PICK q \in P : Opens(q, p, P)
      BY <1>1 DEF LanesNeeded
    <3>2. Opens(q, p, Q)
      BY Zenon, <3>1 DEF Opens
    <3>3. QED
      BY <3>2
  <2>2. QED
    BY <2>1 DEF LanesNeeded
<1>8. QED
  BY <1>1, <1>2, <1>4, <1>5, <1>6, <1>7 DEF Laid

\* A bar that none is running beside: a group of its own.
LEMMA NewGroup ==
  ASSUME NEW E, NEW G, NEW P, NEW s, Laid(E, G, P, s), NEW n, n.bar \notin s,
         n \in [bar: s \cup {n.bar}, lane: Nat \ {0}, group: Nat], Timed(s \cup {n.bar}),
         \A c \in s : c.startMin <= n.bar.startMin,
         \A l \in 1 .. Len(E) : E[l] <= n.bar.startMin, n.lane = 1, n.group = G + 1
  PROVE  Laid(<<n.bar.endMin>>, G + 1, P \cup {n}, s \cup {n.bar})
<1> DEFINE F == <<n.bar.endMin>>
<1>1. /\ E \in Seq(Int) /\ G \in Nat /\ PlacesOf(P, s) /\ LanesEnd(E, G, P) /\ GroupsApart(P)
  BY DEF Laid
<1>2. n.bar.startMin \in Int /\ n.bar.endMin \in Int
  BY DEF Timed
<1>3. \A p \in P : /\ p.bar \in s /\ p.group \in Nat /\ p.lane \in Nat \ {0}
                   /\ p.bar.startMin \in Int /\ p.bar.endMin \in Int
                   /\ p.bar.startMin <= n.bar.startMin
  BY <1>1 DEF PlacesOf, Timed
<1>4. F \in Seq(Int) /\ Len(F) = 1 /\ F[1] = n.bar.endMin
  BY <1>2
<1>5. LanesEnd(F, n.group, P \cup {n})
  <2>1. \A p \in P : p.group <= G
    BY <1>1 DEF LanesEnd
  <2> HIDE DEF F
  <2>2. \A p \in P \cup {n} : p.group <= n.group /\ (p.group = n.group => p = n)
    BY <1>1, <1>3, <2>1
  <2>3. QED
    BY <1>2, <1>4, <2>2 DEF LanesEnd
<1>6. ASSUME NEW p \in P PROVE p.bar.endMin <= n.bar.startMin
  <2>1. CASE p.group = G
    <3>1. p.lane \in 1 .. Len(E) /\ p.bar.endMin <= E[p.lane]
      BY <1>1, <1>3, <2>1 DEF LanesEnd
    <3>2. E[p.lane] \in Int /\ E[p.lane] <= n.bar.startMin
      BY <1>1, <3>1
    <3>3. QED
      BY <1>2, <1>3, <3>1, <3>2
  <2>2. CASE p.group # G
    <3>1. p.group < G
      BY <1>1, <1>3, <2>2 DEF LanesEnd
    <3>2. PICK q \in P : q.group = G
      BY <1>1 DEF LanesEnd
    <3>3. p.bar.endMin <= q.bar.startMin
      BY <1>1, <3>1, <3>2 DEF GroupsApart
    <3>4. QED
      BY <1>2, <1>3, <3>3
  <2>3. QED
    BY <2>1, <2>2
<1>7. Opens(n, n, P \cup {n})
  BY DEF Opens
<1> HIDE DEF F
<1>8. Laid(F, n.group, P \cup {n}, s \cup {n.bar})
  BY <1>1, <1>4, <1>5, <1>6, <1>7, OneMore
<1>9. QED
  BY <1>8 DEF F

\* The bars of the groups before are over when a bar of the group begins.
LEMMA GroupsBefore ==
  ASSUME NEW E, NEW G, NEW P, NEW s, Laid(E, G, P, s), NEW b, Timed(s \cup {b}),
         \A c \in s : c.startMin <= b.startMin
  PROVE  \A p \in P : p.group < G => p.bar.endMin <= b.startMin
<1>1. G \in Nat /\ PlacesOf(P, s) /\ LanesEnd(E, G, P) /\ GroupsApart(P)
  BY DEF Laid
<1>2. \A p \in P : /\ p.bar \in s /\ p.group \in Nat
                   /\ p.bar.startMin \in Int /\ p.bar.endMin \in Int
                   /\ p.bar.startMin <= b.startMin
  BY <1>1 DEF PlacesOf, Timed
<1>3. SUFFICES ASSUME NEW p \in P, p.group < G PROVE p.bar.endMin <= b.startMin
  OBVIOUS
<1>4. PICK q \in P : q.group = G
  BY <1>1 DEF LanesEnd
<1>5. p.bar.endMin <= q.bar.startMin
  BY <1>1, <1>3, <1>4 DEF GroupsApart
<1>6. b.startMin \in Int
  BY DEF Timed
<1>7. QED
  BY <1>2, <1>5, <1>6

\* A bar that every lane is taken when it begins: a lane of its own.
LEMMA NewLane ==
  ASSUME NEW E, NEW G, NEW P, NEW s, Laid(E, G, P, s), NEW n, n.bar \notin s,
         n \in [bar: s \cup {n.bar}, lane: Nat \ {0}, group: Nat], Timed(s \cup {n.bar}),
         \A c \in s : c.startMin <= n.bar.startMin,
         \A l \in 1 .. Len(E) : n.bar.startMin < E[l], n.lane = Len(E) + 1, n.group = G
  PROVE  Laid(Append(E, n.bar.endMin), G, P \cup {n}, s \cup {n.bar})
<1> DEFINE F == Append(E, n.bar.endMin)
<1>1. E \in Seq(Int) /\ Len(E) \in Nat /\ G \in Nat /\ PlacesOf(P, s) /\ LanesEnd(E, G, P)
  BY DEF Laid
<1>2. n.bar.startMin \in Int /\ n.bar.endMin \in Int
  BY DEF Timed
<1>3. \A p \in P : /\ p.bar \in s /\ p.group \in Nat /\ p.lane \in Nat \ {0}
                   /\ p.bar.startMin \in Int /\ p.bar.endMin \in Int
                   /\ p.bar.startMin <= n.bar.startMin
  BY <1>1 DEF PlacesOf, Timed
<1>4. /\ F \in Seq(Int) /\ Len(F) = Len(E) + 1 /\ F[Len(E) + 1] = n.bar.endMin
      /\ \A l \in 1 .. Len(E) : F[l] = E[l]
  BY <1>1, <1>2
<1> HIDE DEF F
<1>5. LanesEnd(F, n.group, P \cup {n})
  <2>1. \A p \in P \cup {n} : p.group <= n.group
    BY <1>1 DEF LanesEnd
  <2>2. ASSUME NEW p \in P, p.group = G PROVE p.lane <= Len(F) /\ p.bar.endMin <= F[p.lane]
    <3>1. p.lane \in 1 .. Len(E) /\ p.bar.endMin <= E[p.lane]
      BY <1>1, <1>3, <2>2 DEF LanesEnd
    <3>2. QED
      BY <1>1, <1>4, <3>1
  <2>3. ASSUME NEW l \in 1 .. Len(E)
        PROVE  \E q \in P : q.group = G /\ q.lane = l /\ q.bar.endMin = F[l]
    <3>1. F[l] = E[l]
      BY <1>4
    <3>2. QED
      BY Zenon, <1>1, <3>1 DEF LanesEnd
  <2>4. n.lane <= Len(F) /\ n.bar.endMin <= F[n.lane] /\ n.bar.endMin = F[n.lane]
    BY <1>1, <1>2, <1>4
  <2>5. 1 .. Len(F) = (1 .. Len(E)) \cup {n.lane}
    BY <1>1, <1>4
  <2>6. QED
    BY <2>1, <2>2, <2>3, <2>4, <2>5 DEF LanesEnd
<1>6. \A p \in P : p.group < n.group => p.bar.endMin <= n.bar.startMin
  BY Zenon, GroupsBefore
<1>7. \A p \in P : p.group = n.group => p.lane # n.lane
  BY <1>1, <1>3 DEF LanesEnd
<1>8. Opens(n, n, P \cup {n})
  <2>1. ASSUME NEW l \in 1 .. n.lane - 1
        PROVE  \E o \in P : /\ o.group = n.group /\ o.lane = l
                            /\ o.bar.startMin <= n.bar.startMin
                            /\ n.bar.startMin < o.bar.endMin
    <3>1. l \in 1 .. Len(E)
      BY <1>1
    <3>2. PICK o \in P : o.group = G /\ o.lane = l /\ o.bar.endMin = E[l]
      BY <1>1, <3>1 DEF LanesEnd
    <3>3. QED
      BY <1>3, <3>1, <3>2
  <2>2. QED
    BY <2>1 DEF Opens
<1>9. Laid(F, n.group, P \cup {n}, s \cup {n.bar})
  BY <1>1, <1>4, <1>5, <1>6, <1>7, <1>8, OneMore
<1>10. QED
  BY <1>9 DEF F

\* A bar that finds a lane free.
LEMMA SameLane ==
  ASSUME NEW E, NEW G, NEW P, NEW s, Laid(E, G, P, s), NEW n, n.bar \notin s,
         n \in [bar: s \cup {n.bar}, lane: Nat \ {0}, group: Nat], Timed(s \cup {n.bar}),
         \A c \in s : c.startMin <= n.bar.startMin,
         n.lane \in 1 .. Len(E), E[n.lane] <= n.bar.startMin, n.group = G
  PROVE  Laid([E EXCEPT ![n.lane] = n.bar.endMin], G, P \cup {n}, s \cup {n.bar})
<1> DEFINE F == [E EXCEPT ![n.lane] = n.bar.endMin]
<1>1. /\ E \in Seq(Int) /\ Len(E) \in Nat /\ G \in Nat /\ PlacesOf(P, s) /\ LanesEnd(E, G, P)
      /\ LanesNeeded(P)
  BY DEF Laid
<1>2. n.bar.startMin \in Int /\ n.bar.endMin \in Int /\ n.bar.startMin <= n.bar.endMin
  BY DEF Timed
<1>3. \A p \in P : /\ p.bar \in s /\ p.group \in Nat /\ p.lane \in Nat \ {0}
                   /\ p.bar.startMin \in Int /\ p.bar.endMin \in Int
  BY <1>1 DEF PlacesOf, Timed
<1>4. /\ F \in Seq(Int) /\ Len(F) = Len(E) /\ F[n.lane] = n.bar.endMin
      /\ \A l \in 1 .. Len(E) : l # n.lane => F[l] = E[l]
  BY <1>1, <1>2
<1> HIDE DEF F
<1>5. ASSUME NEW p \in P, p.group = G, p.lane = n.lane PROVE p.bar.endMin <= n.bar.startMin
  <2>1. p.bar.endMin <= E[p.lane] /\ E[p.lane] \in Int
    BY <1>1, <1>5 DEF LanesEnd
  <2>2. QED
    BY <1>2, <1>3, <1>5, <2>1
<1>6. LanesEnd(F, n.group, P \cup {n})
  <2>1. \A p \in P \cup {n} : p.group <= n.group
    BY <1>1 DEF LanesEnd
  <2>2. ASSUME NEW p \in P, p.group = G PROVE p.lane <= Len(F) /\ p.bar.endMin <= F[p.lane]
    <3>1. p.lane \in 1 .. Len(E) /\ p.bar.endMin <= E[p.lane]
      BY <1>1, <1>3, <2>2 DEF LanesEnd
    <3>2. CASE p.lane = n.lane
      BY <1>2, <1>3, <1>4, <1>5, <2>2, <3>1, <3>2
    <3>3. CASE p.lane # n.lane
      BY <1>1, <1>4, <3>1, <3>3
    <3>4. QED
      BY <3>2, <3>3
  <2>3. ASSUME NEW l \in 1 .. Len(E), l # n.lane
        PROVE  \E q \in P : q.group = G /\ q.lane = l /\ q.bar.endMin = F[l]
    <3>1. F[l] = E[l]
      BY <1>4, <2>3
    <3>2. QED
      BY Zenon, <1>1, <3>1 DEF LanesEnd
  <2>4. n.lane <= Len(F) /\ n.bar.endMin <= F[n.lane] /\ n.bar.endMin = F[n.lane]
    BY <1>1, <1>2, <1>4
  <2>5. QED
    BY <1>4, <2>1, <2>2, <2>3, <2>4 DEF LanesEnd
<1>7. \A p \in P : p.group < n.group => p.bar.endMin <= n.bar.startMin
  BY Zenon, GroupsBefore
<1>8. \E q \in P \cup {n} : Opens(q, n, P \cup {n})
  <2>1. PICK o \in P : o.group = G /\ o.lane = n.lane
    BY <1>1 DEF LanesEnd
  <2>2. PICK q \in P : Opens(q, o, P)
    BY <1>1 DEF LanesNeeded
  <2>3. o.group = n.group /\ o.lane = n.lane
    BY <2>1
  <2>4. Opens(q, n, P \cup {n})
    BY Zenon, <2>2, <2>3 DEF Opens
  <2>5. QED
    BY <2>4
<1>9. Laid(F, n.group, P \cup {n}, s \cup {n.bar})
  BY <1>1, <1>4, <1>5, <1>6, <1>7, <1>8, OneMore
<1>10. QED
  BY <1>9 DEF F

\* What a layout has of some of the bars.
IsLaid(r, s) ==
  \E E \in Seq(Int), G \in Nat : \E P :
    r = [ends |-> E, group |-> G, placed |-> P] /\ Laid(E, G, P, s)

LEMMA NothingIsLaid == IsLaid(Unplaced, {})
<1>1. << >> \in Seq(Int) /\ Len(<< >>) = 0
  OBVIOUS
<1>2. Laid(<< >>, 0, {}, {})
  BY <1>1 DEF Laid, PlacesOf, EachHasOne, LanesEnd, GroupsApart, LanesApart, LanesNeeded
<1>3. QED
  BY Zenon, <1>1, <1>2 DEF IsLaid, Unplaced

LEMMA OneMoreIsLaid ==
  ASSUME NEW s, NEW b, b \notin s, Timed(s \cup {b}), \A c \in s : c.startMin <= b.startMin,
         NEW r, IsLaid(r, s)
  PROVE  IsLaid(Place(b, r), s \cup {b})
<1>0. PICK E \in Seq(Int), G \in Nat : \E P :
        r = [ends |-> E, group |-> G, placed |-> P] /\ Laid(E, G, P, s)
  BY Zenon DEF IsLaid
<1>1. PICK P : r = [ends |-> E, group |-> G, placed |-> P] /\ Laid(E, G, P, s)
  BY <1>0, Zenon
<1> DEFINE after == Place(b, r)
<1>2. b.startMin \in Int /\ b.endMin \in Int
  BY DEF Timed
<1>3. Finds(b, E, G, P, after)
  BY Zenon, <1>1, <1>2, PlaceIs
<1>4. Len(E) \in Nat /\ G + 1 \in Nat /\ Len(E) + 1 \in Nat \ {0} /\ 1 \in Nat \ {0}
  OBVIOUS
<1>5. ASSUME NEW l \in Nat \ {0}, NEW k \in Nat, NEW n, n = PlaceAt(b, l, k)
      PROVE  /\ n.bar = b /\ n.lane = l /\ n.group = k
             /\ n \in [bar: s \cup {n.bar}, lane: Nat \ {0}, group: Nat]
  BY <1>5 DEF PlaceAt
<1> HIDE DEF after
<1>6. CASE /\ \A l \in 1 .. Len(E) : E[l] <= b.startMin
           /\ after = [ends |-> <<b.endMin>>, group |-> G + 1,
                       placed |-> P \cup {PlaceAt(b, 1, G + 1)}]
  <2>1. PICK n : n = PlaceAt(b, 1, G + 1)
    OBVIOUS
  <2>2. /\ n.bar = b /\ n.lane = 1 /\ n.group = G + 1
        /\ n \in [bar: s \cup {n.bar}, lane: Nat \ {0}, group: Nat]
    BY <1>4, <1>5, <2>1
  <2>3. Laid(<<n.bar.endMin>>, G + 1, P \cup {n}, s \cup {n.bar})
    BY <1>1, <1>6, <2>2, NewGroup
  <2>4. <<b.endMin>> \in Seq(Int)
    BY <1>2
  <2>5. QED
    BY Zenon, <1>4, <1>6, <2>1, <2>2, <2>3, <2>4 DEF IsLaid, after
<1>7. CASE /\ \A l \in 1 .. Len(E) : b.startMin < E[l]
           /\ after = [ends |-> Append(E, b.endMin), group |-> G,
                       placed |-> P \cup {PlaceAt(b, Len(E) + 1, G)}]
  <2>1. PICK n : n = PlaceAt(b, Len(E) + 1, G)
    OBVIOUS
  <2>2. /\ n.bar = b /\ n.lane = Len(E) + 1 /\ n.group = G
        /\ n \in [bar: s \cup {n.bar}, lane: Nat \ {0}, group: Nat]
    BY <1>4, <1>5, <2>1
  <2>3. Laid(Append(E, n.bar.endMin), G, P \cup {n}, s \cup {n.bar})
    BY <1>1, <1>7, <2>2, NewLane
  <2>4. Append(E, b.endMin) \in Seq(Int)
    BY <1>2
  <2>5. QED
    BY Zenon, <1>4, <1>7, <2>1, <2>2, <2>3, <2>4 DEF IsLaid, after
<1>8. ASSUME NEW l \in 1 .. Len(E), E[l] <= b.startMin,
             after = [ends |-> [E EXCEPT ![l] = b.endMin], group |-> G,
                      placed |-> P \cup {PlaceAt(b, l, G)}]
      PROVE  IsLaid(after, s \cup {b})
  <2>1. PICK n : n = PlaceAt(b, l, G)
    OBVIOUS
  <2>2. /\ n.bar = b /\ n.lane = l /\ n.group = G
        /\ n \in [bar: s \cup {n.bar}, lane: Nat \ {0}, group: Nat]
    <3>1. l \in Nat \ {0}
      BY <1>4
    <3>2. QED
      BY <1>5, <2>1, <3>1
  <2>3. Laid([E EXCEPT ![n.lane] = n.bar.endMin], G, P \cup {n}, s \cup {n.bar})
    BY <1>1, <1>8, <2>2, SameLane
  <2>4. [E EXCEPT ![l] = b.endMin] \in Seq(Int)
    BY <1>2
  <2>5. QED
    BY Zenon, <1>4, <1>8, <2>1, <2>2, <2>3, <2>4 DEF IsLaid, after
<1>9. QED
  BY Zenon, <1>3, <1>6, <1>7, <1>8 DEF after, Finds

\* Every layout is laid, at every bar.
LEMMA LayoutIsLaid ==
  ASSUME NEW B, AreBars(B), NEW g, IsLayout(g, B), NEW s \in SUBSET B
  PROVE  IsLaid(g[s], s)
<1> DEFINE Bad == {t \in SUBSET B : ~IsLaid(g[t], t)}
<1>1. ASSUME NEW t \in SUBSET B
      PROVE  g[t] = IF t = {} THEN Unplaced ELSE Place(LastOf(t), g[t \ {LastOf(t)}])
  BY Zenon DEF IsLayout
<1>2. Bad = {}
  <2> SUFFICES ASSUME Bad # {} PROVE FALSE
    OBVIOUS
  <2>1. PICK t \in Bad : \A x \in t : t \ {x} \notin Bad
    BY Minimal DEF AreBars
  <2>2. t \in SUBSET B /\ ~IsLaid(g[t], t)
    OBVIOUS
  <2>3. CASE t = {}
    BY Zenon, <1>1, <2>2, <2>3, NothingIsLaid
  <2>4. CASE t # {}
    <3> DEFINE b == LastOf(t)
               u == t \ {b}
    <3>1. b \in t /\ \A c \in t : c.startMin <= b.startMin
      BY <2>2, <2>4, LastIs
    <3>2. u \in SUBSET B /\ b \notin u /\ u \cup {b} = t /\ \A c \in u : c \in t
      BY <2>2, <3>1
    <3>3. IsLaid(g[u], u)
      BY <2>1, <3>1, <3>2
    <3>4. g[t] = Place(b, g[u])
      BY <1>1, <2>2, <2>4
    <3>5. Timed(t)
      BY <2>2 DEF Timed, AreBars
    <3> HIDE DEF b, u
    <3>6. IsLaid(Place(b, g[u]), u \cup {b})
      BY <3>1, <3>2, <3>3, <3>5, OneMoreIsLaid
    <3>7. QED
      BY <2>2, <3>2, <3>4, <3>6
  <2>5. QED
    BY <2>3, <2>4
<1>3. QED
  BY <1>2

\* So the bars of a day are, when all of them have been placed.
LEMMA PlacedAreLaid ==
  ASSUME NEW B, AreBars(B)
  PROVE  \E E \in Seq(Int), G \in Nat : Laid(E, G, Placed(B).placed, B)
<1>1. PICK g : IsLayout(g, B) /\ Placed(B) = g[B]
  BY PlacedIs
<1>2. IsLaid(Placed(B), B)
  BY <1>1, LayoutIsLaid
<1>3. PICK E \in Seq(Int), G \in Nat : \E P :
        Placed(B) = [ends |-> E, group |-> G, placed |-> P] /\ Laid(E, G, P, B)
  BY Zenon, <1>2 DEF IsLaid
<1>4. PICK P : Placed(B) = [ends |-> E, group |-> G, placed |-> P] /\ Laid(E, G, P, B)
  BY Zenon, <1>3
<1>5. Placed(B).placed = P
  BY <1>4
<1>6. QED
  BY Zenon, <1>4, <1>5

\* The lanes of a group are bounded, and so one of them is the last.
LEMMA LanesAreBounded ==
  ASSUME NEW E, NEW G, NEW P, NEW s, Laid(E, G, P, s), IsFiniteSet(s)
  PROVE  \E k \in Nat : \A p \in P : p.lane <= k
<1> DEFINE Bounded(t) == \E k \in Nat : \A p \in P : p.bar \in t => p.lane <= k
           Bad == {t \in SUBSET s : ~Bounded(t)}
<1>1. \A p \in P : p.bar \in s /\ p.lane \in Nat
  BY DEF Laid, PlacesOf
<1>2. Bad = {}
  <2> SUFFICES ASSUME Bad # {} PROVE FALSE
    OBVIOUS
  <2>1. PICK t \in Bad : \A x \in t : t \ {x} \notin Bad
    BY Minimal
  <2>2. CASE t = {}
    <3>1. Bounded(t)
      BY <2>2
    <3>2. QED
      BY <3>1
  <2>3. CASE t # {}
    <3>1. PICK x \in t : t \ {x} \in SUBSET s /\ t \ {x} \notin Bad
      BY <2>1, <2>3
    <3>2. PICK k \in Nat : \A p \in P : p.bar \in t \ {x} => p.lane <= k
      BY <3>1
    <3>3. PICK n \in P : n.bar = x
      BY <3>1 DEF Laid, EachHasOne
    <3>4. \A p \in P : p.bar = x => p = n
      BY <3>3 DEF Laid, EachHasOne
    <3>5. k + n.lane \in Nat /\ \A p \in P : p.bar \in t => p.lane <= k + n.lane
      BY <1>1, <3>2, <3>3, <3>4
    <3>6. Bounded(t)
      BY <3>5
    <3>7. QED
      BY <3>6
  <2>4. QED
    BY <2>2, <2>3
<1>3. Bounded(s)
  BY <1>2
<1>4. QED
  BY <1>1, <1>3

LEMMA GreatestOf ==
  ASSUME NEW S \in SUBSET Nat, S # {}, NEW k \in Nat, \A x \in S : x <= k
  PROVE  \E m \in S : \A x \in S : m >= x
<1> DEFINE U == {j \in Nat : \A x \in S : x <= j}
<1>1. PICK m \in U : \A j \in U : m <= j
  <2>1. U \in SUBSET Nat /\ U # {}
    OBVIOUS
  <2> HIDE DEF U
  <2>2. QED
    BY <2>1, LeastOf
<1>2. m \in S
  <2> SUFFICES ASSUME m \notin S PROVE FALSE
    OBVIOUS
  <2>1. PICK x \in S : TRUE
    OBVIOUS
  <2>2. \A y \in S : y \in Nat /\ y <= m /\ y # m
    OBVIOUS
  <2>3. m - 1 \in Nat /\ \A y \in S : y <= m - 1
    BY <2>1, <2>2
  <2>4. m - 1 \in U
    BY <2>3
  <2>5. QED
    BY <1>1, <2>4
<1>3. QED
  BY <1>2

\* Those beside q when it begins, itself among them.
Beside(q, P) ==
  {o \in P : /\ o.group = q.group
             /\ \/ o = q
                \/ /\ o.bar.startMin <= q.bar.startMin
                   /\ q.bar.startMin < o.bar.endMin}

\* There are as many lanes as there are bars at the beginning of one of them.
LEMMA LanesAreFilled ==
  ASSUME NEW E, NEW G, NEW P, NEW s, Laid(E, G, P, s), IsFiniteSet(s), Timed(s), NEW p \in P
  PROVE  \E q \in P : q.group = p.group /\ LaneCount(p, P) = Cardinality(Beside(q, P))
<1> DEFINE Same == {o \in P : o.group = p.group}
           Lanes == {o.lane : o \in Same}
           Covers2(o, x) == o.bar.startMin <= x /\ x < o.bar.endMin
<1>1. \A o \in P : /\ o.bar \in s /\ o.lane \in Nat \ {0} /\ o.group \in Nat
                   /\ o.bar.startMin \in Int /\ o.bar.endMin \in Int
                   /\ o.bar.startMin <= o.bar.endMin
  BY DEF Laid, PlacesOf, Timed
<1>2. PICK n \in P : n.group = p.group /\ n.lane = LaneCount(p, P)
                     /\ \A o \in P : o.group = p.group => o.lane <= n.lane
  <2>1. PICK k \in Nat : \A o \in P : o.lane <= k
    BY LanesAreBounded
  <2>2. Lanes \in SUBSET Nat /\ Lanes # {} /\ \A x \in Lanes : x <= k
    BY <1>1, <2>1
  <2>3. \E m \in Lanes : \A x \in Lanes : m >= x
    <3> HIDE DEF Lanes
    <3> QED
      BY <2>2, GreatestOf
  <2>4. LaneCount(p, P) = Max(Lanes)
    BY Zenon DEF LaneCount
  <2>5. Max(Lanes) \in Lanes /\ \A x \in Lanes : Max(Lanes) >= x
    <3> HIDE DEF Lanes
    <3> QED
      BY Zenon, <2>3 DEF Max
  <2>6. PICK n \in Same : n.lane = Max(Lanes)
    BY <2>5
  <2>7. \A o \in P : o.group = p.group => o.lane \in Lanes
    OBVIOUS
  <2>8. \A o \in P : o.group = p.group => o.lane <= n.lane
    <3> HIDE DEF Lanes
    <3> QED
      BY <1>1, <2>5, <2>6, <2>7
  <2>9. QED
    BY <2>4, <2>6, <2>8
<1>3. PICK z \in P : Opens(z, n, P)
  BY <1>2 DEF Laid, LanesNeeded
<1>4. z.group = p.group /\ z.lane = n.lane
  BY <1>2, <1>3 DEF Opens
<1>5. ASSUME NEW a \in P, NEW c \in P, NEW x \in Int, Covers2(a, x), Covers2(c, x),
             a.group = c.group, a.lane = c.lane
      PROVE  a = c
  <2> SUFFICES ASSUME a # c PROVE FALSE
    OBVIOUS
  <2>1. a.bar.endMin <= c.bar.startMin \/ c.bar.endMin <= a.bar.startMin
    BY <1>5 DEF Laid, LanesApart
  <2>2. QED
    BY <1>1, <1>5, <2>1
\* One on the last lane that nothing else there is beside.
<1>6. PICK q \in P :
        /\ q.group = p.group /\ q.lane = n.lane /\ q.bar.startMin = z.bar.startMin
        /\ \A o \in P :
             o.group = p.group /\ o.lane = n.lane /\ Covers2(o, q.bar.startMin) => o = q
  <2>1. CASE \E o \in P : /\ o.group = p.group /\ o.lane = n.lane
                          /\ Covers2(o, z.bar.startMin)
    <3>1. PICK q \in P : /\ q.group = p.group /\ q.lane = n.lane
                         /\ Covers2(q, z.bar.startMin)
      BY <2>1
    <3>2. q.bar.startMin = z.bar.startMin
      <4>1. CASE q = z
        BY <4>1
      <4>2. CASE q # z
        <5>1. q.bar.endMin <= z.bar.startMin \/ z.bar.endMin <= q.bar.startMin
          BY <1>4, <3>1, <4>2 DEF Laid, LanesApart
        <5>2. QED
          BY <1>1, <3>1, <5>1
      <4>3. QED
        BY <4>1, <4>2
    <3>3. \A o \in P :
            o.group = p.group /\ o.lane = n.lane /\ Covers2(o, q.bar.startMin) => o = q
      <4>1. q.bar.startMin \in Int /\ Covers2(q, q.bar.startMin)
        BY <1>1, <3>1, <3>2
      <4> HIDE DEF Covers2
      <4>2. QED
        BY <1>5, <3>1, <4>1
    <3>4. QED
      BY <3>1, <3>2, <3>3
  <2>2. CASE ~ \E o \in P : /\ o.group = p.group /\ o.lane = n.lane
                            /\ Covers2(o, z.bar.startMin)
    <3> HIDE DEF Covers2
    <3>1. \A o \in P :
            o.group = p.group /\ o.lane = n.lane /\ Covers2(o, z.bar.startMin) => o = z
      BY Zenon, <2>2
    <3>2. QED
      BY Zenon, <1>4, <3>1
  <2>3. QED
    BY <2>1, <2>2
<1> DEFINE C == Beside(q, P)
           L == n.lane
           f == [o \in C |-> o.lane]
<1>7. C = {o \in P : o.group = p.group /\ (o = q \/ Covers2(o, q.bar.startMin))}
  BY Zenon, <1>6 DEF Beside
<1>8. L \in Nat \ {0} /\ q.bar.startMin \in Int
  BY <1>1
<1> HIDE DEF C, Covers2
<1>9. \A o \in C : o \in P /\ o.lane \in 1 .. L
  BY <1>1, <1>2, <1>7, <1>8
<1>10. ASSUME NEW a \in C, NEW c \in C, a.lane = c.lane PROVE a = c
  <2>1. CASE a.lane = L
    BY <1>6, <1>7, <1>10, <2>1
  <2>2. CASE a.lane # L
    <3>1. a # q /\ c # q
      BY <1>6, <1>10, <2>2
    <3>2. QED
      BY <1>5, <1>7, <1>8, <1>10, <3>1
  <2>3. QED
    BY <2>1, <2>2
<1>11. ASSUME NEW l \in 1 .. L PROVE \E o \in C : o.lane = l
  <2>1. CASE l = L
    BY <1>6, <1>7, <2>1
  <2>2. CASE l # L
    <3>1. l \in 1 .. L - 1
      BY <1>8, <2>2
    <3>2. PICK o \in P : /\ o.group = n.group /\ o.lane = l
                         /\ o.bar.startMin <= z.bar.startMin
                         /\ z.bar.startMin < o.bar.endMin
      BY <1>3, <3>1 DEF Opens
    <3>3. o \in C
      BY <1>2, <1>6, <1>7, <3>2 DEF Covers2
    <3>4. QED
      BY <3>2, <3>3
  <2>3. QED
    BY <2>1, <2>2
<1>12. f \in Bijection(C, 1 .. L)
  BY <1>9, <1>10, <1>11 DEF Bijection, Injection, Surjection, IsInjective
<1>13. ExistsBijection(1 .. L, C)
  BY <1>12, Fun_ExistsBijSymmetric DEF ExistsBijection
<1>14. Cardinality(C) = L
  BY <1>8, <1>13, FS_CountingElements
<1>15. QED
  BY <1>2, <1>6, <1>14 DEF C

\* A shift has at most one piece a day, and it does not end before it begins.
LEMMA PiecesOfADay ==
  ASSUME Day \in Nat \ {0},
         NEW i, NEW b \in Int, NEW m \in Int, NEW e \in Int, NEW k \in Int, IsBar(i, b, m, e, k),
         NEW g \in segmentsFor(i)
  PROVE  /\ g.startMin \in Int /\ g.endMin \in Int /\ g.startMin <= g.endMin
         /\ \A h \in segmentsFor(i) : g.day = h.day => g = h
<1>1. /\ b = dayKey(shifts[i].in) /\ m = minutes(shifts[i].in)
      /\ e = BarEnd(i).day /\ k = BarEnd(i).min
      /\ 0 <= m /\ m < Day /\ 0 <= k /\ k <= Day
  BY DEF IsBar
<1>2. /\ e < b \/ (e = b /\ k < m) => segmentsFor(i) = {Segment(i, b, m, m)}
      /\ e = b /\ k >= m => segmentsFor(i) = {Segment(i, b, m, k)}
      /\ e > b => segmentsFor(i) =
           {Segment(i, b, m, Day)} \cup {Segment(i, f, 0, Day) : f \in b + 1 .. e - 1}
             \cup (IF k > 0 THEN {Segment(i, e, 0, k)} ELSE {})
  BY <1>1, PiecesAre
\* What a piece of day d shows is settled by d.
<1> DEFINE From(d) == IF d = b THEN m ELSE 0
           Upto(d) == IF e < b \/ (e = b /\ k < m) THEN m
                      ELSE IF d = e THEN k ELSE Day
<1>3. ASSUME NEW h \in segmentsFor(i)
      PROVE  \E d \in Int : /\ h = Segment(i, d, From(d), Upto(d))
                            /\ From(d) \in Int /\ Upto(d) \in Int /\ From(d) <= Upto(d)
  <2>1. CASE e < b \/ (e = b /\ k < m)
    <3>1. h = Segment(i, b, m, m)
      BY <1>2, <1>3, <2>1
    <3>2. From(b) = m /\ Upto(b) = m
      BY <2>1
    <3>3. QED
      BY <3>1, <3>2
  <2>2. CASE e = b /\ k >= m
    <3>1. h = Segment(i, b, m, k)
      BY <1>2, <1>3, <2>2
    <3>2. From(b) = m /\ Upto(b) = k
      BY <2>2
    <3>3. QED
      BY <2>2, <3>1, <3>2
  <2>3. CASE e > b
    <3>1. segmentsFor(i) =
            {Segment(i, b, m, Day)} \cup {Segment(i, f, 0, Day) : f \in b + 1 .. e - 1}
              \cup (IF k > 0 THEN {Segment(i, e, 0, k)} ELSE {})
      BY <1>2, <2>3
    <3>2. \/ h = Segment(i, b, m, Day)
          \/ \E f \in b + 1 .. e - 1 : h = Segment(i, f, 0, Day)
          \/ h = Segment(i, e, 0, k)
      BY <1>3, <3>1
    <3>3. CASE h = Segment(i, b, m, Day)
      <4>1. From(b) = m /\ Upto(b) = Day
        BY <2>3
      <4>2. QED
        BY <1>1, <3>3, <4>1
    <3>4. ASSUME NEW f \in b + 1 .. e - 1, h = Segment(i, f, 0, Day)
          PROVE  \E d \in Int : /\ h = Segment(i, d, From(d), Upto(d))
                                /\ From(d) \in Int /\ Upto(d) \in Int /\ From(d) <= Upto(d)
      <4>1. From(f) = 0 /\ Upto(f) = Day /\ f \in Int
        BY <2>3, <3>4
      <4>2. QED
        BY <3>4, <4>1
    <3>5. CASE h = Segment(i, e, 0, k)
      <4>1. From(e) = 0 /\ Upto(e) = k
        BY <2>3
      <4>2. QED
        BY <1>1, <3>5, <4>1
    <3>6. QED
      BY <3>2, <3>3, <3>4, <3>5
  <2>4. QED
    BY <2>1, <2>2, <2>3
<1> HIDE DEF From, Upto
<1>4. PICK d \in Int : /\ g = Segment(i, d, From(d), Upto(d))
                       /\ From(d) \in Int /\ Upto(d) \in Int /\ From(d) <= Upto(d)
  BY <1>3
<1>5. g.day = d /\ g.startMin = From(d) /\ g.endMin = Upto(d)
  BY <1>4, PieceIs
<1>6. ASSUME NEW h \in segmentsFor(i), g.day = h.day PROVE g = h
  <2>1. PICK c \in Int : h = Segment(i, c, From(c), Upto(c))
    BY <1>3
  <2>2. h.day = c
    BY <2>1, PieceIs
  <2>3. c = d
    BY <1>5, <1>6, <2>2
  <2>4. QED
    BY Zenon, <1>4, <2>1, <2>3
<1>7. QED
  BY <1>4, <1>5, <1>6

\* So what is drawn of a day are bars that the layout can order.
LEMMA DaysHaveBars ==
  ASSUME PayrollAssumption, Clocked, NEW d
  PROVE  AreBars(Bars(d))
<1>1. Day \in Nat \ {0}
  BY DEF PayrollAssumption
<1>2. shifts \in Seq(Shift)
  BY DEF Clocked, PayShape
<1>3. ASSUME NEW i \in DOMAIN shifts, NEW g \in segmentsFor(i)
      PROVE  /\ g.shift = i
             /\ g.startMin \in Int /\ g.endMin \in Int /\ g.startMin <= g.endMin
             /\ \A h \in segmentsFor(i) : g.day = h.day => g = h
  <2> DEFINE b == dayKey(shifts[i].in)
             m == minutes(shifts[i].in)
             e == BarEnd(i).day
             k == BarEnd(i).min
  <2>1. b \in Int /\ m \in Int /\ 0 <= m /\ m < Day
    BY ShiftIs, ClockParts DEF Clocked
  <2>2. e \in Int /\ k \in Int /\ 0 <= k /\ k <= Day /\ (k = Day => e = b)
    BY EndsAre DEF Clocked
  <2>3. IsBar(i, b, m, e, k)
    BY <2>1, <2>2 DEF IsBar
  <2>4. g.shift = i
    BY <1>3, <2>1, <2>2, PiecesName
  <2> HIDE DEF b, m, e, k
  <2>5. QED
    BY <1>1, <1>3, <2>1, <2>2, <2>3, <2>4, PiecesOfADay
<1>4. ASSUME NEW g \in Bars(d)
      PROVE  /\ g.shift \in DOMAIN shifts /\ g \in segmentsFor(g.shift) /\ g.day = d
             /\ g.startMin \in Int /\ g.endMin \in Int /\ g.startMin <= g.endMin
  <2>1. PICK i \in DOMAIN shifts : g \in segmentsFor(i) /\ g.day = d
    BY DEF Bars
  <2>2. QED
    BY <1>3, <2>1
<1>5. ASSUME NEW g \in Bars(d), NEW h \in Bars(d), g.shift = h.shift PROVE g = h
  BY <1>3, <1>4, <1>5
<1>6. DOMAIN shifts = 1 .. Len(shifts) /\ Len(shifts) \in Nat
  BY <1>2
<1>7. IsFiniteSet(DOMAIN shifts) /\ \A i \in DOMAIN shifts : i \in Int
  BY <1>6, FS_Interval
<1> DEFINE S == {i \in DOMAIN shifts : \E g \in Bars(d) : g.shift = i}
           f == [i \in S |-> CHOOSE g \in Bars(d) : g.shift = i]
<1>8. IsFiniteSet(S)
  BY <1>7, FS_Subset
<1>9. \A i \in S : f[i] \in Bars(d) /\ f[i].shift = i
  OBVIOUS
<1>10. \A g \in Bars(d) : g.shift \in S /\ f[g.shift] = g
  <2>1. \A g \in Bars(d) : g.shift \in S
    BY <1>4
  <2> HIDE DEF f
  <2>2. QED
    BY <1>5, <1>9, <2>1
<1>11. f \in Bijection(S, Bars(d))
  <2>1. f \in [S -> Bars(d)]
    BY <1>9
  <2> HIDE DEF f, S
  <2>2. QED
    BY <1>9, <1>10, <2>1 DEF Bijection, Injection, Surjection, IsInjective
<1>12. IsFiniteSet(Bars(d))
  <2>1. ExistsBijection(S, Bars(d))
    BY <1>11 DEF ExistsBijection
  <2> HIDE DEF S
  <2>2. QED
    BY <1>8, <2>1, FS_Bijection
<1>13. QED
  BY <1>4, <1>5, <1>7, <1>12 DEF AreBars

\* The week shows every shift, and every bar of it has its place: however many shifts
\* there are and wherever they overlap, no two bars lie on each other, and none is
\* narrower than the crowd at some moment of its group makes it (lib/week.ts: assignLanes).
THEOREM WeekIsShown == PaySpec => []WeekShowsEveryShift
<1>1. Clocked /\ ShiftsAreDrawn => WeekShowsEveryShift
  <2> SUFFICES ASSUME Clocked, ShiftsAreDrawn PROVE WeekShowsEveryShift
    OBVIOUS
  <2>1. ASSUME NEW d \in Days
        PROVE  LET placed == assignLanes(d) IN
               /\ Bars(d) = {p.bar : p \in placed}
               /\ \A p, q \in placed : p # q =>
                    /\ p.bar # q.bar
                    /\ p.bar.startMin < q.bar.endMin /\ q.bar.startMin < p.bar.endMin =>
                         p.lane # q.lane /\ p.group = q.group
               /\ \A p \in placed : \E q \in placed : q.group = p.group /\
                    LaneCount(p, placed) =
                      Cardinality({o \in placed :
                        /\ o.group = p.group
                        /\ \/ o = q
                           \/ /\ o.bar.startMin <= q.bar.startMin
                              /\ q.bar.startMin < o.bar.endMin})
    <3> DEFINE B == Bars(d)
               P == assignLanes(d)
    <3>1. AreBars(B)
      BY PayrollAssumption, DaysHaveBars
    <3>2. P = Placed(B).placed
      BY Zenon DEF assignLanes
    <3> HIDE DEF B, P
    <3>3. PICK E \in Seq(Int), G \in Nat : Laid(E, G, P, B)
      BY <3>1, <3>2, PlacedAreLaid
    <3>4. IsFiniteSet(B) /\ Timed(B)
      BY <3>1 DEF AreBars, Timed
    <3>5. /\ PlacesOf(P, B) /\ EachHasOne(P, B) /\ GroupsApart(P) /\ LanesApart(P)
      BY <3>3 DEF Laid
    <3>6. \A p \in P : /\ p.bar \in B /\ p.group \in Nat
                       /\ p.bar.startMin \in Int /\ p.bar.endMin \in Int
      BY <3>4, <3>5 DEF PlacesOf, Timed
    <3>7. B = {p.bar : p \in P}
      BY <3>5, <3>6 DEF EachHasOne
    <3>8. ASSUME NEW p \in P, NEW q \in P, p # q
          PROVE  /\ p.bar # q.bar
                 /\ p.bar.startMin < q.bar.endMin /\ q.bar.startMin < p.bar.endMin =>
                      p.lane # q.lane /\ p.group = q.group
      <4>1. p.bar # q.bar
        BY <3>5, <3>8 DEF EachHasOne
      <4> SUFFICES ASSUME p.bar.startMin < q.bar.endMin, q.bar.startMin < p.bar.endMin
                   PROVE  p.lane # q.lane /\ p.group = q.group
        BY <4>1
      <4>2. ~(p.group < q.group) /\ ~(q.group < p.group)
        BY <3>5, <3>6 DEF GroupsApart
      <4>3. p.group = q.group
        BY <3>6, <4>2
      <4>4. p.lane # q.lane
        BY <3>5, <3>6, <3>8, <4>3 DEF LanesApart
      <4>5. QED
        BY <4>3, <4>4
    <3>9. ASSUME NEW p \in P
          PROVE  \E q \in P : q.group = p.group /\
                   LaneCount(p, P) =
                     Cardinality({o \in P :
                       /\ o.group = p.group
                       /\ \/ o = q
                          \/ /\ o.bar.startMin <= q.bar.startMin
                             /\ q.bar.startMin < o.bar.endMin})
      <4>1. PICK q \in P : q.group = p.group /\ LaneCount(p, P) = Cardinality(Beside(q, P))
        BY <3>3, <3>4, LanesAreFilled
      <4>2. Beside(q, P) =
              {o \in P : /\ o.group = p.group
                         /\ \/ o = q
                            \/ /\ o.bar.startMin <= q.bar.startMin
                               /\ q.bar.startMin < o.bar.endMin}
        BY Zenon, <4>1 DEF Beside
      <4>3. QED
        BY Zenon, <4>1, <4>2
    <3>10. QED
      BY Zenon, <3>7, <3>8, <3>9 DEF B, P
  <2>2. QED
    BY Zenon, <2>1 DEF WeekShowsEveryShift
<1>2. QED
  BY <1>1, ClockedAlways, TheWeekIsDrawn, PTL
=============================================================================
