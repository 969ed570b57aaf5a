---------------------------- MODULE Organization ----------------------------
(***************************************************************************)
(* Organization accounts, their memberships, and the conversion of a       *)
(* personal account into an organization (models/organization.ts, called   *)
(* by the mutations of graphql/organization.ts).                           *)
(*                                                                         *)
(* A request reads the account of its viewer once, when it begins, and     *)
(* trusts that copy's kind to its end.  The acceptance of a conversion is  *)
(* a transaction of two steps: it locks the row of the account it          *)
(* converts and checks it, and it commits; its insertion of the first      *)
(* administrator needs a shared lock on the row of that administrator (the *)
(* foreign key), and so waits for whoever converts that account.  Every    *)
(* other operation is one step, also where the code is several statements: *)
(* those that remove or demote take the advisory lock of the organization. *)
(* Notifications, credentials, invitation links, and the deletion of       *)
(* accounts are left out.                                                  *)
(***************************************************************************)
EXTENDS Naturals, FiniteSets

CONSTANTS
    Account,    \* names of accounts, those in use and those that are free
    Person,     \* the accounts that exist, all personal, at the start
    Request,    \* GraphQL requests that may be under way at a time
    Nobody,     \* not an account
    Invitations \* bound: leftInvitations of each person at the start

VARIABLES
    kind,       \* account.kind, "free" for a name without an account
    left,       \* account.left_invitations
    membership, \* organization_membership by (organization, member)
    conversion, \* the admin of the pending conversion request of an account
    request     \* the requests under way

vars == <<kind, left, membership, conversion, request>>

Role == {"admin", "member"}

\* A row is an invitation until it is accepted; NoRow: there is none.
NoRow == [role |-> "member", state |-> "none"]

Accepted(role) == [role |-> role, state |-> "accepted"]

\* A request that is not under way.  "converts" is the account whose row an
\* acceptance of a conversion has locked, Nobody while it has locked none.
Ended == [viewer |-> Nobody, converts |-> Nobody]

Init ==
    /\ kind = [a \in Account |-> IF a \in Person THEN "personal" ELSE "free"]
    /\ left = [a \in Account |-> IF a \in Person THEN Invitations ELSE 0]
    /\ membership = [pair \in Account \X Account |-> NoRow]
    /\ conversion = [a \in Account |-> Nobody]
    /\ request = [q \in Request |-> Ended]

-----------------------------------------------------------------------------

Members(o) == {a \in Account : membership[o, a].state = "accepted"}

Admins(o) == {a \in Members(o) : membership[o, a].role = "admin"}

\* assertAccountHasNoAcceptedOrganizationMemberships
BelongsToNone(a) == \A o \in Account : a \notin Members(o)

\* No acceptance of a conversion holds the row of account a.
RowFree(a) == \A q \in Request : request[q].converts # a

\* Request q acts for viewer v and has locked no row.
Acts(q, v) == /\ v # Nobody
              /\ request[q] = [viewer |-> v, converts |-> Nobody]

\* The request ends, with its result or with an error.
Ends(q) == request' = [request EXCEPT ![q] = Ended]

\* requirePersonalAccount: the kind is that of the account just read.
Begin(q, v) ==
    /\ request[q] = Ended
    /\ kind[v] = "personal"
    /\ request' = [request EXCEPT ![q].viewer = v]
    /\ UNCHANGED <<kind, left, membership, conversion>>

\* The request fails a check, is the victim of a deadlock, or its server dies.
Fails(q) ==
    /\ request[q] # Ended
    /\ Ends(q)
    /\ UNCHANGED <<kind, left, membership, conversion>>

-----------------------------------------------------------------------------

\* createOrganization: the kind and the invitations are compared in the update.
Create(q, v, o) ==
    /\ Acts(q, v) /\ RowFree(v)
    /\ kind[v] = "personal" /\ left[v] > 0
    /\ kind[o] = "free"
    /\ left' = [left EXCEPT ![v] = @ - 1]
    /\ kind' = [kind EXCEPT ![o] = "organization"]
    /\ membership' = [membership EXCEPT ![o, v] = Accepted("admin")]
    /\ Ends(q)
    /\ UNCHANGED conversion

\* inviteOrganizationMember: an existing row is left as it is.
Invite(q, v, o, a, role) ==
    /\ Acts(q, v)
    /\ v \in Admins(o) /\ kind[o] = "organization"
    /\ kind[a] = "personal" /\ RowFree(a) /\ RowFree(v)
    /\ membership[o, a] = NoRow
    /\ membership' = [membership EXCEPT
                          ![o, a] = [role |-> role, state |-> "invited"]]
    /\ Ends(q)
    /\ UNCHANGED <<kind, left, conversion>>

\* acceptOrganizationInvitation
Accept(q, v, o) ==
    /\ Acts(q, v)
    /\ membership[o, v].state = "invited"
    /\ membership' = [membership EXCEPT ![o, v].state = "accepted"]
    /\ Ends(q)
    /\ UNCHANGED <<kind, left, conversion>>

\* updateOrganizationMemberRole: the last administrator is not demoted.
UpdateRole(q, v, o, a, role) ==
    /\ Acts(q, v)
    /\ v \in Admins(o) /\ a \in Members(o)
    /\ (a \in Admins(o) /\ role = "member") => Cardinality(Admins(o)) > 1
    /\ membership' = [membership EXCEPT ![o, a].role = role]
    /\ Ends(q)
    /\ UNCHANGED <<kind, left, conversion>>

\* removeAcceptedMembership: neither the last member nor the last
\* administrator goes.
MayGo(o, a) ==
    /\ a \in Members(o) /\ Cardinality(Members(o)) > 1
    /\ a \in Admins(o) => Cardinality(Admins(o)) > 1

\* removeOrganizationMember withdraws an invitation or removes a member.
Remove(q, v, o, a) ==
    /\ Acts(q, v)
    /\ v \in Admins(o)
    /\ membership[o, a].state = "invited" \/ MayGo(o, a)
    /\ membership' = [membership EXCEPT ![o, a] = NoRow]
    /\ Ends(q)
    /\ UNCHANGED <<kind, left, conversion>>

\* leaveOrganization
Leave(q, v, o) ==
    /\ Acts(q, v)
    /\ MayGo(o, v)
    /\ membership' = [membership EXCEPT ![o, v] = NoRow]
    /\ Ends(q)
    /\ UNCHANGED <<kind, left, conversion>>

-----------------------------------------------------------------------------

\* requestOrganizationConversion: a new request, or a new admin for the
\* pending one.
RequestConversion(q, v, admin) ==
    /\ Acts(q, v) /\ RowFree(v) /\ RowFree(admin)
    /\ BelongsToNone(v)
    /\ kind[admin] = "personal" /\ admin # v
    /\ conversion' = [conversion EXCEPT ![v] = admin]
    /\ Ends(q)
    /\ UNCHANGED <<kind, left, membership>>

\* acceptOrganizationConversion finds the pending request with its viewer as
\* the admin, locks the account's row and checks the account.
LockAccount(q, v, a) ==
    /\ Acts(q, v)
    /\ conversion[a] = v
    /\ RowFree(a)
    /\ kind[a] = "personal" /\ BelongsToNone(a)
    /\ request' = [request EXCEPT ![q].converts = a]
    /\ UNCHANGED <<kind, left, membership, conversion>>

\* The rest of the transaction, once nobody holds the row of the admin.  The
\* account's own invitations, and the pending requests that name it as the
\* admin, are deleted; the request itself is accepted (when it is still there:
\* the update is not checked).
Convert(q) ==
    LET a == request[q].converts
        v == request[q].viewer
    IN  /\ a # Nobody
        /\ RowFree(v)
        /\ BelongsToNone(a)
        /\ kind' = [kind EXCEPT ![a] = "organization"]
        /\ left' = [left EXCEPT ![a] = 0]
        /\ membership' = [pair \in Account \X Account |->
                CASE pair = <<a, v>> -> Accepted("admin")
                  [] pair # <<a, v>> /\ pair[2] = a -> NoRow
                  [] OTHER -> membership[pair]]
        /\ conversion' = [b \in Account |->
                IF b = a \/ conversion[b] = a THEN Nobody ELSE conversion[b]]
        /\ Ends(q)

Step(q, v) ==
    \/ Begin(q, v)
    \/ \E o \in Account : \/ Create(q, v, o)
                          \/ Accept(q, v, o)
                          \/ Leave(q, v, o)
    \/ \E o, a \in Account, role \in Role : \/ Invite(q, v, o, a, role)
                                            \/ UpdateRole(q, v, o, a, role)
    \/ \E o, a \in Account : Remove(q, v, o, a)
    \/ \E a \in Account : \/ RequestConversion(q, v, a)
                          \/ LockAccount(q, v, a)

Next ==
    \E q \in Request : \/ \E v \in Account : Step(q, v)
                       \/ Convert(q)
                       \/ Fails(q)

Spec == Init /\ [][Next]_vars

-----------------------------------------------------------------------------

\* "An organization or team account controlled through one or more personal
\* member accounts" (AccountKind, graphql/organization.ts): every organization
\* has an accepted administrator who is a person.  Only personal accounts sign
\* in, so an organization without one is out of everybody's reach.
ManagedByPeople ==
    \A o \in Account : kind[o] = "organization" =>
        \E a \in Admins(o) : kind[a] = "personal"
=============================================================================
