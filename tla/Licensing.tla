----------------------------- MODULE Licensing ------------------------------
(***************************************************************************)
(* Subscriptions, site licences and the seats they pay for                 *)
(* (services/subscription_service.py), with every handler that adds, moves *)
(* or removes a user.                                                      *)
(*                                                                         *)
(* Creating a user, a row of a bulk import and creating a subscription     *)
(* check first and insert later, in a thread of their own; another thread  *)
(* may commit in between.  The other handlers check nothing that another   *)
(* commit could change under them, and each is one step.  A handler that   *)
(* is refused changes nothing.                                             *)
(*                                                                         *)
(* Who a user is does not matter here, only where seats are taken: members *)
(* counts the users of each company.  Supervisors and workers are "other"; *)
(* masters and users of no company take no seat and are outside the        *)
(* counts.  No handler clears users.is_active, so every user counts.       *)
(***************************************************************************)
EXTENDS Integers, Sequences, FiniteSets

CONSTANTS
  Companies,
  Requests,       \* worker threads
  LicenseKinds,   \* the max_users and max_admins a master may grant
  DefaultKind,    \* the 26 users and one admin of an initial licence
  MaxSubs,        \* bound: subscriptions ever created
  MaxLicenses,    \* bound: licences ever granted
  MaxMembers,     \* bound: users of one kind in one company
  MaxRows,        \* bound: rows of an import file
  Unlimited       \* max_users NULL

ASSUME KindsAssumption ==
  /\ LicenseKinds \subseteq [users : Nat \cup {Unlimited}, admins : Nat]
  /\ DefaultKind \in LicenseKinds

ASSUME BoundsAssumption ==
  /\ MaxSubs \in Nat
  /\ MaxLicenses \in Nat
  /\ MaxMembers \in Nat
  /\ MaxRows \in Nat

VARIABLES
  members,        \* company -> number of admins and of other users
  subscriptions,  \* the rows in id order
  licenses,       \* the rows in id order
  bypass,         \* LICENSE_KEY set, or LICENSE_ENFORCE=false
  request         \* what the handler in each thread is about to do

vars == <<members, subscriptions, licenses, bypass, request>>

-----------------------------------------------------------------------------
Kinds == {"admin", "other"}

Statuses == {"trial", "active", "past_due", "suspended", "cancelled"}

\* expired: ends_at is in the past.
Subscription == [company : Companies, status : Statuses, expired : BOOLEAN]

License ==
  [company : Companies, subscription : Nat, active : BOOLEAN, kind : LicenseKinds]

Idle == [op |-> "idle"]

Request ==
  {Idle}
    \cup [op : {"create"}, company : Companies, kind : Kinds, left : 0 .. MaxRows]
    \cup [op : {"import"}, company : Companies, left : 1 .. MaxRows]
    \cup [op : {"subscribe"}, row : Subscription, licenses : 0 .. MaxLicenses]

TypeOK ==
  /\ members \in [Companies -> [Kinds -> Nat]]
  /\ subscriptions \in Seq(Subscription)
  /\ licenses \in Seq(License)
  /\ bypass \in BOOLEAN
  /\ request \in [Requests -> Request]

-----------------------------------------------------------------------------
(***************************************************************************)
(* What a company has and what it uses.                                    *)
(***************************************************************************)
LicensesOf(c) == {l \in DOMAIN licenses : licenses[l].company = c}

ActiveLicenses(c) == {l \in LicensesOf(c) : licenses[l].active}

\* The sum over the licences L of what each allows: they pool places numbered
\* per licence.
Pooled(allowed, L) == Cardinality(UNION {{l} \X (1 .. allowed[l]) : l \in L})

\* compute_capacity: any unlimited licence makes the pool unlimited.
Seats(c) ==
  IF \E l \in ActiveLicenses(c) : licenses[l].kind.users = Unlimited
  THEN Unlimited
  ELSE Pooled([l \in ActiveLicenses(c) |-> licenses[l].kind.users], ActiveLicenses(c))

AdminCap(c) ==
  Pooled([l \in ActiveLicenses(c) |-> licenses[l].kind.admins], ActiveLicenses(c))

\* count_seats.
AdminsUsed(c) == members[c]["admin"]
SeatsUsed(c)  == members[c]["admin"] + members[c]["other"]

NotCancelled(c) ==
  {s \in DOMAIN subscriptions :
     subscriptions[s].company = c /\ subscriptions[s].status # "cancelled"}

\* get_subscription: the newest row that is not cancelled.
Current(c) == CHOOSE s \in NotCancelled(c) : \A q \in NotCancelled(c) : q <= s

Valid(c) ==
  \/ bypass
  \/ /\ NotCancelled(c) # {}
     /\ subscriptions[Current(c)].status \in {"trial", "active"}
     /\ ~ subscriptions[Current(c)].expired
     /\ ActiveLicenses(c) # {}

\* There is something to meter against.
Metered(c) == ~ bypass \/ NotCancelled(c) # {} \/ LicensesOf(c) # {}

Below(used, cap) == IF cap = Unlimited THEN TRUE ELSE used < cap

\* Mutant: the last seat can be taken twice.
RoomOneMore(c, kind) ==
  Metered(c) =>
    /\ IF Seats(c) = Unlimited THEN TRUE ELSE SeatsUsed(c) <= Seats(c)
    /\ kind = "admin" => AdminsUsed(c) < AdminCap(c)

Room(c, kind) ==
  Metered(c) =>
    /\ Below(SeatsUsed(c), Seats(c))
    /\ kind = "admin" => AdminsUsed(c) < AdminCap(c)

\* enforce_seat_limit passes.
Allowed(c, kind) == Valid(c) /\ Room(c, kind)

-----------------------------------------------------------------------------
Init ==
  /\ members = [c \in Companies |-> [k \in Kinds |-> 0]]
  /\ subscriptions = <<>>
  /\ licenses = <<>>
  /\ bypass \in BOOLEAN
  /\ request = [r \in Requests |-> Idle]

Goto(r, work) == request' = [request EXCEPT ![r] = work]

Joined(m, c, k) == [m EXCEPT ![c][k] = @ + 1]
Left(m, c, k)   == [m EXCEPT ![c][k] = @ - 1]

\* POST /auth/users and POST /employees for a company; users without one are
\* inserted unchecked and take no seat.
CreateUser(r) ==
  \E c \in Companies, k \in Kinds :
    /\ request[r] = Idle
    /\ Allowed(c, k)
    /\ Goto(r, [op |-> "create", company |-> c, kind |-> k, left |-> 0])
    /\ UNCHANGED <<members, subscriptions, licenses, bypass>>

\* POST /employees/import: fail fast, then the rows one by one.
ImportEmployees(r) ==
  \E c \in Companies, rows \in 1 .. MaxRows :
    /\ request[r] = Idle
    /\ Allowed(c, "other")
    /\ Goto(r, [op |-> "import", company |-> c, left |-> rows])
    /\ UNCHANGED <<members, subscriptions, licenses, bypass>>

\* Mutant: the end of the file is not noticed.
RestForever(c, left) == [op |-> "import", company |-> c, left |-> left]

\* The rest of the file, or the answer when no row is left.
Rest(c, left) ==
  IF left = 0 THEN Idle ELSE [op |-> "import", company |-> c, left |-> left]

\* One row: reported as invalid (any row may be; every row is when the licence
\* is not valid), refused for want of a seat, which ends the import, or passed
\* on to be inserted.
ImportRow(r) ==
  LET c    == request[r].company
      left == request[r].left - 1
  IN  /\ request[r].op = "import"
      /\ \/ Goto(r, Rest(c, left))
         \/ /\ Valid(c)
            /\ ~ Room(c, "other")
            /\ Goto(r, Idle)
         \/ /\ Allowed(c, "other")
            /\ Goto(r, [op |-> "create", company |-> c, kind |-> "other", left |-> left])
      /\ UNCHANGED <<members, subscriptions, licenses, bypass>>

CommitCreate(r) ==
  LET c == request[r].company
      k == request[r].kind
  IN  /\ request[r].op = "create"
      /\ members[c][k] < MaxMembers
      /\ members' = Joined(members, c, k)
      /\ Goto(r, Rest(c, request[r].left))
      /\ UNCHANGED <<subscriptions, licenses, bypass>>

\* The insert fails: another request took the username or the employee code.
RejectCreate(r) ==
  /\ request[r].op = "create"
  /\ Goto(r, Rest(request[r].company, request[r].left))
  /\ UNCHANGED <<members, subscriptions, licenses, bypass>>

\* PUT /auth/users/{id}: a new role, a new company, or both; the seat limit is
\* not consulted.  A master or a user of no company may become a member.
UpdateUser(r) ==
  \E c \in Companies, k \in Kinds :
    /\ request[r] = Idle
    /\ members[c][k] < MaxMembers
    /\ \/ members' = Joined(members, c, k)
       \/ \E d \in Companies, j \in Kinds :
            /\ <<d, j>> # <<c, k>>
            /\ members[d][j] > 0
            /\ members' = Joined(Left(members, d, j), c, k)
    /\ UNCHANGED <<subscriptions, licenses, bypass, request>>

\* DELETE /auth/users/{id}, DELETE /employees/{id}, or a promotion to master.
RemoveUser(r) ==
  \E c \in Companies, k \in Kinds :
    /\ request[r] = Idle
    /\ members[c][k] > 0
    /\ members' = Left(members, c, k)
    /\ UNCHANGED <<subscriptions, licenses, bypass, request>>

-----------------------------------------------------------------------------
\* POST /subscriptions: check, then insert with the initial licences.
CreateSubscription(r) ==
  \E c \in Companies, status \in Statuses, expired \in BOOLEAN, n \in 0 .. MaxLicenses :
    /\ request[r] = Idle
    /\ NotCancelled(c) = {}
    /\ Goto(r, [op |-> "subscribe",
                row |-> [company |-> c, status |-> status, expired |-> expired],
                licenses |-> n])
    /\ UNCHANGED <<members, subscriptions, licenses, bypass>>

\* Mutant: no partial unique index.
IndexMissing(c, s, status) == TRUE

\* ux_subscriptions_one_active_per_company, for a row that is, or becomes,
\* the row s of company c with that status.
IndexAllows(c, s, status) ==
  status # "cancelled" => NotCancelled(c) \subseteq {s}

NewLicense(c, s, kind) ==
  [company |-> c, subscription |-> s, active |-> TRUE, kind |-> kind]

\* The licences followed by n more like the given one.
WithMore(old, license, n) == old \o [i \in 1 .. n |-> license]

CommitSubscription(r) ==
  LET row == request[r].row
      n   == request[r].licenses
      s   == Len(subscriptions) + 1
  IN  /\ request[r].op = "subscribe"
      /\ Len(subscriptions) < MaxSubs
      /\ Len(licenses) + n <= MaxLicenses
      /\ IndexAllows(row.company, s, row.status)
      /\ subscriptions' = Append(subscriptions, row)
      /\ licenses' = WithMore(licenses, NewLicense(row.company, s, DefaultKind), n)
      /\ Goto(r, Idle)
      /\ UNCHANGED <<members, bypass>>

\* The index refuses the insert; the whole transaction is undone.
RejectSubscription(r) ==
  /\ request[r].op = "subscribe"
  /\ LET row == request[r].row
     IN  ~ IndexAllows(row.company, Len(subscriptions) + 1, row.status)
  /\ Goto(r, Idle)
  /\ UNCHANGED <<members, subscriptions, licenses, bypass>>

\* PUT /subscriptions/{id}; a new ends_at may be past or to come.
UpdateSubscription(r) ==
  \E s \in DOMAIN subscriptions, status \in Statuses, expired \in BOOLEAN :
    /\ request[r] = Idle
    /\ IndexAllows(subscriptions[s].company, s, status)
    /\ subscriptions' =
         [subscriptions EXCEPT ![s].status = status, ![s].expired = expired]
    /\ UNCHANGED <<members, licenses, bypass, request>>

\* POST /subscriptions/{id}/suspend and /activate.
SetStatus(r) ==
  \E s \in DOMAIN subscriptions, status \in {"suspended", "active"} :
    /\ request[r] = Idle
    /\ IndexAllows(subscriptions[s].company, s, status)
    /\ subscriptions' = [subscriptions EXCEPT ![s].status = status]
    /\ UNCHANGED <<members, licenses, bypass, request>>

\* POST /licenses, on any subscription, with a quantity.
GrantLicenses(r) ==
  \E s \in DOMAIN subscriptions, kind \in LicenseKinds, quantity \in 1 .. MaxLicenses :
    /\ request[r] = Idle
    /\ Len(licenses) + quantity <= MaxLicenses
    /\ licenses' =
         WithMore(licenses, NewLicense(subscriptions[s].company, s, kind), quantity)
    /\ UNCHANGED <<members, subscriptions, bypass, request>>

\* POST /licenses/{id}/revoke.
RevokeLicense(r) ==
  \E l \in DOMAIN licenses :
    /\ request[r] = Idle
    /\ licenses[l].active
    /\ licenses' = [licenses EXCEPT ![l].active = FALSE]
    /\ UNCHANGED <<members, subscriptions, bypass, request>>

\* ends_at passes.
Expire ==
  \E s \in DOMAIN subscriptions :
    /\ ~ subscriptions[s].expired
    /\ subscriptions' = [subscriptions EXCEPT ![s].expired = TRUE]
    /\ UNCHANGED <<members, licenses, bypass, request>>

\* The server is deployed again, perhaps with other settings.
Restart ==
  /\ bypass' \in BOOLEAN
  /\ request' = [r \in Requests |-> Idle]
  /\ UNCHANGED <<members, subscriptions, licenses>>

Users(r) ==
  \/ CreateUser(r)
  \/ ImportEmployees(r)
  \/ ImportRow(r)
  \/ CommitCreate(r)
  \/ RejectCreate(r)
  \/ UpdateUser(r)
  \/ RemoveUser(r)

Billing(r) ==
  \/ CreateSubscription(r)
  \/ CommitSubscription(r)
  \/ RejectSubscription(r)
  \/ UpdateSubscription(r)
  \/ SetStatus(r)
  \/ GrantLicenses(r)
  \/ RevokeLicense(r)

Next ==
  \/ \E r \in Requests : Users(r) \/ Billing(r)
  \/ Expire
  \/ Restart

Spec == Init /\ [][Next]_vars

-----------------------------------------------------------------------------
(***************************************************************************)
(* Properties.                                                             *)
(***************************************************************************)

\* A company has at most one subscription that is not cancelled, whatever
\* mix of concurrent creations, status edits and reactivations of cancelled
\* rows: get_subscription's "newest" is the only one.
OneCurrentSubscription == \A c \in Companies : \A s, q \in NotCancelled(c) : s = q

\* A licence's denormalised company, which every seat query reads, is that of
\* the subscription it was granted on.
LicensesOfSubscriber ==
  \A l \in DOMAIN licenses :
    /\ licenses[l].subscription \in DOMAIN subscriptions
    /\ licenses[l].company = subscriptions[licenses[l].subscription].company

\* What every seat query and every check of a request reads is unambiguous: one
\* current subscription, and licences that count for who pays for them.
SubscriptionsSound == OneCurrentSubscription /\ LicensesOfSubscriber

\* "New users are rejected with Seat limit exceeded (n/n)", overlapping
\* requests included: of two creations that passed the check, the one that
\* commits first leaves room for the other.  Both may have counted the same
\* last free seat, and neither counts again.
SeatLimitEnforced ==
  [][\A r, q \in Requests, c \in Companies :
       /\ r # q
       /\ CommitCreate(r) /\ request[r].company = c
       /\ request[q].op = "create" /\ request[q].company = c
       /\ ~ bypass /\ Below(SeatsUsed(c), Seats(c))
       => Below(SeatsUsed(c)', Seats(c))]_vars
=============================================================================
