-------------------------- MODULE LicensingProofs ---------------------------
(***************************************************************************)
(* Proofs about Licensing, for any companies, threads, kinds of licence    *)
(* and bounds.  The partial unique index is what keeps one subscription    *)
(* current: every handler that makes a row not cancelled meets it, also    *)
(* those that looked before another thread committed.                      *)
(***************************************************************************)
EXTENDS MCLicensing, FiniteSetTheorems, SequenceTheorems, TLAPS

IInv ==
  /\ TypeOK
  /\ OneCurrentSubscription
  /\ LicensesOfSubscriber

-----------------------------------------------------------------------------
\* Licences granted leave the old ones as they are.
LEMMA WithMoreOK ==
  ASSUME NEW old \in Seq(License), NEW license \in License, NEW n \in Nat
  PROVE  /\ WithMore(old, license, n) \in Seq(License)
         /\ \A l \in DOMAIN WithMore(old, license, n) :
              \/ l \in DOMAIN old /\ WithMore(old, license, n)[l] = old[l]
              \/ WithMore(old, license, n)[l] = license
<1> DEFINE added == [i \in 1 .. n |-> license]
<1>1. added \in Seq(License) /\ \A i \in DOMAIN added : added[i] = license
  OBVIOUS
<1>2. WithMore(old, license, n) = old \o added
  BY DEF WithMore
<1> HIDE DEF added
<1>3. QED
  BY <1>1, <1>2

\* A row whose new status the index allows is the only one not cancelled.
LEMMA IndexKeepsOne ==
  ASSUME IInv, NEW s \in DOMAIN subscriptions, NEW row \in Subscription,
         row.company = subscriptions[s].company,
         IndexAllows(row.company, s, row.status),
         subscriptions' = [subscriptions EXCEPT ![s] = row],
         licenses' = licenses
  PROVE  /\ subscriptions' \in Seq(Subscription)
         /\ OneCurrentSubscription'
         /\ LicensesOfSubscriber'
<1>1. subscriptions \in Seq(Subscription) /\ DOMAIN subscriptions = 1 .. Len(subscriptions)
  BY DEF IInv, TypeOK
<1>2. /\ subscriptions' \in Seq(Subscription)
      /\ Len(subscriptions') = Len(subscriptions)
      /\ \A q \in 1 .. Len(subscriptions) :
           subscriptions'[q] = IF q = s THEN row ELSE subscriptions[q]
  BY <1>1, ExceptSeq
<1>3. DOMAIN subscriptions' = DOMAIN subscriptions
  BY <1>1, <1>2
<1>4. OneCurrentSubscription'
  <2> SUFFICES ASSUME NEW c \in Companies,
                      NEW p \in NotCancelled(c)', NEW q \in NotCancelled(c)'
               PROVE  p = q
    BY DEF OneCurrentSubscription
  <2>1. NotCancelled(c)' \subseteq NotCancelled(c) \cup {s}
    BY <1>1, <1>2, <1>3 DEF NotCancelled
  <2>2. CASE s \in NotCancelled(c)'
    <3>1. row.status # "cancelled" /\ row.company = c
      BY <1>1, <1>2, <2>2 DEF NotCancelled
    <3>2. NotCancelled(c) \subseteq {s}
      BY <3>1 DEF IndexAllows
    <3>3. QED
      BY <2>1, <3>2
  <2>3. CASE s \notin NotCancelled(c)'
    BY <2>1, <2>3 DEF IInv, OneCurrentSubscription
  <2>4. QED
    BY <2>2, <2>3
<1>5. LicensesOfSubscriber'
  BY <1>1, <1>2, <1>3 DEF IInv, LicensesOfSubscriber
<1>6. QED
  BY <1>2, <1>4, <1>5

\* Counting a user in, or out of a company that has one, leaves counts.
LEMMA Moved ==
  ASSUME NEW m \in [Companies -> [Kinds -> Nat]], NEW c \in Companies, NEW k \in Kinds
  PROVE  /\ Joined(m, c, k) \in [Companies -> [Kinds -> Nat]]
         /\ m[c][k] > 0 => Left(m, c, k) \in [Companies -> [Kinds -> Nat]]
BY DEF Joined, Left

\* Steps that leave the billing tables alone keep what is said of them.
LEMMA TablesAlone ==
  ASSUME IInv, UNCHANGED <<subscriptions, licenses>>, TypeOK'
  PROVE  IInv'
BY DEF IInv, OneCurrentSubscription, LicensesOfSubscriber, NotCancelled

LEMMA InitIInv == Init => IInv
<1> SUFFICES ASSUME Init PROVE IInv
  OBVIOUS
<1>1. TypeOK
  BY DEF Init, TypeOK, Request
<1>2. OneCurrentSubscription /\ LicensesOfSubscriber
  BY DEF Init, OneCurrentSubscription, LicensesOfSubscriber, NotCancelled
<1>3. QED
  BY <1>1, <1>2 DEF IInv

LEMMA UsersIInv ==
  ASSUME IInv, NEW r \in Requests, Users(r)
  PROVE  IInv'
<1>0. members \in [Companies -> [Kinds -> Nat]]
  BY DEF IInv, TypeOK
<1> USE BoundsAssumption DEF IInv, TypeOK
<1>1. ASSUME NEW work \in Request, Goto(r, work),
             UNCHANGED <<members, subscriptions, licenses, bypass>>
      PROVE  IInv'
  <2>1. TypeOK'
    BY <1>1 DEF Goto
  <2>2. QED
    BY <1>1, <2>1, TablesAlone
<1>2. ASSUME NEW c \in Companies, NEW left \in 0 .. MaxRows
      PROVE  Rest(c, left) \in Request
  BY <1>2 DEF Rest, Request
<1>3. ASSUME NEW c \in Companies, NEW k \in Kinds, NEW left \in 0 .. MaxRows
      PROVE  [op |-> "create", company |-> c, kind |-> k, left |-> left] \in Request
  BY <1>3 DEF Request
<1>4. request[r].op = "create" => /\ request[r].company \in Companies
                                  /\ request[r].kind \in Kinds
                                  /\ request[r].left \in 0 .. MaxRows
  BY DEF Request, Idle
<1>5. request[r].op = "import" => /\ request[r].company \in Companies
                                  /\ request[r].left \in 1 .. MaxRows
  BY DEF Request, Idle
<1>6. CASE CreateUser(r)
  <2>1. PICK c \in Companies, k \in Kinds :
          /\ Goto(r, [op |-> "create", company |-> c, kind |-> k, left |-> 0])
          /\ UNCHANGED <<members, subscriptions, licenses, bypass>>
    BY <1>6 DEF CreateUser
  <2>2. 0 \in 0 .. MaxRows
    OBVIOUS
  <2>3. QED
    BY <1>1, <1>3, <2>1, <2>2
<1>7. CASE ImportEmployees(r)
  <2>1. PICK c \in Companies, rows \in 1 .. MaxRows :
          /\ Goto(r, [op |-> "import", company |-> c, left |-> rows])
          /\ UNCHANGED <<members, subscriptions, licenses, bypass>>
    BY <1>7 DEF ImportEmployees
  <2>2. [op |-> "import", company |-> c, left |-> rows] \in Request
    BY DEF Request
  <2>3. QED
    BY <1>1, <2>1, <2>2
<1>8. CASE ImportRow(r)
  <2> DEFINE c == request[r].company
             left == request[r].left - 1
  <2>1. c \in Companies /\ left \in 0 .. MaxRows
    BY <1>5, <1>8 DEF ImportRow
  <2>2. /\ Rest(c, left) \in Request
        /\ Idle \in Request
        /\ [op |-> "create", company |-> c, kind |-> "other", left |-> left] \in Request
    BY <1>2, <1>3, <2>1 DEF Kinds, Request
  <2>3. QED
    BY <1>1, <1>8, <2>2 DEF ImportRow
<1>9. CASE CommitCreate(r)
  <2> DEFINE c == request[r].company
             k == request[r].kind
  <2>1. c \in Companies /\ k \in Kinds /\ Rest(c, request[r].left) \in Request
    BY <1>2, <1>4, <1>9 DEF CommitCreate
  <2>2. members' \in [Companies -> [Kinds -> Nat]]
    BY <1>9, <2>1, Moved DEF CommitCreate
  <2>3. TypeOK'
    BY <1>9, <2>1, <2>2 DEF CommitCreate, Goto
  <2>4. QED
    BY <1>9, <2>3, TablesAlone DEF CommitCreate
<1>10. CASE RejectCreate(r)
  BY <1>1, <1>2, <1>4, <1>10 DEF RejectCreate
<1>11. CASE UpdateUser(r)
  <2>1. members' \in [Companies -> [Kinds -> Nat]]
    <3>1. PICK c \in Companies, k \in Kinds :
            \/ members' = Joined(members, c, k)
            \/ \E d \in Companies, j \in Kinds :
                 /\ members[d][j] > 0
                 /\ members' = Joined(Left(members, d, j), c, k)
      BY <1>11 DEF UpdateUser
    <3>2. CASE members' = Joined(members, c, k)
      BY <1>0, <3>2, Moved
    <3>3. ASSUME NEW d \in Companies, NEW j \in Kinds, members[d][j] > 0,
                 members' = Joined(Left(members, d, j), c, k)
          PROVE  members' \in [Companies -> [Kinds -> Nat]]
      <4>1. Left(members, d, j) \in [Companies -> [Kinds -> Nat]]
        BY <1>0, <3>3, Moved
      <4>2. QED
        BY <3>3, <4>1, Moved
    <3>4. QED
      BY <3>1, <3>2, <3>3
  <2>2. TypeOK'
    BY <1>11, <2>1 DEF UpdateUser
  <2>3. QED
    BY <1>11, <2>2, TablesAlone DEF UpdateUser
<1>12. CASE RemoveUser(r)
  <2>1. members' \in [Companies -> [Kinds -> Nat]]
    <3>1. PICK c \in Companies, k \in Kinds :
            members[c][k] > 0 /\ members' = Left(members, c, k)
      BY <1>12 DEF RemoveUser
    <3>2. QED
      BY <1>0, <3>1, Moved
  <2>2. TypeOK'
    BY <1>12, <2>1 DEF RemoveUser
  <2>3. QED
    BY <1>12, <2>2, TablesAlone DEF RemoveUser
<1>13. QED
  BY <1>6, <1>7, <1>8, <1>9, <1>10, <1>11, <1>12 DEF Users

\* The only row not cancelled, next to which the index lets no other in.
LEMMA CommitSubscriptionIInv ==
  ASSUME IInv, NEW r \in Requests, CommitSubscription(r)
  PROVE  IInv'
<1> DEFINE row == request[r].row
           n   == request[r].licenses
           s   == Len(subscriptions) + 1
<1>1. row \in Subscription /\ row.company \in Companies /\ n \in Nat
  BY BoundsAssumption DEF IInv, TypeOK, CommitSubscription, Request, Idle, Subscription
<1>2. /\ subscriptions \in Seq(Subscription)
      /\ licenses \in Seq(License)
      /\ s \in Nat
  BY DEF IInv, TypeOK
<1>3. /\ IndexAllows(row.company, s, row.status)
      /\ subscriptions' = Append(subscriptions, row)
      /\ licenses' = WithMore(licenses, NewLicense(row.company, s, DefaultKind), n)
  BY DEF CommitSubscription
<1>4. /\ subscriptions' \in Seq(Subscription)
      /\ DOMAIN subscriptions' = 1 .. s
      /\ subscriptions'[s] = row
      /\ \A q \in 1 .. Len(subscriptions) : subscriptions'[q] = subscriptions[q]
  BY <1>1, <1>2, <1>3, AppendProperties
<1>5. /\ licenses' \in Seq(License)
      /\ \A l \in DOMAIN licenses' :
           \/ l \in DOMAIN licenses /\ licenses'[l] = licenses[l]
           \/ licenses'[l].company = row.company /\ licenses'[l].subscription = s
  <2> DEFINE new == NewLicense(row.company, s, DefaultKind)
  <2>1. new \in License /\ new.company = row.company /\ new.subscription = s
    BY <1>1, <1>2, KindsAssumption DEF NewLicense, License
  <2>2. licenses' = WithMore(licenses, new, n)
    BY <1>3
  <2> HIDE DEF new, row, n, s
  <2>3. QED
    BY <1>1, <1>2, <2>1, <2>2, WithMoreOK
<1>6. TypeOK'
  BY <1>4, <1>5 DEF IInv, TypeOK, CommitSubscription, Goto, Request
<1> HIDE DEF row, n
<1>7. OneCurrentSubscription'
  <2> SUFFICES ASSUME NEW c \in Companies,
                      NEW p \in NotCancelled(c)', NEW q \in NotCancelled(c)'
               PROVE  p = q
    BY DEF OneCurrentSubscription
  <2>1. NotCancelled(c)' \subseteq NotCancelled(c) \cup {s}
    BY <1>2, <1>4 DEF NotCancelled
  <2>2. CASE s \in NotCancelled(c)'
    <3>1. row.status # "cancelled" /\ row.company = c
      BY <1>4, <2>2 DEF NotCancelled
    <3>2. NotCancelled(c) \subseteq {s}
      BY <1>3, <3>1 DEF IndexAllows
    <3>3. QED
      BY <2>1, <3>2
  <2>3. CASE s \notin NotCancelled(c)'
    BY <2>1, <2>3 DEF IInv, OneCurrentSubscription
  <2>4. QED
    BY <2>2, <2>3
<1>8. LicensesOfSubscriber'
  <2> SUFFICES ASSUME NEW l \in DOMAIN licenses'
               PROVE  /\ licenses'[l].subscription \in DOMAIN subscriptions'
                      /\ licenses'[l].company
                           = subscriptions'[licenses'[l].subscription].company
    BY DEF LicensesOfSubscriber
  <2>1. CASE licenses'[l].company = row.company /\ licenses'[l].subscription = s
    BY <1>2, <1>4, <2>1
  <2>2. CASE l \in DOMAIN licenses /\ licenses'[l] = licenses[l]
    <3>1. /\ licenses[l].subscription \in DOMAIN subscriptions
          /\ licenses[l].company = subscriptions[licenses[l].subscription].company
      BY <2>2 DEF IInv, LicensesOfSubscriber
    <3>2. QED
      BY <1>2, <1>4, <2>2, <3>1
  <2>3. QED
    BY <1>5, <2>1, <2>2
<1>9. QED
  BY <1>6, <1>7, <1>8 DEF IInv

LEMMA BillingIInv ==
  ASSUME IInv, NEW r \in Requests, Billing(r)
  PROVE  IInv'
<1>1. /\ subscriptions \in Seq(Subscription)
      /\ licenses \in Seq(License)
      /\ \A s \in DOMAIN subscriptions : subscriptions[s] \in Subscription
      /\ \A l \in DOMAIN licenses : licenses[l] \in License /\ l \in 1 .. Len(licenses)
  BY DEF IInv, TypeOK
<1>2. CASE CreateSubscription(r)
  <2>1. PICK c \in Companies, status \in Statuses, expired \in BOOLEAN,
             n \in 0 .. MaxLicenses :
          Goto(r, [op |-> "subscribe",
                   row |-> [company |-> c, status |-> status, expired |-> expired],
                   licenses |-> n])
    BY <1>2 DEF CreateSubscription
  <2>2. [op |-> "subscribe",
         row |-> [company |-> c, status |-> status, expired |-> expired],
         licenses |-> n] \in Request
    BY DEF Request, Subscription
  <2>3. TypeOK'
    BY <1>2, <2>1, <2>2 DEF IInv, TypeOK, CreateSubscription, Goto
  <2>4. QED
    BY <1>2, <2>3, TablesAlone DEF CreateSubscription
<1>3. CASE CommitSubscription(r)
  BY <1>3, CommitSubscriptionIInv
<1>4. CASE RejectSubscription(r)
  <2>1. TypeOK'
    BY <1>4 DEF IInv, TypeOK, RejectSubscription, Goto, Request
  <2>2. QED
    BY <1>4, <2>1, TablesAlone DEF RejectSubscription
<1>5. CASE UpdateSubscription(r)
  <2>1. PICK s \in DOMAIN subscriptions, status \in Statuses, expired \in BOOLEAN :
          /\ IndexAllows(subscriptions[s].company, s, status)
          /\ subscriptions' =
               [subscriptions EXCEPT ![s].status = status, ![s].expired = expired]
    BY <1>5 DEF UpdateSubscription
  <2> DEFINE row == [subscriptions[s] EXCEPT !.status = status, !.expired = expired]
  <2>2. row \in Subscription /\ row.company = subscriptions[s].company /\ row.status = status
    BY <1>1 DEF Subscription
  <2>3. subscriptions' = [subscriptions EXCEPT ![s] = row]
    BY <1>1, <2>1
  <2>4. UNCHANGED <<members, licenses, bypass, request>>
    BY <1>5 DEF UpdateSubscription
  <2> HIDE DEF row
  <2>5. QED
    BY <2>1, <2>2, <2>3, <2>4, IndexKeepsOne DEF IInv, TypeOK
<1>6. CASE SetStatus(r)
  <2>1. PICK s \in DOMAIN subscriptions, status \in {"suspended", "active"} :
          /\ IndexAllows(subscriptions[s].company, s, status)
          /\ subscriptions' = [subscriptions EXCEPT ![s].status = status]
    BY <1>6 DEF SetStatus
  <2> DEFINE row == [subscriptions[s] EXCEPT !.status = status]
  <2>2. row \in Subscription /\ row.company = subscriptions[s].company /\ row.status = status
    BY <1>1 DEF Subscription, Statuses
  <2>3. subscriptions' = [subscriptions EXCEPT ![s] = row]
    BY <1>1, <2>1
  <2>4. UNCHANGED <<members, licenses, bypass, request>>
    BY <1>6 DEF SetStatus
  <2> HIDE DEF row
  <2>5. QED
    BY <2>1, <2>2, <2>3, <2>4, IndexKeepsOne DEF IInv, TypeOK
<1>7. CASE GrantLicenses(r)
  <2>1. PICK s \in DOMAIN subscriptions, kind \in LicenseKinds, n \in 1 .. MaxLicenses :
          licenses' = WithMore(licenses, NewLicense(subscriptions[s].company, s, kind), n)
    BY <1>7 DEF GrantLicenses
  <2>2. subscriptions[s].company \in Companies /\ s \in Nat /\ n \in Nat
    BY <1>1, BoundsAssumption DEF Subscription
  <2>3. /\ licenses' \in Seq(License)
        /\ \A l \in DOMAIN licenses' :
             \/ l \in DOMAIN licenses /\ licenses'[l] = licenses[l]
             \/ /\ licenses'[l].company = subscriptions[s].company
                /\ licenses'[l].subscription = s
    <3> DEFINE new == NewLicense(subscriptions[s].company, s, kind)
    <3>1. /\ new \in License
          /\ new.company = subscriptions[s].company
          /\ new.subscription = s
      BY <2>2 DEF NewLicense, License
    <3>2. licenses' = WithMore(licenses, new, n)
      BY <2>1
    <3> HIDE DEF new
    <3>3. QED
      BY <1>1, <2>2, <3>1, <3>2, WithMoreOK
  <2>4. UNCHANGED <<members, subscriptions, bypass, request>>
    BY <1>7 DEF GrantLicenses
  <2>5. TypeOK'
    BY <2>3, <2>4 DEF IInv, TypeOK
  <2>6. OneCurrentSubscription'
    BY <2>4 DEF IInv, OneCurrentSubscription, NotCancelled
  <2>7. LicensesOfSubscriber'
    BY <2>3, <2>4 DEF IInv, LicensesOfSubscriber
  <2>8. QED
    BY <2>5, <2>6, <2>7 DEF IInv
<1>8. CASE RevokeLicense(r)
  <2>1. PICK l \in DOMAIN licenses : licenses' = [licenses EXCEPT ![l].active = FALSE]
    BY <1>8 DEF RevokeLicense
  <2> DEFINE row == [licenses[l] EXCEPT !.active = FALSE]
  <2>2. /\ row \in License
        /\ row.company = licenses[l].company
        /\ row.subscription = licenses[l].subscription
        /\ l \in 1 .. Len(licenses)
    BY <1>1 DEF License
  <2>3. licenses' = [licenses EXCEPT ![l] = row]
    BY <1>1, <2>1
  <2> HIDE DEF row
  <2>4. /\ licenses' \in Seq(License)
        /\ Len(licenses') = Len(licenses)
        /\ \A j \in 1 .. Len(licenses) : licenses'[j] = IF j = l THEN row ELSE licenses[j]
    BY <1>1, <2>2, <2>3, ExceptSeq
  <2>5. UNCHANGED <<members, subscriptions, bypass, request>>
    BY <1>8 DEF RevokeLicense
  <2>6. TypeOK'
    BY <2>4, <2>5 DEF IInv, TypeOK
  <2>7. OneCurrentSubscription'
    BY <2>5 DEF IInv, OneCurrentSubscription, NotCancelled
  <2>8. LicensesOfSubscriber'
    BY <1>1, <2>2, <2>4, <2>5 DEF IInv, LicensesOfSubscriber
  <2>9. QED
    BY <2>6, <2>7, <2>8 DEF IInv
<1>9. QED
  BY <1>2, <1>3, <1>4, <1>5, <1>6, <1>7, <1>8 DEF Billing

LEMMA NextIInv ==
  ASSUME IInv, [Next]_vars
  PROVE  IInv'
<1>1. ASSUME NEW r \in Requests, Users(r) PROVE IInv'
  BY <1>1, UsersIInv
<1>2. ASSUME NEW r \in Requests, Billing(r) PROVE IInv'
  BY <1>2, BillingIInv
<1>3. CASE Expire
  <2>1. PICK s \in DOMAIN subscriptions :
          subscriptions' = [subscriptions EXCEPT ![s].expired = TRUE]
    BY <1>3 DEF Expire
  <2> DEFINE row == [subscriptions[s] EXCEPT !.expired = TRUE]
  <2>2. subscriptions \in Seq(Subscription) /\ subscriptions[s] \in Subscription
    BY DEF IInv, TypeOK
  <2>3. /\ row \in Subscription
        /\ row.company = subscriptions[s].company
        /\ row.status = subscriptions[s].status
        /\ row.company \in Companies
    BY <2>2 DEF Subscription
  <2>4. subscriptions' = [subscriptions EXCEPT ![s] = row]
    BY <2>1, <2>2
  <2> HIDE DEF row
  <2>5. IndexAllows(row.company, s, row.status)
    BY <2>3 DEF IInv, OneCurrentSubscription, IndexAllows, NotCancelled
  <2>6. UNCHANGED <<members, licenses, bypass, request>>
    BY <1>3 DEF Expire
  <2>7. QED
    BY <2>3, <2>4, <2>5, <2>6, IndexKeepsOne DEF IInv, TypeOK
<1>4. CASE Restart
  <2>1. TypeOK'
    BY <1>4 DEF IInv, TypeOK, Restart, Request
  <2>2. QED
    BY <1>4, <2>1, TablesAlone DEF Restart
<1>5. CASE UNCHANGED vars
  <2>1. TypeOK'
    BY <1>5 DEF IInv, TypeOK, vars
  <2>2. QED
    BY <1>5, <2>1, TablesAlone DEF vars
<1>6. QED
  BY <1>1, <1>2, <1>3, <1>4, <1>5 DEF Next

\* The inductive invariant holds in every reachable state.
THEOREM Invariance == Spec => []IInv
<1>1. Init => IInv
  BY InitIInv
<1>2. IInv /\ [Next]_vars => IInv'
  BY NextIInv
<1>3. QED
  BY <1>1, <1>2, PTL DEF Spec

\* The billing tables, the head counts and the pending work stay well typed.
THEOREM TypeCorrect == Spec => []TypeOK
<1>1. IInv => TypeOK
  BY DEF IInv
<1>2. QED
  BY <1>1, Invariance, PTL

\* However creations, edits and reactivations overlap, a company has at most
\* one subscription that is not cancelled.
THEOREM OneCurrent == Spec => []OneCurrentSubscription
<1>1. IInv => OneCurrentSubscription
  BY DEF IInv
<1>2. QED
  BY <1>1, Invariance, PTL

\* Every licence counts for the company that pays for it.
THEOREM LicensesWellPlaced == Spec => []LicensesOfSubscriber
<1>1. IInv => LicensesOfSubscriber
  BY DEF IInv
<1>2. QED
  BY <1>1, Invariance, PTL

\* Both together: a seat query and a check of the licence have one answer.
THEOREM SubscriptionsStaySound == Spec => []SubscriptionsSound
<1>1. IInv => SubscriptionsSound
  BY DEF IInv, SubscriptionsSound
<1>2. QED
  BY <1>1, Invariance, PTL

-----------------------------------------------------------------------------
(***************************************************************************)
(* What holds as long as handlers have not overlapped (MCLicensing).       *)
(***************************************************************************)
\* The seat that was counted as free still is when the user is inserted.
RoomHeld(req) == req.op = "create" => Room(req.company, req.kind)

AloneInv == alone => \A r \in Requests : RoomHeld(request[r])

LEMMA IdleHeld == RoomHeld(Idle) /\ RoomHeld(Idle)'
BY DEF RoomHeld, Idle

\* Room depends on the users, the licences and on which subscriptions are cancelled.
LEMMA RoomKept ==
  ASSUME UNCHANGED <<members, licenses, bypass>>,
         \A c : (NotCancelled(c) = {})' <=> NotCancelled(c) = {},
         NEW c, NEW k, Room(c, k)
  PROVE  Room(c, k)'
<1>1. Metered(c)' <=> Metered(c)
  BY DEF Metered, LicensesOf
<1>2. /\ Seats(c)' = Seats(c) /\ AdminCap(c)' = AdminCap(c)
      /\ SeatsUsed(c)' = SeatsUsed(c) /\ AdminsUsed(c)' = AdminsUsed(c)
  <2>1. ActiveLicenses(c)' = ActiveLicenses(c) /\ licenses' = licenses
    BY DEF ActiveLicenses, LicensesOf
  <2>2. QED
    BY <2>1 DEF Seats, AdminCap, SeatsUsed, AdminsUsed
<1>3. QED
  BY <1>1, <1>2 DEF Room, Below

LEMMA ExpiryCancelsNothing ==
  ASSUME IInv, Expire
  PROVE  \A c : (NotCancelled(c) = {})' <=> NotCancelled(c) = {}
<1>1. PICK s \in DOMAIN subscriptions :
        subscriptions' = [subscriptions EXCEPT ![s].expired = TRUE]
  BY DEF Expire
<1>2. /\ subscriptions[s] \in Subscription
      /\ \A q \in DOMAIN subscriptions : subscriptions[q] \in Subscription
  BY DEF IInv, TypeOK
<1>3. /\ DOMAIN subscriptions' = DOMAIN subscriptions
      /\ \A q \in DOMAIN subscriptions :
           /\ subscriptions'[q].company = subscriptions[q].company
           /\ subscriptions'[q].status = subscriptions[q].status
  BY <1>1, <1>2 DEF Subscription
<1>4. QED
  BY <1>3 DEF NotCancelled

LEMMA NextAlone == IInv /\ AloneInv /\ [MCNext]_<<vars, alone>> => AloneInv'
<1> SUFFICES ASSUME IInv, AloneInv, [MCNext]_<<vars, alone>>, alone',
                    NEW q \in Requests
             PROVE  RoomHeld(request[q])'
  BY DEF AloneInv
<1>1. RoomHeld(request[q]) /\ request \in [Requests -> Request]
  BY DEF MCNext, AloneInv, IInv, TypeOK
<1>2. CASE request'[q] = Idle
  BY <1>2, IdleHeld
<1>3. ASSUME NEW r \in Requests, Users(r) \/ Billing(r), Alone(r)
      PROVE  RoomHeld(request[q])'
  <2>1. ASSUME q # r PROVE request'[q] = Idle
    BY <1>1, <1>3, <2>1
       DEF Alone, Users, CreateUser, ImportEmployees, ImportRow, CommitCreate, RejectCreate,
           UpdateUser, RemoveUser, Billing, CreateSubscription, CommitSubscription,
           RejectSubscription, UpdateSubscription, SetStatus, GrantLicenses, RevokeLicense,
           Goto
  <2> SUFFICES ASSUME q = r PROVE RoomHeld(request[r])'
    BY <1>2, <2>1
  <2>2. ASSUME NEW work, Goto(r, work), work.op # "create" PROVE RoomHeld(request[r])'
    BY <1>1, <2>2 DEF Goto, RoomHeld
  <2>3. ASSUME NEW c, NEW k, NEW left, Allowed(c, k),
               Goto(r, [op |-> "create", company |-> c, kind |-> k, left |-> left]),
               UNCHANGED <<members, subscriptions, licenses, bypass>>
        PROVE  RoomHeld(request[r])'
    <3>1. Room(c, k)'
      BY <2>3, RoomKept DEF Allowed, NotCancelled
    <3>2. QED
      BY <1>1, <2>3, <3>1 DEF Goto, RoomHeld
  <2>4. \A c, left : Rest(c, left).op # "create"
    BY DEF Rest, Idle
  <2>5. CASE CreateUser(r)
    BY <2>3, <2>5 DEF CreateUser
  <2>6. CASE ImportEmployees(r)
    <3>1. PICK c, rows : Goto(r, [op |-> "import", company |-> c, left |-> rows])
      BY <2>6 DEF ImportEmployees
    <3>2. QED
      BY <2>2, <3>1
  <2>7. CASE ImportRow(r)
    <3>1. PICK c, left :
            /\ \/ Goto(r, Rest(c, left))
               \/ Goto(r, Idle)
               \/ /\ Allowed(c, "other")
                  /\ Goto(r, [op |-> "create", company |-> c, kind |-> "other",
                              left |-> left])
            /\ UNCHANGED <<members, subscriptions, licenses, bypass>>
      BY <2>7 DEF ImportRow
    <3>2. Idle.op # "create"
      BY DEF Idle
    <3>3. QED
      BY <2>2, <2>3, <2>4, <3>1, <3>2
  <2>8. CASE CommitCreate(r) \/ RejectCreate(r)
    BY <2>2, <2>4, <2>8 DEF CommitCreate, RejectCreate
  <2>9. CASE \/ UpdateUser(r) \/ RemoveUser(r) \/ UpdateSubscription(r) \/ SetStatus(r)
             \/ GrantLicenses(r) \/ RevokeLicense(r)
    BY <1>1, <2>9, IdleHeld DEF UpdateUser, RemoveUser, UpdateSubscription, SetStatus,
                                GrantLicenses, RevokeLicense
  <2>10. CASE CreateSubscription(r)
    <3>1. PICK row, n : Goto(r, [op |-> "subscribe", row |-> row, licenses |-> n])
      BY <2>10 DEF CreateSubscription
    <3>2. QED
      BY <2>2, <3>1
  <2>11. CASE CommitSubscription(r) \/ RejectSubscription(r)
    <3>1. Goto(r, Idle) /\ Idle.op # "create"
      BY <2>11 DEF CommitSubscription, RejectSubscription, Idle
    <3>2. QED
      BY <2>2, <3>1
  <2>12. QED
    BY <1>3, <2>5, <2>6, <2>7, <2>8, <2>9, <2>10, <2>11 DEF Users, Billing
<1>4. CASE Expire
  <2>1. RoomHeld(request[q])
    BY <1>1
  <2>2. /\ request' = request
        /\ \A c, k : Room(c, k) => Room(c, k)'
    BY <1>4, ExpiryCancelsNothing, RoomKept DEF Expire
  <2>3. QED
    BY <2>1, <2>2 DEF RoomHeld
<1>5. CASE UNCHANGED vars
  <2>1. \A c, k : Room(c, k) => Room(c, k)'
    BY <1>5, RoomKept DEF vars, NotCancelled
  <2>2. QED
    BY <1>1, <1>5, <2>1 DEF vars, RoomHeld
<1>6. QED
  BY <1>2, <1>3, <1>4, <1>5 DEF MCNext, Restart, vars

LEMMA MCInvariance == MCSpec => [](IInv /\ AloneInv)
<1>1. MCInit => IInv
  BY InitIInv DEF MCInit
<1>2. MCInit => AloneInv
  BY IdleHeld DEF MCInit, Init, AloneInv
<1>3. [MCNext]_<<vars, alone>> => [Next]_vars
  BY DEF MCNext, Next, vars
<1>4. IInv /\ [Next]_vars => IInv'
  BY NextIInv
<1>5. QED
  BY <1>1, <1>2, <1>3, <1>4, NextAlone, PTL DEF MCSpec

\* What licences pool is a number.
LEMMA PooledNat ==
  ASSUME NEW L, IsFiniteSet(L), NEW allowed \in [L -> Nat]
  PROVE  Pooled(allowed, L) \in Nat
<1> DEFINE places == [l \in L |-> {l} \X (1 .. allowed[l])]
           T == {{l} \X (1 .. allowed[l]) : l \in L}
<1>1. places \in Surjection(L, T)
  <2>1. places \in [L -> T] /\ \A t \in T : \E l \in L : places[l] = t
    OBVIOUS
  <2> HIDE DEF places, T
  <2>2. QED
    BY <2>1 DEF Surjection
<1>2. IsFiniteSet(T)
  <2> HIDE DEF places, T
  <2>1. QED
    BY <1>1, FS_Surjection
<1>3. \A t \in T : IsFiniteSet(t)
  <2> SUFFICES ASSUME NEW l \in L PROVE IsFiniteSet({l} \X (1 .. allowed[l]))
    OBVIOUS
  <2>1. allowed[l] \in Int
    OBVIOUS
  <2>2. IsFiniteSet(1 .. allowed[l])
    BY <2>1, FS_Interval
  <2>3. IsFiniteSet({l})
    BY FS_Singleton
  <2>4. QED
    BY <2>2, <2>3, FS_Product
<1>4. IsFiniteSet(UNION T)
  <2> HIDE DEF T
  <2>1. QED
    BY <1>2, <1>3, FS_UNION
<1>5. QED
  BY <1>4, FS_CardinalityType DEF Pooled

LEMMA CapacityNat ==
  ASSUME IInv, NEW c
  PROVE  Seats(c) \in Nat \cup {Unlimited} /\ AdminCap(c) \in Nat
<1> DEFINE L == ActiveLicenses(c)
           users == [l \in L |-> licenses[l].kind.users]
           admins == [l \in L |-> licenses[l].kind.admins]
<1>1. licenses \in Seq(License) /\ L \subseteq 1 .. Len(licenses)
  BY DEF IInv, TypeOK, ActiveLicenses, LicensesOf
<1>2. IsFiniteSet(L)
  <2>1. IsFiniteSet(1 .. Len(licenses))
    BY <1>1, FS_Interval
  <2>2. QED
    BY <1>1, <2>1, FS_Subset
<1> HIDE DEF L
<1>3. \A l \in L : /\ licenses[l].kind.users \in Nat \cup {Unlimited}
                   /\ licenses[l].kind.admins \in Nat
  <2>1. \A l \in L : licenses[l] \in License
    BY <1>1
  <2>2. \A l \in L : licenses[l].kind \in LicenseKinds
    BY <2>1 DEF License
  <2>3. QED
    BY <2>2, KindsAssumption
<1>4. AdminCap(c) \in Nat
  <2>1. admins \in [L -> Nat]
    BY <1>3
  <2>2. QED
    BY <1>2, <2>1, PooledNat DEF AdminCap, L
<1>5. CASE \E l \in L : licenses[l].kind.users = Unlimited
  BY <1>4, <1>5 DEF Seats, L
<1>6. CASE ~ \E l \in L : licenses[l].kind.users = Unlimited
  <2>1. users \in [L -> Nat]
    BY <1>3, <1>6
  <2>2. QED
    BY <1>2, <1>4, <1>6, <2>1, PooledNat DEF Seats, L
<1>7. QED
  BY <1>5, <1>6

\* As long as handlers have not overlapped, a user is added only within the pool: the
\* room that was there at the check is there at the insert.
THEOREM AddedWithRoom == MCSpec => AddedWithinCapacity
<1> DEFINE Within(r, c) == /\ Seats(c) # Unlimited => SeatsUsed(c)' <= Seats(c)
                           /\ request[r].kind = "admin" => AdminsUsed(c)' <= AdminCap(c)
           Added == alone' =>
                      \A r \in Requests, c \in Companies :
                        CommitCreate(r) /\ request[r].company = c /\ Metered(c)
                          => Within(r, c)
<1>1. IInv /\ AloneInv /\ [MCNext]_<<vars, alone>> => [Added]_vars
  <2> SUFFICES ASSUME IInv, AloneInv, MCNext, alone', NEW r \in Requests,
                      NEW c \in Companies, CommitCreate(r), request[r].company = c,
                      Metered(c)
               PROVE  Within(r, c)
    BY DEF vars
  <2>1. alone
    BY DEF MCNext
  <2>2. PICK k \in Kinds : k = request[r].kind
    <3>1. request[r] \in Request /\ request[r].op = "create"
      BY DEF CommitCreate, IInv, TypeOK
    <3>2. QED
      BY <3>1 DEF Request, Idle
  <2>3. Room(c, k) /\ members' = Joined(members, c, k)
    BY <2>1, <2>2 DEF AloneInv, RoomHeld, CommitCreate
  <2>4. members \in [Companies -> [Kinds -> Nat]]
    BY DEF IInv, TypeOK
  <2>5. /\ members[c]["admin"] \in Nat /\ members[c]["other"] \in Nat
        /\ members'[c]["admin"] + members'[c]["other"]
             = members[c]["admin"] + members[c]["other"] + 1
        /\ k = "admin" => members'[c]["admin"] = members[c]["admin"] + 1
    BY <2>3, <2>4 DEF Joined, Kinds
  <2>6. PICK seats, cap : seats = Seats(c) /\ cap = AdminCap(c)
    OBVIOUS
  <2>7. seats \in Nat \cup {Unlimited} /\ cap \in Nat
    BY <2>6, CapacityNat
  <2>8. seats # Unlimited => members[c]["admin"] + members[c]["other"] < seats
    BY <2>3, <2>6 DEF Room, Below, SeatsUsed
  <2>9. k = "admin" => members[c]["admin"] < cap
    BY <2>3, <2>6 DEF Room, AdminsUsed
  <2>10. seats # Unlimited => SeatsUsed(c)' <= seats
    BY <2>5, <2>7, <2>8 DEF SeatsUsed
  <2>11. k = "admin" => AdminsUsed(c)' <= cap
    BY <2>5, <2>7, <2>9 DEF AdminsUsed
  <2>12. QED
    BY <2>2, <2>6, <2>10, <2>11
<1>2. QED
  BY <1>1, MCInvariance, PTL DEF MCSpec, AddedWithinCapacity
=============================================================================
