---------------------------- MODULE BillingProofs ----------------------------
(***************************************************************************)
(* Proofs about Billing, for any number of users, sockets, plans and days. *)
(***************************************************************************)
EXTENDS Billing, Counting

-----------------------------------------------------------------------------
(* The invariant *)

\* The customers a user's row can name: none, or one of that user's checkouts.
CustOf(u) == {None} \cup ({u} \X (1 .. MaxCheckouts))

\* Accounts and their rows.  Whoever is about to seed a row has an account; the row
\* names one of the plans held that day, and no other user's customer.
RowInv ==
  /\ mode \in {"mock", "real"}
  /\ users \subseteq Users
  /\ subs \in [Users -> Rows \cup {NoRow}]
  /\ held \in [Users -> [Days -> SUBSET Plans]]
  /\ today \in Days
  /\ ensuring \in [Users -> SUBSET {"signup", "status"}]
  /\ \A u \in Users :
       /\ HasRow(u) => (u \in users /\ subs[u].plan \in held[u][today])
       /\ ensuring[u] # {} => u \in users
       /\ subs[u].cust \in CustOf(u)
       /\ \A d \in Days : IsFiniteSet(held[u][d])

EventRows == [type : EventTypes, user : Users, n : 1 .. MaxEvents, cust : Customers,
              plan : Plans \cup {None}, status : Statuses]

\* Stripe's events and the requests that carry them.  An event names a customer of
\* its user, a request that waits to write found that user's row, and there is one
\* request for an event.  Without a Stripe key there is nothing of this.
EventInv ==
  /\ stripe \in [Users -> [plan : Plans \cup {None}, status : Statuses \cup {None},
                           n : 0 .. MaxEvents, checkouts : 0 .. MaxCheckouts]]
  /\ events \subseteq EventRows
  /\ hooks \subseteq [event : events, user : Users, plan : Plans, status : Statuses]
  /\ inOrder \in [Users -> (0 .. MaxEvents) \cup {None}]
  /\ \A u \in Users : stripe[u].n > 0 \/ stripe[u].status # None =>
       /\ stripe[u].n > 0 /\ stripe[u].checkouts > 0
       /\ stripe[u].plan \in Plans /\ stripe[u].status \in Statuses
  /\ \A e \in events : e.cust \in {e.user} \X (1 .. MaxCheckouts) /\ e.n <= stripe[e.user].n
  /\ \A h \in hooks : h.event.type # "checkout" /\ h.user = h.event.user /\ HasRow(h.user)
  /\ \A g, h \in hooks : g.event = h.event => g = h
  /\ mode = "mock" => (events = {} /\ \A u \in Users : stripe[u].n = 0)

\* The rows that a user's events make when each is applied once, in order: the n-th
\* is the row after event n.  Stripe's record is the last of them; while inOrder
\* counts, the database has the one it names, and the only request that may be about
\* to write carries one that can come next.
HistoryRows(u) == [plan : Plans, status : Statuses, cust : CustOf(u)]

EventMakes(e, H) ==
  \/ /\ e.type = "checkout"
     /\ H[e.n] = [plan |-> e.plan, status |-> "active", cust |-> e.cust]
  \/ /\ e.type = "updated" /\ e.n > 1 /\ e.cust = H[e.n - 1].cust
     /\ H[e.n] = [plan |-> IF e.plan # None THEN e.plan ELSE H[e.n - 1].plan,
                  status |-> e.status, cust |-> e.cust]
  \/ /\ e.type = "deleted" /\ e.n > 1 /\ e.cust = H[e.n - 1].cust
     /\ H[e.n] = [plan |-> "free", status |-> "canceled", cust |-> e.cust]

HistoryOf(u, H) ==
  /\ stripe[u].n > 0 =>
       H[stripe[u].n] = [plan |-> stripe[u].plan, status |-> stripe[u].status,
                         cust |-> <<u, stripe[u].checkouts>>]
  /\ \A e \in events : e.user = u => EventMakes(e, H)
  /\ inOrder[u] # None =>
       /\ inOrder[u] <= stripe[u].n
       /\ inOrder[u] > 0 => subs[u] = H[inOrder[u]]
       /\ \A h \in hooks : h.user = u =>
            /\ \A g \in hooks : g.user = u => g = h
            /\ h.event.n \in {inOrder[u], inOrder[u] + 1} =>
                 H[h.event.n] = [plan |-> h.plan, status |-> h.status, cust |-> h.event.cust]

HistoryInv ==
  \A u \in Users : \E H \in [1 .. MaxEvents -> HistoryRows(u)] : HistoryOf(u, H)

\* Messages in the gate that may yet be counted on a day although its count has reached
\* the largest quota the row named that day: those cleared to count on it, and today
\* also those whose limit is a larger one, read before midnight.
Pending(u, d) ==
  {c \in SocketsOf(u) :
     \/ gate[c].at = "write" /\ gate[c].day = d
     \/ d = today /\ gate[c].at = "check" /\ gate[c].limit > LargestQuota(u, d)}

\* With them the day's count exceeds that quota by no more than the user's other sockets.
DayBound(u, d) ==
  usage[u][d] + Cardinality(Pending(u, d)) > 0 =>
    usage[u][d] + Cardinality(Pending(u, d))
      <= LargestQuota(u, d) + Cardinality(SocketsOf(u)) - 1

GateRows == [at : {"idle", "load", "heal", "check", "write"}, limit : Nat, day : Days]

\* The senders of the messages in the gate have accounts, and no day after today counts.
GateInv ==
  /\ usage \in [Users -> [Days -> Nat]]
  /\ gate \in [Conns -> GateRows]
  /\ passed \in [Users -> 0 .. MaxMessages]
  /\ \A c \in Conns : /\ gate[c].at # "idle" => Owner[c] \in users
                      /\ gate[c].at = "write" => gate[c].day <= today
  /\ \A u \in Users : passed[u] + InFlight(u) <= MaxMessages
  /\ \A u \in Users, d \in Days : d > today => usage[u][d] = 0
  /\ \A u \in Users, d \in Days : DayBound(u, d)

Inv == RowInv /\ EventInv /\ HistoryInv /\ GateInv

-----------------------------------------------------------------------------
(* The rows *)

\* The plans held do not shrink.
HeldGrows == \A v \in Users, d \in Days : held[v][d] \subseteq held'[v][d]

\* What SetRow does to a user with an account keeps RowInv.
LEMMA SetRowKeeps ==
  ASSUME RowInv, NEW u \in users, NEW row \in Rows, row.cust \in CustOf(u), SetRow(u, row),
         mode' = mode, users' = users, today' = today,
         ensuring' \in [Users -> SUBSET {"signup", "status"}],
         \A v \in Users : ensuring'[v] \subseteq ensuring[v]
  PROVE  /\ RowInv' /\ subs'[u] = row
         /\ \A v \in Users : v # u => subs'[v] = subs[v]
         /\ HeldGrows /\ \A v \in Users : HasRow(v) => HasRow(v)'
<1> USE BillingAssumption
<1>1. /\ u \in Users /\ row.plan \in Plans /\ row # NoRow /\ today \in Days
      /\ subs' \in [Users -> Rows \cup {NoRow}]
      /\ held' \in [Users -> [Days -> SUBSET Plans]]
      /\ subs'[u] = row /\ held'[u][today] = held[u][today] \cup {row.plan}
      /\ \A v \in Users : v # u => subs'[v] = subs[v]
      /\ \A v \in Users, d \in Days : ~(v = u /\ d = today) => held'[v][d] = held[v][d]
  BY DEF RowInv, SetRow, Rows, NoRow
<1>2. IsFiniteSet(held'[u][today])
  <2>1. IsFiniteSet(held[u][today])
    BY <1>1 DEF RowInv
  <2>2. IsFiniteSet(held[u][today] \cup {row.plan})
    BY <2>1, FS_AddElement
  <2>3. QED
    BY <1>1, <2>2
<1>3. ASSUME NEW v \in Users
      PROVE  /\ HasRow(v)' => (v \in users' /\ subs'[v].plan \in held'[v][today'])
             /\ ensuring'[v] # {} => v \in users'
             /\ subs'[v].cust \in CustOf(v)
             /\ \A d \in Days : IsFiniteSet(held'[v][d])
  <2>1. ASSUME NEW d \in Days
        PROVE  IsFiniteSet(held'[v][d])
    <3>1. CASE v = u /\ d = today
      BY <1>2, <3>1
    <3>2. CASE ~(v = u /\ d = today)
      BY <1>1, <3>2 DEF RowInv
    <3>3. QED
      BY <3>1, <3>2
  <2>2. CASE v = u
    BY <1>1, <2>1, <2>2 DEF RowInv, HasRow
  <2>3. CASE v # u
    BY <1>1, <2>1, <2>3 DEF RowInv, HasRow
  <2>4. QED
    BY <2>2, <2>3
<1>4. HeldGrows /\ \A v \in Users : HasRow(v) => HasRow(v)'
  BY <1>1 DEF HasRow, HeldGrows
<1>5. RowInv'
  BY <1>1, <1>3 DEF RowInv, CustOf
<1>6. QED
  BY <1>1, <1>4, <1>5

\* A step that leaves the table alone keeps RowInv if only accounts are to be seeded.
LEMMA RowFrame ==
  ASSUME RowInv, UNCHANGED <<mode, subs, held, today>>,
         users \subseteq users', users' \subseteq Users,
         ensuring' \in [Users -> SUBSET {"signup", "status"}],
         \A v \in Users : ensuring'[v] # {} => v \in users'
  PROVE  RowInv'
BY DEF RowInv, HasRow, CustOf

\* The free row that EnsureFree inserts.
FreeRow == [plan |-> "free", status |-> "active", cust |-> None]

\* It has the type of a row and binds no Stripe customer.
LEMMA FreeRowTyped ==
  /\ FreeRow \in Rows /\ FreeRow.plan = "free" /\ FreeRow.cust = None
  /\ \A u : FreeRow.cust \in CustOf(u)
BY BillingAssumption DEF FreeRow, Rows, Statuses, CustOf

\* EnsureFree changes nothing, or gives a user without a row the free one.
LEMMA EnsureFreeDoes ==
  ASSUME NEW u, EnsureFree(u)
  PROVE  UNCHANGED <<subs, held>> \/ (~HasRow(u) /\ SetRow(u, FreeRow))
BY DEF EnsureFree, FreeRow

\* A webhook or a mock upgrade writes a row of the plan, the status and the customer it
\* names, for a user with an account.
LEMMA UpgradeDoes ==
  ASSUME RowInv, NEW u \in Users, NEW plan, NEW status \in Statuses,
         NEW cust \in {u} \X (1 .. MaxCheckouts),
         ApplyWebhookUpgrade(u, plan, status, cust)
  PROVE  /\ u \in users /\ plan \in Plans
         /\ [plan |-> plan, status |-> status, cust |-> cust] \in Rows
         /\ cust \in CustOf(u)
         /\ SetRow(u, [plan |-> plan, status |-> status, cust |-> cust])
<1>1. cust \in Customers /\ cust # None
  BY BillingAssumption DEF Customers
<1>2. QED
  BY <1>1 DEF ApplyWebhookUpgrade, Upsert, Rows, CustOf

\* What a request finds: the row of the event's own user.
LEMMA FindsOwner ==
  ASSUME RowInv, EventInv, NEW e \in events, NEW u \in FindByStripeCustomer(e.cust)
  PROVE  u = e.user /\ u \in Users /\ HasRow(u) /\ subs[u] \in Rows /\ subs[u].cust = e.cust
<1>1. u \in Users /\ HasRow(u) /\ subs[u].cust = e.cust
  BY DEF FindByStripeCustomer
<1>2. e.cust \in Customers /\ e.cust \in {e.user} \X (1 .. MaxCheckouts)
  BY DEF EventInv, EventRows
<1>3. e.cust # None
  BY <1>2, BillingAssumption
<1>4. e.cust \in {u} \X (1 .. MaxCheckouts)
  BY <1>1, <1>3 DEF RowInv, CustOf
<1>5. QED
  BY <1>1, <1>2, <1>4 DEF RowInv, HasRow

\* No step takes a row, or a plan from those held during the day; accounts are for ever.
LEMMA RowsNext ==
  ASSUME RowInv, EventInv, GateInv, Next
  PROVE  /\ RowInv' /\ users \subseteq users'
         /\ today' = today => HeldGrows
         /\ \A v \in Users : HasRow(v) => HasRow(v)'
<1> DEFINE Stays == \A v \in Users : HasRow(v) => HasRow(v)'
<1> DEFINE Goal == RowInv' /\ users \subseteq users' /\ (today' = today => HeldGrows) /\ Stays
<1>0. /\ users \subseteq Users
      /\ ensuring \in [Users -> SUBSET {"signup", "status"}]
      /\ \A v \in Users : ensuring[v] # {} => v \in users
      /\ Owner \in [Conns -> Users]
      /\ \A c \in Conns : gate[c].at # "idle" => Owner[c] \in users
  BY BillingAssumption DEF RowInv, GateInv
<1>1. ASSUME UNCHANGED <<mode, users, subs, ensuring, held, today>>
      PROVE  Goal
  BY <1>0, <1>1, RowFrame DEF HasRow, HeldGrows
<1>2. ASSUME NEW u \in Users, EnsureFree(u), u \in users,
             mode' = mode, users' = users, today' = today,
             ensuring' \in [Users -> SUBSET {"signup", "status"}],
             \A v \in Users : ensuring'[v] \subseteq ensuring[v]
      PROVE  Goal
  <2>1. CASE UNCHANGED <<subs, held>>
    <3>1. \A v \in Users : ensuring'[v] # {} => v \in users'
      BY <1>0, <1>2
    <3>2. RowInv'
      BY <1>0, <1>2, <2>1, <3>1, RowFrame
    <3>3. QED
      BY <1>2, <2>1, <3>2 DEF HasRow, HeldGrows
  <2>2. CASE SetRow(u, FreeRow)
    BY <1>2, <2>2, FreeRowTyped, SetRowKeeps
  <2>3. QED
    BY <1>2, <2>1, <2>2, EnsureFreeDoes
<1>3. ASSUME NEW u \in Users, NEW plan, NEW status \in Statuses,
             NEW cust \in {u} \X (1 .. MaxCheckouts),
             ApplyWebhookUpgrade(u, plan, status, cust),
             UNCHANGED <<mode, users, ensuring, today>>
      PROVE  Goal
  <2>1. /\ u \in users
        /\ [plan |-> plan, status |-> status, cust |-> cust] \in Rows
        /\ cust \in CustOf(u)
        /\ SetRow(u, [plan |-> plan, status |-> status, cust |-> cust])
    BY <1>3, UpgradeDoes
  <2>2. QED
    BY <1>0, <1>3, <2>1, SetRowKeeps
<1>4. ASSUME NEW u \in Users, AccountStep(u)
      PROVE  Goal
  <2>1. CASE Signup(u)
    <3>1. /\ users' = users \cup {u} /\ UNCHANGED <<mode, subs, held, today>>
          /\ ensuring' = [ensuring EXCEPT ![u] = @ \cup {"signup"}]
      BY <2>1 DEF Signup, CreateUser
    <3>2. RowInv'
      BY <1>0, <3>1, RowFrame
    <3>3. QED
      BY <3>1, <3>2 DEF HasRow, HeldGrows
  <2>2. CASE LoadStatus(u)
    <3>1. /\ u \in users /\ UNCHANGED <<mode, users, subs, held, today>>
          /\ ensuring' = [ensuring EXCEPT ![u] = @ \cup {"status"}]
      BY <2>2 DEF LoadStatus
    <3>2. RowInv'
      BY <1>0, <3>1, RowFrame
    <3>3. QED
      BY <3>1, <3>2 DEF HasRow, HeldGrows
  <2>3. ASSUME NEW handler \in {"signup", "status"}, Seed(u, handler)
        PROVE  Goal
    <3>1. /\ ensuring' \in [Users -> SUBSET {"signup", "status"}]
          /\ \A v \in Users : ensuring'[v] \subseteq ensuring[v]
          /\ u \in users /\ UNCHANGED <<mode, users, today>>
      BY <1>0, <2>3 DEF Seed
    <3>2. CASE EnsureFree(u)
      BY <1>2, <3>1, <3>2
    <3>3. CASE UNCHANGED <<subs, held>>
      <4>1. \A v \in Users : ensuring'[v] # {} => v \in users'
        BY <1>0, <3>1
      <4>2. RowInv'
        BY <1>0, <3>1, <3>3, <4>1, RowFrame
      <4>3. QED
        BY <3>1, <3>3, <4>2 DEF HasRow, HeldGrows
    <3>4. QED
      BY <2>3, <3>2, <3>3 DEF Seed
  <2>4. ASSUME NEW plan \in Plans, MockUpgrade(u, plan)
        PROVE  Goal
    <3>1. /\ ApplyWebhookUpgrade(u, plan, "active", <<u, 1>>)
          /\ UNCHANGED <<mode, users, ensuring, today>>
      BY <2>4 DEF MockUpgrade
    <3>2. "active" \in Statuses /\ <<u, 1>> \in {u} \X (1 .. MaxCheckouts)
      BY BillingAssumption DEF Statuses
    <3>3. QED
      BY <1>3, <3>1, <3>2
  <2>5. QED
    BY <1>4, <2>1, <2>2, <2>3, <2>4 DEF AccountStep
<1>5. ASSUME NEW u \in Users, StripeStep(u)
      PROVE  Goal
  BY <1>1, <1>5 DEF StripeStep, StripePays, StripeUpdates, StripeDeletes
<1>6. ASSUME NEW c \in Conns, GateStep(c)
      PROVE  Goal
  <2>1. CASE Heal(c)
    BY <1>0, <1>2, <2>1 DEF Heal
  <2>2. CASE ~Heal(c)
    BY <1>1, <1>6, <2>2 DEF GateStep, Send, LoadSubscription, CheckQuota, Increment, GateError
  <2>3. QED
    BY <2>1, <2>2
<1>7. ASSUME NEW e \in events, BillingWebhook(e)
      PROVE  Goal
  <2>1. e.user \in Users /\ e.cust \in {e.user} \X (1 .. MaxCheckouts) /\ "active" \in Statuses
    BY DEF EventInv, EventRows, Statuses
  <2>2. CASE CheckoutCompleted(e)
    BY <1>3, <1>7, <2>1, <2>2 DEF CheckoutCompleted, BillingWebhook
  <2>3. CASE SubscriptionUpdated(e) \/ SubscriptionDeleted(e)
    BY <1>1, <1>7, <2>3 DEF SubscriptionUpdated, SubscriptionDeleted, Lookup, BillingWebhook
  <2>4. QED
    BY <1>7, <2>2, <2>3 DEF BillingWebhook
<1>8. ASSUME NEW h \in hooks, WebhookWrites(h)
      PROVE  Goal
  <2>1. /\ h.user \in Users /\ h.status \in Statuses
        /\ h.event.cust \in {h.user} \X (1 .. MaxCheckouts)
    BY DEF EventInv
  <2>2. CASE ApplyWebhookUpgrade(h.user, h.plan, h.status, h.event.cust)
    BY <1>3, <1>8, <2>1, <2>2 DEF WebhookWrites
  <2>3. CASE UNCHANGED <<subs, held>>
    BY <1>1, <1>8, <2>3 DEF WebhookWrites
  <2>4. QED
    BY <1>8, <2>2, <2>3 DEF WebhookWrites
<1>9. CASE Midnight
  <2>1. /\ UNCHANGED <<mode, users, subs, ensuring>> /\ today' = today + 1 /\ today < LastDay
        /\ held' = [u \in Users |->
             [held[u] EXCEPT ![today + 1] = IF HasRow(u) THEN {subs[u].plan} ELSE {}]]
    BY <1>9 DEF Midnight
  <2>2. /\ today' \in Days /\ today' # today /\ held \in [Users -> [Days -> SUBSET Plans]]
        /\ subs \in [Users -> Rows \cup {NoRow}]
    BY <2>1, BillingAssumption DEF RowInv, Days
  <2>3. ASSUME NEW v \in Users
        PROVE  /\ held'[v] \in [Days -> SUBSET Plans]
               /\ HasRow(v) => held'[v][today'] = {subs[v].plan}
               /\ \A d \in Days : IsFiniteSet(held'[v][d])
    <3> DEFINE new == IF HasRow(v) THEN {subs[v].plan} ELSE {}
    <3>1. new \in SUBSET Plans /\ IsFiniteSet(new)
      <4>1. HasRow(v) => subs[v].plan \in Plans
        BY <2>2 DEF HasRow, Rows
      <4>2. QED
        BY <4>1, FS_EmptySet, FS_Singleton
    <3>2. held'[v] = [held[v] EXCEPT ![today'] = new] /\ held[v] \in [Days -> SUBSET Plans]
      BY <2>1, <2>2
    <3> HIDE DEF new
    <3>3. /\ held'[v] \in [Days -> SUBSET Plans] /\ held'[v][today'] = new
          /\ \A d \in Days : d # today' => held'[v][d] = held[v][d]
      BY <2>2, <3>1, <3>2
    <3>4. \A d \in Days : IsFiniteSet(held'[v][d])
      BY <3>1, <3>3 DEF RowInv
    <3>5. QED
      BY <3>3, <3>4 DEF new
  <2>4. held' \in [Users -> [Days -> SUBSET Plans]]
    BY <2>1, <2>3
  <2>5. RowInv' /\ Stays
    BY <2>1, <2>2, <2>3, <2>4 DEF RowInv, HasRow, CustOf
  <2>6. QED
    BY <2>1, <2>2, <2>5
<1>10. QED
  BY <1>4, <1>5, <1>6, <1>7, <1>8, <1>9 DEF Next

-----------------------------------------------------------------------------
(* Stripe's events and the requests that carry them *)

\* A step of another part of the program keeps EventInv, rows being for ever.
LEMMA EventFrame ==
  ASSUME EventInv, UNCHANGED <<mode, stripe, events, hooks, inOrder>>,
         \A u \in Users : HasRow(u) => HasRow(u)'
  PROVE  EventInv'
<1>1. \A h \in hooks : HasRow(h.user)'
  BY DEF EventInv
<1>2. QED
  BY <1>1 DEF EventInv

\* What EventInv says of inOrder after the acknowledgement of e.
LEMMA AcknowledgeTyped ==
  ASSUME EventInv, NEW e \in events, Acknowledge(e)
  PROVE  /\ events' \in {events, events \ {e}}
         /\ inOrder' \in [Users -> (0 .. MaxEvents) \cup {None}]
BY DEF EventInv, EventRows, Acknowledge

\* Events may be forgotten, and requests end, as long as none is left without its event.
LEMMA EventsForgotten ==
  ASSUME EventInv, UNCHANGED <<mode, stripe>>, events' \subseteq events, hooks' \subseteq hooks,
         \A h \in hooks' : h.event \in events',
         inOrder' \in [Users -> (0 .. MaxEvents) \cup {None}],
         \A u \in Users : HasRow(u) => HasRow(u)'
  PROVE  EventInv'
<1>1. hooks' \subseteq [event : events', user : Users, plan : Plans, status : Statuses]
  <2>1. ASSUME NEW h \in hooks'
        PROVE  h \in [event : events', user : Users, plan : Plans, status : Statuses]
    <3>1. h \in [event : events, user : Users, plan : Plans, status : Statuses]
      BY DEF EventInv
    <3>2. h.event \in events'
      OBVIOUS
    <3>3. QED
      BY <3>1, <3>2
  <2>2. QED
    BY <2>1
<1>2. /\ \A h \in hooks' : h.event.type # "checkout" /\ h.user = h.event.user /\ HasRow(h.user)'
      /\ \A g, h \in hooks' : g.event = h.event => g = h
  BY DEF EventInv
<1>3. /\ stripe' = stripe /\ events' \subseteq EventRows
      /\ \A e \in events' : e.cust \in {e.user} \X (1 .. MaxCheckouts) /\ e.n <= stripe'[e.user].n
      /\ mode' = "mock" => (events' = {} /\ \A u \in Users : stripe'[u].n = 0)
  BY DEF EventInv
<1>4. \A u \in Users : stripe'[u].n > 0 \/ stripe'[u].status # None =>
        /\ stripe'[u].n > 0 /\ stripe'[u].checkouts > 0
        /\ stripe'[u].plan \in Plans /\ stripe'[u].status \in Statuses
  BY DEF EventInv
<1>5. QED
  BY <1>1, <1>2, <1>3, <1>4 DEF EventInv, EventRows

\* Stripe sends event n + 1 about a user that has a customer.
Sends(u, e, record) ==
  /\ stripe' = [stripe EXCEPT ![u] = record]
  /\ events' = events \cup {e}
  /\ record.n = stripe[u].n + 1 /\ record.plan \in Plans /\ record.status \in Statuses
  /\ record.checkouts \in 1 .. MaxCheckouts /\ record.n <= MaxEvents
  /\ e.user = u /\ e.n = record.n /\ e.cust = <<u, record.checkouts>>
  /\ e.type = "checkout" =>
       (e.plan = record.plan /\ record.status = "active")
  /\ e.type # "checkout" =>
       (stripe[u].n > 0 /\ record.checkouts = stripe[u].checkouts)
  /\ e.type = "updated" =>
       /\ e.status = record.status
       /\ record.plan = IF e.plan # None THEN e.plan ELSE stripe[u].plan
  /\ e.type = "deleted" => (record.plan = "free" /\ record.status = "canceled")
  /\ e \in EventRows /\ record \in [plan : Plans \cup {None}, status : Statuses \cup {None},
                                    n : 0 .. MaxEvents, checkouts : 0 .. MaxCheckouts]
  /\ mode = "real"
  /\ UNCHANGED <<mode, users, subs, usage, today, gate, ensuring, passed, held, hooks, inOrder>>

\* Each of Stripe's own steps sends one new event, for the record it then has.
LEMMA StripeSends ==
  ASSUME RowInv, EventInv, NEW u \in Users, StripeStep(u)
  PROVE  \E e, record : Sends(u, e, record)
<1> USE BillingAssumption
<1>0. /\ stripe[u].n \in 0 .. MaxEvents /\ stripe[u].checkouts \in 0 .. MaxCheckouts
      /\ stripe[u].plan \in Plans \cup {None} /\ stripe[u].status \in Statuses \cup {None}
      /\ stripe \in [Users -> [plan : Plans \cup {None}, status : Statuses \cup {None},
                               n : 0 .. MaxEvents, checkouts : 0 .. MaxCheckouts]]
      /\ stripe[u].n > 0 => mode = "real"
      /\ stripe[u].n > 0 \/ stripe[u].status # None =>
           (stripe[u].n > 0 /\ stripe[u].checkouts > 0)
  BY DEF EventInv, RowInv
<1>1. ASSUME NEW plan \in Plans, StripePays(u, plan)
      PROVE  \E e, record : Sends(u, e, record)
  <2> DEFINE r == [plan |-> plan, status |-> "active", n |-> stripe[u].n + 1,
                   checkouts |-> stripe[u].checkouts + 1]
             e == [type |-> "checkout", user |-> u, n |-> stripe[u].n + 1,
                   cust |-> <<u, stripe[u].checkouts + 1>>, plan |-> plan, status |-> "active"]
  <2>1. stripe' = [stripe EXCEPT ![u] = r]
    BY <1>0, <1>1 DEF StripePays
  <2>2. stripe'[u].checkouts = stripe[u].checkouts + 1
    BY <1>0, <2>1
  <2>3. StripeEvent("checkout", u, plan, "active") = e
    BY <2>2 DEF StripeEvent
  <2>4. /\ events' = events \cup {e}
        /\ stripe[u].n < MaxEvents /\ stripe[u].checkouts < MaxCheckouts /\ mode = "real"
        /\ UNCHANGED <<mode, users, subs, usage, today, gate, ensuring, passed, held, hooks, inOrder>>
    BY <1>1, <2>3 DEF StripePays, CreateCheckout
  <2>5. stripe[u].n + 1 \in 1 .. MaxEvents /\ stripe[u].checkouts + 1 \in 1 .. MaxCheckouts
    BY <1>0, <2>4
  <2>6. e \in EventRows
    BY <2>5 DEF EventRows, EventTypes, Customers, Statuses
  <2>7. Sends(u, e, r)
    BY <2>1, <2>4, <2>5, <2>6 DEF Sends, Statuses
  <2>8. QED
    BY <2>7
<1>2. ASSUME NEW type \in {"updated", "deleted"}, NEW plan \in Plans \cup {None},
             NEW status \in Statuses, NEW plan2 \in Plans,
             stripe[u].status \in {"active", "past_due"}, stripe[u].n < MaxEvents,
             stripe' = [stripe EXCEPT ![u].n = @ + 1, ![u].status = status, ![u].plan = plan2],
             events' = events \cup {StripeEvent(type, u, plan, status)},
             type = "updated" => plan2 = IF plan # None THEN plan ELSE stripe[u].plan,
             type = "deleted" => plan2 = "free" /\ status = "canceled",
             UNCHANGED <<mode, users, subs, usage, today, gate, ensuring, passed, held, hooks,
                         inOrder>>
      PROVE  \E e, record : Sends(u, e, record)
  <2> DEFINE r == [plan |-> plan2, status |-> status, n |-> stripe[u].n + 1,
                   checkouts |-> stripe[u].checkouts]
             e == [type |-> type, user |-> u, n |-> stripe[u].n + 1,
                   cust |-> <<u, stripe[u].checkouts>>, plan |-> plan, status |-> status]
  <2>1. stripe' = [stripe EXCEPT ![u] = r]
    <3>1. DOMAIN stripe' = Users /\ \A v \in Users : v # u => stripe'[v] = stripe[v]
      BY <1>0, <1>2
    <3>2. PICK row \in [plan : Plans \cup {None}, status : Statuses \cup {None},
                         n : 0 .. MaxEvents, checkouts : 0 .. MaxCheckouts] : row = stripe[u]
      BY <1>0
    <3>3. stripe'[u] = [row EXCEPT !.n = row.n + 1, !.status = status, !.plan = plan2]
      BY <1>0, <1>2, <3>2
    <3>4. stripe'[u] = r
      BY <3>2, <3>3
    <3>5. QED
      BY <1>0, <1>2, <3>1, <3>4
  <2>2. stripe'[u].checkouts = stripe[u].checkouts
    BY <1>0, <2>1
  <2>3. StripeEvent(type, u, plan, status) = e
    BY <2>2 DEF StripeEvent
  <2>4. stripe[u].status # None
    BY <1>2 DEF Statuses
  <2>5. /\ stripe[u].n + 1 \in 1 .. MaxEvents /\ stripe[u].checkouts \in 1 .. MaxCheckouts
        /\ stripe[u].n > 0 /\ mode = "real"
    BY <1>0, <1>2, <2>4
  <2>6. e \in EventRows
    BY <2>5 DEF EventRows, EventTypes, Customers
  <2>7. /\ r \in [plan : Plans \cup {None}, status : Statuses \cup {None},
                  n : 0 .. MaxEvents, checkouts : 0 .. MaxCheckouts]
        /\ r.n = stripe[u].n + 1 /\ r.plan = plan2 /\ r.status = status
        /\ r.checkouts = stripe[u].checkouts
    BY <2>5
  <2>8. /\ e.user = u /\ e.n = r.n /\ e.cust = <<u, r.checkouts>> /\ e.type = type
        /\ e.plan = plan /\ e.status = status /\ e.type # "checkout"
    OBVIOUS
  <2>9. /\ e.type = "updated" =>
             (e.status = r.status /\ r.plan = IF e.plan # None THEN e.plan ELSE stripe[u].plan)
        /\ e.type = "deleted" => (r.plan = "free" /\ r.status = "canceled")
    <3> HIDE DEF e, r
    <3>1. QED
      BY <1>2, <2>7, <2>8
  <2>10. /\ events' = events \cup {e}
         /\ UNCHANGED <<mode, users, subs, usage, today, gate, ensuring, passed, held, hooks,
                        inOrder>>
    BY <1>2, <2>3
  <2>11. Sends(u, e, r)
    <3> HIDE DEF e, r
    <3>1. QED
      BY <2>1, <2>5, <2>6, <2>7, <2>8, <2>9, <2>10 DEF Sends
  <2>12. QED
    BY <2>11
<1>3. ASSUME NEW plan \in Plans \cup {None}, NEW status \in {"active", "past_due"},
             StripeUpdates(u, plan, status)
      PROVE  \E e, record : Sends(u, e, record)
  <2>1. stripe[u].status # None /\ stripe[u].plan \in Plans
    BY <1>3 DEF EventInv, StripeUpdates, Statuses
  <2>2. status \in Statuses /\ (IF plan = None THEN stripe[u].plan ELSE plan) \in Plans
    BY <2>1 DEF Statuses
  <2>3. stripe' = [stripe EXCEPT ![u].n = @ + 1, ![u].status = status,
                     ![u].plan = IF plan = None THEN stripe[u].plan ELSE plan]
    BY <1>0, <1>3 DEF StripeUpdates
  <2>4. QED
    BY <1>2, <1>3, <2>2, <2>3 DEF StripeUpdates
<1>4. CASE StripeDeletes(u)
  BY <1>2, <1>4 DEF StripeDeletes, Statuses
<1>5. QED
  BY <1>1, <1>3, <1>4 DEF StripeStep

\* EventInv after a new event.
LEMMA SendsEventInv ==
  ASSUME RowInv, EventInv, NEW u \in Users, NEW e, NEW r, Sends(u, e, r)
  PROVE  EventInv'
<1> USE BillingAssumption
<1>1. /\ stripe' \in [Users -> [plan : Plans \cup {None}, status : Statuses \cup {None},
                                n : 0 .. MaxEvents, checkouts : 0 .. MaxCheckouts]]
      /\ stripe'[u] = r /\ \A v \in Users : v # u => stripe'[v] = stripe[v]
      /\ r.n = stripe[u].n + 1 /\ stripe[u].n \in Nat
  BY DEF Sends, EventInv
<1>2. events' \subseteq EventRows /\ events \subseteq events'
  BY DEF Sends, EventInv
<1>3. \A v \in Users : stripe'[v].n > 0 \/ stripe'[v].status # None =>
        /\ stripe'[v].n > 0 /\ stripe'[v].checkouts > 0
        /\ stripe'[v].plan \in Plans /\ stripe'[v].status \in Statuses
  BY <1>1 DEF Sends, EventInv
<1>4. \A f \in events' : f.cust \in {f.user} \X (1 .. MaxCheckouts) /\ f.n <= stripe'[f.user].n
  <2>1. ASSUME NEW f \in events
        PROVE  f.cust \in {f.user} \X (1 .. MaxCheckouts) /\ f.n <= stripe'[f.user].n
    <3>1. /\ f.user \in Users /\ f.n \in Nat /\ f.n <= stripe[f.user].n
          /\ f.cust \in {f.user} \X (1 .. MaxCheckouts)
      BY DEF EventInv, EventRows
    <3>2. CASE f.user = u
      BY <1>1, <3>1, <3>2
    <3>3. CASE f.user # u
      BY <1>1, <3>1, <3>3
    <3>4. QED
      BY <3>2, <3>3
  <2>2. e.cust \in {e.user} \X (1 .. MaxCheckouts) /\ e.n <= stripe'[e.user].n
    BY <1>1 DEF Sends
  <2>3. QED
    BY <2>1, <2>2 DEF Sends
<1>5. /\ hooks' = hooks /\ inOrder' = inOrder /\ subs' = subs /\ mode' = mode /\ mode = "real"
  BY DEF Sends
<1>6. hooks' \subseteq [event : events', user : Users, plan : Plans, status : Statuses]
  BY <1>2, <1>5 DEF EventInv
<1>7. QED
  BY <1>1, <1>2, <1>3, <1>4, <1>5, <1>6 DEF EventInv, EventRows, HasRow

\* A lookup of a known customer starts one more request, for the user of the event.
LEMMA LookupFinds ==
  ASSUME RowInv, EventInv, NEW e \in events, e.type # "checkout", NEW plan, NEW status,
         plan = subs[e.user].plan \/ plan \in Plans, status \in Statuses,
         Lookup(e, plan, status), FindByStripeCustomer(e.cust) # {}
  PROVE  /\ hooks' = hooks \cup {[event |-> e, user |-> e.user, plan |-> plan, status |-> status]}
         /\ e.user \in Users /\ HasRow(e.user) /\ plan \in Plans
         /\ \A h \in hooks : h.event # e
         /\ inOrder' = IF Overlaps(e.user) THEN [inOrder EXCEPT ![e.user] = None] ELSE inOrder
         /\ UNCHANGED <<events, subs, held>>
<1>1. PICK u \in FindByStripeCustomer(e.cust) :
        hooks' = hooks \cup {[event |-> e, user |-> u, plan |-> plan, status |-> status]}
  BY DEF Lookup
<1>2. u = e.user /\ u \in Users /\ HasRow(u) /\ subs[u] \in Rows
  BY <1>1, FindsOwner
<1>3. plan \in Plans
  BY <1>2 DEF Rows
<1>4. QED
  BY <1>1, <1>2, <1>3 DEF Lookup

\* EventInv after a lookup.
LEMMA LookupEventInv ==
  ASSUME RowInv, EventInv, NEW e \in events, e.type # "checkout", NEW plan, NEW status,
         plan = subs[e.user].plan \/ plan \in Plans, status \in Statuses,
         Lookup(e, plan, status), UNCHANGED <<mode, stripe>>, mode = "real"
  PROVE  EventInv'
<1>1. CASE FindByStripeCustomer(e.cust) = {}
  <2>1. Acknowledge(e) /\ hooks' = hooks /\ subs' = subs /\ \A h \in hooks : h.event # e
    BY <1>1 DEF Lookup
  <2>2. \A h \in hooks' : h.event \in events'
    BY <2>1, AcknowledgeTyped DEF EventInv
  <2>3. QED
    BY <2>1, <2>2, AcknowledgeTyped, EventsForgotten DEF HasRow
<1>2. CASE FindByStripeCustomer(e.cust) # {}
  <2> DEFINE new == [event |-> e, user |-> e.user, plan |-> plan, status |-> status]
  <2>1. /\ hooks' = hooks \cup {new} /\ \A h \in hooks : h.event # e
        /\ e.user \in Users /\ HasRow(e.user) /\ plan \in Plans
        /\ inOrder' = IF Overlaps(e.user) THEN [inOrder EXCEPT ![e.user] = None] ELSE inOrder
        /\ events' = events /\ subs' = subs
    BY <1>2, LookupFinds
  <2>2. new \in [event : events, user : Users, plan : Plans, status : Statuses]
    BY <2>1
  <2>3. hooks' \subseteq [event : events', user : Users, plan : Plans, status : Statuses]
    BY <2>1, <2>2 DEF EventInv
  <2>4. inOrder' \in [Users -> (0 .. MaxEvents) \cup {None}]
    BY <2>1 DEF EventInv
  <2>5. /\ new.event = e /\ new.user = e.user
    OBVIOUS
  <2>6. /\ \A h \in hooks' : h.event.type # "checkout" /\ h.user = h.event.user /\ HasRow(h.user)'
        /\ \A g, h \in hooks' : g.event = h.event => g = h
    <3> HIDE DEF new
    <3>1. QED
      BY <2>1, <2>5 DEF EventInv, HasRow
  <2>7. QED
    BY <2>1, <2>3, <2>4, <2>6 DEF EventInv, EventRows
<1>3. QED
  BY <1>1, <1>2

\* Every step keeps EventInv.
LEMMA EventNext ==
  ASSUME RowInv, EventInv, GateInv, Next
  PROVE  EventInv'
<1> USE BillingAssumption
<1>0. \A v \in Users : HasRow(v) => HasRow(v)'
  BY RowsNext
<1>1. ASSUME NEW u \in Users, AccountStep(u)
      PROVE  EventInv'
  BY <1>0, <1>1, EventFrame DEF AccountStep, Signup, LoadStatus, Seed, MockUpgrade
<1>2. ASSUME NEW u \in Users, StripeStep(u)
      PROVE  EventInv'
  BY <1>2, StripeSends, SendsEventInv
<1>3. ASSUME NEW c \in Conns, GateStep(c)
      PROVE  EventInv'
  BY <1>0, <1>3, EventFrame
     DEF GateStep, Send, LoadSubscription, Heal, CheckQuota, Increment, GateError
<1>4. ASSUME NEW e \in events, BillingWebhook(e)
      PROVE  EventInv'
  <2>0. /\ mode = "real" /\ UNCHANGED <<mode, stripe>>
        /\ e.user \in Users /\ e.status \in Statuses /\ e.plan \in Plans \cup {None}
    BY <1>4 DEF BillingWebhook, EventInv, EventRows
  <2>1. CASE CheckoutCompleted(e)
    <3>1. /\ e.type = "checkout" /\ hooks' = hooks
          /\ events' \in {events, events \ {e}}
          /\ inOrder' = [inOrder EXCEPT ![e.user] = None] \/ Acknowledge(e)
      BY <2>1 DEF CheckoutCompleted, Acknowledge
    <3>2. \A h \in hooks' : h.event \in events'
      BY <3>1 DEF EventInv
    <3>3. inOrder' \in [Users -> (0 .. MaxEvents) \cup {None}]
      <4>1. CASE Acknowledge(e)
        BY <4>1, AcknowledgeTyped
      <4>2. CASE inOrder' = [inOrder EXCEPT ![e.user] = None]
        BY <4>2 DEF EventInv
      <4>3. QED
        BY <3>1, <4>1, <4>2
    <3>4. QED
      BY <1>0, <2>0, <3>1, <3>2, <3>3, EventsForgotten
  <2>2. CASE SubscriptionUpdated(e)
    BY <2>0, <2>2, LookupEventInv DEF SubscriptionUpdated
  <2>3. CASE SubscriptionDeleted(e)
    BY <2>0, <2>3, LookupEventInv DEF SubscriptionDeleted, Statuses
  <2>4. QED
    BY <1>4, <2>1, <2>2, <2>3 DEF BillingWebhook
<1>5. ASSUME NEW h \in hooks, WebhookWrites(h)
      PROVE  EventInv'
  <2>1. /\ hooks' = hooks \ {h} /\ UNCHANGED <<mode, stripe>>
        /\ h.event \in events
        /\ Acknowledge(h.event) \/ UNCHANGED <<events, inOrder>>
    BY <1>5 DEF WebhookWrites, EventInv
  <2>2. CASE Acknowledge(h.event)
    <3>1. \A g \in hooks' : g.event \in events /\ g.event # h.event
      BY <2>1 DEF EventInv
    <3>2. \A g \in hooks' : g.event \in events'
      BY <2>1, <2>2, <3>1, AcknowledgeTyped
    <3>3. QED
      BY <1>0, <2>1, <2>2, <3>2, AcknowledgeTyped, EventsForgotten
  <2>3. CASE UNCHANGED <<events, inOrder>>
    <3>1. \A g \in hooks' : g.event \in events'
      BY <2>1, <2>3 DEF EventInv
    <3>2. inOrder' \in [Users -> (0 .. MaxEvents) \cup {None}]
      BY <2>3 DEF EventInv
    <3>3. QED
      BY <1>0, <2>1, <2>3, <3>1, <3>2, EventsForgotten
  <2>4. QED
    BY <2>1, <2>2, <2>3
<1>6. CASE Midnight
  BY <1>0, <1>6, EventFrame DEF Midnight
<1>7. QED
  BY <1>1, <1>2, <1>3, <1>4, <1>5, <1>6 DEF Next

-----------------------------------------------------------------------------
(* The rows that the events make *)

\* A history is still one when events and requests go, the row stays, and inOrder stays
\* or gives up.
LEMMA HistoryKept ==
  ASSUME NEW v, NEW H, HistoryOf(v, H), stripe'[v] = stripe[v], events' \subseteq events,
         inOrder'[v] # None =>
           /\ inOrder'[v] = inOrder[v]
           /\ \A h \in hooks' : h.user = v => h \in hooks
           /\ inOrder[v] > 0 => subs'[v] = subs[v]
  PROVE  HistoryOf(v, H)'
<1>1. /\ stripe'[v].n > 0 =>
           H[stripe'[v].n] = [plan |-> stripe'[v].plan, status |-> stripe'[v].status,
                              cust |-> <<v, stripe'[v].checkouts>>]
      /\ \A e \in events' : e.user = v => EventMakes(e, H)
  BY DEF HistoryOf
<1>2. ASSUME inOrder'[v] # None
      PROVE  /\ inOrder'[v] <= stripe'[v].n
             /\ inOrder'[v] > 0 => subs'[v] = H[inOrder'[v]]
             /\ \A h \in hooks' : h.user = v =>
                  /\ \A g \in hooks' : g.user = v => g = h
                  /\ h.event.n \in {inOrder'[v], inOrder'[v] + 1} =>
                       H[h.event.n] = [plan |-> h.plan, status |-> h.status, cust |-> h.event.cust]
  BY <1>2 DEF HistoryOf
<1>3. QED
  BY <1>1, <1>2 DEF HistoryOf, EventMakes

\* The next event extends the history of its user by the row it makes.
LEMMA HistoryExtended ==
  ASSUME RowInv, EventInv, NEW u \in Users, NEW e, NEW r, Sends(u, e, r),
         NEW H \in [1 .. MaxEvents -> HistoryRows(u)], HistoryOf(u, H)
  PROVE  \E G \in [1 .. MaxEvents -> HistoryRows(u)] : HistoryOf(u, G)'
<1> USE BillingAssumption
<1> DEFINE n == stripe[u].n
           row == [plan |-> r.plan, status |-> r.status, cust |-> <<u, r.checkouts>>]
<1>1. /\ n \in Nat /\ n + 1 \in 1 .. MaxEvents /\ r.n = n + 1 /\ e.n = n + 1
      /\ stripe'[u] = r
  BY DEF Sends, EventInv
<1>2. row \in HistoryRows(u)
  BY DEF Sends, HistoryRows, CustOf
<1>3. PICK G \in [1 .. MaxEvents -> HistoryRows(u)] :
        G[n + 1] = row /\ \A k \in 1 .. n : G[k] = H[k]
  <2>1. /\ [H EXCEPT ![n + 1] = row] \in [1 .. MaxEvents -> HistoryRows(u)]
        /\ [H EXCEPT ![n + 1] = row][n + 1] = row
        /\ \A k \in 1 .. n : [H EXCEPT ![n + 1] = row][k] = H[k]
    BY <1>1, <1>2
  <2>2. QED
    BY <2>1
<1>4. \A f \in events : f.user = u => EventMakes(f, G)
  <2>1. ASSUME NEW f \in events, f.user = u
        PROVE  EventMakes(f, G)
    <3>1. f.n \in 1 .. n /\ EventMakes(f, H)
      BY <2>1 DEF EventInv, EventRows, HistoryOf
    <3>2. G[f.n] = H[f.n] /\ (f.n > 1 => G[f.n - 1] = H[f.n - 1])
      <4>1. f.n > 1 => f.n - 1 \in 1 .. n
        BY <1>1, <3>1
      <4>2. QED
        BY <1>3, <3>1, <4>1
    <3>3. QED
      BY <3>1, <3>2 DEF EventMakes
  <2>2. QED
    BY <2>1
<1>5. EventMakes(e, G)
  <2>1. CASE e.type = "checkout"
    BY <1>1, <1>3, <2>1 DEF Sends, EventMakes
  <2>2. CASE e.type # "checkout"
    <3>1. n > 0 /\ r.checkouts = stripe[u].checkouts /\ e.cust = <<u, r.checkouts>>
      BY <2>2 DEF Sends
    <3>2. H[n] = [plan |-> stripe[u].plan, status |-> stripe[u].status,
                  cust |-> <<u, stripe[u].checkouts>>]
      BY <3>1 DEF HistoryOf
    <3>3. n \in 1 .. n /\ e.n - 1 = n /\ e.n > 1
      BY <1>1, <3>1, SMTT(30)
    <3>4. G[e.n - 1].plan = stripe[u].plan /\ G[e.n - 1].cust = e.cust
      BY <1>3, <3>1, <3>2, <3>3
    <3>5. G[e.n] = [plan |-> r.plan, status |-> r.status, cust |-> e.cust]
      BY <1>1, <1>3, <3>1
    <3>6. e.type \in {"updated", "deleted"}
      BY <2>2 DEF Sends, EventRows, EventTypes
    <3>7. /\ e.type = "updated" =>
               (e.status = r.status /\ r.plan = IF e.plan # None THEN e.plan ELSE stripe[u].plan)
          /\ e.type = "deleted" => (r.plan = "free" /\ r.status = "canceled")
      BY DEF Sends
    <3>8. QED
      BY <3>3, <3>4, <3>5, <3>6, <3>7 DEF EventMakes
  <2>3. QED
    BY <2>1, <2>2
<1>6. ASSUME inOrder[u] # None
      PROVE  /\ inOrder[u] <= n + 1
             /\ inOrder[u] > 0 => subs[u] = G[inOrder[u]]
             /\ \A h \in hooks : h.user = u =>
                  /\ \A g \in hooks : g.user = u => g = h
                  /\ h.event.n \in {inOrder[u], inOrder[u] + 1} =>
                       G[h.event.n] = [plan |-> h.plan, status |-> h.status, cust |-> h.event.cust]
  <2>1. inOrder[u] \in Nat /\ inOrder[u] <= n
    BY <1>6 DEF EventInv, HistoryOf
  <2>2. inOrder[u] > 0 => subs[u] = G[inOrder[u]]
    BY <1>1, <1>3, <1>6, <2>1 DEF HistoryOf
  <2>3. ASSUME NEW h \in hooks, h.user = u
        PROVE  h.event.n \in 1 .. n
    BY <2>3 DEF EventInv, EventRows
  <2>4. QED
    BY <1>1, <1>3, <1>6, <2>1, <2>2, <2>3 DEF HistoryOf
<1>7. /\ hooks' = hooks /\ inOrder' = inOrder /\ subs' = subs /\ events' = events \cup {e}
  BY DEF Sends
<1>8. stripe'[u].n = n + 1 /\ row = [plan |-> stripe'[u].plan, status |-> stripe'[u].status,
                                     cust |-> <<u, stripe'[u].checkouts>>]
  BY <1>1
<1>9. HistoryOf(u, G)'
  <2> HIDE DEF row, n
  <2>1. /\ stripe'[u].n > 0 =>
             G[stripe'[u].n] = [plan |-> stripe'[u].plan, status |-> stripe'[u].status,
                                cust |-> <<u, stripe'[u].checkouts>>]
        /\ \A f \in events' : f.user = u => EventMakes(f, G)
    BY <1>3, <1>4, <1>5, <1>7, <1>8
  <2>2. inOrder'[u] # None =>
             /\ inOrder'[u] <= stripe'[u].n
             /\ inOrder'[u] > 0 => subs'[u] = G[inOrder'[u]]
             /\ \A h \in hooks' : h.user = u =>
                  /\ \A g \in hooks' : g.user = u => g = h
                  /\ h.event.n \in {inOrder'[u], inOrder'[u] + 1} =>
                       G[h.event.n] = [plan |-> h.plan, status |-> h.status, cust |-> h.event.cust]
    BY <1>6, <1>7, <1>8
  <2>3. QED
    BY <2>1, <2>2 DEF HistoryOf, EventMakes
<1>10. QED
  BY <1>3, <1>9

\* A request that found its customer writes the row that its event makes, if the event
\* can come next or has just been applied.
LEMMA LookupHistory ==
  ASSUME RowInv, EventInv, NEW e \in events, e.type # "checkout", NEW plan, NEW status,
         plan = subs[e.user].plan \/ plan \in Plans, status \in Statuses,
         e.type = "updated" =>
           (plan = (IF e.plan # None THEN e.plan ELSE subs[e.user].plan) /\ status = e.status),
         e.type = "deleted" => (plan = "free" /\ status = "canceled"),
         Lookup(e, plan, status), stripe' = stripe,
         NEW v \in Users, NEW H, HistoryOf(v, H)
  PROVE  HistoryOf(v, H)'
<1> USE BillingAssumption
<1>1. /\ EventMakes(e, H) \/ e.user # v
      /\ e.type \in {"updated", "deleted"} /\ e.user \in Users /\ e.n \in Nat
      /\ inOrder \in [Users -> (0 .. MaxEvents) \cup {None}]
      /\ None \notin Nat
  BY DEF HistoryOf, EventInv, EventRows, EventTypes
<1>2. ASSUME e.user = v, inOrder[v] # None, e.n \in {inOrder[v], inOrder[v] + 1}
      PROVE  /\ e.n > 1 /\ subs[v].cust = e.cust /\ HasRow(v) /\ inOrder[v] > 0
             /\ subs[v] = H[inOrder[v]]
             /\ H[e.n] = [plan |-> plan, status |-> status, cust |-> e.cust]
  <2>1. /\ e.n > 1 /\ e.cust = H[e.n - 1].cust /\ H[e.n].cust = e.cust
        /\ inOrder[v] \in Nat
    BY <1>1, <1>2 DEF EventMakes
  <2>2. inOrder[v] > 0 /\ subs[v] = H[inOrder[v]]
    BY <1>2, <2>1 DEF HistoryOf
  <2>3. e.n = inOrder[v] \/ e.n - 1 = inOrder[v]
    BY <1>1, <1>2, <2>1
  <2>4. subs[v].cust = e.cust
    BY <2>1, <2>2, <2>3
  <2>5. HasRow(v)
    <3>1. e.cust # None
      BY DEF EventInv, EventRows
    <3>2. QED
      BY <2>4, <3>1 DEF HasRow, NoRow
  <2>6. H[e.n].plan = plan /\ H[e.n] = [plan |-> H[e.n].plan, status |-> status, cust |-> e.cust]
    <3>1. CASE e.type = "deleted"
      BY <1>1, <1>2, <3>1 DEF EventMakes
    <3>2. CASE e.type = "updated"
      <4>1. /\ H[e.n] = [plan |-> IF e.plan # None THEN e.plan ELSE H[e.n - 1].plan,
                         status |-> e.status, cust |-> e.cust]
            /\ plan = IF e.plan # None THEN e.plan ELSE subs[v].plan
            /\ status = e.status
        BY <1>1, <1>2, <3>2 DEF EventMakes
      <4>2. e.plan = None => H[e.n].plan = subs[v].plan
        BY <2>2, <2>3, <4>1
      <4>3. QED
        BY <4>1, <4>2
    <3>3. QED
      BY <1>1, <3>1, <3>2
  <2>7. QED
    BY <2>1, <2>2, <2>4, <2>5, <2>6
<1>3. CASE FindByStripeCustomer(e.cust) = {}
  <2>1. Acknowledge(e) /\ hooks' = hooks /\ subs' = subs
    BY <1>3 DEF Lookup
  <2>2. ~(e.user = v /\ inOrder[v] # None /\ e.n \in {inOrder[v], inOrder[v] + 1})
    BY <1>2, <1>3 DEF FindByStripeCustomer
  <2>3. inOrder'[v] # None => inOrder'[v] = inOrder[v]
    BY <1>1, <2>1, <2>2 DEF Acknowledge
  <2>4. QED
    BY <2>1, <2>3, HistoryKept DEF Acknowledge
<1>4. CASE FindByStripeCustomer(e.cust) # {}
  <2> DEFINE new == [event |-> e, user |-> e.user, plan |-> plan, status |-> status]
  <2>1. /\ hooks' = hooks \cup {new} /\ \A h \in hooks : h.event # e
        /\ inOrder' = IF Overlaps(e.user) THEN [inOrder EXCEPT ![e.user] = None] ELSE inOrder
        /\ events' = events /\ subs' = subs
    BY <1>4, LookupFinds
  <2>2. new.event = e /\ new.user = e.user /\ new.plan = plan /\ new.status = status
    OBVIOUS
  <2> HIDE DEF new
  <2>3. CASE e.user # v
    <3>1. inOrder'[v] = inOrder[v]
      BY <1>1, <2>1, <2>3
    <3>2. QED
      BY <2>1, <2>2, <2>3, <3>1, HistoryKept
  <2>4. CASE e.user = v /\ Overlaps(v)
    <3>1. inOrder'[v] = None
      BY <1>1, <2>1, <2>4
    <3>2. QED
      BY <2>1, <3>1, HistoryKept
  <2>5. CASE e.user = v /\ ~Overlaps(v)
    <3>1. inOrder' = inOrder /\ \A h \in hooks' : h.user = v => h = new
      BY <2>1, <2>2, <2>5 DEF Overlaps
    <3>2. inOrder[v] # None /\ e.n \in {inOrder[v], inOrder[v] + 1} =>
            H[e.n] = [plan |-> new.plan, status |-> new.status, cust |-> e.cust]
      BY <1>2, <2>2, <2>5
    <3>3. inOrder'[v] # None =>
             /\ inOrder'[v] <= stripe'[v].n
             /\ inOrder'[v] > 0 => subs'[v] = H[inOrder'[v]]
             /\ \A h \in hooks' : h.user = v =>
                  /\ \A g \in hooks' : g.user = v => g = h
                  /\ h.event.n \in {inOrder'[v], inOrder'[v] + 1} =>
                       H[h.event.n] = [plan |-> h.plan, status |-> h.status, cust |-> h.event.cust]
      BY <2>1, <2>2, <3>1, <3>2 DEF HistoryOf
    <3>4. QED
      BY <2>1, <3>3 DEF HistoryOf, EventMakes
  <2>6. QED
    BY <2>3, <2>4, <2>5
<1>5. QED
  BY <1>3, <1>4

\* The write of a row that can come next: the history names it.
LEMMA WriteHistory ==
  ASSUME EventInv, NEW e \in events, Acknowledge(e), NEW v \in Users, e.user = v,
         NEW H, HistoryOf(v, H), stripe' = stripe,
         \A h \in hooks' : h.user # v,
         (inOrder[v] # None /\ e.n \in {inOrder[v], inOrder[v] + 1}) => subs'[v] = H[e.n]
  PROVE  HistoryOf(v, H)'
<1> USE BillingAssumption
<1>1. /\ inOrder \in [Users -> (0 .. MaxEvents) \cup {None}]
      /\ e.n \in 1 .. MaxEvents /\ e.n <= stripe[v].n /\ stripe[v].n \in Nat
      /\ events' \subseteq events
      /\ inOrder'[v] = IF inOrder[v] # None /\ e.n \in {inOrder[v], inOrder[v] + 1}
                       THEN e.n ELSE None
  BY DEF EventInv, EventRows, Acknowledge
<1>2. CASE inOrder[v] # None /\ e.n \in {inOrder[v], inOrder[v] + 1}
  <2>1. inOrder'[v] = e.n /\ subs'[v] = H[e.n]
    BY <1>1, <1>2
  <2>2. /\ stripe'[v].n > 0 =>
             H[stripe'[v].n] = [plan |-> stripe'[v].plan, status |-> stripe'[v].status,
                                cust |-> <<v, stripe'[v].checkouts>>]
        /\ \A f \in events' : f.user = v => EventMakes(f, H)
    BY <1>1 DEF HistoryOf
  <2>3. QED
    BY <1>1, <2>1, <2>2 DEF HistoryOf, EventMakes
<1>3. CASE ~(inOrder[v] # None /\ e.n \in {inOrder[v], inOrder[v] + 1})
  BY <1>1, <1>3, HistoryKept
<1>4. QED
  BY <1>2, <1>3

\* Steps that write no row of a user who has one keep each user's history.
LEMMA HistoryFrame ==
  ASSUME RowInv, EventInv, HistoryInv, UNCHANGED <<stripe, events, hooks, inOrder>>,
         \A u \in Users : HasRow(u) => subs'[u] = subs[u]
  PROVE  HistoryInv'
<1> SUFFICES ASSUME NEW v \in Users
             PROVE  \E H \in [1 .. MaxEvents -> HistoryRows(v)] : HistoryOf(v, H)'
  BY DEF HistoryInv, HistoryRows, CustOf
<1>1. PICK H \in [1 .. MaxEvents -> HistoryRows(v)] : HistoryOf(v, H)
  BY DEF HistoryInv
<1>2. inOrder[v] # None /\ inOrder[v] > 0 => subs'[v] = subs[v]
  <2>1. SUFFICES ASSUME inOrder[v] # None, inOrder[v] > 0
                 PROVE  HasRow(v)
    OBVIOUS
  <2>2. inOrder[v] \in 1 .. MaxEvents
    BY <2>1 DEF EventInv
  <2>3. subs[v] = H[inOrder[v]] /\ H[inOrder[v]] \in HistoryRows(v)
    BY <1>1, <2>1, <2>2 DEF HistoryOf
  <2>4. QED
    BY <2>3, BillingAssumption DEF HistoryRows, HasRow, NoRow
<1>3. HistoryOf(v, H)'
  BY <1>1, <1>2, HistoryKept
<1>4. QED
  BY <1>3

\* A row changes only in a webhook or a mock upgrade.
LEMMA RowsStay ==
  ASSUME RowInv, NEW u \in Users, HasRow(u),
         \/ \E c \in Conns : GateStep(c)
         \/ \E v \in Users : \/ Signup(v) \/ LoadStatus(v) \/ StripeStep(v)
                             \/ \E handler \in {"signup", "status"} : Seed(v, handler)
         \/ Midnight
  PROVE  subs'[u] = subs[u]
<1>1. ASSUME NEW v, EnsureFree(v)
      PROVE  subs'[u] = subs[u]
  BY <1>1, EnsureFreeDoes DEF RowInv, SetRow
<1>2. CASE \E c \in Conns : Heal(c)
  BY <1>1, <1>2 DEF Heal
<1>3. CASE \E v \in Users : \E handler \in {"signup", "status"} : Seed(v, handler)
  BY <1>1, <1>3 DEF Seed
<1>4. CASE \/ \E c \in Conns : Send(c) \/ LoadSubscription(c) \/ CheckQuota(c) \/ Increment(c)
                              \/ GateError(c)
           \/ \E v \in Users : Signup(v) \/ LoadStatus(v) \/ StripeStep(v)
           \/ Midnight
  BY <1>4, ZenonT(60) DEF Send, LoadSubscription, CheckQuota, Increment, GateError, Signup, LoadStatus,
              StripeStep, StripePays, StripeUpdates, StripeDeletes, Midnight
<1>5. QED
  BY <1>2, <1>3, <1>4 DEF GateStep

\* Every step keeps a history for each user.
LEMMA HistoryNext ==
  ASSUME RowInv, EventInv, HistoryInv, GateInv, Next
  PROVE  HistoryInv'
<1> USE BillingAssumption
<1>1. ASSUME NEW c \in Conns, GateStep(c)
      PROVE  HistoryInv'
  <2>1. UNCHANGED <<stripe, events, hooks, inOrder>>
    BY <1>1 DEF GateStep, Send, LoadSubscription, Heal, CheckQuota, Increment, GateError
  <2>2. QED
    BY <1>1, <2>1, RowsStay, HistoryFrame
<1>2. CASE Midnight
  <2>1. UNCHANGED <<stripe, events, hooks, inOrder>>
    BY <1>2 DEF Midnight
  <2>2. QED
    BY <1>2, <2>1, RowsStay, HistoryFrame
<1>3. ASSUME NEW u \in Users, AccountStep(u)
      PROVE  HistoryInv'
  <2>1. UNCHANGED <<stripe, events, hooks, inOrder>>
    BY <1>3 DEF AccountStep, Signup, LoadStatus, Seed, MockUpgrade
  <2>2. CASE ~\E plan \in Plans : MockUpgrade(u, plan)
    BY <1>3, <2>1, <2>2, RowsStay, HistoryFrame DEF AccountStep
  <2>3. CASE \E plan \in Plans : MockUpgrade(u, plan)
    <3>1. events = {} /\ hooks = {} /\ \A v \in Users : stripe[v].n = 0
      BY <2>3 DEF MockUpgrade, EventInv
    <3>2. ASSUME NEW v \in Users, NEW H \in [1 .. MaxEvents -> HistoryRows(v)], HistoryOf(v, H)
          PROVE  HistoryOf(v, H)'
      <4>1. inOrder[v] # None => inOrder[v] = 0
        BY <3>1, <3>2 DEF HistoryOf, EventInv
      <4>2. QED
        BY <2>1, <3>2, <4>1, ~(0 > 0), HistoryKept
    <3>3. QED
      BY <3>2 DEF HistoryInv, HistoryRows, CustOf
  <2>4. QED
    BY <2>2, <2>3
<1>4. ASSUME NEW u \in Users, StripeStep(u)
      PROVE  HistoryInv'
  <2>1. PICK e, r : Sends(u, e, r)
    BY <1>4, StripeSends
  <2>2. /\ \A v \in Users : v # u => stripe'[v] = stripe[v]
        /\ e.user = u /\ events' = events \cup {e} /\ UNCHANGED <<subs, hooks, inOrder>>
    BY <2>1 DEF Sends, EventInv
  <2>3. ASSUME NEW v \in Users
        PROVE  \E G \in [1 .. MaxEvents -> HistoryRows(v)] : HistoryOf(v, G)'
    <3>1. PICK H \in [1 .. MaxEvents -> HistoryRows(v)] : HistoryOf(v, H)
      BY DEF HistoryInv
    <3>2. CASE v = u
      BY <2>1, <3>1, <3>2, HistoryExtended
    <3>3. CASE v # u
      <4>1. /\ stripe'[v].n > 0 =>
                 H[stripe'[v].n] = [plan |-> stripe'[v].plan, status |-> stripe'[v].status,
                                    cust |-> <<v, stripe'[v].checkouts>>]
            /\ \A f \in events' : f.user = v => EventMakes(f, H)
        BY <2>2, <3>1, <3>3 DEF HistoryOf
      <4>2. inOrder'[v] # None =>
              /\ inOrder'[v] <= stripe'[v].n
              /\ inOrder'[v] > 0 => subs'[v] = H[inOrder'[v]]
              /\ \A h \in hooks' : h.user = v =>
                   /\ \A g \in hooks' : g.user = v => g = h
                   /\ h.event.n \in {inOrder'[v], inOrder'[v] + 1} =>
                        H[h.event.n] = [plan |-> h.plan, status |-> h.status, cust |-> h.event.cust]
        BY <2>2, <3>1, <3>3 DEF HistoryOf
      <4>3. HistoryOf(v, H)'
        BY <4>1, <4>2 DEF HistoryOf, EventMakes
      <4>4. QED
        BY <4>3
    <3>4. QED
      BY <3>2, <3>3
  <2>4. QED
    BY <2>3 DEF HistoryInv, HistoryRows, CustOf
<1>5. ASSUME NEW e \in events, BillingWebhook(e)
      PROVE  HistoryInv'
  <2>0. /\ stripe' = stripe /\ e.user \in Users
        /\ e.status \in Statuses /\ e.plan \in Plans \cup {None}
        /\ e.cust \in {e.user} \X (1 .. MaxCheckouts)
    BY <1>5 DEF BillingWebhook, EventInv, EventRows
  <2>1. ASSUME NEW v \in Users, NEW H \in [1 .. MaxEvents -> HistoryRows(v)], HistoryOf(v, H)
        PROVE  HistoryOf(v, H)'
    <3>1. CASE SubscriptionUpdated(e)
      BY <2>0, <2>1, <3>1, LookupHistory DEF SubscriptionUpdated
    <3>2. CASE SubscriptionDeleted(e)
      BY <2>0, <2>1, <3>2, LookupHistory DEF SubscriptionDeleted, Statuses
    <3>3. CASE CheckoutCompleted(e)
      <4>1. /\ e.type = "checkout" /\ hooks' = hooks /\ events' \subseteq events
            /\ ApplyWebhookUpgrade(e.user, e.plan, "active", e.cust)
            /\ IF Overlaps(e.user) THEN inOrder' = [inOrder EXCEPT ![e.user] = None]
                                   ELSE Acknowledge(e)
        BY <3>3 DEF CheckoutCompleted, Acknowledge
      <4>2. SetRow(e.user, [plan |-> e.plan, status |-> "active", cust |-> e.cust])
        BY <2>0, <4>1, UpgradeDoes DEF Statuses
      <4>3. /\ subs'[e.user] = [plan |-> e.plan, status |-> "active", cust |-> e.cust]
            /\ \A w \in Users : w # e.user => (subs'[w] = subs[w] /\ inOrder'[w] = inOrder[w])
        BY <2>0, <4>1, <4>2 DEF SetRow, RowInv, Acknowledge, EventInv
      <4>4. CASE v # e.user
        BY <2>0, <2>1, <4>1, <4>3, <4>4, HistoryKept
      <4>5. CASE v = e.user /\ Overlaps(v)
        <5>1. inOrder'[v] = None
          BY <4>1, <4>5 DEF EventInv
        <5>2. QED
          BY <2>0, <2>1, <4>1, <5>1, HistoryKept
      <4>6. CASE v = e.user /\ ~Overlaps(v)
        <5>1. H[e.n] = subs'[v]
          BY <2>1, <4>1, <4>3, <4>6 DEF HistoryOf, EventMakes
        <5>2. Acknowledge(e) /\ \A h \in hooks' : h.user # v
          BY <4>1, <4>6 DEF Overlaps
        <5>3. QED
          BY <2>0, <2>1, <4>6, <5>1, <5>2, WriteHistory
      <4>7. QED
        BY <4>4, <4>5, <4>6
    <3>4. QED
      BY <1>5, <3>1, <3>2, <3>3 DEF BillingWebhook
  <2>2. QED
    BY <2>1 DEF HistoryInv, HistoryRows, CustOf
<1>6. ASSUME NEW h \in hooks, WebhookWrites(h)
      PROVE  HistoryInv'
  <2>0. /\ stripe' = stripe /\ hooks' = hooks \ {h} /\ h.user \in Users /\ h.event \in events
        /\ h.user = h.event.user /\ h.status \in Statuses
        /\ h.event.cust \in {h.user} \X (1 .. MaxCheckouts)
    BY <1>6 DEF WebhookWrites, EventInv
  <2>1. ASSUME NEW v \in Users, NEW H \in [1 .. MaxEvents -> HistoryRows(v)], HistoryOf(v, H)
        PROVE  HistoryOf(v, H)'
    <3>1. CASE UNCHANGED <<subs, held, events, inOrder>>
      BY <2>0, <2>1, <3>1, HistoryKept
    <3>2. CASE ApplyWebhookUpgrade(h.user, h.plan, h.status, h.event.cust) /\ Acknowledge(h.event)
      <4>1. SetRow(h.user, [plan |-> h.plan, status |-> h.status, cust |-> h.event.cust])
        BY <2>0, <3>2, UpgradeDoes
      <4>2. /\ subs'[h.user] = [plan |-> h.plan, status |-> h.status, cust |-> h.event.cust]
            /\ \A w \in Users : w # h.user => (subs'[w] = subs[w] /\ inOrder'[w] = inOrder[w])
            /\ events' \subseteq events
        BY <2>0, <3>2, <4>1 DEF SetRow, RowInv, Acknowledge, EventInv
      <4>3. CASE v # h.user
        BY <2>0, <2>1, <4>2, <4>3, HistoryKept
      <4>4. CASE v = h.user /\ inOrder[v] # None
        <5>1. \A g \in hooks' : g.user # v
          BY <2>0, <2>1, <4>4 DEF HistoryOf
        <5>2. h.event.n \in {inOrder[v], inOrder[v] + 1} => subs'[v] = H[h.event.n]
          BY <2>1, <4>2, <4>4 DEF HistoryOf
        <5>3. QED
          BY <2>0, <2>1, <3>2, <4>4, <5>1, <5>2, WriteHistory
      <4>5. CASE v = h.user /\ inOrder[v] = None
        <5>1. inOrder'[v] = None
          BY <2>0, <3>2, <4>5 DEF Acknowledge, EventInv
        <5>2. QED
          BY <2>0, <2>1, <4>2, <5>1, HistoryKept
      <4>6. QED
        BY <4>3, <4>4, <4>5
    <3>3. QED
      BY <1>6, <3>1, <3>2 DEF WebhookWrites
  <2>2. QED
    BY <2>1 DEF HistoryInv, HistoryRows, CustOf
<1>7. QED
  BY <1>1, <1>2, <1>3, <1>4, <1>5, <1>6 DEF Next

-----------------------------------------------------------------------------
(* The gate *)

\* The largest quota among a set of plans, or one; LargestQuota is that of a day's plans.
QuotaOf(P) == Max({MessagesPerDay[p] : p \in P} \cup {1})

\* It is at least every plan's quota, and grows with the set.
LEMMA QuotaBounds ==
  ASSUME NEW P \in SUBSET Plans, IsFiniteSet(P)
  PROVE  /\ QuotaOf(P) \in Nat /\ QuotaOf(P) >= 1
         /\ QuotaOf(P) \in {MessagesPerDay[p] : p \in P} \cup {1}
         /\ \A p \in P : MessagesPerDay[p] <= QuotaOf(P)
<1> DEFINE S == {MessagesPerDay[p] : p \in P} \cup {1}
           X == P \cup {None}
           f == [p \in X |-> IF p = None THEN 1 ELSE MessagesPerDay[p]]
<1>1. /\ f \in [X -> Nat] /\ S = {f[p] : p \in X} /\ S \subseteq Nat /\ 1 \in S
      /\ IsFiniteSet(X)
  <2>1. None \notin P
    BY BillingAssumption
  <2>2. f \in [X -> Nat] /\ f[None] = 1 /\ \A p \in P : f[p] = MessagesPerDay[p]
    BY <2>1, BillingAssumption
  <2>3. {f[p] : p \in X} = {f[p] : p \in P} \cup {f[None]}
    OBVIOUS
  <2>4. IsFiniteSet(X)
    BY FS_AddElement
  <2> HIDE DEF f, X
  <2>5. QED
    BY <2>2, <2>3, <2>4, BillingAssumption
<1>2. \E m \in S : \A y \in S : y <= m
  <2> HIDE DEF f, S, X
  <2>1. PICK m \in {f[p] : p \in X} \cup {0} : \A y \in {f[p] : p \in X} \cup {0} : y <= m
    BY <1>1, FiniteMaximum
  <2>2. m \in S
    BY <1>1, <2>1
  <2>3. QED
    BY <1>1, <2>1, <2>2
<1>3. \E m \in S : \A y \in S : m >= y
  <2>1. PICK m \in S : \A y \in S : y <= m
    BY <1>2
  <2>2. \A y \in S : m >= y
    BY <1>1, <2>1
  <2>3. QED
    BY <2>2
<1>4. Max(S) \in S /\ \A y \in S : Max(S) >= y
  <2> HIDE DEF S
  <2>1. QED
    BY <1>3 DEF Max
<1>5. 1 \in S /\ \A p \in P : MessagesPerDay[p] \in S
  OBVIOUS
<1>6. QED
  BY <1>1, <1>4, <1>5 DEF QuotaOf

\* The largest quota grows with the plans held.
LEMMA QuotaGrows ==
  ASSUME NEW P \in SUBSET Plans, IsFiniteSet(P), NEW Q \in SUBSET Plans, IsFiniteSet(Q),
         P \subseteq Q
  PROVE  QuotaOf(P) <= QuotaOf(Q)
<1>1. /\ QuotaOf(P) \in Nat /\ QuotaOf(Q) \in Nat
      /\ QuotaOf(Q) >= 1 /\ QuotaOf(P) \in {MessagesPerDay[p] : p \in P} \cup {1}
      /\ \A p \in Q : MessagesPerDay[p] <= QuotaOf(Q)
  BY QuotaBounds
<1>2. CASE QuotaOf(P) = 1
  BY <1>1, <1>2
<1>3. CASE QuotaOf(P) # 1
  BY <1>1, <1>3
<1>4. QED
  BY <1>2, <1>3

\* Both for the plans a row named on a day.
LEMMA LargestQuotaIs ==
  ASSUME RowInv, NEW u \in Users, NEW d \in Days
  PROVE  /\ LargestQuota(u, d) \in Nat /\ LargestQuota(u, d) >= 1
         /\ \A p \in held[u][d] : MessagesPerDay[p] <= LargestQuota(u, d)
<1>1. held[u][d] \in SUBSET Plans /\ IsFiniteSet(held[u][d])
  BY DEF RowInv
<1>2. LargestQuota(u, d) = QuotaOf(held[u][d])
  BY DEF LargestQuota, QuotaOf
<1>3. QED
  BY <1>1, <1>2, QuotaBounds

\* It does not shrink when the plans held do not.
LEMMA LargestQuotaStep ==
  ASSUME RowInv, RowInv', NEW u \in Users, NEW d \in Days, held[u][d] \subseteq held'[u][d]
  PROVE  /\ LargestQuota(u, d)' \in Nat /\ LargestQuota(u, d)' >= 1
         /\ LargestQuota(u, d) <= LargestQuota(u, d)'
         /\ held[u][d] = held'[u][d] => LargestQuota(u, d) = LargestQuota(u, d)'
<1>1. /\ held[u][d] \in SUBSET Plans /\ IsFiniteSet(held[u][d])
      /\ held'[u][d] \in SUBSET Plans /\ IsFiniteSet(held'[u][d])
  BY DEF RowInv
<1>2. LargestQuota(u, d) = QuotaOf(held[u][d]) /\ LargestQuota(u, d)' = QuotaOf(held'[u][d])
  BY DEF LargestQuota, QuotaOf
<1>3. QED
  BY <1>1, <1>2, QuotaBounds, QuotaGrows

\* The messages of a user that are in the gate.
Passing(u) == {c \in Conns : Owner[c] = u /\ gate[c].at # "idle"}

\* They are finitely many, before and after a step.
LEMMA InFlightIs ==
  ASSUME NEW u
  PROVE  /\ IsFiniteSet(Passing(u)) /\ InFlight(u) = Cardinality(Passing(u)) /\ InFlight(u) \in Nat
         /\ InFlight(u)' \in Nat
<1> DEFINE P == Passing(u)'
<1>1. Passing(u) \in SUBSET Conns /\ P \in SUBSET Conns
  BY DEF Passing
<1>2. InFlight(u) = Cardinality(Passing(u)) /\ InFlight(u)' = Cardinality(P)
  BY DEF InFlight, Passing
<1> HIDE DEF P
<1>3. IsFiniteSet(Passing(u)) /\ IsFiniteSet(P)
  BY <1>1, BillingAssumption, FS_Subset
<1>4. QED
  BY <1>2, <1>3, FS_CardinalityType

\* The sets that the bound of a day counts are finite.
LEMMA CountsAreNumbers ==
  ASSUME NEW u, NEW d
  PROVE  /\ IsFiniteSet(SocketsOf(u)) /\ Cardinality(SocketsOf(u)) \in Nat
         /\ IsFiniteSet(Pending(u, d)) /\ Cardinality(Pending(u, d)) \in Nat
         /\ Cardinality(Pending(u, d)) <= Cardinality(SocketsOf(u))
<1>1. SocketsOf(u) \in SUBSET Conns /\ Pending(u, d) \in SUBSET SocketsOf(u)
  BY DEF SocketsOf, Pending
<1>2. IsFiniteSet(SocketsOf(u))
  BY <1>1, BillingAssumption, FS_Subset
<1>3. IsFiniteSet(Pending(u, d)) /\ Cardinality(Pending(u, d)) <= Cardinality(SocketsOf(u))
  BY <1>1, <1>2, FS_Subset
<1>4. QED
  BY <1>2, <1>3, FS_CardinalityType

\* The same of the next state, where the sockets are the same.
LEMMA CountsStayNumbers ==
  ASSUME NEW u, NEW d
  PROVE  /\ SocketsOf(u)' = SocketsOf(u)
         /\ Cardinality(Pending(u, d)') \in Nat
         /\ Cardinality(Pending(u, d)') <= Cardinality(SocketsOf(u))
<1> DEFINE W == Pending(u, d)'
<1>1. SocketsOf(u)' = SocketsOf(u) /\ W \in SUBSET SocketsOf(u)
  BY DEF SocketsOf, Pending
<1> HIDE DEF W
<1>2. IsFiniteSet(W) /\ Cardinality(W) <= Cardinality(SocketsOf(u))
  BY <1>1, CountsAreNumbers, FS_Subset
<1>3. QED
  BY <1>1, <1>2, FS_CardinalityType DEF W

\* A day whose counter stands still keeps its bound if its quota does not shrink and no
\* socket joins those that may yet be counted on it.
LEMMA DayStays ==
  ASSUME RowInv, RowInv', GateInv, NEW u \in Users, NEW d \in Days,
         usage'[u][d] = usage[u][d], held[u][d] \subseteq held'[u][d],
         Pending(u, d)' \subseteq Pending(u, d)
  PROVE  DayBound(u, d)'
<1> DEFINE W == Pending(u, d)'
<1>1. /\ usage[u][d] \in Nat /\ DayBound(u, d)
      /\ IsFiniteSet(Pending(u, d)) /\ Cardinality(Pending(u, d)) \in Nat
      /\ Cardinality(SocketsOf(u)) \in Nat
  BY CountsAreNumbers DEF GateInv
<1>2. /\ LargestQuota(u, d) \in Nat /\ LargestQuota(u, d)' \in Nat
      /\ LargestQuota(u, d) <= LargestQuota(u, d)'
  BY LargestQuotaIs, LargestQuotaStep
<1>3. SocketsOf(u)' = SocketsOf(u) /\ Cardinality(W) \in Nat
  BY CountsStayNumbers
<1>4. Cardinality(W) <= Cardinality(Pending(u, d))
  <2>1. W \in SUBSET Pending(u, d)
    OBVIOUS
  <2> HIDE DEF W
  <2>2. QED
    BY <1>1, <2>1, FS_Subset
<1>5. QED
  BY <1>1, <1>2, <1>3, <1>4 DEF DayBound

\* One socket moves in the gate: what that does to the number of its user's messages.
LEMMA GateCounts ==
  ASSUME NEW c \in Conns, NEW r \in GateRows, gate \in [Conns -> GateRows],
         gate' = [gate EXCEPT ![c] = r], NEW u
  PROVE  /\ u # Owner[c] => InFlight(u)' = InFlight(u)
         /\ gate[c].at # "idle" => InFlight(u)' <= InFlight(u)
         /\ (u = Owner[c] /\ gate[c].at # "idle" /\ r.at = "idle")
              => InFlight(u)' = InFlight(u) - 1
         /\ InFlight(u)' <= InFlight(u) + 1
<1>0. IsFiniteSet(Passing(u)) /\ InFlight(u) = Cardinality(Passing(u)) /\ InFlight(u) \in Nat
  BY InFlightIs
<1>1. gate'[c] = r /\ \A e \in Conns : e # c => gate'[e] = gate[e]
  OBVIOUS
<1> DEFINE P == Passing(u)'
<1>2. InFlight(u)' = Cardinality(P)
  BY DEF InFlight, Passing
<1>3. /\ P \in {Passing(u), Passing(u) \cup {c}, Passing(u) \ {c}}
      /\ u # Owner[c] => P = Passing(u)
      /\ gate[c].at # "idle" => P \in {Passing(u), Passing(u) \ {c}}
      /\ (u = Owner[c] /\ gate[c].at # "idle" /\ r.at = "idle")
           => (P = Passing(u) \ {c} /\ c \in Passing(u))
  BY <1>1 DEF Passing
<1> HIDE DEF P
<1>4. Cardinality(Passing(u) \cup {c}) \in {InFlight(u), InFlight(u) + 1}
  BY <1>0, FS_AddElement
<1>5. /\ Cardinality(Passing(u) \ {c}) \in {InFlight(u), InFlight(u) - 1}
      /\ c \in Passing(u) => Cardinality(Passing(u) \ {c}) = InFlight(u) - 1
  BY <1>0, FS_RemoveElement
<1>6. P \in {Passing(u), Passing(u) \ {c}} => Cardinality(P) <= InFlight(u)
  <2>1. CASE P = Passing(u)
    BY <1>0, <2>1
  <2>2. CASE P = Passing(u) \ {c}
    BY <1>0, <1>5, <2>2
  <2>3. QED
    BY <2>1, <2>2
<1>7. Cardinality(P) <= InFlight(u) + 1
  <2>1. CASE P = Passing(u) \cup {c}
    BY <1>0, <1>4, <2>1
  <2>2. CASE P = Passing(u)
    BY <1>0, <2>2
  <2>3. CASE P = Passing(u) \ {c}
    BY <1>0, <1>5, <2>3
  <2>4. QED
    BY <1>3, <2>1, <2>2, <2>3
<1>8. QED
  BY <1>0, <1>2, <1>3, <1>5, <1>6, <1>7

\* A step of another part keeps GateInv: accounts stay and quotas do not shrink.
LEMMA GateFrame ==
  ASSUME RowInv, RowInv', GateInv, UNCHANGED <<usage, today, gate, passed>>,
         users \subseteq users', HeldGrows
  PROVE  GateInv'
<1>1. \A u : InFlight(u)' = InFlight(u)
  BY DEF InFlight
<1>2. ASSUME NEW u \in Users, NEW d \in Days
      PROVE  DayBound(u, d)'
  <2>1. held[u][d] \subseteq held'[u][d]
    BY DEF HeldGrows
  <2>2. /\ LargestQuota(u, d) \in Nat /\ LargestQuota(u, d)' \in Nat
        /\ LargestQuota(u, d) <= LargestQuota(u, d)'
    BY <2>1, LargestQuotaIs, LargestQuotaStep
  <2>3. \A c \in Conns : gate[c].limit \in Nat
    BY DEF GateInv, GateRows
  <2>4. Pending(u, d)' \subseteq Pending(u, d)
    BY <2>2, <2>3 DEF Pending, SocketsOf
  <2>5. QED
    BY <2>1, <2>4, DayStays
<1>3. \A c \in Conns : /\ gate'[c].at # "idle" => Owner[c] \in users'
                       /\ gate'[c].at = "write" => gate'[c].day <= today'
  BY DEF GateInv
<1>4. QED
  BY <1>1, <1>2, <1>3 DEF GateInv

\* A socket moves in the gate without being cleared to count.
LEMMA GateQuiet ==
  ASSUME RowInv, RowInv', GateInv, NEW c \in Conns, NEW r \in GateRows,
         gate' = [gate EXCEPT ![c] = r], UNCHANGED <<usage, today, passed>>,
         users \subseteq users', HeldGrows,
         r.at # "write", r.at # "idle" => Owner[c] \in users',
         r.at = "check" => r.limit <= LargestQuota(Owner[c], today)',
         gate[c].at = "idle" => passed[Owner[c]] + InFlight(Owner[c]) < MaxMessages
  PROVE  GateInv'
<1>1. /\ gate \in [Conns -> GateRows] /\ Owner[c] \in Users /\ today \in Days
      /\ gate' \in [Conns -> GateRows]
      /\ gate'[c] = r /\ \A e \in Conns : e # c => gate'[e] = gate[e]
  BY BillingAssumption DEF GateInv, RowInv
<1>2. \A e \in Conns : /\ gate'[e].at # "idle" => Owner[e] \in users'
                       /\ gate'[e].at = "write" => gate'[e].day <= today'
  <2>1. ASSUME NEW e \in Conns, e # c
        PROVE  /\ gate'[e].at # "idle" => Owner[e] \in users'
               /\ gate'[e].at = "write" => gate'[e].day <= today'
    BY <1>1, <2>1 DEF GateInv
  <2>2. QED
    BY <1>1, <2>1
<1>3. ASSUME NEW u \in Users, NEW d \in Days
      PROVE  DayBound(u, d)'
  <2>1. held[u][d] \subseteq held'[u][d]
    BY DEF HeldGrows
  <2>2. /\ LargestQuota(u, d) \in Nat /\ LargestQuota(u, d)' \in Nat
        /\ LargestQuota(u, d) <= LargestQuota(u, d)'
    BY <2>1, LargestQuotaIs, LargestQuotaStep
  <2>3. \A e \in Conns : gate[e].limit \in Nat /\ gate'[e].limit \in Nat
    BY <1>1 DEF GateRows
  <2>4. ASSUME NEW e \in Pending(u, d)'
        PROVE  e \in Pending(u, d)
    <3>1. e \in SocketsOf(u) /\ e \in Conns /\ Owner[e] = u
      BY DEF Pending, SocketsOf
    <3>2. \/ gate'[e].at = "write" /\ gate'[e].day = d
          \/ d = today /\ gate'[e].at = "check" /\ gate'[e].limit > LargestQuota(u, d)'
      BY DEF Pending
    <3>3. e # c
      <4>1. CASE e = c /\ d = today /\ r.at = "check" /\ r.limit > LargestQuota(u, d)'
        BY <1>1, <2>2, <2>3, <3>1, <4>1
      <4>2. QED
        BY <1>1, <3>2, <4>1
    <3>4. gate'[e] = gate[e]
      BY <1>1, <3>1, <3>3
    <3>5. QED
      BY <2>2, <2>3, <3>1, <3>2, <3>4 DEF Pending
  <2>5. QED
    BY <2>1, <2>4, DayStays
<1>4. ASSUME NEW u \in Users
      PROVE  passed'[u] + InFlight(u)' <= MaxMessages
  <2>1. /\ passed[u] \in Nat /\ InFlight(u) \in Nat /\ MaxMessages \in Nat
        /\ passed[u] + InFlight(u) <= MaxMessages
    BY InFlightIs, BillingAssumption DEF GateInv
  <2>2. /\ InFlight(u)' \in Nat
        /\ u # Owner[c] => InFlight(u)' = InFlight(u)
        /\ gate[c].at # "idle" => InFlight(u)' <= InFlight(u)
        /\ InFlight(u)' <= InFlight(u) + 1
    BY <1>1, InFlightIs, GateCounts
  <2>3. QED
    BY <2>1, <2>2
<1>5. /\ usage' \in [Users -> [Days -> Nat]] /\ passed' \in [Users -> 0 .. MaxMessages]
      /\ \A u \in Users, d \in Days : d > today' => usage'[u][d] = 0
  BY DEF GateInv
<1>6. QED
  BY <1>1, <1>2, <1>3, <1>4, <1>5 DEF GateInv

\* A socket that is cleared to count keeps a place it had if its limit is larger than
\* the day's quota; otherwise the day's count was below that quota.
LEMMA GateCleared ==
  ASSUME RowInv, RowInv', GateInv, NEW c \in Conns, CheckQuota(c), ~Exceeded(c)
  PROVE  GateInv'
<1> DEFINE r == [gate[c] EXCEPT !.at = "write", !.day = today]
           w == Owner[c]
<1>1. /\ gate \in [Conns -> GateRows] /\ w \in Users /\ today \in Days
      /\ gate[c] \in GateRows /\ gate[c].at = "check"
      /\ UNCHANGED <<users, held, usage, today, passed>>
      /\ gate' = [gate EXCEPT ![c] = r]
  BY BillingAssumption DEF GateInv, RowInv, CheckQuota
<1>2. r \in GateRows /\ r.at = "write" /\ r.day = today
  BY <1>1 DEF GateRows
<1> HIDE DEF r
<1>3. /\ gate' \in [Conns -> GateRows]
      /\ gate'[c] = r /\ \A e \in Conns : e # c => gate'[e] = gate[e]
  BY <1>1, <1>2
<1>4. /\ gate[c].limit \in Nat /\ usage[w][today] \in Nat
      /\ usage[w][today] < gate[c].limit /\ w \in users
  BY <1>1 DEF GateInv, GateRows, Exceeded
<1>5. \A e \in Conns : /\ gate'[e].at # "idle" => Owner[e] \in users'
                       /\ gate'[e].at = "write" => gate'[e].day <= today'
  <2>1. ASSUME NEW e \in Conns, e # c
        PROVE  /\ gate'[e].at # "idle" => Owner[e] \in users'
               /\ gate'[e].at = "write" => gate'[e].day <= today'
    BY <1>1, <1>3, <2>1 DEF GateInv
  <2>2. today <= today
    BY <1>1 DEF Days
  <2>3. QED
    BY <1>1, <1>2, <1>3, <1>4, <2>1, <2>2
<1>6. ASSUME NEW u \in Users, NEW d \in Days
      PROVE  DayBound(u, d)'
  <2>1. held[u][d] = held'[u][d] /\ usage'[u][d] = usage[u][d]
    BY <1>1
  <2>2. LargestQuota(u, d)' = LargestQuota(u, d) /\ LargestQuota(u, d) \in Nat
    BY <2>1, LargestQuotaIs, LargestQuotaStep
  <2>3. ASSUME NEW e \in Pending(u, d)', e # c
        PROVE  e \in Pending(u, d)
    <3>1. e \in Conns /\ gate'[e] = gate[e]
      BY <1>3, <2>3 DEF Pending, SocketsOf
    <3>2. QED
      BY <1>1, <2>2, <3>1 DEF Pending, SocketsOf
  <2>4. CASE u = w /\ d = today /\ gate[c].limit <= LargestQuota(u, d)
    <3>1. usage[u][d] \in Nat /\ usage[u][d] < LargestQuota(u, d)
      BY <1>4, <2>2, <2>4
    <3>2. /\ SocketsOf(u)' = SocketsOf(u) /\ Cardinality(SocketsOf(u)) \in Nat
          /\ Cardinality(Pending(u, d)') \in Nat
          /\ Cardinality(Pending(u, d)') <= Cardinality(SocketsOf(u))
      BY CountsAreNumbers, CountsStayNumbers
    <3>3. QED
      BY <2>1, <2>2, <3>1, <3>2 DEF DayBound
  <2>5. CASE ~(u = w /\ d = today /\ gate[c].limit <= LargestQuota(u, d))
    <3>1. ASSUME c \in Pending(u, d)'
          PROVE  c \in Pending(u, d)
      <4>1. u = w /\ d = today
        BY <1>2, <1>3, <3>1 DEF Pending, SocketsOf
      <4>2. gate[c].limit > LargestQuota(u, d)
        BY <1>4, <2>2, <2>5, <4>1
      <4>3. QED
        BY <1>1, <4>1, <4>2 DEF Pending, SocketsOf
    <3>2. Pending(u, d)' \subseteq Pending(u, d)
      BY <2>3, <3>1
    <3>3. QED
      BY <2>1, <3>2, DayStays
  <2>6. QED
    BY <2>4, <2>5
<1>7. ASSUME NEW u \in Users
      PROVE  passed'[u] + InFlight(u)' <= MaxMessages
  <2>1. /\ passed[u] \in Nat /\ InFlight(u) \in Nat /\ MaxMessages \in Nat
        /\ passed[u] + InFlight(u) <= MaxMessages
    BY InFlightIs, BillingAssumption DEF GateInv
  <2>2. InFlight(u)' \in Nat /\ InFlight(u)' <= InFlight(u)
    BY <1>1, <1>2, InFlightIs, GateCounts
  <2>3. QED
    BY <1>1, <2>1, <2>2
<1>8. /\ usage' \in [Users -> [Days -> Nat]] /\ passed' \in [Users -> 0 .. MaxMessages]
      /\ \A u \in Users, d \in Days : d > today' => usage'[u][d] = 0
  BY <1>1 DEF GateInv
<1>9. QED
  BY <1>3, <1>5, <1>6, <1>7, <1>8 DEF GateInv

\* The increment takes the socket out of those about to count and counts it.
LEMMA GateIncrement ==
  ASSUME RowInv, RowInv', GateInv, NEW c \in Conns, Increment(c)
  PROVE  GateInv'
<1> DEFINE w == Owner[c]
           day == gate[c].day
<1>1. /\ gate \in [Conns -> GateRows] /\ w \in Users /\ day \in Days
      /\ gate[c].at = "write" /\ UNCHANGED <<users, held, today>>
      /\ gate' = [gate EXCEPT ![c] = GateIdle]
      /\ usage \in [Users -> [Days -> Nat]]
      /\ usage' = [usage EXCEPT ![w][day] = @ + 1]
      /\ passed \in [Users -> 0 .. MaxMessages]
      /\ passed' = [passed EXCEPT ![w] = @ + 1]
      /\ today \in Days /\ day <= today
  BY BillingAssumption DEF GateInv, RowInv, GateRows, Increment, IncrementBoth
<1>2. GateIdle \in GateRows /\ GateIdle.at = "idle"
  BY BillingAssumption DEF GateRows, GateIdle, Days
<1>3. /\ gate' \in [Conns -> GateRows]
      /\ gate'[c] = GateIdle /\ \A e \in Conns : e # c => gate'[e] = gate[e]
      /\ usage' \in [Users -> [Days -> Nat]]
      /\ usage'[w][day] = usage[w][day] + 1
      /\ \A u \in Users, d \in Days : ~(u = w /\ d = day) => usage'[u][d] = usage[u][d]
  BY <1>1, <1>2
<1>4. \A e \in Conns : /\ gate'[e].at # "idle" => Owner[e] \in users'
                       /\ gate'[e].at = "write" => gate'[e].day <= today'
  <2>1. ASSUME NEW e \in Conns, e # c
        PROVE  /\ gate'[e].at # "idle" => Owner[e] \in users'
               /\ gate'[e].at = "write" => gate'[e].day <= today'
    BY <1>1, <1>3, <2>1 DEF GateInv
  <2>2. QED
    BY <1>2, <1>3, <2>1
<1>5. ASSUME NEW u \in Users, NEW d \in Days
      PROVE  DayBound(u, d)'
  <2>1. held[u][d] = held'[u][d]
    BY <1>1
  <2>2. LargestQuota(u, d)' = LargestQuota(u, d) /\ LargestQuota(u, d) \in Nat
    BY <2>1, LargestQuotaIs, LargestQuotaStep
  <2>3. Pending(u, d)' = Pending(u, d) \ {c}
    <3>1. ASSUME NEW e \in Conns, e # c
          PROVE  e \in Pending(u, d)' <=> e \in Pending(u, d)
      BY <1>1, <1>3, <2>2, <3>1 DEF Pending, SocketsOf
    <3>2. c \notin Pending(u, d)'
      BY <1>2, <1>3 DEF Pending
    <3>3. Pending(u, d)' \subseteq Conns /\ Pending(u, d) \subseteq Conns
      BY DEF Pending, SocketsOf
    <3>4. QED
      BY <3>1, <3>2, <3>3
  <2>4. CASE u = w /\ d = day
    <3>1. usage'[u][d] = usage[u][d] + 1 /\ usage[u][d] \in Nat
      BY <1>1, <1>3, <2>4
    <3>2. c \in Pending(u, d)
      BY <1>1, <2>4 DEF Pending, SocketsOf
    <3>3. /\ IsFiniteSet(Pending(u, d)) /\ Cardinality(Pending(u, d)) \in Nat
          /\ Cardinality(SocketsOf(u)) \in Nat /\ SocketsOf(u)' = SocketsOf(u)
          /\ Cardinality(Pending(u, d)') \in Nat
      BY CountsAreNumbers, CountsStayNumbers
    <3>4. Cardinality(Pending(u, d)') = Cardinality(Pending(u, d)) - 1
      BY <2>3, <3>2, <3>3, FS_RemoveElement
    <3>5. DayBound(u, d)
      BY DEF GateInv
    <3>6. QED
      BY <2>2, <3>1, <3>3, <3>4, <3>5 DEF DayBound
  <2>5. CASE ~(u = w /\ d = day)
    <3>1. usage'[u][d] = usage[u][d]
      BY <1>3, <2>5
    <3>2. QED
      BY <2>1, <2>3, <3>1, DayStays
  <2>6. QED
    BY <2>4, <2>5
<1>6. ASSUME NEW u \in Users
      PROVE  passed'[u] \in 0 .. MaxMessages /\ passed'[u] + InFlight(u)' <= MaxMessages
  <2>1. /\ passed[u] \in Nat /\ InFlight(u) \in Nat /\ MaxMessages \in Nat
        /\ passed[u] + InFlight(u) <= MaxMessages
    BY InFlightIs, BillingAssumption DEF GateInv
  <2>2. /\ InFlight(u)' \in Nat
        /\ u # w => InFlight(u)' = InFlight(u)
        /\ u = w => InFlight(u)' = InFlight(u) - 1
    BY <1>1, <1>2, InFlightIs, GateCounts
  <2>3. passed'[u] = IF u = w THEN passed[u] + 1 ELSE passed[u]
    BY <1>1
  <2>4. QED
    BY <2>1, <2>2, <2>3
<1>7. passed' \in [Users -> 0 .. MaxMessages]
  BY <1>1, <1>6
<1>8. \A u \in Users, d \in Days : d > today' => usage'[u][d] = 0
  <2>1. ASSUME NEW u \in Users, NEW d \in Days, d > today
        PROVE  usage'[u][d] = 0
    <3>1. d # day
      BY <1>1, <2>1 DEF Days
    <3>2. QED
      BY <1>3, <2>1, <3>1 DEF GateInv
  <2>2. QED
    BY <1>1, <2>1
<1>9. QED
  BY <1>3, <1>4, <1>5, <1>6, <1>7, <1>8 DEF GateInv

\* At midnight a new day starts at nothing, with a quota of at least one; the limits
\* read before may all be larger than it, one for every socket.
LEMMA GateMidnight ==
  ASSUME RowInv, RowInv', GateInv, Midnight
  PROVE  GateInv'
<1>1. /\ today \in Days /\ today' \in Days /\ today' = today + 1
      /\ UNCHANGED <<usage, gate, passed, users>>
      /\ held' = [u \in Users |->
           [held[u] EXCEPT ![today + 1] = IF HasRow(u) THEN {subs[u].plan} ELSE {}]]
      /\ held \in [Users -> [Days -> SUBSET Plans]]
  BY DEF Midnight, RowInv
<1>2. ASSUME NEW u \in Users, NEW d \in Days
      PROVE  DayBound(u, d)'
  <2>1. CASE d = today'
    <3>1. usage'[u][d] = 0
      BY <1>1, <2>1 DEF GateInv, Days
    <3>2. LargestQuota(u, d)' \in Nat /\ LargestQuota(u, d)' >= 1
      <4>1. held'[u][d] \in SUBSET Plans /\ IsFiniteSet(held'[u][d])
        BY DEF RowInv
      <4>2. LargestQuota(u, d)' = QuotaOf(held'[u][d])
        BY DEF LargestQuota, QuotaOf
      <4>3. QED
        BY <4>1, <4>2, QuotaBounds
    <3>3. /\ SocketsOf(u)' = SocketsOf(u) /\ Cardinality(SocketsOf(u)) \in Nat
          /\ Cardinality(Pending(u, d)') \in Nat
          /\ Cardinality(Pending(u, d)') <= Cardinality(SocketsOf(u))
      BY CountsAreNumbers, CountsStayNumbers
    <3>4. QED
      BY <3>1, <3>2, <3>3 DEF DayBound
  <2>2. CASE d # today'
    <3>1. held[u][d] = held'[u][d] /\ usage'[u][d] = usage[u][d]
      BY <1>1, <2>2
    <3>2. LargestQuota(u, d)' = LargestQuota(u, d)
      BY <3>1, LargestQuotaStep
    <3>3. Pending(u, d)' \subseteq Pending(u, d)
      BY <1>1, <2>2, <3>2 DEF Pending, SocketsOf
    <3>4. QED
      BY <3>1, <3>3, DayStays
  <2>3. QED
    BY <2>1, <2>2
<1>3. \A u : InFlight(u)' = InFlight(u)
  BY <1>1 DEF InFlight
<1>4. \A c \in Conns : /\ gate'[c].at # "idle" => Owner[c] \in users'
                       /\ gate'[c].at = "write" => gate'[c].day <= today'
  <2>1. ASSUME NEW c \in Conns
        PROVE  gate[c].day \in Int /\ today \in Int
    BY <1>1 DEF GateInv, GateRows, Days
  <2>2. QED
    BY <1>1, <2>1 DEF GateInv
<1>5. \A u \in Users, d \in Days : d > today' => usage'[u][d] = 0
  BY <1>1 DEF GateInv, Days
<1>6. QED
  BY <1>1, <1>2, <1>3, <1>4, <1>5 DEF GateInv

\* Every step keeps GateInv.
LEMMA GateNext ==
  ASSUME RowInv, EventInv, GateInv, Next
  PROVE  GateInv'
<1>0. /\ RowInv' /\ users \subseteq users' /\ (today' = today => HeldGrows)
  BY RowsNext
<1>1. ASSUME UNCHANGED <<usage, today, gate, passed>>
      PROVE  GateInv'
  BY <1>0, <1>1, GateFrame
<1>2. CASE \/ \E u \in Users : AccountStep(u) \/ StripeStep(u)
           \/ \E e \in events : BillingWebhook(e)
           \/ \E h \in hooks : WebhookWrites(h)
  <2>1. ASSUME NEW u \in Users, AccountStep(u)
        PROVE  UNCHANGED <<usage, today, gate, passed>>
    BY <2>1 DEF AccountStep, Signup, LoadStatus, Seed, MockUpgrade
  <2>2. ASSUME NEW u \in Users, StripeStep(u)
        PROVE  UNCHANGED <<usage, today, gate, passed>>
    BY <2>2 DEF StripeStep, StripePays, StripeUpdates, StripeDeletes
  <2>3. ASSUME NEW e \in events, BillingWebhook(e)
        PROVE  UNCHANGED <<usage, today, gate, passed>>
    BY <2>3 DEF BillingWebhook
  <2>4. ASSUME NEW h \in hooks, WebhookWrites(h)
        PROVE  UNCHANGED <<usage, today, gate, passed>>
    BY <2>4 DEF WebhookWrites
  <2>5. QED
    BY <1>1, <1>2, <2>1, <2>2, <2>3, <2>4
<1>3. CASE Midnight
  BY <1>0, <1>3, GateMidnight
<1>4. ASSUME NEW c \in Conns, GateStep(c)
      PROVE  GateInv'
  <2> DEFINE w == Owner[c]
  <2>0. /\ gate \in [Conns -> GateRows] /\ gate[c] \in GateRows /\ w \in Users
        /\ gate[c].at # "idle" => w \in users
        /\ GateIdle \in GateRows /\ GateIdle.at = "idle"
        /\ today \in Days
    BY BillingAssumption DEF GateInv, RowInv, GateRows, GateIdle, Days
  <2>1. ASSUME NEW x \in {"load", "heal"},
               gate' = [gate EXCEPT ![c] = [gate[c] EXCEPT !.at = x]],
               UNCHANGED <<usage, today, passed>>, w \in users,
               gate[c].at = "idle" => passed[w] + InFlight(w) < MaxMessages
        PROVE  GateInv'
    <3>1. PICK r \in GateRows : r = [gate[c] EXCEPT !.at = x] /\ r.at = x
      <4>1. PICK g \in GateRows : g = gate[c]
        BY <2>0
      <4>2. [g EXCEPT !.at = x] \in GateRows /\ [g EXCEPT !.at = x].at = x
        BY <4>1 DEF GateRows
      <4>3. QED
        BY <4>1, <4>2
    <3>2. r.at # "write" /\ r.at # "check"
      BY <3>1
    <3>3. QED
      BY <1>0, <2>0, <2>1, <3>1, <3>2, GateQuiet
  <2>2. CASE Send(c)
    BY <2>0, <2>1, <2>2 DEF Send
  <2>3. CASE Heal(c)
    BY <2>0, <2>1, <2>3 DEF Heal
  <2>4. CASE LoadSubscription(c) /\ HasRow(w)
    <3>1. /\ subs[w].plan \in held[w][today] /\ held[w][today] \subseteq Plans
          /\ PlanLimit(w) = MessagesPerDay[subs[w].plan]
          /\ UNCHANGED <<usage, today, passed, held>> /\ gate[c].at = "load"
      BY <2>0, <2>4 DEF RowInv, PlanLimit, LoadSubscription
    <3>2. PlanLimit(w) \in Nat /\ PlanLimit(w) <= LargestQuota(w, today)'
      <4>1. MessagesPerDay[subs[w].plan] \in Nat
        BY <3>1, BillingAssumption
      <4>2. /\ LargestQuota(w, today) \in Nat
            /\ \A p \in held[w][today] : MessagesPerDay[p] <= LargestQuota(w, today)
        BY <2>0, LargestQuotaIs
      <4>3. LargestQuota(w, today)' = LargestQuota(w, today)
        BY <3>1 DEF LargestQuota
      <4>4. QED
        BY <3>1, <4>1, <4>2, <4>3
    <3>3. PICK r \in GateRows : /\ r = [gate[c] EXCEPT !.at = "check", !.limit = PlanLimit(w)]
                                /\ r.at = "check" /\ r.limit = PlanLimit(w)
      <4>1. PICK g \in GateRows : g = gate[c]
        BY <2>0
      <4>2. PICK l \in Nat : l = PlanLimit(w)
        BY <3>2
      <4>3. /\ [g EXCEPT !.at = "check", !.limit = l] \in GateRows
            /\ [g EXCEPT !.at = "check", !.limit = l].at = "check"
            /\ [g EXCEPT !.at = "check", !.limit = l].limit = l
        BY <4>1 DEF GateRows
      <4>4. QED
        BY <4>1, <4>2, <4>3
    <3>4. gate' = [gate EXCEPT ![c] = r]
      BY <2>4, <3>3 DEF LoadSubscription
    <3>5. QED
      BY <1>0, <2>0, <3>1, <3>2, <3>3, <3>4, GateQuiet
  <2>5. CASE LoadSubscription(c) /\ ~HasRow(w)
    BY <2>0, <2>1, <2>5 DEF LoadSubscription
  <2>6. ASSUME gate' = [gate EXCEPT ![c] = GateIdle], UNCHANGED <<usage, today, passed>>,
               gate[c].at # "idle"
        PROVE  GateInv'
    BY <1>0, <2>0, <2>6, GateQuiet
  <2>7. CASE CheckQuota(c) /\ Exceeded(c)
    BY <2>6, <2>7 DEF CheckQuota
  <2>8. CASE CheckQuota(c) /\ ~Exceeded(c)
    BY <1>0, <2>8, GateCleared
  <2>9. CASE Increment(c)
    BY <1>0, <2>9, GateIncrement
  <2>10. CASE GateError(c)
    BY <2>6, <2>10 DEF GateError
  <2>11. QED
    BY <1>4, <2>2, <2>3, <2>4, <2>5, <2>7, <2>8, <2>9, <2>10 DEF GateStep
<1>5. QED
  BY <1>2, <1>3, <1>4 DEF Next

-----------------------------------------------------------------------------
(* The theorems *)

\* The program starts without accounts, rows, messages or events.
LEMMA BillingStart == Init => Inv
<1> SUFFICES ASSUME Init
             PROVE  Inv
  OBVIOUS
<1> USE BillingAssumption DEF Init
<1>1. RowInv
  <2>1. NoRow.cust = None /\ \A u : ~HasRow(u) \/ u \notin Users
    BY DEF NoRow, HasRow
  <2>2. QED
    BY <2>1, FS_EmptySet DEF RowInv, CustOf, Days
<1>2. NotCustomer.n = 0 /\ NotCustomer.status = None
      /\ NotCustomer \in [plan : Plans \cup {None}, status : Statuses \cup {None},
                           n : 0 .. MaxEvents, checkouts : 0 .. MaxCheckouts]
  BY DEF NotCustomer
<1>3. EventInv
  BY <1>2, ~(0 > 0) DEF EventInv
<1>4. HistoryInv
  <2>1. ASSUME NEW v \in Users
        PROVE  \E H \in [1 .. MaxEvents -> HistoryRows(v)] : HistoryOf(v, H)
    <3>1. [plan |-> "free", status |-> "active", cust |-> None] \in HistoryRows(v)
      BY DEF HistoryRows, Statuses, CustOf
    <3>2. PICK H \in [1 .. MaxEvents -> HistoryRows(v)] : TRUE
      <4>1. [n \in 1 .. MaxEvents |-> [plan |-> "free", status |-> "active", cust |-> None]]
              \in [1 .. MaxEvents -> HistoryRows(v)]
        BY <3>1
      <4>2. QED
        BY <4>1
    <3>3. HistoryOf(v, H)
      BY <1>2, ~(0 > 0) DEF HistoryOf
    <3>4. QED
      BY <3>3
  <2>2. QED
    BY <2>1 DEF HistoryInv
<1>5. GateInv
  <2>1. GateIdle \in GateRows /\ GateIdle.at = "idle"
    BY DEF GateRows, GateIdle, Days
  <2>2. /\ usage \in [Users -> [Days -> Nat]]
        /\ gate \in [Conns -> GateRows] /\ passed \in [Users -> 0 .. MaxMessages]
        /\ \A c \in Conns : gate[c].at = "idle"
        /\ \A u \in Users : passed[u] = 0 /\ \A d \in Days : usage[u][d] = 0
    BY <2>1
  <2>3. \A u \in Users : Passing(u) = {} /\ \A d \in Days : Pending(u, d) = {}
    BY <2>2 DEF Passing, Pending, SocketsOf
  <2>4. \A u \in Users : InFlight(u) = 0
    BY <2>3, FS_EmptySet DEF InFlight, Passing
  <2>5. \A u \in Users, d \in Days : usage[u][d] = 0 /\ Cardinality(Pending(u, d)) = 0
    BY <2>2, <2>3, FS_EmptySet
  <2>6. QED
    BY <2>2, <2>4, <2>5, ~(0 + 0 > 0) DEF GateInv, DayBound
<1>6. QED
  BY <1>1, <1>3, <1>4, <1>5 DEF Inv

\* Inv is an invariant: the rows, Stripe's events and their requests, the histories they
\* spell and the gate's counts stay in step, whatever the handlers, Stripe and midnight
\* do and in whatever order.
THEOREM BillingCorrect == Spec => []Inv
<1>1. Init => Inv
  BY BillingStart
<1>2. Inv /\ [Next]_vars => Inv'
  <2>1. CASE Next
    BY <2>1, RowsNext, EventNext, HistoryNext, GateNext DEF Inv
  <2>2. ASSUME Inv, UNCHANGED vars
        PROVE  Inv'
    <3>1. RowInv'
      BY <2>2 DEF vars, Inv, RowInv, HasRow, CustOf
    <3>2. EventInv'
      BY <2>2, EventFrame DEF vars, Inv, HasRow
    <3>3. HistoryInv'
      BY <2>2, HistoryFrame DEF vars, Inv
    <3>4. GateInv'
      BY <2>2, <3>1, GateFrame DEF vars, Inv, HeldGrows
    <3>5. QED
      BY <3>1, <3>2, <3>3, <3>4 DEF Inv
  <2>3. QED
    BY <2>1, <2>2
<1>3. QED
  BY <1>1, <1>2, PTL DEF Spec

\* The variables have their types; in particular no request outlives its event, and a
\* row belongs to an account (billing.go, handler/billing.go).
THEOREM BillingTypes == Spec => []TypeOK
<1>1. Inv => TypeOK
  BY DEF Inv, RowInv, EventInv, GateInv, GateRows, TypeOK, EventRows
<1>2. QED
  BY <1>1, BillingCorrect, PTL

\* The soft cap of CheckAndIncrement: the sockets of a user that read the same counter
\* before any of them writes take it past the largest quota the row named that day by
\* at most one each but the first, and so do limits read the day before.
THEOREM DailyQuota == Spec => []OvershootBounded
<1>1. Inv => OvershootBounded
  <2> SUFFICES ASSUME Inv, NEW u \in Users, NEW d \in Days, usage[u][d] > 0
               PROVE  usage[u][d] <= LargestQuota(u, d) + Cardinality(SocketsOf(u)) - 1
    BY DEF OvershootBounded
  <2>1. /\ usage[u][d] \in Nat /\ Cardinality(Pending(u, d)) \in Nat
        /\ Cardinality(SocketsOf(u)) \in Nat
    BY CountsAreNumbers DEF Inv, GateInv
  <2>2. LargestQuota(u, d) \in Nat
    BY LargestQuotaIs DEF Inv
  <2>3. DayBound(u, d)
    BY DEF Inv, GateInv
  <2>4. QED
    BY <2>1, <2>2, <2>3 DEF DayBound
<1>2. QED
  BY <1>1, BillingCorrect, PTL

\* Stripe's events applied one after the other in their order, each perhaps several
\* times in a row, leave the row that Stripe has (handler/billing.go).
THEOREM WebhooksInOrder == Spec => []InOrderAgrees
<1>1. Inv => InOrderAgrees
  <2> SUFFICES ASSUME Inv, NEW u \in Users, inOrder[u] # None, inOrder[u] = stripe[u].n,
                      stripe[u].n > 0
               PROVE  subs[u].plan = stripe[u].plan /\ subs[u].status = stripe[u].status
    BY DEF InOrderAgrees
  <2>1. PICK H \in [1 .. MaxEvents -> HistoryRows(u)] : HistoryOf(u, H)
    BY DEF Inv, HistoryInv
  <2>2. subs[u] = [plan |-> stripe[u].plan, status |-> stripe[u].status,
                   cust |-> <<u, stripe[u].checkouts>>]
    BY <2>1 DEF HistoryOf
  <2>3. QED
    BY <2>2
<1>2. QED
  BY <1>1, BillingCorrect, PTL

\* A row that is there changes only in a webhook or a mock upgrade: EnsureFree, which
\* signups, status requests and gates run, inserts and never overwrites (store/billing.go).
THEOREM EnsureFreeIsIdempotent == Spec => OnlyWebhooksChangeRows
<1> DEFINE Step == \A u \in Users : HasRow(u) /\ subs'[u] # subs[u] =>
       (\E e \in events : BillingWebhook(e)) \/ (\E h \in hooks : WebhookWrites(h))
       \/ (\E p \in Plans : MockUpgrade(u, p))
<1>1. Inv /\ [Next]_vars => [Step]_vars
  <2> SUFFICES ASSUME Inv, Next, NEW u \in Users, HasRow(u), subs'[u] # subs[u],
                      ~\E e \in events : BillingWebhook(e),
                      ~\E h \in hooks : WebhookWrites(h)
               PROVE  \E p \in Plans : MockUpgrade(u, p)
    OBVIOUS
  <2>1. PICK v \in Users, p \in Plans : MockUpgrade(v, p)
    BY RowsStay DEF Inv, Next, AccountStep
  <2>2. v = u
    BY <2>1 DEF MockUpgrade, ApplyWebhookUpgrade, Upsert, SetRow, Inv, RowInv
  <2>3. QED
    BY <2>1, <2>2
<1>2. QED
  BY <1>1, BillingCorrect, PTL DEF Spec, OnlyWebhooksChangeRows

=============================================================================
