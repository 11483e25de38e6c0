------------------------------- MODULE Billing -------------------------------
(***************************************************************************)
(* Subscriptions and the daily message quota of the relay: the tables      *)
(* subscriptions and usage_daily (internal/store/billing.go), the service  *)
(* and the /ws gate over them (internal/billing), the webhook              *)
(* (internal/handler/billing.go) and the part of signup that subscribes a  *)
(* new account (internal/auth/account.go).                                 *)
(*                                                                         *)
(* Each SQL statement is one action, because none of these paths uses a    *)
(* transaction.  Stripe is external: it sends one event per change, keeps  *)
(* sending it until the relay answers 2xx, and promises neither order nor  *)
(* single delivery.  The n-th checkout of a user creates the customer      *)
(* <<user, n>>, since CreateCheckout passes no customer to Stripe.         *)
(* Billing periods, prices and payload bytes are left out.                 *)
(***************************************************************************)
EXTENDS Integers, FiniteSets, FiniteSetsExt

CONSTANTS
  Users,
  Conns,            \* sockets; each reads its messages in one goroutine
  Owner,            \* the user of a socket
  Plans,            \* ids of the plans table, "free" among them
  MessagesPerDay,   \* a plan's daily limit
  None,             \* NULL
  LastDay,          \* bound: days explored
  MaxMessages,      \* bound: messages a user sends
  MaxEvents,        \* bound: Stripe events about a user
  MaxCheckouts      \* bound: paid checkouts of a user

Statuses == {"active", "past_due", "canceled"}
Customers == Users \X (1 .. MaxCheckouts)

ASSUME BillingAssumption ==
  /\ IsFiniteSet(Conns)
  /\ Owner \in [Conns -> Users]
  /\ "free" \in Plans
  /\ MessagesPerDay \in [Plans -> Nat]
  /\ None \notin Plans \cup Statuses \cup Customers \cup Nat
  /\ LastDay \in Nat \ {0} /\ MaxMessages \in Nat
  /\ MaxEvents \in Nat /\ MaxCheckouts \in Nat \ {0}

VARIABLES
  mode,       \* "mock" without a Stripe key, "real" with one; fixed at start-up
  users,      \* accounts that exist
  subs,       \* subscriptions: the row of a user, NoRow when there is none
  usage,      \* usage_daily.messages
  today,
  gate,       \* locals of CheckAndIncrement on each socket
  ensuring,   \* per user, the handlers about to run EnsureFree
  passed,     \* messages the gate counted and let through, for MaxMessages
  held,       \* the plans a user's row named, day by day
  stripe,     \* Stripe's record of a user's latest subscription
  events,     \* Stripe events not yet acknowledged
  hooks,      \* webhook requests between their lookup and their write
  inOrder     \* number of the latest event applied while every delivery to
              \* the user so far was in order or a repeat of the last, and none
              \* overlapped another, else None

vars == <<mode, users, subs, usage, today, gate, ensuring, passed, held,
          stripe, events, hooks, inOrder>>

-----------------------------------------------------------------------------
(* Rows *)

Days == 1 .. LastDay
Rows == [plan : Plans, status : Statuses, cust : Customers \cup {None}]
NoRow == [plan |-> None, status |-> None, cust |-> None]
HasRow(u) == subs[u] # NoRow

GateIdle == [at |-> "idle", limit |-> 0, day |-> 1]
NotCustomer == [plan |-> None, status |-> None, n |-> 0, checkouts |-> 0]

EventTypes == {"checkout", "updated", "deleted"}

TypeOK ==
  /\ mode \in {"mock", "real"}
  /\ users \subseteq Users
  /\ subs \in [Users -> Rows \cup {NoRow}]
  /\ \A u \in Users : HasRow(u) => u \in users
  /\ usage \in [Users -> [Days -> Nat]]
  /\ today \in Days
  /\ gate \in [Conns -> [at : {"idle", "load", "heal", "check", "write"},
                         limit : Nat, day : Days]]
  /\ ensuring \in [Users -> SUBSET {"signup", "status"}]
  /\ passed \in [Users -> 0 .. MaxMessages]
  /\ held \in [Users -> [Days -> SUBSET Plans]]
  /\ stripe \in [Users -> [plan : Plans \cup {None}, status : Statuses \cup {None},
                           n : 0 .. MaxEvents, checkouts : 0 .. MaxCheckouts]]
  /\ events \subseteq [type : EventTypes, user : Users, n : 1 .. MaxEvents,
                       cust : Customers, plan : Plans \cup {None},
                       status : Statuses]
  /\ hooks \subseteq [event : events, user : Users, plan : Plans, status : Statuses]
  /\ inOrder \in [Users -> (0 .. MaxEvents) \cup {None}]

Init ==
  /\ mode \in {"mock", "real"}
  /\ users = {}
  /\ subs = [u \in Users |-> NoRow]
  /\ usage = [u \in Users |-> [d \in Days |-> 0]]
  /\ today = 1
  /\ gate = [c \in Conns |-> GateIdle]
  /\ ensuring = [u \in Users |-> {}]
  /\ passed = [u \in Users |-> 0]
  /\ held = [u \in Users |-> [d \in Days |-> {}]]
  /\ stripe = [u \in Users |-> NotCustomer]
  /\ events = {} /\ hooks = {}
  /\ inOrder = [u \in Users |-> 0]

-----------------------------------------------------------------------------
(* The subscriptions table *)

SetRow(u, row) ==
  /\ subs' = [subs EXCEPT ![u] = row]
  /\ held' = [held EXCEPT ![u][today] = @ \cup {row.plan}]

EnsureFreeOverwrites(u) ==
  SetRow(u, [plan |-> "free", status |-> "active", cust |-> None])

(* INSERT ... ON CONFLICT DO NOTHING *)
EnsureFree(u) ==
  IF HasRow(u) THEN UNCHANGED <<subs, held>>
  ELSE SetRow(u, [plan |-> "free", status |-> "active", cust |-> None])

UpsertUnchecked(u, plan, status, cust) ==
  SetRow(u, [plan |-> plan, status |-> status, cust |-> cust])

(* INSERT ... ON CONFLICT DO UPDATE; COALESCE keeps a customer id *)
Upsert(u, plan, status, cust) ==
  /\ u \in users    \* foreign key
  /\ SetRow(u, [plan |-> plan, status |-> status,
                cust |-> IF cust # None THEN cust ELSE subs[u].cust])

FindByStripeCustomer(cust) == {u \in Users : HasRow(u) /\ subs[u].cust = cust}

(* An unknown plan is an error: 400 in mock mode; in real mode 500, and    *)
(* Stripe sends the event again.                                           *)
ApplyWebhookUpgrade(u, plan, status, cust) ==
  /\ plan \in Plans
  /\ Upsert(u, plan, status, cust)

-----------------------------------------------------------------------------
(* Accounts and the self-healing free subscription *)

(* The e-mail address is unique. *)
CreateUser(u) == u \notin users /\ users' = users \cup {u}

(* EnsureFree runs after the insert and may fail, which Signup only logs. *)
Signup(u) ==
  /\ CreateUser(u)
  /\ ensuring' = [ensuring EXCEPT ![u] = @ \cup {"signup"}]
  /\ UNCHANGED <<mode, subs, usage, today, gate, passed, held, stripe,
                 events, hooks, inOrder>>

(* GET /billing/status finds no row. *)
LoadStatus(u) ==
  /\ u \in users /\ ~HasRow(u)
  /\ "status" \notin ensuring[u]
  /\ ensuring' = [ensuring EXCEPT ![u] = @ \cup {"status"}]
  /\ UNCHANGED <<mode, users, subs, usage, today, gate, passed, held, stripe, events, hooks, inOrder>>

Seed(u, handler) ==
  /\ handler \in ensuring[u]
  /\ ensuring' = [ensuring EXCEPT ![u] = @ \ {handler}]
  /\ \/ EnsureFree(u)
     \/ UNCHANGED <<subs, held>>     \* database error, or the process stops
  /\ UNCHANGED <<mode, users, usage, today, gate, passed, stripe,
                 events, hooks, inOrder>>

-----------------------------------------------------------------------------
(* The gate of /ws: Gate.CheckAndIncrement *)

InFlight(u) == Cardinality({c \in Conns : Owner[c] = u /\ gate[c].at # "idle"})

Send(c) ==
  /\ gate[c].at = "idle" /\ Owner[c] \in users
  /\ passed[Owner[c]] + InFlight(Owner[c]) < MaxMessages
  /\ gate' = [gate EXCEPT ![c].at = "load"]
  /\ UNCHANGED <<mode, users, subs, usage, today, ensuring, passed, held,
                 stripe, events, hooks, inOrder>>

(* Plans.Get: the plans table is seeded once and never changes. *)
PlanLimit(u) == MessagesPerDay[subs[u].plan]

LoadSubscription(c) ==
  /\ gate[c].at = "load"
  /\ gate' = [gate EXCEPT ![c] =
       IF HasRow(Owner[c])
       THEN [@ EXCEPT !.at = "check", !.limit = PlanLimit(Owner[c])]
       ELSE [@ EXCEPT !.at = "heal"]]
  /\ UNCHANGED <<mode, users, subs, usage, today, ensuring, passed, held,
                 stripe, events, hooks, inOrder>>

Heal(c) ==
  /\ gate[c].at = "heal"
  /\ EnsureFree(Owner[c])
  /\ gate' = [gate EXCEPT ![c].at = "load"]
  /\ UNCHANGED <<mode, users, usage, today, ensuring, passed, stripe,
                 events, hooks, inOrder>>

ExceededOffByOne(c) == usage[Owner[c]][today] > gate[c].limit

(* DayKey, MessagesForDay and the comparison *)
Exceeded(c) == usage[Owner[c]][today] >= gate[c].limit

CheckQuota(c) ==
  /\ gate[c].at = "check"
  /\ gate' = [gate EXCEPT ![c] =
       IF Exceeded(c) THEN GateIdle     \* the sender gets quota_exceeded
       ELSE [@ EXCEPT !.at = "write", !.day = today]]
  /\ UNCHANGED <<mode, users, subs, usage, today, ensuring, passed, held,
                 stripe, events, hooks, inOrder>>

(* INSERT ... ON CONFLICT DO UPDATE SET messages = messages + 1 *)
IncrementBoth(u, d) == usage' = [usage EXCEPT ![u][d] = @ + 1]

Increment(c) ==
  /\ gate[c].at = "write"
  /\ IncrementBoth(Owner[c], gate[c].day)
  /\ passed' = [passed EXCEPT ![Owner[c]] = @ + 1]
  /\ gate' = [gate EXCEPT ![c] = GateIdle]
  /\ UNCHANGED <<mode, users, subs, today, ensuring, held, stripe,
                 events, hooks, inOrder>>

(* A database error in the gate lets the message through uncounted. *)
GateError(c) ==
  /\ gate[c].at # "idle"
  /\ gate' = [gate EXCEPT ![c] = GateIdle]
  /\ UNCHANGED <<mode, users, subs, usage, today, ensuring, passed, held,
                 stripe, events, hooks, inOrder>>

Midnight ==
  /\ today < LastDay
  /\ today' = today + 1
  /\ held' = [u \in Users |->
       [held[u] EXCEPT ![today + 1] = IF HasRow(u) THEN {subs[u].plan} ELSE {}]]
  /\ UNCHANGED <<mode, users, subs, usage, gate, ensuring, passed,
                 stripe, events, hooks, inOrder>>

-----------------------------------------------------------------------------
(* Checkout and Stripe *)

(* CreateCheckout keeps nothing: the session it opens at Stripe carries    *)
(* the user and the plan, and may be paid at any later time.  In mock mode *)
(* it only returns a URL.                                                  *)
CreateCheckout(u, plan) == mode = "real" /\ u \in users /\ plan \in Plans

StripeEvent(type, u, plan, status) ==
  [type |-> type, user |-> u, n |-> stripe[u].n + 1,
   cust |-> <<u, stripe'[u].checkouts>>, plan |-> plan, status |-> status]

(* The user pays: a new customer with a new subscription *)
StripePays(u, plan) ==
  /\ CreateCheckout(u, plan)
  /\ stripe[u].n < MaxEvents /\ stripe[u].checkouts < MaxCheckouts
  /\ stripe' = [stripe EXCEPT ![u] = [plan |-> plan, status |-> "active",
                  n |-> @.n + 1, checkouts |-> @.checkouts + 1]]
  /\ events' = events \cup {StripeEvent("checkout", u, plan, "active")}
  /\ UNCHANGED <<mode, users, subs, usage, today, gate, ensuring, passed, held,
                 hooks, inOrder>>

(* A renewal fails or recovers (no plan_id in the metadata), or the plan   *)
(* of a subscription in good standing changes (with one).  An event that   *)
(* only moves the period is left out.                                      *)
StripeUpdates(u, plan, status) ==
  /\ stripe[u].status \in {"active", "past_due"}
  /\ stripe[u].n < MaxEvents
  /\ IF plan = None THEN status # stripe[u].status
     ELSE stripe[u].status = "active" /\ status = "active" /\ plan # stripe[u].plan
  /\ stripe' = [stripe EXCEPT ![u].n = @ + 1, ![u].status = status,
                              ![u].plan = IF plan = None THEN @ ELSE plan]
  /\ events' = events \cup {StripeEvent("updated", u, plan, status)}
  /\ UNCHANGED <<mode, users, subs, usage, today, gate, ensuring, passed, held,
                 hooks, inOrder>>

StripeDeletes(u) ==
  /\ stripe[u].status \in {"active", "past_due"}
  /\ stripe[u].n < MaxEvents
  /\ stripe' = [stripe EXCEPT ![u].n = @ + 1, ![u].status = "canceled",
                              ![u].plan = "free"]
  /\ events' = events \cup {StripeEvent("deleted", u, None, "canceled")}
  /\ UNCHANGED <<mode, users, subs, usage, today, gate, ensuring, passed, held,
                 hooks, inOrder>>

-----------------------------------------------------------------------------
(* POST /billing/webhook.  Stripe sends an event again after an answer or  *)
(* a time-out, so one request per event is under way.                      *)

Overlaps(u) == \E h \in hooks : h.user = u

(* Acknowledged: Stripe stops, or it has sent a copy already. *)
Acknowledge(e) ==
  /\ events' \in {events, events \ {e}}
  /\ inOrder' = [inOrder EXCEPT ![e.user] =
       IF @ # None /\ e.n \in {@, @ + 1} THEN e.n ELSE None]

(* Has nothing to look up, but may run while another request is between    *)
(* its lookup and its write.                                               *)
CheckoutCompleted(e) ==
  /\ e.type = "checkout"
  /\ ApplyWebhookUpgrade(e.user, e.plan, "active", e.cust)
  /\ IF Overlaps(e.user)
     THEN inOrder' = [inOrder EXCEPT ![e.user] = None] /\ events' \in {events, events \ {e}}
     ELSE Acknowledge(e)
  /\ UNCHANGED hooks

(* The customer is looked up; an unknown one is acknowledged and ignored.  *)
Lookup(e, plan, status) ==
  /\ ~ \E h \in hooks : h.event = e
  /\ IF FindByStripeCustomer(e.cust) = {} THEN Acknowledge(e) /\ UNCHANGED hooks
     ELSE /\ \E u \in FindByStripeCustomer(e.cust) :
               hooks' = hooks \cup {[event |-> e, user |-> u, plan |-> plan, status |-> status]}
          /\ inOrder' = IF Overlaps(e.user) THEN [inOrder EXCEPT ![e.user] = None] ELSE inOrder
          /\ UNCHANGED events
  /\ UNCHANGED <<subs, held>>

SubscriptionUpdatedKeepsPlan(e) ==
  /\ e.type = "updated"
  /\ Lookup(e, subs[e.user].plan, e.status)

(* Without a plan in the metadata the plan that was looked up is written   *)
(* back.                                                                   *)
SubscriptionUpdated(e) ==
  /\ e.type = "updated"
  /\ Lookup(e, IF e.plan # None THEN e.plan ELSE subs[e.user].plan, e.status)

SubscriptionDeleted(e) == e.type = "deleted" /\ Lookup(e, "free", "canceled")

BillingWebhook(e) ==
  /\ mode = "real" /\ e \in events
  /\ CheckoutCompleted(e) \/ SubscriptionUpdated(e) \/ SubscriptionDeleted(e)
  /\ UNCHANGED <<mode, users, usage, today, gate, ensuring, passed, stripe>>

(* The write, or a database error and a 500, after which Stripe tries      *)
(* again.                                                                  *)
WebhookWrites(h) ==
  /\ \/ ApplyWebhookUpgrade(h.user, h.plan, h.status, h.event.cust) /\ Acknowledge(h.event)
     \/ UNCHANGED <<subs, held, events, inOrder>>
  /\ hooks' = hooks \ {h}
  /\ UNCHANGED <<mode, users, usage, today, gate, ensuring, passed, stripe>>

(* X-Mock-Upgrade; the customer id is made from the user id *)
MockUpgrade(u, plan) ==
  /\ mode = "mock"
  /\ ApplyWebhookUpgrade(u, plan, "active", <<u, 1>>)
  /\ UNCHANGED <<mode, users, usage, today, gate, ensuring, passed, stripe, events, hooks, inOrder>>

-----------------------------------------------------------------------------
GateStep(c) ==
  Send(c) \/ LoadSubscription(c) \/ Heal(c) \/ CheckQuota(c) \/ Increment(c) \/ GateError(c)

AccountStep(u) ==
  \/ Signup(u) \/ LoadStatus(u)
  \/ \E handler \in {"signup", "status"} : Seed(u, handler)
  \/ \E plan \in Plans : MockUpgrade(u, plan)

StripeStep(u) ==
  \/ \E plan \in Plans : StripePays(u, plan)
  \/ \E plan \in Plans \cup {None}, status \in {"active", "past_due"} :
       StripeUpdates(u, plan, status)
  \/ StripeDeletes(u)

Next ==
  \/ \E c \in Conns : GateStep(c)
  \/ \E u \in Users : AccountStep(u) \/ StripeStep(u)
  \/ \E e \in events : BillingWebhook(e)
  \/ \E h \in hooks : WebhookWrites(h)
  \/ Midnight

Spec == Init /\ [][Next]_vars

-----------------------------------------------------------------------------
(* Properties *)

(* The soft cap of CheckAndIncrement: on no day does a user pass more      *)
(* messages than the largest quota the row named that day, plus one for    *)
(* every further socket of the user.  A plan given up during the day still *)
(* counts for that day but not for the next, although a socket may carry   *)
(* its quota, read before midnight, into the check after it.               *)
LargestQuota(u, d) == Max({MessagesPerDay[p] : p \in held[u][d]} \cup {1})
SocketsOf(u) == {c \in Conns : Owner[c] = u}

OvershootBounded ==
  \A u \in Users, d \in Days :
    usage[u][d] > 0 => usage[u][d] <= LargestQuota(u, d) + Cardinality(SocketsOf(u)) - 1

(* EnsureFree is "idempotent": a row, once there, changes only in a        *)
(* webhook.  In particular a signup, a status request or a gate that found *)
(* no row does not take away the plan that a checkout stored meanwhile.    *)
OnlyWebhooksChangeRows ==
  [][\A u \in Users : HasRow(u) /\ subs'[u] # subs[u] =>
       (\E e \in events : BillingWebhook(e)) \/ (\E h \in hooks : WebhookWrites(h))
       \/ (\E p \in Plans : MockUpgrade(u, p))]_vars

(* When Stripe's events about a user arrived one after the other, in the   *)
(* order they happened and each possibly several times in a row, the row   *)
(* agrees with Stripe, also when the user has checked out again under a    *)
(* new customer.  Two requests that overlap lose this: one writes back the *)
(* plan it looked up before the other changed it.                          *)
InOrderAgrees ==
  \A u \in Users :
    inOrder[u] # None /\ inOrder[u] = stripe[u].n /\ stripe[u].n > 0 =>
      /\ subs[u].plan = stripe[u].plan
      /\ subs[u].status = stripe[u].status

==============================================================================
