---------------------------- MODULE Subscriptions ----------------------------
(***************************************************************************)
(* How a user's subscriptions begin and end (model/subscription.go): paid  *)
(* orders, purchases from the wallet, grants by an administrator or a      *)
(* code, invalidation, deletion and the expiry pass, with the user group   *)
(* they raise and lower.  Transactions take row locks as MySQL and         *)
(* PostgreSQL do; which locks a call holds follows from its program        *)
(* counter.  A transaction shows its writes when it commits.               *)
(***************************************************************************)
EXTENDS Integers, FiniteSets

CONSTANTS
  Plan,        \* plan -> its upgrade and downgrade group, duration, limit,
               \* price and whether the wallet may pay for it
  OrderPlan,   \* order -> its plan
  SubCalls,    \* calls in progress at a time
  HomeGroup,   \* the user's group before any subscription
  Purse,       \* the user's wallet at the start
  MaxSubs,     \* bound on the subscriptions granted
  MaxClock     \* bound on time

Plans == DOMAIN Plan

Orders == DOMAIN OrderPlan

ASSUME SubscriptionsAssumption ==
  /\ \A p \in Plans : /\ Plan[p].duration \in Nat \ {0}
                      /\ Plan[p].limit \in Nat /\ Plan[p].price \in Nat
  /\ \A o \in Orders : OrderPlan[o] \in Plans /\ o \notin {"admin", "balance"}
  /\ HomeGroup # "" /\ Purse \in Nat /\ MaxSubs \in Nat /\ MaxClock \in Nat

VARIABLES
  clock,
  userGroup,   \* users.group
  purse,       \* users.quota
  subs,        \* the rows of user_subscriptions, by id
  orders,      \* the status of each order
  subCall,     \* what each call is doing
  overtaken    \* history: subscriptions granted between an expiry pass's check and commit

subVars == <<clock, userGroup, purse, subs, orders, subCall, overtaken>>

Ids == 1..MaxSubs

UserGroups == ({HomeGroup} \cup {Plan[p].upgrade : p \in Plans}
                          \cup {Plan[p].downgrade : p \in Plans}) \ {""}

NoSub == [status |-> "none"]

Granted(s) == subs[s].status # "none"

\* A row that was not deleted.
Present(s) == subs[s].status \notin {"none", "deleted"}

NoTx == [pc |-> "idle"]

InTx(c) == subCall[c].pc # "idle"

SubsTypeOK ==
  /\ clock \in 0..MaxClock
  /\ userGroup \in UserGroups
  /\ purse \in 0..Purse
  /\ orders \in [Orders -> {"pending", "success", "expired"}]
  /\ \A s \in Ids : Granted(s) =>
       /\ subs[s].status \in {"active", "expired", "cancelled", "deleted"}
       /\ subs[s].plan \in Plans /\ subs[s].source \in Orders \cup {"admin", "balance"}
       /\ subs[s].prev \in UserGroups \cup {""}
       /\ subs[s].end \in Nat
  /\ overtaken \subseteq Ids

-----------------------------------------------------------------------------
(* Row locks *)

HoldsOrder(c, o) == InTx(c) /\ subCall[c].op = "grant" /\ subCall[c].source = o

HoldsUser(c) == subCall[c].pc \in {"count", "insert", "lowered"}

HoldsSub(c, s) ==
  \/ subCall[c].pc \in {"lower", "lowered"} /\ subCall[c].sub = s
  \/ subCall[c].pc \in {"check", "revert", "keep"} /\ s \in subCall[c].due
  \/ subCall[c].pc = "insert" /\ s \in subCall[c].counted

UserFree(c) == \A d \in SubCalls \ {c} : ~HoldsUser(d)

SubFree(c, s) == \A d \in SubCalls \ {c} : ~HoldsSub(d, s)

Goto(c, pc) == subCall' = [subCall EXCEPT ![c].pc = pc]

Return(c) == subCall' = [subCall EXCEPT ![c] = NoTx]

\* The database breaks a deadlock, a statement fails or the node stops: the
\* transaction is rolled back.
Rollback(c) ==
  /\ InTx(c)
  /\ Return(c)
  /\ UNCHANGED <<clock, userGroup, purse, subs, orders, overtaken>>

-----------------------------------------------------------------------------
(* CreateUserSubscriptionFromPlanTx and the calls that grant *)

Begin(c, call) ==
  /\ ~InTx(c)
  /\ subCall' = [subCall EXCEPT ![c] = call]
  /\ UNCHANGED <<clock, userGroup, purse, subs, orders, overtaken>>

Grants(p, source) == [op |-> "grant", pc |-> "user", plan |-> p, source |-> source]

\* Another callback has not completed the order, and it has not expired.
Payable(o) == orders[o] = "pending"

\* CompleteSubscriptionOrder locks the order; a completed one is left alone.
CompleteOrder(c, o) ==
  /\ Payable(o)
  /\ \A d \in SubCalls : ~HoldsOrder(d, o)
  /\ Begin(c, Grants(OrderPlan[o], o))

\* AdminBindSubscription, and a code whose reward is a subscription.
BindSubscription(c, p) == Begin(c, Grants(p, "admin"))

\* PurchaseSubscriptionWithBalance.
PurchaseWithBalance(c, p) == Plan[p].balancePay /\ Begin(c, Grants(p, "balance"))

Price(call) == IF call.source = "balance" THEN Plan[call.plan].price ELSE 0

\* Mutant: the user's row is read without a lock.
LockUser_Nobody(c) == TRUE

\* Every grant serializes on the user's row.
LockUser(c) == UserFree(c)

GrantLock(c) ==
  /\ subCall[c].pc = "user" /\ LockUser(c)
  /\ \/ purse >= Price(subCall[c]) /\ Goto(c, "count")
     \/ purse < Price(subCall[c]) /\ Return(c)
  /\ UNCHANGED <<clock, userGroup, purse, subs, orders, overtaken>>

Purchases(p) == {s \in Ids : Present(s) /\ subs[s].plan = p}

\* The purchases are read with a lock when the plan has a limit.
GrantCount(c) ==
  LET p == subCall[c].plan
      counted == IF Plan[p].limit = 0 THEN {} ELSE Purchases(p)
  IN /\ subCall[c].pc = "count"
     /\ \A s \in counted : SubFree(c, s)
     /\ \/ /\ Plan[p].limit > 0 /\ Cardinality(counted) >= Plan[p].limit
           /\ Return(c)
        \/ /\ Plan[p].limit > 0 => Cardinality(counted) < Plan[p].limit
           /\ subCall' = [subCall EXCEPT ![c] =
                [op |-> "grant", pc |-> "insert", plan |-> p, source |-> @.source,
                 counted |-> counted]]
     /\ UNCHANGED <<clock, userGroup, purse, subs, orders, overtaken>>

NewSub(call) ==
  LET up == Plan[call.plan].upgrade
  IN [status |-> "active", plan |-> call.plan, source |-> call.source,
      end |-> clock + Plan[call.plan].duration,
      prev |-> IF up # "" /\ userGroup # up THEN userGroup ELSE ""]

\* The group is raised, the row inserted, the wallet charged or the order marked
\* and the transaction committed.
GrantCommit(c) ==
  LET call == subCall[c]
      up == Plan[call.plan].upgrade
  IN /\ call.pc = "insert"
     /\ \E s \in Ids :
          /\ \A t \in Ids : Granted(t) <=> t < s
          /\ subs' = [subs EXCEPT ![s] = NewSub(call)]
          /\ overtaken' = IF \E d \in SubCalls : subCall[d].pc = "revert"
                          THEN overtaken \cup {s} ELSE overtaken
     /\ userGroup' = IF up = "" THEN userGroup ELSE up
     /\ purse' = purse - Price(call)
     /\ orders' = [o \in Orders |-> IF o = call.source THEN "success" ELSE orders[o]]
     /\ Return(c)
     /\ UNCHANGED clock

\* ExpireSubscriptionOrder.
ExpireOrder(o) ==
  /\ orders[o] = "pending" /\ \A d \in SubCalls : ~HoldsOrder(d, o)
  /\ orders' = [orders EXCEPT ![o] = "expired"]
  /\ UNCHANGED <<clock, userGroup, purse, subs, subCall, overtaken>>

-----------------------------------------------------------------------------
(* AdminInvalidateUserSubscription and AdminDeleteUserSubscription *)

\* The row is locked before the user's; any row may be named, ended ones too.
Withdraw(c, s, status) ==
  /\ Present(s) /\ SubFree(c, s)
  /\ Begin(c, [op |-> status, pc |-> "lower", sub |-> s, now |-> clock])

\* Mutant: other subscriptions are forgotten.
ActiveUpgraded_None(now, except) == FALSE

\* Another subscription that raised the group still runs.
ActiveUpgraded(now, except) ==
  \E s \in Ids \ except : /\ subs[s].status = "active" /\ subs[s].end > now
                          /\ Plan[subs[s].plan].upgrade # ""

\* The plan's downgrade group if it has one, else the group before the purchase
\* when the user is still in the subscription's group; "" for no change.
Target(s) ==
  LET p == Plan[subs[s].plan]
  IN IF p.downgrade # "" THEN p.downgrade
     ELSE IF userGroup = p.upgrade THEN subs[s].prev ELSE ""

Regroup(target) == userGroup' = IF target = "" THEN userGroup ELSE target

\* downgradeUserGroupForSubscriptionTx: the user is locked, then the other
\* subscriptions are read.
WithdrawLower(c) ==
  LET call == subCall[c]
      p == Plan[subs[call.sub].plan]
  IN /\ call.pc = "lower"
     /\ (p.upgrade = "" /\ p.downgrade = "") \/ LockUser(c)
     /\ subCall' = [subCall EXCEPT ![c] =
          [op |-> call.op, pc |-> "lowered", sub |-> call.sub, now |-> call.now, target |->
             IF (p.upgrade = "" /\ p.downgrade = "") \/ ActiveUpgraded(call.now, {call.sub})
             THEN "" ELSE Target(call.sub)]]
     /\ UNCHANGED <<clock, userGroup, purse, subs, orders, overtaken>>

WithdrawCommit(c) ==
  LET call == subCall[c]
  IN /\ call.pc = "lowered"
     /\ subs' = [subs EXCEPT ![call.sub].status = call.op,
                             ![call.sub].end = IF call.op = "cancelled" THEN call.now ELSE @]
     /\ Regroup(call.target)
     /\ Return(c)
     /\ UNCHANGED <<clock, purse, orders, overtaken>>

-----------------------------------------------------------------------------
(* ExpireDueSubscriptions, run by one node, one pass at a time *)

DueSubs(now) == {s \in Ids : subs[s].status = "active" /\ subs[s].end <= now}

ExpireStart(c) ==
  /\ DueSubs(clock) # {}
  /\ \A d \in SubCalls : InTx(d) => subCall[d].op # "expire"
  /\ Begin(c, [op |-> "expire", pc |-> "mark", now |-> clock])

\* The due rows are locked and marked.
ExpireMark(c) ==
  LET due == DueSubs(subCall[c].now)
  IN /\ subCall[c].pc = "mark" /\ \A s \in due : SubFree(c, s)
     /\ subCall' = [subCall EXCEPT ![c] =
          [op |-> "expire", pc |-> "check", now |-> @.now, due |-> due]]
     /\ UNCHANGED <<clock, userGroup, purse, subs, orders, overtaken>>

\* Ended subscriptions that define a change of the group, as the pass sees them.
Ended(due) ==
  {s \in Ids : /\ subs[s].status = "expired" \/ s \in due
               /\ Plan[subs[s].plan].downgrade # "" \/ Plan[subs[s].plan].upgrade # ""}

\* The last of them to end.
LastOf(S) == CHOOSE s \in S : \A t \in S :
  subs[t].end < subs[s].end \/ (subs[t].end = subs[s].end /\ t <= s)

\* Whether another subscription keeps the group is read without the user's lock.
ExpireCheck(c) ==
  LET call == subCall[c]
      ended == Ended(call.due)
  IN /\ call.pc = "check"
     /\ \/ /\ ActiveUpgraded(call.now, call.due) \/ ended = {}
           /\ Goto(c, "keep")
        \/ /\ ~ActiveUpgraded(call.now, call.due) /\ ended # {}
           /\ subCall' = [subCall EXCEPT ![c] =
                [op |-> "expire", pc |-> "revert", due |-> call.due, last |-> LastOf(ended)]]
     /\ UNCHANGED <<clock, userGroup, purse, subs, orders, overtaken>>

MarkExpired(due) ==
  subs' = [s \in Ids |-> IF s \in due THEN [subs[s] EXCEPT !.status = "expired"]
                                      ELSE subs[s]]

\* The group is read and written under the user's lock.
ExpireCommit(c) ==
  LET call == subCall[c]
  IN /\ \/ call.pc = "keep" /\ UNCHANGED userGroup
        \/ call.pc = "revert" /\ LockUser(c) /\ Regroup(Target(call.last))
     /\ MarkExpired(call.due)
     /\ Return(c)
     /\ UNCHANGED <<clock, purse, orders, overtaken>>

-----------------------------------------------------------------------------

SubsTick ==
  /\ clock < MaxClock /\ clock' = clock + 1
  /\ UNCHANGED <<userGroup, purse, subs, orders, subCall, overtaken>>

SubsInit ==
  /\ clock = 0
  /\ userGroup = HomeGroup
  /\ purse = Purse
  /\ subs = [s \in Ids |-> NoSub]
  /\ orders = [o \in Orders |-> "pending"]
  /\ subCall = [c \in SubCalls |-> NoTx]
  /\ overtaken = {}

SubsNext ==
  \/ \E c \in SubCalls :
       \/ \E o \in Orders : CompleteOrder(c, o)
       \/ \E p \in Plans : BindSubscription(c, p) \/ PurchaseWithBalance(c, p)
       \/ \E s \in Ids, status \in {"cancelled", "deleted"} : Withdraw(c, s, status)
       \/ GrantLock(c) \/ GrantCount(c) \/ GrantCommit(c)
       \/ WithdrawLower(c) \/ WithdrawCommit(c)
       \/ ExpireStart(c) \/ ExpireMark(c) \/ ExpireCheck(c) \/ ExpireCommit(c)
       \/ Rollback(c)
  \/ \E o \in Orders : ExpireOrder(o)
  \/ SubsTick

SubsSpec == SubsInit /\ [][SubsNext]_subVars

-----------------------------------------------------------------------------
(* Properties *)

\* A completed order has granted one subscription and any other order none,
\* however often the payment is notified and whatever is rolled back on the way
\* (CompleteSubscriptionOrder is "idempotent"); and no user holds more
\* subscriptions of a plan than its limit, whichever calls grant them at the
\* same time (CreateUserSubscriptionFromPlanTx).
GrantedAsSold ==
  /\ \A o \in Orders :
       Cardinality({s \in Ids : Granted(s) /\ subs[s].source = o}) =
         IF orders[o] = "success" THEN 1 ELSE 0
  /\ \A p \in Plans : Plan[p].limit > 0 => Cardinality(Purchases(p)) <= Plan[p].limit

\* While a subscription that raises the group runs, no end of another one takes
\* the group away: the user is in its group or in that of a subscription granted
\* after it.  That later one may have ended meanwhile, because no group is
\* lowered while any such subscription runs (downgradeUserGroupForSubscriptionTx:
\* "keep the current group").  One granted between the question an expiry pass asks
\* and its commit is excepted: the pass does take its group away.
RaisedGroupKept ==
  \A s \in Ids \ overtaken :
    /\ subs[s].status = "active" /\ subs[s].end > clock
    /\ Plan[subs[s].plan].upgrade # ""
    => \E t \in Ids : /\ t >= s /\ Granted(t)
                      /\ Plan[subs[t].plan].upgrade # ""
                      /\ userGroup = Plan[subs[t].plan].upgrade

\* When every subscription has ended and was dealt with, the user is no longer
\* in a group that subscriptions raise to (AddEditSubscriptionModal.jsx: "When
\* the plan expires or is invalidated/deleted, it will revert to the previous
\* group").
GroupReverts ==
  /\ overtaken = {} /\ \A c \in SubCalls : ~InTx(c)
  /\ \A s \in Ids : subs[s].status # "active"
  => userGroup \notin {Plan[p].upgrade : p \in Plans} \ {""}

=============================================================================
