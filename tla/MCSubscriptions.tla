-------------------------- MODULE MCSubscriptions --------------------------
(* Small instances of Subscriptions for TLC. *)
EXTENDS Subscriptions, TLC

\* Plans that name the group a user goes back to, one of them with a limit.
ExplicitPlans ==
  [gold |-> [upgrade |-> "vip", downgrade |-> "basic", duration |-> 1, limit |-> 1,
             price |-> 1, balancePay |-> TRUE],
   silver |-> [upgrade |-> "pro", downgrade |-> "basic", duration |-> 2, limit |-> 0,
             price |-> 0, balancePay |-> FALSE]]

\* A plan that reverts to the group held before the purchase.
LegacyPlan ==
  [gold |-> [upgrade |-> "vip", downgrade |-> "", duration |-> 1, limit |-> 0,
             price |-> 0, balancePay |-> FALSE]]

GoldOrder == [o1 |-> "gold"]

\* Calls are interchangeable.
SubCallSymmetry == Permutations(SubCalls)

=============================================================================
