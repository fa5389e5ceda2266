-------------------------- MODULE MCBillingSession --------------------------
(* Small instances of BillingSession for TLC. *)
EXTENDS BillingSession

P(pref, playground, image, unlimited, force) ==
  [pref |-> pref, playground |-> playground, image |-> image,
   unlimited |-> unlimited, force |-> force]

\* A text request that may fall back to the wallet, an image request that may
\* fall back to the subscription, a playground one: they compete for all three
\* balances.
RivalProfiles == {P("subscription_first", FALSE, FALSE, FALSE, FALSE),
                  P("wallet_first", FALSE, TRUE, FALSE, TRUE),
                  P("wallet_only", TRUE, FALSE, TRUE, FALSE)}

ImageProfiles == {P("wallet_only", FALSE, TRUE, FALSE, TRUE)}
=============================================================================
