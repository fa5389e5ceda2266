----------------------------- MODULE MCAccounts -----------------------------
(***************************************************************************)
(* What belongs to one user and several calls write: a task's row with its *)
(* charge, the subscriptions with their group and their quota, a login     *)
(* session, the copies of the group and of the wallet, and the second      *)
(* factor.  They have no variable in common, so a behaviour moves one of   *)
(* them.                                                                   *)
(***************************************************************************)
EXTENDS TaskBilling, MCSubscriptions, SubscriptionQuota, UserSession, UserGroupCache,
        LoginVerification, QuotaCache

VARIABLE account   \* the part that moves

accountVars == <<account, vars, subVars, subQuotaVars, sessionVars, groupVars, loginVars,
                 quotaVars>>

AccountsInit ==
  /\ account \in {"task", "subscription", "quota", "session", "group", "login", "wallet"}
  /\ Init /\ SubsInit /\ SubQuotaInit
  /\ SessionInit
  /\ account # "session" => caller[CHOOSE c \in Callers : TRUE].pc = "fill"
  /\ GroupInit /\ (account # "group" => group = CHOOSE g \in Groups : TRUE)
  /\ LoginInit
  /\ QuotaInit /\ (account # "wallet" => batch = FALSE)

AccountsNext ==
  \/ /\ account = "task" /\ Next
     /\ UNCHANGED <<account, subVars, subQuotaVars, sessionVars, groupVars, loginVars, quotaVars>>
  \/ /\ account = "subscription" /\ SubsNext
     /\ UNCHANGED <<account, vars, subQuotaVars, sessionVars, groupVars, loginVars, quotaVars>>
  \/ /\ account = "quota" /\ SubQuotaNext
     /\ UNCHANGED <<account, vars, subVars, sessionVars, groupVars, loginVars, quotaVars>>
  \/ /\ account = "session" /\ SessionNext
     /\ UNCHANGED <<account, vars, subVars, subQuotaVars, groupVars, loginVars, quotaVars>>
  \/ /\ account = "group" /\ GroupNext
     /\ UNCHANGED <<account, vars, subVars, subQuotaVars, sessionVars, loginVars, quotaVars>>
  \/ /\ account = "login" /\ LoginNext
     /\ UNCHANGED <<account, vars, subVars, subQuotaVars, sessionVars, groupVars, quotaVars>>
  \/ /\ account = "wallet" /\ QuotaNext
     /\ UNCHANGED <<account, vars, subVars, subQuotaVars, sessionVars, groupVars, loginVars>>

AccountsSpec == AccountsInit /\ [][AccountsNext]_accountVars

\* Two subscriptions of the same size, the second of which lasts longer.
TotalsOfTwo == <<2, 2>>

EndsOfTwo == <<4, 6>>

=============================================================================
