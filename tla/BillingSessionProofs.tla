------------------------ MODULE BillingSessionProofs ------------------------
(***************************************************************************)
(* Proofs that IInv is inductive, and of the properties it implies, for    *)
(* every set of requests, prices, balances and faults other than "clamp".  *)
(*                                                                         *)
(* A step moves one request, so each action lemma shows that the session,  *)
(* history and record the step leaves behind for that request are good,    *)
(* and cites the frame lemma of the ledger operation it performs.          *)
(*                                                                         *)
(* The second half adds exactness: what a settled request paid and what a  *)
(* refund returned.  It needs one fact about all requests together, that   *)
(* the subscription's use is the sum of what they hold, so that the floor  *)
(* of a negative subscription delta is never reached.                      *)
(***************************************************************************)
EXTENDS BillingSession, Sums, TLAPS

\* The small operators of the invariant are always expanded.
USE DEF PC, RefundStage, Sources, MaxAttempts, Unfunded, Share, TokenDue,
        FundingDue, FundedBy, Unused

\* A session, history and record that satisfy the per-request invariant.
Good(s, n, c) == s \in Session /\ n \in Net /\ c \in Record /\ RequestInv(s, n, c)

\* IInv says that every request is good and that the ledgers are numbers.
LEMMA IInvGood ==
  ASSUME IInv, NEW r \in Requests
  PROVE  /\ Good(session[r], net[r], record[r])
         /\ wallet \in Int /\ token \in Int /\ subUsed \in Nat
         /\ topups \subseteq TopUps
  BY DEF IInv, TypeOK, Good

\* A step that leaves one request good and the others alone preserves IInv.
LEMMA Frame ==
  ASSUME IInv, NEW r \in Requests, NEW s, NEW n, NEW c, Good(s, n, c),
         session' = [session EXCEPT ![r] = s],
         net' = [net EXCEPT ![r] = n],
         record' = [record EXCEPT ![r] = c],
         wallet' \in Int, token' \in Int, subUsed' \in Nat, topups' \subseteq TopUps
  PROVE  IInv'
<1>1. TypeOK'
  BY DEF IInv, TypeOK, Good
<1>2. ASSUME NEW q \in Requests PROVE RequestInv(session'[q], net'[q], record'[q])
  <2>1. CASE q = r
    BY <2>1 DEF IInv, TypeOK, Good
  <2>2. CASE q # r
    <3>1. session'[q] = session[q] /\ net'[q] = net[q] /\ record'[q] = record[q]
      BY <2>2 DEF IInv, TypeOK
    <3> QED BY <3>1 DEF IInv
  <2> QED BY <2>1, <2>2
<1> QED BY <1>1, <1>2 DEF IInv

\* The frame of a step that moves no quota.
LEMMA FrameNoMove ==
  ASSUME IInv, NEW r \in Requests, NEW s, Good(s, net[r], record[r]),
         session' = [session EXCEPT ![r] = s], NoMove, UNCHANGED topups
  PROVE  IInv'
<1>1. net' = [net EXCEPT ![r] = net[r]] /\ record' = [record EXCEPT ![r] = record[r]]
  BY DEF IInv, TypeOK, NoMove
<1> QED BY <1>1, Frame, IInvGood DEF NoMove

\* The frame of a wallet movement.
LEMMA FrameWallet ==
  ASSUME IInv, NEW r \in Requests, NEW s, NEW d \in Int,
         Good(s, [net[r] EXCEPT !.wallet = @ + d], record[r]),
         session' = [session EXCEPT ![r] = s], MoveWallet(r, d), UNCHANGED topups
  PROVE  IInv'
<1> DEFINE n == [net[r] EXCEPT !.wallet = @ + d]
<1>1. net' = [net EXCEPT ![r] = n] /\ record' = [record EXCEPT ![r] = record[r]]
  BY DEF IInv, TypeOK, MoveWallet
<1>2. wallet' \in Int /\ token' \in Int /\ subUsed' \in Nat /\ topups' \subseteq TopUps
  BY IInvGood DEF MoveWallet
<1> HIDE DEF n
<1> QED BY <1>1, <1>2, Frame DEF n

\* The frame of a token movement.
LEMMA FrameToken ==
  ASSUME IInv, NEW r \in Requests, NEW s, NEW d \in Int,
         Good(s, [net[r] EXCEPT !.token = @ + d], record[r]),
         session' = [session EXCEPT ![r] = s], MoveToken(r, d), UNCHANGED topups
  PROVE  IInv'
<1> DEFINE n == [net[r] EXCEPT !.token = @ + d]
<1>1. net' = [net EXCEPT ![r] = n] /\ record' = [record EXCEPT ![r] = record[r]]
  BY DEF IInv, TypeOK, MoveToken
<1>2. wallet' \in Int /\ token' \in Int /\ subUsed' \in Nat /\ topups' \subseteq TopUps
  BY IInvGood DEF MoveToken
<1> HIDE DEF n
<1> QED BY <1>1, <1>2, Frame DEF n

\* A subscription delta is floored at zero, so it never takes back more.
LEMMA NewUsedBounds ==
  ASSUME subUsed \in Nat, NEW d \in Int
  PROVE  /\ NewUsed(d) \in Nat
         /\ NewUsed(d) - subUsed >= d
         /\ d >= 0 => NewUsed(d) - subUsed = d
         /\ d < 0 => NewUsed(d) - subUsed <= 0
  BY DEF NewUsed, Max2

\* The frame of a subscription movement, with the record it leaves.
LEMMA FrameSub ==
  ASSUME IInv, NEW r \in Requests, NEW s, NEW c, NEW d \in Int,
         Good(s, [net[r] EXCEPT !.subscription = @ + (NewUsed(d) - subUsed)], c),
         session' = [session EXCEPT ![r] = s], MoveSub(r, d),
         record' = [record EXCEPT ![r] = c], UNCHANGED <<wallet, token, topups>>
  PROVE  IInv'
<1> DEFINE n == [net[r] EXCEPT !.subscription = @ + (NewUsed(d) - subUsed)]
<1>1. net' = [net EXCEPT ![r] = n]
  BY DEF IInv, TypeOK, MoveSub
<1>2. wallet' \in Int /\ token' \in Int /\ subUsed' \in Nat /\ topups' \subseteq TopUps
  BY IInvGood, NewUsedBounds DEF MoveSub
<1> HIDE DEF n
<1> QED BY <1>1, <1>2, Frame DEF n

\* A freshly allocated session is well typed.
LEMMA FreshType ==
  ASSUME NEW s \in Session, NEW source \in Sources
  PROVE  Fresh(s, source, "try") \in Session
<1>1. NothingReserved(s) \in Session
  BY DEF Session, NothingReserved
<1> QED BY <1>1 DEF Session, Fresh

\* A request arrives and tries its first source.
LEMMA NewBillingSessionInv ==
  ASSUME IInv, NEW r \in Requests, NewBillingSession(r)
  PROVE  IInv'
<1> DEFINE s == session[r]
           n == net[r]
           c == record[r]
<1>0. Good(s, n, c) /\ wallet \in Int /\ token \in Int /\ subUsed \in Nat
  BY IInvGood
<1>p. PICK source \in FirstSource(s.info.pref), q \in Quotas :
        session' = [session EXCEPT ![r] =
          [Fresh(s, source, "try") EXCEPT !.quota = q,
             !.tokenTrusted = s.info.unlimited \/ token > TrustQuota]]
  BY DEF NewBillingSession
<1>t. source \in Sources /\ q \in Nat
  BY <1>p, BillingAssumption DEF FirstSource
<1>1. CASE s.pc = "new" /\ NoMove /\ UNCHANGED topups
  <2> DEFINE s2 == [Fresh(s, source, "try") EXCEPT !.quota = q,
                      !.tokenTrusted = s.info.unlimited \/ token > TrustQuota]
  <2>3. Fresh(s, source, "try") \in Session
    BY <1>0, <1>t, FreshType DEF Good
  <2>4. s2 \in Session
    BY <2>3, <1>t DEF Session
  <2>5. n \in Net /\ c \in Record
    BY <1>0, <1>1, <1>p, <1>t DEF Good, Session, Net, Record, Fresh, NothingReserved
  <2>6. RequestInv(s2, n, c)
    BY <1>0, <1>1, <1>p, <1>t DEF Good, Session, Profile, Net, Record, RequestInv, StageInv, HoldInv, CoverInv, Fresh, NothingReserved
  <2>7. /\ session' = [session EXCEPT ![r] = s2]
        /\ NoMove
        /\ UNCHANGED topups
    BY <1>1, <1>p, <1>t DEF Goto, Fresh, NothingReserved
  <2> HIDE DEF s2
  <2> QED BY <2>4, <2>5, <2>6, <2>7, FrameNoMove DEF Good
<1> QED BY <1>0, <1>1 DEF NewBillingSession

\* Falling back to another source, or rejecting, from a request that holds
\* nothing but what a failed token rollback left behind.
LEMMA GoFallbackGood ==
  ASSUME NEW s, NEW n, NEW c, Good(s, n, c), NEW next \in Sources \cup {"none"},
         NEW lost \in BOOLEAN, NEW n2 \in Net,
         s.pc \in {"try", "rollbackFallback", "rollbackReject"},
         n2.wallet = n.wallet, n2.subscription = n.subscription, n2.token >= 0,
         n2.token = 0 \/ s.lostToken \/ lost
  PROVE  Good(FallenBack(s, next, lost), n2, c)
<1>1. CASE next = "none"
  <2> DEFINE s2 == [[s EXCEPT !.pc = "rejected"] EXCEPT !.lostToken = s.lostToken \/ lost]
  <2>1. s2 \in Session
    BY DEF Good, Session
  <2>2. RequestInv(s2, n2, c)
    BY DEF Good, Session, Profile, Net, Record, RequestInv, StageInv, HoldInv, CoverInv
  <2>3. FallenBack(s, next, lost) = s2
    BY <1>1 DEF FallenBack
  <2> QED BY <2>1, <2>2, <2>3 DEF Good
<1>2. CASE next # "none"
  <2> DEFINE f == Fresh(s, next, "try")
             s2 == [f EXCEPT !.lostToken = s.lostToken \/ lost]
  <2>0. f \in Session
    BY <1>2, FreshType DEF Good
  <2>1. s2 \in Session
    BY <2>0 DEF Good, Session
  <2>2. RequestInv(s2, n2, c)
    BY <1>2 DEF Good, Session, Profile, Net, Record, RequestInv, StageInv, HoldInv, CoverInv,
                Fresh, NothingReserved
  <2>3. FallenBack(s, next, lost) = s2
    BY <1>2 DEF FallenBack
  <2> QED BY <2>1, <2>2, <2>3 DEF Good
<1> QED BY <1>1, <1>2

\* A subscription is asked for at least one unit.
LEMMA TrySubscriptionInv ==
  ASSUME IInv, NEW r \in Requests, TrySubscription(r)
  PROVE  IInv'
<1> DEFINE s == session[r]
           n == net[r]
           c == record[r]
<1>0. Good(s, n, c) /\ wallet \in Int /\ token \in Int /\ subUsed \in Nat
  BY IInvGood
<1>1. CASE /\ s.pc = "try"
           /\ session' = [session EXCEPT ![r] =
                [@ EXCEPT !.pc = "preToken", !.delta = Max2(s.quota, 1)]]
           /\ NoMove /\ UNCHANGED topups
  <2> DEFINE s2 == [s EXCEPT !.pc = "preToken", !.delta = Max2(s.quota, 1)]
  <2>3. Max2(s.quota, 1) \in Nat /\ Max2(s.quota, 1) \in Int
    BY <1>0, <1>1 DEF Good, Session, Profile, Net, Record, RequestInv, StageInv, HoldInv, CoverInv, Max2
  <2>4. s2 \in Session
    BY <1>0, <1>1, <2>3 DEF Good, Session
  <2>5. n \in Net /\ c \in Record
    BY <1>0, <1>1, <2>3 DEF Good, Session, Net, Record
  <2>6. RequestInv(s2, n, c)
    BY <1>0, <1>1, <2>3 DEF Good, Session, Profile, Net, Record, RequestInv, StageInv, HoldInv, CoverInv
  <2>7. /\ session' = [session EXCEPT ![r] = s2]
        /\ NoMove
        /\ UNCHANGED topups
    BY <1>1 DEF Goto
  <2> HIDE DEF s2
  <2> QED BY <2>4, <2>5, <2>6, <2>7, FrameNoMove DEF Good
<1> QED BY <1>0, <1>1 DEF TrySubscription

\* Reserving on the token.
LEMMA PreConsumeTokenInv ==
  ASSUME IInv, NEW r \in Requests, PreConsumeToken(r)
  PROVE  IInv'
<1> DEFINE s == session[r]
           n == net[r]
           c == record[r]
<1>0. Good(s, n, c) /\ wallet \in Int /\ token \in Int /\ subUsed \in Nat
  BY IInvGood
<1>1. CASE /\ s.pc = "preToken"
           /\ MoveToken(r, IF s.info.playground THEN 0 ELSE s.delta)
           /\ session' = [session EXCEPT ![r] =
                [@ EXCEPT !.pc = "preFunding", !.tokenConsumed = s.delta]]
           /\ UNCHANGED topups
  <2> DEFINE s2 == [s EXCEPT !.pc = "preFunding", !.tokenConsumed = s.delta]
             d == IF s.info.playground THEN 0 ELSE s.delta
             n2 == [n EXCEPT !.token = @ + d]
  <2>1. d \in Int
    BY <1>0, <1>1 DEF Good, Session, Profile
  <2>3. s.delta \in Nat
    BY <1>0, <1>1, <2>1 DEF Good, Session, Profile, Net, Record, RequestInv, StageInv, HoldInv, CoverInv
  <2>4. s2 \in Session
    BY <1>0, <1>1, <2>3 DEF Good, Session
  <2>5. n2 \in Net /\ c \in Record
    BY <1>0, <1>1, <2>1, <2>3 DEF Good, Session, Net, Record
  <2>6. RequestInv(s2, n2, c)
    BY <1>0, <1>1, <2>1, <2>3 DEF Good, Session, Profile, Net, Record, RequestInv, StageInv, HoldInv, CoverInv
  <2>7. /\ session' = [session EXCEPT ![r] = s2]
        /\ MoveToken(r, d)
        /\ UNCHANGED topups
    BY <1>1 DEF Goto
  <2> HIDE DEF s2, d
  <2> QED BY <2>1, <2>4, <2>5, <2>6, <2>7, FrameToken DEF Good
<1>2. CASE s.pc = "preToken" /\ NoMove /\ Goto(r, "rejected") /\ UNCHANGED topups
  <2> DEFINE s2 == [s EXCEPT !.pc = "rejected"]
  <2>4. s2 \in Session
    BY <1>0, <1>2 DEF Good, Session
  <2>5. n \in Net /\ c \in Record
    BY <1>0, <1>2 DEF Good, Session, Net, Record
  <2>6. RequestInv(s2, n, c)
    BY <1>0, <1>2 DEF Good, Session, Profile, Net, Record, RequestInv, StageInv, HoldInv, CoverInv
  <2>7. /\ session' = [session EXCEPT ![r] = s2]
        /\ NoMove
        /\ UNCHANGED topups
    BY <1>2 DEF Goto
  <2> HIDE DEF s2
  <2> QED BY <2>4, <2>5, <2>6, <2>7, FrameNoMove DEF Good
<1> QED BY <1>0, <1>1, <1>2 DEF PreConsumeToken

\* Reserving on the wallet.
LEMMA PreConsumeWalletInv ==
  ASSUME IInv, NEW r \in Requests, PreConsumeWallet(r)
  PROVE  IInv'
<1> DEFINE s == session[r]
           n == net[r]
           c == record[r]
<1>0. Good(s, n, c) /\ wallet \in Int /\ token \in Int /\ subUsed \in Nat
  BY IInvGood
<1>1. CASE /\ s.pc = "preFunding" /\ s.source = "wallet"
           /\ MoveWallet(r, s.delta)
           /\ session' = [session EXCEPT ![r] =
                [@ EXCEPT !.pc = "open", !.preConsumed = s.delta, !.consumed = s.delta]]
           /\ UNCHANGED topups
  <2> DEFINE s2 == [s EXCEPT !.pc = "open", !.preConsumed = s.delta, !.consumed = s.delta]
             d == s.delta
             n2 == [n EXCEPT !.wallet = @ + d]
  <2>1. d \in Int
    BY <1>0, <1>1 DEF Good, Session, Profile
  <2>3. s.delta \in Nat
    BY <1>0, <1>1, <2>1 DEF Good, Session, Profile, Net, Record, RequestInv, StageInv, HoldInv, CoverInv
  <2>4. s2 \in Session
    BY <1>0, <1>1, <2>3 DEF Good, Session
  <2>5. n2 \in Net /\ c \in Record
    BY <1>0, <1>1, <2>1, <2>3 DEF Good, Session, Net, Record
  <2>6. RequestInv(s2, n2, c)
    BY <1>0, <1>1, <2>1, <2>3 DEF Good, Session, Profile, Net, Record, RequestInv, StageInv, HoldInv, CoverInv
  <2>7. /\ session' = [session EXCEPT ![r] = s2]
        /\ MoveWallet(r, d)
        /\ UNCHANGED topups
    BY <1>1 DEF Goto
  <2> HIDE DEF s2, d
  <2> QED BY <2>1, <2>4, <2>5, <2>6, <2>7, FrameWallet DEF Good
<1>2. CASE s.pc = "preFunding" /\ NoMove /\ Goto(r, "rollbackFallback") /\ UNCHANGED topups
  <2> DEFINE s2 == [s EXCEPT !.pc = "rollbackFallback"]
  <2>4. s2 \in Session
    BY <1>0, <1>2 DEF Good, Session
  <2>5. n \in Net /\ c \in Record
    BY <1>0, <1>2 DEF Good, Session, Net, Record
  <2>6. RequestInv(s2, n, c)
    BY <1>0, <1>2 DEF Good, Session, Profile, Net, Record, RequestInv, StageInv, HoldInv, CoverInv
  <2>7. /\ session' = [session EXCEPT ![r] = s2]
        /\ NoMove
        /\ UNCHANGED topups
    BY <1>2 DEF Goto
  <2> HIDE DEF s2
  <2> QED BY <2>4, <2>5, <2>6, <2>7, FrameNoMove DEF Good
<1>3. CASE s.pc = "preFunding" /\ NoMove /\ Goto(r, "rollbackReject") /\ UNCHANGED topups
  <2> DEFINE s2 == [s EXCEPT !.pc = "rollbackReject"]
  <2>4. s2 \in Session
    BY <1>0, <1>3 DEF Good, Session
  <2>5. n \in Net /\ c \in Record
    BY <1>0, <1>3 DEF Good, Session, Net, Record
  <2>6. RequestInv(s2, n, c)
    BY <1>0, <1>3 DEF Good, Session, Profile, Net, Record, RequestInv, StageInv, HoldInv, CoverInv
  <2>7. /\ session' = [session EXCEPT ![r] = s2]
        /\ NoMove
        /\ UNCHANGED topups
    BY <1>3 DEF Goto
  <2> HIDE DEF s2
  <2> QED BY <2>4, <2>5, <2>6, <2>7, FrameNoMove DEF Good
<1> QED BY <1>0, <1>1, <1>2, <1>3 DEF PreConsumeWallet

\* Reserving on the subscription.
LEMMA PreConsumeSubscriptionInv ==
  ASSUME IInv, NEW r \in Requests, PreConsumeSubscription(r)
  PROVE  IInv'
<1> DEFINE s == session[r]
           n == net[r]
           c == record[r]
<1>0. Good(s, n, c) /\ wallet \in Int /\ token \in Int /\ subUsed \in Nat
  BY IInvGood
<1>1. CASE /\ s.pc = "preFunding" /\ s.source = "subscription"
           /\ MoveSub(r, s.delta)
           /\ record' = [record EXCEPT ![r] = [status |-> "consumed", amount |-> s.delta]]
           /\ session' = [session EXCEPT ![r] =
                [@ EXCEPT !.pc = "open", !.preConsumed = s.delta, !.subPre = s.delta]]
           /\ UNCHANGED <<wallet, token, topups>>
  <2> DEFINE s2 == [s EXCEPT !.pc = "open", !.preConsumed = s.delta, !.subPre = s.delta]
             d == s.delta
             n2 == [n EXCEPT !.subscription = @ + (NewUsed(d) - subUsed)]
  <2>1. d \in Int
    BY <1>0, <1>1 DEF Good, Session, Profile
  <2>2. /\ NewUsed(d) \in Nat /\ NewUsed(d) - subUsed >= d
        /\ d >= 0 => NewUsed(d) - subUsed = d
    BY <1>0, <2>1, NewUsedBounds
  <2>3. s.delta \in Nat
    BY <1>0, <1>1, <2>1, <2>2 DEF Good, Session, Profile, Net, Record, RequestInv, StageInv, HoldInv, CoverInv
  <2>4. s2 \in Session
    BY <1>0, <1>1, <2>3 DEF Good, Session
  <2>5. n2 \in Net /\ [status |-> "consumed", amount |-> s.delta] \in Record
    BY <1>0, <1>1, <2>1, <2>2, <2>3 DEF Good, Session, Net, Record
  <2>6. RequestInv(s2, n2, [status |-> "consumed", amount |-> s.delta])
    BY <1>0, <1>1, <2>1, <2>2, <2>3 DEF Good, Session, Profile, Net, Record, RequestInv, StageInv, HoldInv, CoverInv
  <2>7. /\ session' = [session EXCEPT ![r] = s2]
        /\ MoveSub(r, d) /\ record' = [record EXCEPT ![r] = [status |-> "consumed", amount |-> s.delta]]
        /\ UNCHANGED <<wallet, token, topups>>
    BY <1>1 DEF Goto, IInv, TypeOK
  <2> HIDE DEF s2, d
  <2> QED BY <2>1, <2>4, <2>5, <2>6, <2>7, FrameSub DEF Good
<1>2. CASE s.pc = "preFunding" /\ NoMove /\ Goto(r, "rollbackFallback") /\ UNCHANGED topups
  <2> DEFINE s2 == [s EXCEPT !.pc = "rollbackFallback"]
  <2>4. s2 \in Session
    BY <1>0, <1>2 DEF Good, Session
  <2>5. n \in Net /\ c \in Record
    BY <1>0, <1>2 DEF Good, Session, Net, Record
  <2>6. RequestInv(s2, n, c)
    BY <1>0, <1>2 DEF Good, Session, Profile, Net, Record, RequestInv, StageInv, HoldInv, CoverInv
  <2>7. /\ session' = [session EXCEPT ![r] = s2]
        /\ NoMove
        /\ UNCHANGED topups
    BY <1>2 DEF Goto
  <2> HIDE DEF s2
  <2> QED BY <2>4, <2>5, <2>6, <2>7, FrameNoMove DEF Good
<1>3. CASE s.pc = "preFunding" /\ NoMove /\ Goto(r, "rollbackReject") /\ UNCHANGED topups
  <2> DEFINE s2 == [s EXCEPT !.pc = "rollbackReject"]
  <2>4. s2 \in Session
    BY <1>0, <1>3 DEF Good, Session
  <2>5. n \in Net /\ c \in Record
    BY <1>0, <1>3 DEF Good, Session, Net, Record
  <2>6. RequestInv(s2, n, c)
    BY <1>0, <1>3 DEF Good, Session, Profile, Net, Record, RequestInv, StageInv, HoldInv, CoverInv
  <2>7. /\ session' = [session EXCEPT ![r] = s2]
        /\ NoMove
        /\ UNCHANGED topups
    BY <1>3 DEF Goto
  <2> HIDE DEF s2
  <2> QED BY <2>4, <2>5, <2>6, <2>7, FrameNoMove DEF Good
<1> QED BY <1>0, <1>1, <1>2, <1>3 DEF PreConsumeSubscription

\* A raise begins.
LEMMA ReserveInv ==
  ASSUME IInv, NEW r \in Requests, NEW target \in Nat, Reserve(r, target)
  PROVE  IInv'
<1> DEFINE s == session[r]
           n == net[r]
           c == record[r]
<1>0. Good(s, n, c) /\ wallet \in Int /\ token \in Int /\ subUsed \in Nat
  BY IInvGood
<1>1. CASE /\ s.pc = "open" /\ ~s.settled /\ ~s.refunded /\ target > s.preConsumed
           /\ session' = [session EXCEPT ![r] =
                [@ EXCEPT !.pc = "reserveFunding", !.delta = target - s.preConsumed]]
           /\ NoMove /\ UNCHANGED topups
  <2> DEFINE s2 == [s EXCEPT !.pc = "reserveFunding", !.delta = target - s.preConsumed]
  <2>3. target - s.preConsumed \in Nat /\ target - s.preConsumed \in Int
    BY <1>0, <1>1 DEF Good, Session, Profile, Net, Record, RequestInv, StageInv, HoldInv, CoverInv
  <2>4. s2 \in Session
    BY <1>0, <1>1, <2>3 DEF Good, Session
  <2>5. n \in Net /\ c \in Record
    BY <1>0, <1>1, <2>3 DEF Good, Session, Net, Record
  <2>6. RequestInv(s2, n, c)
    BY <1>0, <1>1, <2>3 DEF Good, Session, Profile, Net, Record, RequestInv, StageInv, HoldInv, CoverInv
  <2>7. /\ session' = [session EXCEPT ![r] = s2]
        /\ NoMove
        /\ UNCHANGED topups
    BY <1>1 DEF Goto
  <2> HIDE DEF s2
  <2> QED BY <2>4, <2>5, <2>6, <2>7, FrameNoMove DEF Good
<1> QED BY <1>0, <1>1 DEF Reserve

\* An image request raises its wallet reservation.
LEMMA ReserveImageWalletInv ==
  ASSUME IInv, NEW r \in Requests, ReserveImageWallet(r)
  PROVE  IInv'
<1> DEFINE s == session[r]
           n == net[r]
           c == record[r]
<1>0. Good(s, n, c) /\ wallet \in Int /\ token \in Int /\ subUsed \in Nat
  BY IInvGood
<1>1. CASE /\ s.pc = "reserveFunding" /\ s.source = "wallet"
           /\ MoveWallet(r, s.delta)
           /\ session' = [session EXCEPT ![r] =
                [@ EXCEPT !.pc = "reserveToken", !.consumed = s.delta]]
           /\ UNCHANGED topups
  <2> DEFINE s2 == [s EXCEPT !.pc = "reserveToken", !.consumed = s.delta]
             d == s.delta
             n2 == [n EXCEPT !.wallet = @ + d]
  <2>1. d \in Int
    BY <1>0, <1>1 DEF Good, Session, Profile
  <2>3. s.delta \in Nat
    BY <1>0, <1>1, <2>1 DEF Good, Session, Profile, Net, Record, RequestInv, StageInv, HoldInv, CoverInv
  <2>4. s2 \in Session
    BY <1>0, <1>1, <2>3 DEF Good, Session
  <2>5. n2 \in Net /\ c \in Record
    BY <1>0, <1>1, <2>1, <2>3 DEF Good, Session, Net, Record
  <2>6. RequestInv(s2, n2, c)
    BY <1>0, <1>1, <2>1, <2>3 DEF Good, Session, Profile, Net, Record, RequestInv, StageInv, HoldInv, CoverInv
  <2>7. /\ session' = [session EXCEPT ![r] = s2]
        /\ MoveWallet(r, d)
        /\ UNCHANGED topups
    BY <1>1 DEF Goto
  <2> HIDE DEF s2, d
  <2> QED BY <2>1, <2>4, <2>5, <2>6, <2>7, FrameWallet DEF Good
<1>2. CASE s.pc = "reserveFunding" /\ NoMove /\ Goto(r, "fail") /\ UNCHANGED topups
  <2> DEFINE s2 == [s EXCEPT !.pc = "fail"]
  <2>4. s2 \in Session
    BY <1>0, <1>2 DEF Good, Session
  <2>5. n \in Net /\ c \in Record
    BY <1>0, <1>2 DEF Good, Session, Net, Record
  <2>6. RequestInv(s2, n, c)
    BY <1>0, <1>2 DEF Good, Session, Profile, Net, Record, RequestInv, StageInv, HoldInv, CoverInv
  <2>7. /\ session' = [session EXCEPT ![r] = s2]
        /\ NoMove
        /\ UNCHANGED topups
    BY <1>2 DEF Goto
  <2> HIDE DEF s2
  <2> QED BY <2>4, <2>5, <2>6, <2>7, FrameNoMove DEF Good
<1> QED BY <1>0, <1>1, <1>2 DEF ReserveImageWallet

\* Any other request raises its wallet reservation.
LEMMA ReserveWalletInv ==
  ASSUME IInv, NEW r \in Requests, "clamp" \notin Faults, ReserveWallet(r)
  PROVE  IInv'
<1> DEFINE s == session[r]
           n == net[r]
           c == record[r]
<1>0. Good(s, n, c) /\ wallet \in Int /\ token \in Int /\ subUsed \in Nat
  BY IInvGood
<1>1. CASE /\ s.pc = "reserveFunding" /\ s.source = "wallet"
           /\ MoveWallet(r, s.delta)
           /\ session' = [session EXCEPT ![r] =
                [@ EXCEPT !.pc = "reserveToken", !.consumed = s.consumed + s.delta]]
           /\ UNCHANGED topups
  <2> DEFINE s2 == [s EXCEPT !.pc = "reserveToken", !.consumed = s.consumed + s.delta]
             d == s.delta
             n2 == [n EXCEPT !.wallet = @ + d]
  <2>1. d \in Int
    BY <1>0, <1>1 DEF Good, Session, Profile
  <2>3. s.consumed + s.delta \in Nat /\ s.delta \in Nat
    BY <1>0, <1>1, <2>1 DEF Good, Session, Profile, Net, Record, RequestInv, StageInv, HoldInv, CoverInv
  <2>4. s2 \in Session
    BY <1>0, <1>1, <2>3 DEF Good, Session
  <2>5. n2 \in Net /\ c \in Record
    BY <1>0, <1>1, <2>1, <2>3 DEF Good, Session, Net, Record
  <2>6. RequestInv(s2, n2, c)
    BY <1>0, <1>1, <2>1, <2>3 DEF Good, Session, Profile, Net, Record, RequestInv, StageInv, HoldInv, CoverInv
  <2>7. /\ session' = [session EXCEPT ![r] = s2]
        /\ MoveWallet(r, d)
        /\ UNCHANGED topups
    BY <1>1 DEF Goto
  <2> HIDE DEF s2, d
  <2> QED BY <2>1, <2>4, <2>5, <2>6, <2>7, FrameWallet DEF Good
<1>2. CASE s.pc = "reserveFunding" /\ NoMove /\ Goto(r, "fail") /\ UNCHANGED topups
  <2> DEFINE s2 == [s EXCEPT !.pc = "fail"]
  <2>4. s2 \in Session
    BY <1>0, <1>2 DEF Good, Session
  <2>5. n \in Net /\ c \in Record
    BY <1>0, <1>2 DEF Good, Session, Net, Record
  <2>6. RequestInv(s2, n, c)
    BY <1>0, <1>2 DEF Good, Session, Profile, Net, Record, RequestInv, StageInv, HoldInv, CoverInv
  <2>7. /\ session' = [session EXCEPT ![r] = s2]
        /\ NoMove
        /\ UNCHANGED topups
    BY <1>2 DEF Goto
  <2> HIDE DEF s2
  <2> QED BY <2>4, <2>5, <2>6, <2>7, FrameNoMove DEF Good
<1> QED BY <1>0, <1>1, <1>2 DEF ReserveWallet, MayFail

\* A subscription reservation is raised.
LEMMA ReserveSubscriptionInv ==
  ASSUME IInv, NEW r \in Requests, ReserveSubscription(r)
  PROVE  IInv'
<1> DEFINE s == session[r]
           n == net[r]
           c == record[r]
<1>0. Good(s, n, c) /\ wallet \in Int /\ token \in Int /\ subUsed \in Nat
  BY IInvGood
<1>1. CASE /\ s.pc = "reserveFunding" /\ s.source = "subscription"
           /\ MoveSub(r, s.delta)
           /\ Goto(r, "reserveToken")
           /\ UNCHANGED <<wallet, token, record, topups>>
  <2> DEFINE s2 == [s EXCEPT !.pc = "reserveToken"]
             d == s.delta
             n2 == [n EXCEPT !.subscription = @ + (NewUsed(d) - subUsed)]
  <2>1. d \in Int
    BY <1>0, <1>1 DEF Good, Session, Profile
  <2>2. /\ NewUsed(d) \in Nat /\ NewUsed(d) - subUsed >= d
        /\ d >= 0 => NewUsed(d) - subUsed = d
    BY <1>0, <2>1, NewUsedBounds
  <2>4. s2 \in Session
    BY <1>0, <1>1 DEF Good, Session
  <2>5. n2 \in Net /\ c \in Record
    BY <1>0, <1>1, <2>1, <2>2 DEF Good, Session, Net, Record
  <2>6. RequestInv(s2, n2, c)
    BY <1>0, <1>1, <2>1, <2>2 DEF Good, Session, Profile, Net, Record, RequestInv, StageInv, HoldInv, CoverInv
  <2>7. /\ session' = [session EXCEPT ![r] = s2]
        /\ MoveSub(r, d) /\ record' = [record EXCEPT ![r] = c]
        /\ UNCHANGED <<wallet, token, topups>>
    BY <1>1 DEF Goto, IInv, TypeOK
  <2> HIDE DEF s2, d
  <2> QED BY <2>1, <2>4, <2>5, <2>6, <2>7, FrameSub DEF Good
<1>2. CASE s.pc = "reserveFunding" /\ NoMove /\ Goto(r, "fail") /\ UNCHANGED topups
  <2> DEFINE s2 == [s EXCEPT !.pc = "fail"]
  <2>4. s2 \in Session
    BY <1>0, <1>2 DEF Good, Session
  <2>5. n \in Net /\ c \in Record
    BY <1>0, <1>2 DEF Good, Session, Net, Record
  <2>6. RequestInv(s2, n, c)
    BY <1>0, <1>2 DEF Good, Session, Profile, Net, Record, RequestInv, StageInv, HoldInv, CoverInv
  <2>7. /\ session' = [session EXCEPT ![r] = s2]
        /\ NoMove
        /\ UNCHANGED topups
    BY <1>2 DEF Goto
  <2> HIDE DEF s2
  <2> QED BY <2>4, <2>5, <2>6, <2>7, FrameNoMove DEF Good
<1> QED BY <1>0, <1>1, <1>2 DEF ReserveSubscription

\* The raise reaches the token.
LEMMA ReserveTokenInv ==
  ASSUME IInv, NEW r \in Requests, ReserveToken(r)
  PROVE  IInv'
<1> DEFINE s == session[r]
           n == net[r]
           c == record[r]
<1>0. Good(s, n, c) /\ wallet \in Int /\ token \in Int /\ subUsed \in Nat
  BY IInvGood
<1>1. CASE /\ s.pc = "reserveToken"
           /\ MoveToken(r, IF s.info.playground THEN 0 ELSE s.delta)
           /\ session' = [session EXCEPT ![r] =
                [@ EXCEPT !.pc = "open",
                          !.preConsumed = s.preConsumed + s.delta,
                          !.tokenConsumed = s.tokenConsumed + s.delta,
                          !.extraReserved = s.extraReserved + s.delta,
                          !.trusted = s.trusted /\ ~s.info.image]]
           /\ UNCHANGED topups
  <2> DEFINE s2 == [s EXCEPT !.pc = "open",
                          !.preConsumed = s.preConsumed + s.delta,
                          !.tokenConsumed = s.tokenConsumed + s.delta,
                          !.extraReserved = s.extraReserved + s.delta,
                          !.trusted = s.trusted /\ ~s.info.image]
             d == IF s.info.playground THEN 0 ELSE s.delta
             n2 == [n EXCEPT !.token = @ + d]
  <2>1. d \in Int
    BY <1>0, <1>1 DEF Good, Session, Profile
  <2>3. /\ s.preConsumed + s.delta \in Nat /\ s.tokenConsumed + s.delta \in Nat
        /\ s.extraReserved + s.delta \in Nat /\ s.delta \in Nat
    BY <1>0, <1>1, <2>1 DEF Good, Session, Profile, Net, Record, RequestInv, StageInv, HoldInv, CoverInv
  <2>4. s2 \in Session
    BY <1>0, <1>1, <2>3 DEF Good, Session
  <2>5. n2 \in Net /\ c \in Record
    BY <1>0, <1>1, <2>1, <2>3 DEF Good, Session, Net, Record
  <2>6. RequestInv(s2, n2, c)
    BY <1>0, <1>1, <2>1, <2>3 DEF Good, Session, Profile, Net, Record, RequestInv, StageInv, HoldInv, CoverInv
  <2>7. /\ session' = [session EXCEPT ![r] = s2]
        /\ MoveToken(r, d)
        /\ UNCHANGED topups
    BY <1>1 DEF Goto
  <2> HIDE DEF s2, d
  <2> QED BY <2>1, <2>4, <2>5, <2>6, <2>7, FrameToken DEF Good
<1>2. CASE s.pc = "reserveToken" /\ NoMove /\ Goto(r, "rollbackReserve") /\ UNCHANGED topups
  <2> DEFINE s2 == [s EXCEPT !.pc = "rollbackReserve"]
  <2>4. s2 \in Session
    BY <1>0, <1>2 DEF Good, Session
  <2>5. n \in Net /\ c \in Record
    BY <1>0, <1>2 DEF Good, Session, Net, Record
  <2>6. RequestInv(s2, n, c)
    BY <1>0, <1>2 DEF Good, Session, Profile, Net, Record, RequestInv, StageInv, HoldInv, CoverInv
  <2>7. /\ session' = [session EXCEPT ![r] = s2]
        /\ NoMove
        /\ UNCHANGED topups
    BY <1>2 DEF Goto
  <2> HIDE DEF s2
  <2> QED BY <2>4, <2>5, <2>6, <2>7, FrameNoMove DEF Good
<1> QED BY <1>0, <1>1, <1>2 DEF ReserveToken

\* A raise the token refused is taken back.
LEMMA RollbackReserveInv ==
  ASSUME IInv, NEW r \in Requests, RollbackReserve(r)
  PROVE  IInv'
<1> DEFINE s == session[r]
           n == net[r]
           c == record[r]
<1>0. Good(s, n, c) /\ wallet \in Int /\ token \in Int /\ subUsed \in Nat
  BY IInvGood
<1>1. CASE /\ s.pc = "rollbackReserve" /\ s.source = "wallet"
           /\ MoveWallet(r, -s.delta)
           /\ session' = [session EXCEPT ![r] =
                [[s EXCEPT !.pc = "fail"] EXCEPT !.consumed = s.consumed - s.delta]]
           /\ UNCHANGED topups
  <2> DEFINE s2 == [[s EXCEPT !.pc = "fail"] EXCEPT !.consumed = s.consumed - s.delta]
             d == -s.delta
             n2 == [n EXCEPT !.wallet = @ + d]
  <2>1. d \in Int
    BY <1>0, <1>1 DEF Good, Session, Profile
  <2>3. s.consumed - s.delta \in Nat /\ s.delta \in Nat
    BY <1>0, <1>1, <2>1 DEF Good, Session, Profile, Net, Record, RequestInv, StageInv, HoldInv, CoverInv
  <2>4. s2 \in Session
    BY <1>0, <1>1, <2>3 DEF Good, Session
  <2>5. n2 \in Net /\ c \in Record
    BY <1>0, <1>1, <2>1, <2>3 DEF Good, Session, Net, Record
  <2>6. RequestInv(s2, n2, c)
    BY <1>0, <1>1, <2>1, <2>3 DEF Good, Session, Profile, Net, Record, RequestInv, StageInv, HoldInv, CoverInv
  <2>7. /\ session' = [session EXCEPT ![r] = s2]
        /\ MoveWallet(r, d)
        /\ UNCHANGED topups
    BY <1>1 DEF Goto
  <2> HIDE DEF s2, d
  <2> QED BY <2>1, <2>4, <2>5, <2>6, <2>7, FrameWallet DEF Good
<1>2. CASE /\ s.pc = "rollbackReserve"
           /\ session' = [session EXCEPT ![r] = [s EXCEPT !.pc = "fail"]]
           /\ NoMove /\ UNCHANGED topups
  <2> DEFINE s2 == [s EXCEPT !.pc = "fail"]
  <2>4. s2 \in Session
    BY <1>0, <1>2 DEF Good, Session
  <2>5. n \in Net /\ c \in Record
    BY <1>0, <1>2 DEF Good, Session, Net, Record
  <2>6. RequestInv(s2, n, c)
    BY <1>0, <1>2 DEF Good, Session, Profile, Net, Record, RequestInv, StageInv, HoldInv, CoverInv
  <2>7. /\ session' = [session EXCEPT ![r] = s2]
        /\ NoMove
        /\ UNCHANGED topups
    BY <1>2 DEF Goto
  <2> HIDE DEF s2
  <2> QED BY <2>4, <2>5, <2>6, <2>7, FrameNoMove DEF Good
<1>3. CASE /\ s.pc = "rollbackReserve" /\ s.source = "subscription"
           /\ MoveSub(r, -s.delta)
           /\ session' = [session EXCEPT ![r] = [s EXCEPT !.pc = "fail"]]
           /\ UNCHANGED <<wallet, token, record, topups>>
  <2> DEFINE s2 == [s EXCEPT !.pc = "fail"]
             d == -s.delta
             n2 == [n EXCEPT !.subscription = @ + (NewUsed(d) - subUsed)]
  <2>1. d \in Int
    BY <1>0, <1>3 DEF Good, Session, Profile
  <2>2. /\ NewUsed(d) \in Nat /\ NewUsed(d) - subUsed >= d
        /\ d >= 0 => NewUsed(d) - subUsed = d
    BY <1>0, <2>1, NewUsedBounds
  <2>4. s2 \in Session
    BY <1>0, <1>3 DEF Good, Session
  <2>5. n2 \in Net /\ c \in Record
    BY <1>0, <1>3, <2>1, <2>2 DEF Good, Session, Net, Record
  <2>6. RequestInv(s2, n2, c)
    BY <1>0, <1>3, <2>1, <2>2 DEF Good, Session, Profile, Net, Record, RequestInv, StageInv, HoldInv, CoverInv
  <2>7. /\ session' = [session EXCEPT ![r] = s2]
        /\ MoveSub(r, d) /\ record' = [record EXCEPT ![r] = c]
        /\ UNCHANGED <<wallet, token, topups>>
    BY <1>3 DEF Goto, IInv, TypeOK
  <2> HIDE DEF s2, d
  <2> QED BY <2>1, <2>4, <2>5, <2>6, <2>7, FrameSub DEF Good
<1>4. CASE /\ s.pc = "rollbackReserve"
           /\ session' = [session EXCEPT ![r] =
                [[s EXCEPT !.pc = "fail"] EXCEPT !.lostFunding = TRUE]]
           /\ NoMove /\ UNCHANGED topups
  <2> DEFINE s2 == [[s EXCEPT !.pc = "fail"] EXCEPT !.lostFunding = TRUE]
  <2>4. s2 \in Session
    BY <1>0, <1>4 DEF Good, Session
  <2>5. n \in Net /\ c \in Record
    BY <1>0, <1>4 DEF Good, Session, Net, Record
  <2>6. RequestInv(s2, n, c)
    BY <1>0, <1>4 DEF Good, Session, Profile, Net, Record, RequestInv, StageInv, HoldInv, CoverInv
  <2>7. /\ session' = [session EXCEPT ![r] = s2]
        /\ NoMove
        /\ UNCHANGED topups
    BY <1>4 DEF Goto
  <2> HIDE DEF s2
  <2> QED BY <2>4, <2>5, <2>6, <2>7, FrameNoMove DEF Good
<1> QED BY <1>0, <1>1, <1>2, <1>3, <1>4 DEF RollbackReserve

\* The wallet is looked at: fall back, or go on with a trust decision.
LEMMA TryWalletInv ==
  ASSUME IInv, NEW r \in Requests, TryWallet(r)
  PROVE  IInv'
<1> DEFINE s == session[r]
           n == net[r]
           c == record[r]
           trust == ShouldTrust(s, wallet)
<1>0. Good(s, n, c) /\ s.pc = "try" /\ NoMove /\ UNCHANGED topups
  BY IInvGood DEF TryWallet
<1>1. CASE GoFallback(r, FALSE)
  <2>1. PICK next \in Fallback(s.info.pref, s.source) :
          session' = [session EXCEPT ![r] = FallenBack(s, next, FALSE)]
    BY <1>1 DEF GoFallback
  <2>2. next \in Sources \cup {"none"}
    BY <2>1 DEF Fallback
  <2>3. Good(FallenBack(s, next, FALSE), n, c)
    <3>1. n \in Net /\ n.token >= 0 /\ (n.token = 0 \/ s.lostToken)
      BY <1>0 DEF Good, Session, Profile, Net, RequestInv, HoldInv, StageInv
    <3> QED BY <1>0, <2>2, <3>1, GoFallbackGood
  <2> QED BY <1>0, <2>1, <2>3, FrameNoMove
<1>2. CASE session' = [session EXCEPT ![r] =
             [@ EXCEPT !.pc = "preToken", !.trusted = trust,
                       !.delta = IF trust THEN 0 ELSE s.quota]]
  <2> DEFINE q == IF trust THEN 0 ELSE s.quota
             s2 == [s EXCEPT !.pc = "preToken", !.trusted = trust, !.delta = q]
  <2>1. trust \in BOOLEAN /\ q \in Nat /\ q \in Int
    BY <1>0 DEF Good, Session, ShouldTrust
  <2> HIDE DEF q, trust
  <2>2. s2 \in Session
    BY <1>0, <2>1 DEF Good, Session
  <2>3. RequestInv(s2, n, c)
    BY <1>0, <2>1 DEF Good, Session, Profile, Net, Record, RequestInv, StageInv, HoldInv, CoverInv
  <2>4. session' = [session EXCEPT ![r] = s2]
    BY <1>2 DEF q, trust
  <2> HIDE DEF s2
  <2> QED BY <1>0, <2>2, <2>3, <2>4, FrameNoMove DEF Good
<1> QED BY <1>0, <1>1, <1>2 DEF TryWallet

\* The token reservation is returned before another source is tried.
LEMMA RollbackTokenInv ==
  ASSUME IInv, NEW r \in Requests, RollbackToken(r)
  PROVE  IInv'
<1> DEFINE s == session[r]
           n == net[r]
           c == record[r]
           back == IF s.info.playground THEN 0 ELSE s.tokenConsumed
           n2 == [n EXCEPT !.token = @ + (-back)]
<1>0. Good(s, n, c) /\ s.pc \in {"rollbackFallback", "rollbackReject"} /\ UNCHANGED topups
  BY IInvGood DEF RollbackToken
<1>1. PICK lost \in BOOLEAN :
        /\ \/ MoveToken(r, -back) /\ lost = FALSE
           \/ NoMove /\ lost = TRUE
        /\ IF s.pc = "rollbackFallback"
           THEN GoFallback(r, lost)
           ELSE session' = [session EXCEPT ![r] = FallenBack(s, "none", lost)]
  BY DEF RollbackToken
<1>2. PICK next \in Sources \cup {"none"} :
        session' = [session EXCEPT ![r] = FallenBack(s, next, lost)]
  BY <1>1 DEF GoFallback, Fallback
<1>3. back \in Nat /\ n \in Net /\ n.token >= back /\ (~s.lostToken => n.token = back)
  BY <1>0 DEF Good, Session, Profile, Net, RequestInv, StageInv, HoldInv
<1> HIDE DEF back
<1>4. CASE MoveToken(r, -back)
  <2>1. n2 \in Net /\ n2.wallet = n.wallet /\ n2.subscription = n.subscription
        /\ n2.token >= 0 /\ (n2.token = 0 \/ s.lostToken)
    BY <1>3 DEF Net
  <2>2. Good(FallenBack(s, next, lost), n2, c)
    BY <1>0, <2>1, GoFallbackGood
  <2>3. -back \in Int
    BY <1>3
  <2> QED BY <1>0, <1>2, <1>4, <2>2, <2>3, FrameToken
<1>5. CASE NoMove /\ lost = TRUE
  <2>0. n \in Net /\ n.token >= 0 /\ lost
    BY <1>3, <1>5 DEF Net
  <2>1. Good(FallenBack(s, next, lost), n, c)
    BY <1>0, <2>0, GoFallbackGood
  <2> QED BY <1>0, <1>2, <1>5, <2>1, FrameNoMove
<1> QED BY <1>1, <1>4, <1>5

\* Settlement begins.
LEMMA SettleInv ==
  ASSUME IInv, NEW r \in Requests, NEW actual \in Nat, Settle(r, actual)
  PROVE  IInv'
<1> DEFINE s == session[r]
           n == net[r]
           c == record[r]
<1>0. Good(s, n, c) /\ wallet \in Int /\ token \in Int /\ subUsed \in Nat
  BY IInvGood
<1>1. CASE s.settled /\ s.pc = "open" /\ Goto(r, "returned") /\ NoMove /\ UNCHANGED topups
  <2> DEFINE s2 == [s EXCEPT !.pc = "returned"]
  <2>4. s2 \in Session
    BY <1>0, <1>1 DEF Good, Session
  <2>5. n \in Net /\ c \in Record
    BY <1>0, <1>1 DEF Good, Session, Net, Record
  <2>6. RequestInv(s2, n, c)
    BY <1>0, <1>1 DEF Good, Session, Profile, Net, Record, RequestInv, StageInv, HoldInv, CoverInv
  <2>7. /\ session' = [session EXCEPT ![r] = s2]
        /\ NoMove
        /\ UNCHANGED topups
    BY <1>1 DEF Goto
  <2> HIDE DEF s2
  <2> QED BY <2>4, <2>5, <2>6, <2>7, FrameNoMove DEF Good
<1>2. CASE /\ s.pc = "open" /\ ~s.settled /\ actual = s.preConsumed
           /\ session' = [session EXCEPT ![r] =
                [@ EXCEPT !.pc = "returned", !.settled = TRUE, !.actual = actual]]
           /\ NoMove /\ UNCHANGED topups
  <2> DEFINE s2 == [s EXCEPT !.pc = "returned", !.settled = TRUE, !.actual = actual]
  <2>4. s2 \in Session
    BY <1>0, <1>2 DEF Good, Session
  <2>5. n \in Net /\ c \in Record
    BY <1>0, <1>2 DEF Good, Session, Net, Record
  <2>6. RequestInv(s2, n, c)
    BY <1>0, <1>2 DEF Good, Session, Profile, Net, Record, RequestInv, StageInv, HoldInv, CoverInv
  <2>7. /\ session' = [session EXCEPT ![r] = s2]
        /\ NoMove
        /\ UNCHANGED topups
    BY <1>2 DEF Goto
  <2> HIDE DEF s2
  <2> QED BY <2>4, <2>5, <2>6, <2>7, FrameNoMove DEF Good
<1>3. CASE /\ s.pc = "open" /\ ~s.settled
           /\ session' = [session EXCEPT ![r] =
                [@ EXCEPT !.pc = IF s.fundingSettled THEN "settleToken" ELSE "settleFunding",
                          !.delta = actual - s.preConsumed, !.actual = actual]]
           /\ NoMove /\ UNCHANGED topups
  <2> DEFINE s2 == [s EXCEPT !.pc = IF s.fundingSettled THEN "settleToken" ELSE "settleFunding",
                          !.delta = actual - s.preConsumed, !.actual = actual]
  <2>3. actual - s.preConsumed \in Int /\ ~s.fundingSettled
    BY <1>0, <1>3 DEF Good, Session, Profile, Net, Record, RequestInv, StageInv, HoldInv, CoverInv
  <2>4. s2 \in Session
    BY <1>0, <1>3, <2>3 DEF Good, Session
  <2>5. n \in Net /\ c \in Record
    BY <1>0, <1>3, <2>3 DEF Good, Session, Net, Record
  <2>6. RequestInv(s2, n, c)
    BY <1>0, <1>3, <2>3 DEF Good, Session, Profile, Net, Record, RequestInv, StageInv, HoldInv, CoverInv
  <2>7. /\ session' = [session EXCEPT ![r] = s2]
        /\ NoMove
        /\ UNCHANGED topups
    BY <1>3 DEF Goto
  <2> HIDE DEF s2
  <2> QED BY <2>4, <2>5, <2>6, <2>7, FrameNoMove DEF Good
<1>z. \/ s.settled /\ s.pc = "open" /\ Goto(r, "returned") /\ NoMove /\ UNCHANGED topups
      \/ /\ s.pc = "open" /\ ~s.settled /\ actual = s.preConsumed
         /\ session' = [session EXCEPT ![r] =
              [@ EXCEPT !.pc = "returned", !.settled = TRUE, !.actual = actual]]
         /\ NoMove /\ UNCHANGED topups
      \/ /\ s.pc = "open" /\ ~s.settled
         /\ session' = [session EXCEPT ![r] =
              [@ EXCEPT !.pc = IF s.fundingSettled THEN "settleToken" ELSE "settleFunding",
                        !.delta = actual - s.preConsumed, !.actual = actual]]
         /\ NoMove /\ UNCHANGED topups
  <2>1. s.pc = "open" /\ NoMove /\ UNCHANGED topups
    BY DEF Settle
  <2>2. CASE s.settled
    <3>1. session' = [session EXCEPT ![r] = [@ EXCEPT !.pc = "returned"]]
      BY <2>2 DEF Settle
    <3> QED BY <2>1, <2>2, <3>1 DEF Goto
  <2>3. CASE ~s.settled /\ actual - s.preConsumed = 0
    <3>1. session' = [session EXCEPT ![r] =
              [@ EXCEPT !.pc = "returned", !.settled = TRUE, !.actual = actual]]
      BY <2>3 DEF Settle
    <3>2. actual = s.preConsumed
      BY <1>0, <2>3 DEF Good, Session
    <3> QED BY <2>1, <2>3, <3>1, <3>2
  <2>4. CASE ~s.settled /\ ~(actual - s.preConsumed = 0)
    BY <2>1, <2>4 DEF Settle
  <2> QED BY <2>2, <2>3, <2>4
<1> QED BY <1>0, <1>1, <1>2, <1>3, <1>z DEF Goto

\* The wallet pays the difference.
LEMMA SettleWalletInv ==
  ASSUME IInv, NEW r \in Requests, "clamp" \notin Faults, SettleWallet(r)
  PROVE  IInv'
<1> DEFINE s == session[r]
           n == net[r]
           c == record[r]
<1>0. Good(s, n, c) /\ wallet \in Int /\ token \in Int /\ subUsed \in Nat
  BY IInvGood
<1>1. CASE /\ s.pc = "settleFunding" /\ s.source = "wallet"
           /\ MoveWallet(r, s.delta)
           /\ session' = [session EXCEPT ![r] =
                [@ EXCEPT !.pc = "settleToken", !.fundingSettled = TRUE]]
           /\ UNCHANGED topups
  <2> DEFINE s2 == [s EXCEPT !.pc = "settleToken", !.fundingSettled = TRUE]
             d == s.delta
             n2 == [n EXCEPT !.wallet = @ + d]
  <2>1. d \in Int
    BY <1>0, <1>1 DEF Good, Session, Profile
  <2>4. s2 \in Session
    BY <1>0, <1>1 DEF Good, Session
  <2>5. n2 \in Net /\ c \in Record
    BY <1>0, <1>1, <2>1 DEF Good, Session, Net, Record
  <2>6. RequestInv(s2, n2, c)
    BY <1>0, <1>1, <2>1 DEF Good, Session, Profile, Net, Record, RequestInv, StageInv, HoldInv, CoverInv
  <2>7. /\ session' = [session EXCEPT ![r] = s2]
        /\ MoveWallet(r, d)
        /\ UNCHANGED topups
    BY <1>1 DEF Goto
  <2> HIDE DEF s2, d
  <2> QED BY <2>1, <2>4, <2>5, <2>6, <2>7, FrameWallet DEF Good
<1>2. CASE s.pc = "settleFunding" /\ NoMove /\ Goto(r, "returned") /\ UNCHANGED topups
  <2> DEFINE s2 == [s EXCEPT !.pc = "returned"]
  <2>4. s2 \in Session
    BY <1>0, <1>2 DEF Good, Session
  <2>5. n \in Net /\ c \in Record
    BY <1>0, <1>2 DEF Good, Session, Net, Record
  <2>6. RequestInv(s2, n, c)
    BY <1>0, <1>2 DEF Good, Session, Profile, Net, Record, RequestInv, StageInv, HoldInv, CoverInv
  <2>7. /\ session' = [session EXCEPT ![r] = s2]
        /\ NoMove
        /\ UNCHANGED topups
    BY <1>2 DEF Goto
  <2> HIDE DEF s2
  <2> QED BY <2>4, <2>5, <2>6, <2>7, FrameNoMove DEF Good
<1> QED BY <1>0, <1>1, <1>2 DEF SettleWallet, MayFail

\* The subscription pays the difference.
LEMMA SettleSubscriptionInv ==
  ASSUME IInv, NEW r \in Requests, SettleSubscription(r)
  PROVE  IInv'
<1> DEFINE s == session[r]
           n == net[r]
           c == record[r]
<1>0. Good(s, n, c) /\ wallet \in Int /\ token \in Int /\ subUsed \in Nat
  BY IInvGood
<1>1. CASE /\ s.pc = "settleFunding" /\ s.source = "subscription"
           /\ MoveSub(r, s.delta)
           /\ session' = [session EXCEPT ![r] =
                [@ EXCEPT !.pc = "settleToken", !.fundingSettled = TRUE]]
           /\ UNCHANGED <<wallet, token, record, topups>>
  <2> DEFINE s2 == [s EXCEPT !.pc = "settleToken", !.fundingSettled = TRUE]
             d == s.delta
             n2 == [n EXCEPT !.subscription = @ + (NewUsed(d) - subUsed)]
  <2>1. d \in Int
    BY <1>0, <1>1 DEF Good, Session, Profile
  <2>2. /\ NewUsed(d) \in Nat /\ NewUsed(d) - subUsed >= d
        /\ d >= 0 => NewUsed(d) - subUsed = d
    BY <1>0, <2>1, NewUsedBounds
  <2>4. s2 \in Session
    BY <1>0, <1>1 DEF Good, Session
  <2>5. n2 \in Net /\ c \in Record
    BY <1>0, <1>1, <2>1, <2>2 DEF Good, Session, Net, Record
  <2>6. RequestInv(s2, n2, c)
    BY <1>0, <1>1, <2>1, <2>2 DEF Good, Session, Profile, Net, Record, RequestInv, StageInv, HoldInv, CoverInv
  <2>7. /\ session' = [session EXCEPT ![r] = s2]
        /\ MoveSub(r, d) /\ record' = [record EXCEPT ![r] = c]
        /\ UNCHANGED <<wallet, token, topups>>
    BY <1>1 DEF Goto, IInv, TypeOK
  <2> HIDE DEF s2, d
  <2> QED BY <2>1, <2>4, <2>5, <2>6, <2>7, FrameSub DEF Good
<1>2. CASE s.pc = "settleFunding" /\ NoMove /\ Goto(r, "returned") /\ UNCHANGED topups
  <2> DEFINE s2 == [s EXCEPT !.pc = "returned"]
  <2>4. s2 \in Session
    BY <1>0, <1>2 DEF Good, Session
  <2>5. n \in Net /\ c \in Record
    BY <1>0, <1>2 DEF Good, Session, Net, Record
  <2>6. RequestInv(s2, n, c)
    BY <1>0, <1>2 DEF Good, Session, Profile, Net, Record, RequestInv, StageInv, HoldInv, CoverInv
  <2>7. /\ session' = [session EXCEPT ![r] = s2]
        /\ NoMove
        /\ UNCHANGED topups
    BY <1>2 DEF Goto
  <2> HIDE DEF s2
  <2> QED BY <2>4, <2>5, <2>6, <2>7, FrameNoMove DEF Good
<1> QED BY <1>0, <1>1, <1>2 DEF SettleSubscription

\* The token follows, or its error is logged.
LEMMA SettleTokenInv ==
  ASSUME IInv, NEW r \in Requests, SettleToken(r)
  PROVE  IInv'
<1> DEFINE s == session[r]
           n == net[r]
           c == record[r]
<1>0. Good(s, n, c) /\ wallet \in Int /\ token \in Int /\ subUsed \in Nat
  BY IInvGood
<1>1. CASE /\ s.pc = "settleToken"
           /\ MoveToken(r, IF s.info.playground THEN 0 ELSE s.delta)
           /\ session' = [session EXCEPT ![r] = [s EXCEPT !.pc = "returned", !.settled = TRUE]]
           /\ UNCHANGED topups
  <2> DEFINE s2 == [s EXCEPT !.pc = "returned", !.settled = TRUE]
             d == IF s.info.playground THEN 0 ELSE s.delta
             n2 == [n EXCEPT !.token = @ + d]
  <2>1. d \in Int
    BY <1>0, <1>1 DEF Good, Session, Profile
  <2>4. s2 \in Session
    BY <1>0, <1>1 DEF Good, Session
  <2>5. n2 \in Net /\ c \in Record
    BY <1>0, <1>1, <2>1 DEF Good, Session, Net, Record
  <2>6. RequestInv(s2, n2, c)
    BY <1>0, <1>1, <2>1 DEF Good, Session, Profile, Net, Record, RequestInv, StageInv, HoldInv, CoverInv
  <2>7. /\ session' = [session EXCEPT ![r] = s2]
        /\ MoveToken(r, d)
        /\ UNCHANGED topups
    BY <1>1 DEF Goto
  <2> HIDE DEF s2, d
  <2> QED BY <2>1, <2>4, <2>5, <2>6, <2>7, FrameToken DEF Good
<1>2. CASE /\ s.pc = "settleToken"
           /\ session' = [session EXCEPT ![r] =
                [[s EXCEPT !.pc = "returned", !.settled = TRUE] EXCEPT !.lostToken = TRUE]]
           /\ NoMove /\ UNCHANGED topups
  <2> DEFINE s2 == [[s EXCEPT !.pc = "returned", !.settled = TRUE] EXCEPT !.lostToken = TRUE]
  <2>4. s2 \in Session
    BY <1>0, <1>2 DEF Good, Session
  <2>5. n \in Net /\ c \in Record
    BY <1>0, <1>2 DEF Good, Session, Net, Record
  <2>6. RequestInv(s2, n, c)
    BY <1>0, <1>2 DEF Good, Session, Profile, Net, Record, RequestInv, StageInv, HoldInv, CoverInv
  <2>7. /\ session' = [session EXCEPT ![r] = s2]
        /\ NoMove
        /\ UNCHANGED topups
    BY <1>2 DEF Goto
  <2> HIDE DEF s2
  <2> QED BY <2>4, <2>5, <2>6, <2>7, FrameNoMove DEF Good
<1> QED BY <1>0, <1>1, <1>2 DEF SettleToken

\* The handler returned.
LEMMA FinishInv ==
  ASSUME IInv, NEW r \in Requests, Finish(r)
  PROVE  IInv'
<1> DEFINE s == session[r]
           n == net[r]
           c == record[r]
<1>0. Good(s, n, c) /\ wallet \in Int /\ token \in Int /\ subUsed \in Nat
  BY IInvGood
<1>1. CASE s.pc = "returned" /\ NoMove /\ Goto(r, "done") /\ UNCHANGED topups
  <2> DEFINE s2 == [s EXCEPT !.pc = "done"]
  <2>4. s2 \in Session
    BY <1>0, <1>1 DEF Good, Session
  <2>5. n \in Net /\ c \in Record
    BY <1>0, <1>1 DEF Good, Session, Net, Record
  <2>6. RequestInv(s2, n, c)
    BY <1>0, <1>1 DEF Good, Session, Profile, Net, Record, RequestInv, StageInv, HoldInv, CoverInv
  <2>7. /\ session' = [session EXCEPT ![r] = s2]
        /\ NoMove
        /\ UNCHANGED topups
    BY <1>1 DEF Goto
  <2> HIDE DEF s2
  <2> QED BY <2>4, <2>5, <2>6, <2>7, FrameNoMove DEF Good
<1>2. CASE s.pc = "returned" /\ NoMove /\ Goto(r, "open") /\ UNCHANGED topups
  <2> DEFINE s2 == [s EXCEPT !.pc = "open"]
  <2>4. s2 \in Session
    BY <1>0, <1>2 DEF Good, Session
  <2>5. n \in Net /\ c \in Record
    BY <1>0, <1>2 DEF Good, Session, Net, Record
  <2>6. RequestInv(s2, n, c)
    BY <1>0, <1>2 DEF Good, Session, Profile, Net, Record, RequestInv, StageInv, HoldInv, CoverInv
  <2>7. /\ session' = [session EXCEPT ![r] = s2]
        /\ NoMove
        /\ UNCHANGED topups
    BY <1>2 DEF Goto
  <2> HIDE DEF s2
  <2> QED BY <2>4, <2>5, <2>6, <2>7, FrameNoMove DEF Good
<1>3. CASE s.pc = "returned" /\ NoMove /\ Goto(r, "fail") /\ UNCHANGED topups
  <2> DEFINE s2 == [s EXCEPT !.pc = "fail"]
  <2>4. s2 \in Session
    BY <1>0, <1>3 DEF Good, Session
  <2>5. n \in Net /\ c \in Record
    BY <1>0, <1>3 DEF Good, Session, Net, Record
  <2>6. RequestInv(s2, n, c)
    BY <1>0, <1>3 DEF Good, Session, Profile, Net, Record, RequestInv, StageInv, HoldInv, CoverInv
  <2>7. /\ session' = [session EXCEPT ![r] = s2]
        /\ NoMove
        /\ UNCHANGED topups
    BY <1>3 DEF Goto
  <2> HIDE DEF s2
  <2> QED BY <2>4, <2>5, <2>6, <2>7, FrameNoMove DEF Good
<1> QED BY <1>0, <1>1, <1>2, <1>3 DEF Finish

\* The relay gives up.
LEMMA AttemptsFailedInv ==
  ASSUME IInv, NEW r \in Requests, AttemptsFailed(r)
  PROVE  IInv'
<1> DEFINE s == session[r]
           n == net[r]
           c == record[r]
<1>0. Good(s, n, c) /\ wallet \in Int /\ token \in Int /\ subUsed \in Nat
  BY IInvGood
<1>1. CASE s.pc = "open" /\ NoMove /\ Goto(r, "fail") /\ UNCHANGED topups
  <2> DEFINE s2 == [s EXCEPT !.pc = "fail"]
  <2>4. s2 \in Session
    BY <1>0, <1>1 DEF Good, Session
  <2>5. n \in Net /\ c \in Record
    BY <1>0, <1>1 DEF Good, Session, Net, Record
  <2>6. RequestInv(s2, n, c)
    BY <1>0, <1>1 DEF Good, Session, Profile, Net, Record, RequestInv, StageInv, HoldInv, CoverInv
  <2>7. /\ session' = [session EXCEPT ![r] = s2]
        /\ NoMove
        /\ UNCHANGED topups
    BY <1>1 DEF Goto
  <2> HIDE DEF s2
  <2> QED BY <2>4, <2>5, <2>6, <2>7, FrameNoMove DEF Good
<1> QED BY <1>0, <1>1 DEF AttemptsFailed

\* The refund is decided.
LEMMA RefundInv ==
  ASSUME IInv, NEW r \in Requests, Refund(r)
  PROVE  IInv'
<1> DEFINE s == session[r]
           n == net[r]
           c == record[r]
<1>0. Good(s, n, c) /\ wallet \in Int /\ token \in Int /\ subUsed \in Nat
  BY IInvGood
<1>1. CASE /\ s.pc = "fail" /\ NeedsRefund(s)
           /\ session' = [session EXCEPT ![r] =
                [@ EXCEPT !.pc = "done", !.refunded = TRUE, !.refund = "funding"]]
           /\ NoMove /\ UNCHANGED topups
  <2> DEFINE s2 == [s EXCEPT !.pc = "done", !.refunded = TRUE, !.refund = "funding"]
  <2>4. s2 \in Session
    BY <1>0, <1>1 DEF Good, Session, NeedsRefund
  <2>5. n \in Net /\ c \in Record
    BY <1>0, <1>1 DEF Good, Session, Net, Record, NeedsRefund
  <2>6. RequestInv(s2, n, c)
    BY <1>0, <1>1 DEF Good, Session, Profile, Net, Record, RequestInv, StageInv, HoldInv, CoverInv, NeedsRefund
  <2>7. /\ session' = [session EXCEPT ![r] = s2]
        /\ NoMove
        /\ UNCHANGED topups
    BY <1>1 DEF Goto, NeedsRefund
  <2> HIDE DEF s2
  <2> QED BY <2>4, <2>5, <2>6, <2>7, FrameNoMove DEF Good
<1>2. CASE s.pc = "fail" /\ NoMove /\ Goto(r, "done") /\ UNCHANGED topups
  <2> DEFINE s2 == [s EXCEPT !.pc = "done"]
  <2>4. s2 \in Session
    BY <1>0, <1>2 DEF Good, Session
  <2>5. n \in Net /\ c \in Record
    BY <1>0, <1>2 DEF Good, Session, Net, Record
  <2>6. RequestInv(s2, n, c)
    BY <1>0, <1>2 DEF Good, Session, Profile, Net, Record, RequestInv, StageInv, HoldInv, CoverInv
  <2>7. /\ session' = [session EXCEPT ![r] = s2]
        /\ NoMove
        /\ UNCHANGED topups
    BY <1>2 DEF Goto
  <2> HIDE DEF s2
  <2> QED BY <2>4, <2>5, <2>6, <2>7, FrameNoMove DEF Good
<1> QED BY <1>0, <1>1, <1>2 DEF Refund, Goto

\* The wallet is credited once.
LEMMA RefundWalletInv ==
  ASSUME IInv, NEW r \in Requests, RefundWallet(r)
  PROVE  IInv'
<1> DEFINE s == session[r]
           n == net[r]
           c == record[r]
<1>0. Good(s, n, c) /\ wallet \in Int /\ token \in Int /\ subUsed \in Nat
  BY IInvGood
<1>1. CASE /\ s.refund = "funding" /\ s.source = "wallet"
           /\ session' = [session EXCEPT ![r] = [s EXCEPT !.refund = "token"]]
           /\ NoMove /\ UNCHANGED topups
  <2> DEFINE s2 == [s EXCEPT !.refund = "token"]
  <2>4. s2 \in Session
    BY <1>0, <1>1 DEF Good, Session
  <2>5. n \in Net /\ c \in Record
    BY <1>0, <1>1 DEF Good, Session, Net, Record
  <2>6. RequestInv(s2, n, c)
    BY <1>0, <1>1 DEF Good, Session, Profile, Net, Record, RequestInv, StageInv, HoldInv, CoverInv
  <2>7. /\ session' = [session EXCEPT ![r] = s2]
        /\ NoMove
        /\ UNCHANGED topups
    BY <1>1 DEF Goto
  <2> HIDE DEF s2
  <2> QED BY <2>4, <2>5, <2>6, <2>7, FrameNoMove DEF Good
<1>2. CASE /\ s.refund = "funding" /\ s.source = "wallet"
           /\ MoveWallet(r, -s.consumed)
           /\ session' = [session EXCEPT ![r] = [s EXCEPT !.refund = "token"]]
           /\ UNCHANGED topups
  <2> DEFINE s2 == [s EXCEPT !.refund = "token"]
             d == -s.consumed
             n2 == [n EXCEPT !.wallet = @ + d]
  <2>1. d \in Int
    BY <1>0, <1>2 DEF Good, Session, Profile
  <2>4. s2 \in Session
    BY <1>0, <1>2 DEF Good, Session
  <2>5. n2 \in Net /\ c \in Record
    BY <1>0, <1>2, <2>1 DEF Good, Session, Net, Record
  <2>6. RequestInv(s2, n2, c)
    BY <1>0, <1>2, <2>1 DEF Good, Session, Profile, Net, Record, RequestInv, StageInv, HoldInv, CoverInv
  <2>7. /\ session' = [session EXCEPT ![r] = s2]
        /\ MoveWallet(r, d)
        /\ UNCHANGED topups
    BY <1>2 DEF Goto
  <2> HIDE DEF s2, d
  <2> QED BY <2>1, <2>4, <2>5, <2>6, <2>7, FrameWallet DEF Good
<1>3. CASE /\ s.refund = "funding" /\ s.source = "wallet"
           /\ session' = [session EXCEPT ![r] =
                [[s EXCEPT !.refund = "token"] EXCEPT !.lostFunding = TRUE]]
           /\ NoMove /\ UNCHANGED topups
  <2> DEFINE s2 == [[s EXCEPT !.refund = "token"] EXCEPT !.lostFunding = TRUE]
  <2>4. s2 \in Session
    BY <1>0, <1>3 DEF Good, Session
  <2>5. n \in Net /\ c \in Record
    BY <1>0, <1>3 DEF Good, Session, Net, Record
  <2>6. RequestInv(s2, n, c)
    BY <1>0, <1>3 DEF Good, Session, Profile, Net, Record, RequestInv, StageInv, HoldInv, CoverInv
  <2>7. /\ session' = [session EXCEPT ![r] = s2]
        /\ NoMove
        /\ UNCHANGED topups
    BY <1>3 DEF Goto
  <2> HIDE DEF s2
  <2> QED BY <2>4, <2>5, <2>6, <2>7, FrameNoMove DEF Good
<1> QED BY <1>0, <1>1, <1>2, <1>3 DEF RefundWallet

\* What Reserve added to a subscription is returned.
LEMMA RefundExtraInv ==
  ASSUME IInv, NEW r \in Requests, RefundExtra(r)
  PROVE  IInv'
<1> DEFINE s == session[r]
           n == net[r]
           c == record[r]
<1>0. Good(s, n, c) /\ wallet \in Int /\ token \in Int /\ subUsed \in Nat
  BY IInvGood
<1>1. CASE /\ s.refund = "extra"
           /\ session' = [session EXCEPT ![r] = [s EXCEPT !.refund = "token"]]
           /\ NoMove /\ UNCHANGED topups
  <2> DEFINE s2 == [s EXCEPT !.refund = "token"]
  <2>4. s2 \in Session
    BY <1>0, <1>1 DEF Good, Session
  <2>5. n \in Net /\ c \in Record
    BY <1>0, <1>1 DEF Good, Session, Net, Record
  <2>6. RequestInv(s2, n, c)
    BY <1>0, <1>1 DEF Good, Session, Profile, Net, Record, RequestInv, StageInv, HoldInv, CoverInv
  <2>7. /\ session' = [session EXCEPT ![r] = s2]
        /\ NoMove
        /\ UNCHANGED topups
    BY <1>1 DEF Goto
  <2> HIDE DEF s2
  <2> QED BY <2>4, <2>5, <2>6, <2>7, FrameNoMove DEF Good
<1>2. CASE /\ s.refund = "extra"
           /\ MoveSub(r, -s.extraReserved)
           /\ session' = [session EXCEPT ![r] = [s EXCEPT !.refund = "token"]]
           /\ UNCHANGED <<wallet, token, record, topups>>
  <2> DEFINE s2 == [s EXCEPT !.refund = "token"]
             d == -s.extraReserved
             n2 == [n EXCEPT !.subscription = @ + (NewUsed(d) - subUsed)]
  <2>1. d \in Int
    BY <1>0, <1>2 DEF Good, Session, Profile
  <2>2. /\ NewUsed(d) \in Nat /\ NewUsed(d) - subUsed >= d
        /\ d >= 0 => NewUsed(d) - subUsed = d
    BY <1>0, <2>1, NewUsedBounds
  <2>4. s2 \in Session
    BY <1>0, <1>2 DEF Good, Session
  <2>5. n2 \in Net /\ c \in Record
    BY <1>0, <1>2, <2>1, <2>2 DEF Good, Session, Net, Record
  <2>6. RequestInv(s2, n2, c)
    BY <1>0, <1>2, <2>1, <2>2 DEF Good, Session, Profile, Net, Record, RequestInv, StageInv, HoldInv, CoverInv
  <2>7. /\ session' = [session EXCEPT ![r] = s2]
        /\ MoveSub(r, d) /\ record' = [record EXCEPT ![r] = c]
        /\ UNCHANGED <<wallet, token, topups>>
    BY <1>2 DEF Goto, IInv, TypeOK
  <2> HIDE DEF s2, d
  <2> QED BY <2>1, <2>4, <2>5, <2>6, <2>7, FrameSub DEF Good
<1>3. CASE /\ s.refund = "extra"
           /\ session' = [session EXCEPT ![r] =
                [[s EXCEPT !.refund = "token"] EXCEPT !.lostFunding = TRUE]]
           /\ NoMove /\ UNCHANGED topups
  <2> DEFINE s2 == [[s EXCEPT !.refund = "token"] EXCEPT !.lostFunding = TRUE]
  <2>4. s2 \in Session
    BY <1>0, <1>3 DEF Good, Session
  <2>5. n \in Net /\ c \in Record
    BY <1>0, <1>3 DEF Good, Session, Net, Record
  <2>6. RequestInv(s2, n, c)
    BY <1>0, <1>3 DEF Good, Session, Profile, Net, Record, RequestInv, StageInv, HoldInv, CoverInv
  <2>7. /\ session' = [session EXCEPT ![r] = s2]
        /\ NoMove
        /\ UNCHANGED topups
    BY <1>3 DEF Goto
  <2> HIDE DEF s2
  <2> QED BY <2>4, <2>5, <2>6, <2>7, FrameNoMove DEF Good
<1> QED BY <1>0, <1>1, <1>2, <1>3 DEF RefundExtra

\* The token is credited.
LEMMA RefundTokenInv ==
  ASSUME IInv, NEW r \in Requests, RefundToken(r)
  PROVE  IInv'
<1> DEFINE s == session[r]
           n == net[r]
           c == record[r]
<1>0. Good(s, n, c) /\ wallet \in Int /\ token \in Int /\ subUsed \in Nat
  BY IInvGood
<1>1. CASE /\ s.refund = "token"
           /\ MoveToken(r, -(IF s.info.playground THEN 0 ELSE s.tokenConsumed))
           /\ session' = [session EXCEPT ![r] = [s EXCEPT !.refund = "done"]]
           /\ UNCHANGED topups
  <2> DEFINE s2 == [s EXCEPT !.refund = "done"]
             d == -(IF s.info.playground THEN 0 ELSE s.tokenConsumed)
             n2 == [n EXCEPT !.token = @ + d]
  <2>1. d \in Int
    BY <1>0, <1>1 DEF Good, Session, Profile
  <2>4. s2 \in Session
    BY <1>0, <1>1 DEF Good, Session
  <2>5. n2 \in Net /\ c \in Record
    BY <1>0, <1>1, <2>1 DEF Good, Session, Net, Record
  <2>6. RequestInv(s2, n2, c)
    BY <1>0, <1>1, <2>1 DEF Good, Session, Profile, Net, Record, RequestInv, StageInv, HoldInv, CoverInv
  <2>7. /\ session' = [session EXCEPT ![r] = s2]
        /\ MoveToken(r, d)
        /\ UNCHANGED topups
    BY <1>1 DEF Goto
  <2> HIDE DEF s2, d
  <2> QED BY <2>1, <2>4, <2>5, <2>6, <2>7, FrameToken DEF Good
<1>2. CASE /\ s.refund = "token"
           /\ session' = [session EXCEPT ![r] =
                [[s EXCEPT !.refund = "done"] EXCEPT !.lostToken = TRUE]]
           /\ NoMove /\ UNCHANGED topups
  <2> DEFINE s2 == [[s EXCEPT !.refund = "done"] EXCEPT !.lostToken = TRUE]
  <2>4. s2 \in Session
    BY <1>0, <1>2 DEF Good, Session
  <2>5. n \in Net /\ c \in Record
    BY <1>0, <1>2 DEF Good, Session, Net, Record
  <2>6. RequestInv(s2, n, c)
    BY <1>0, <1>2 DEF Good, Session, Profile, Net, Record, RequestInv, StageInv, HoldInv, CoverInv
  <2>7. /\ session' = [session EXCEPT ![r] = s2]
        /\ NoMove
        /\ UNCHANGED topups
    BY <1>2 DEF Goto
  <2> HIDE DEF s2
  <2> QED BY <2>4, <2>5, <2>6, <2>7, FrameNoMove DEF Good
<1> QED BY <1>0, <1>1, <1>2 DEF RefundToken

\* What an attempt of refundWithRetry may make of the session.
AfterAttempt(s, s2) ==
  \/ s2 = [s EXCEPT !.refund = "extra"]
  \/ s.tries + 1 < MaxAttempts /\ s2 = [s EXCEPT !.tries = s.tries + 1]
  \/ /\ s.tries + 1 >= MaxAttempts
     /\ \E l \in BOOLEAN : s2 = [[s EXCEPT !.tries = s.tries + 1]
                                   EXCEPT !.refund = "extra", !.lostFunding = l]

\* Whatever the attempt did to the record, the request stays good.
LEMMA AttemptGood ==
  ASSUME NEW s, NEW n, NEW c, Good(s, n, c), s.refund = "funding", s.source = "subscription",
         NEW s2, AfterAttempt(s, s2)
  PROVE  /\ Good(s2, n, c)
         /\ \A e \in Int : e <= 0 /\ e >= -c.amount /\ c.status # "refunded" =>
              Good(s2, [n EXCEPT !.subscription = @ + e], [c EXCEPT !.status = "refunded"])
<1>0. s.tries \in 0..2 /\ s.pc = "done" /\ ~s.settled
  BY DEF Good, Session, RequestInv, StageInv
<1>1. s2 \in Session
  <2>1. CASE s2 = [s EXCEPT !.refund = "extra"]
    BY <2>1 DEF Good, Session
  <2>2. CASE s2 = [s EXCEPT !.tries = s.tries + 1]
    BY <1>0, <2>2 DEF Good, Session
  <2>3. CASE \E l \in BOOLEAN : s2 = [[s EXCEPT !.tries = s.tries + 1]
                                        EXCEPT !.refund = "extra", !.lostFunding = l]
    <3>1. PICK l \in BOOLEAN : s2 = [[s EXCEPT !.tries = s.tries + 1]
                                     EXCEPT !.refund = "extra", !.lostFunding = l]
      BY <2>3
    <3>2. [s EXCEPT !.tries = s.tries + 1] \in Session
      BY <1>0 DEF Good, Session
    <3> QED BY <1>0, <3>1, <3>2 DEF Good, Session
  <2> QED BY <2>1, <2>2, <2>3 DEF AfterAttempt
<1>2. /\ s2.pc = "done" /\ ~s2.settled /\ s2.refund \in {"funding", "extra"}
      /\ s2.refund = "funding" => s2.tries < MaxAttempts
      /\ s2.source = s.source /\ s2.info = s.info /\ s2.refunded = s.refunded
      /\ s2.fundingSettled = s.fundingSettled /\ s2.preConsumed = s.preConsumed
      /\ s2.tokenConsumed = s.tokenConsumed /\ s2.extraReserved = s.extraReserved
      /\ s2.subPre = s.subPre
  <2>1. CASE s2 = [s EXCEPT !.refund = "extra"]
    BY <1>0, <2>1 DEF Good, Session
  <2>2. CASE s.tries + 1 < MaxAttempts /\ s2 = [s EXCEPT !.tries = s.tries + 1]
    BY <1>0, <2>2 DEF Good, Session
  <2>3. CASE \E l \in BOOLEAN : s2 = [[s EXCEPT !.tries = s.tries + 1]
                                        EXCEPT !.refund = "extra", !.lostFunding = l]
    <3>1. PICK l \in BOOLEAN : s2 = [[s EXCEPT !.tries = s.tries + 1]
                                     EXCEPT !.refund = "extra", !.lostFunding = l]
      BY <2>3
    <3>2. [s EXCEPT !.tries = s.tries + 1] \in Session
      BY <1>0 DEF Good, Session
    <3> QED BY <1>0, <3>1, <3>2 DEF Good, Session
  <2> QED BY <2>1, <2>2, <2>3 DEF AfterAttempt
<1>3. Good(s2, n, c)
  BY <1>0, <1>1, <1>2 DEF Good, Session, Profile, Net, Record, RequestInv, StageInv, HoldInv, CoverInv
<1>4. ASSUME NEW e \in Int, e <= 0, e >= -c.amount, c.status # "refunded"
      PROVE  Good(s2, [n EXCEPT !.subscription = @ + e], [c EXCEPT !.status = "refunded"])
  <2> DEFINE n2 == [n EXCEPT !.subscription = @ + e]
             c2 == [c EXCEPT !.status = "refunded"]
  <2>1. n2 \in Net /\ c2 \in Record
    BY <1>4 DEF Good, Net, Record
  <2>2. /\ n2.wallet = n.wallet /\ n2.token = n.token /\ n2.subscription = n.subscription + e
        /\ c2.amount = c.amount /\ c2.status = "refunded"
    BY DEF Good, Net, Record
  <2>3. c.amount = s.subPre /\ n.subscription >= s.subPre + s.extraReserved
    BY <1>0, <1>4 DEF Good, RequestInv, CoverInv
  <2> HIDE DEF n2, c2
  <2>4. RequestInv(s2, n2, c2)
    BY <1>0, <1>1, <1>2, <1>4, <2>1, <2>2, <2>3
       DEF Good, Session, Profile, Net, Record, RequestInv, StageInv, HoldInv, CoverInv
  <2> QED BY <1>1, <2>1, <2>4 DEF Good, n2, c2
<1> QED BY <1>3, <1>4

\* A subscription refund is attempted.
LEMMA RefundSubscriptionInv ==
  ASSUME IInv, NEW r \in Requests, RefundSubscription(r)
  PROVE  IInv'
<1> DEFINE s == session[r]
           n == net[r]
           c == record[r]
<1>0. Good(s, n, c) /\ wallet \in Int /\ token \in Int /\ subUsed \in Nat
  BY IInvGood
<1>1. s.refund = "funding" /\ s.source = "subscription" /\ UNCHANGED <<wallet, token, topups>>
  BY DEF RefundSubscription
<1>2. s.tries \in Nat /\ s.lostFunding \in BOOLEAN
  BY <1>0 DEF Good, Session
<1>3. PICK s2 : AfterAttempt(s, s2) /\ session' = [session EXCEPT ![r] = s2]
                /\ (RefundRecord(r) \/ UNCHANGED <<subUsed, record, net>>)
  <2> DEFINE again == [s EXCEPT !.tries = @ + 1]
             Retry(lost) == IF s.tries + 1 < MaxAttempts THEN again
                            ELSE [again EXCEPT !.refund = "extra", !.lostFunding = lost]
  <2>1. ASSUME NEW l \in BOOLEAN PROVE AfterAttempt(s, Retry(l))
    <3>1. CASE s.tries + 1 < MaxAttempts
      BY <3>1 DEF AfterAttempt
    <3>2. CASE ~(s.tries + 1 < MaxAttempts)
      <4>1. Retry(l) = [[s EXCEPT !.tries = s.tries + 1] EXCEPT !.refund = "extra", !.lostFunding = l]
        BY <3>2
      <4>2. s.tries + 1 >= MaxAttempts
        BY <1>2, <3>2
      <4> HIDE DEF Retry
      <4> QED BY <2>1, <4>1, <4>2 DEF AfterAttempt
    <3> QED BY <3>1, <3>2
  <2>2. AfterAttempt(s, [s EXCEPT !.refund = "extra"])
    BY DEF AfterAttempt
  <2>3. CASE RefundRecord(r) /\ session' = [session EXCEPT ![r] = [@ EXCEPT !.refund = "extra"]]
    BY <2>2, <2>3
  <2>4. CASE RefundRecord(r) /\ session' = [session EXCEPT ![r] = Retry(s.lostFunding)]
    <3> HIDE DEF Retry
    <3> QED BY <1>2, <2>1, <2>4
  <2>5. CASE /\ UNCHANGED <<subUsed, record, net>>
             /\ session' = [session EXCEPT ![r] = Retry(s.lostFunding \/ record[r].status # "refunded")]
    <3> HIDE DEF Retry
    <3>1. (s.lostFunding \/ record[r].status # "refunded") \in BOOLEAN
      OBVIOUS
    <3> QED BY <2>1, <2>5, <3>1
  <2> QED BY <2>3, <2>4, <2>5 DEF RefundSubscription
<1>4. Good(s2, n, c)
  BY <1>0, <1>1, <1>3, AttemptGood
<1>5. CASE UNCHANGED <<subUsed, record, net>>
  <2>1. NoMove /\ UNCHANGED topups
    BY <1>1, <1>5 DEF NoMove
  <2> QED BY <1>3, <1>4, <2>1, FrameNoMove
<1>6. CASE /\ c.status # "refunded" /\ MoveSub(r, -c.amount)
           /\ record' = [record EXCEPT ![r].status = "refunded"]
  <2> DEFINE d == -c.amount
             e == NewUsed(d) - subUsed
             c2 == [c EXCEPT !.status = "refunded"]
  <2>1. c.amount \in Nat /\ d \in Int /\ d <= 0
    BY <1>0 DEF Good, Record
  <2>2. e \in Int /\ e <= 0 /\ e >= -c.amount
    <3>1. d = -c.amount
      OBVIOUS
    <3> HIDE DEF d
    <3>2. /\ NewUsed(d) \in Nat /\ NewUsed(d) - subUsed >= d
          /\ d >= 0 => NewUsed(d) - subUsed = d
          /\ d < 0 => NewUsed(d) - subUsed <= 0
      BY <1>0, <2>1, NewUsedBounds
    <3> QED BY <1>0, <2>1, <3>1, <3>2
  <2>3. record' = [record EXCEPT ![r] = c2] /\ MoveSub(r, d)
    BY <1>6 DEF IInv, TypeOK
  <2> HIDE DEF e
  <2>4. Good(s2, [n EXCEPT !.subscription = @ + e], c2)
    BY <1>0, <1>1, <1>3, <1>6, <2>2, AttemptGood
  <2> HIDE DEF d, c2
  <2>5. Good(s2, [net[r] EXCEPT !.subscription = @ + (NewUsed(d) - subUsed)], c2)
    BY <2>4 DEF e
  <2> QED BY <1>1, <1>3, <2>1, <2>3, <2>5, FrameSub
<1> QED BY <1>3, <1>5, <1>6 DEF RefundRecord

\* A payment touches no request.
LEMMA TopUpInv ==
  ASSUME IInv, NEW q \in TopUps, TopUp(q)
  PROVE  IInv'
<1>1. q \in Nat
  BY BillingAssumption
<1>2. TypeOK'
  BY <1>1 DEF IInv, TypeOK, TopUp
<1> QED BY <1>2 DEF IInv, TopUp

-----------------------------------------------------------------------------
\* No request has begun.
LEMMA InitInv == Init => IInv
<1> SUFFICES ASSUME Init PROVE IInv
  OBVIOUS
<1>1. PICK info \in [Requests -> Profiles] :
        session = [r \in Requests |->
          [pc |-> "new", refund |-> "none", info |-> info[r], source |-> "wallet", quota |-> 0,
           tokenTrusted |-> FALSE, delta |-> 0, actual |-> 0, tries |-> 0, preConsumed |-> 0,
           tokenConsumed |-> 0, extraReserved |-> 0, trusted |-> FALSE,
           fundingSettled |-> FALSE, settled |-> FALSE, refunded |-> FALSE,
           consumed |-> 0, subPre |-> 0, lostFunding |-> FALSE, lostToken |-> FALSE]]
  BY DEF Init
<1>2. ASSUME NEW r \in Requests
      PROVE  Good(session[r], net[r], record[r])
  <2>1. session[r] \in Session
    BY <1>1, BillingAssumption DEF Session
  <2>2. net[r] \in Net /\ record[r] \in Record
    BY DEF Init, Net, Record
  <2>3. RequestInv(session[r], net[r], record[r])
    BY <1>1 DEF Init, RequestInv, StageInv, HoldInv, CoverInv
  <2> QED BY <2>1, <2>2, <2>3 DEF Good
<1>3. /\ session = [r \in Requests |-> session[r]] /\ net = [r \in Requests |-> net[r]]
      /\ record = [r \in Requests |-> record[r]]
  BY <1>1 DEF Init
<1>4. TypeOK
  BY <1>2, <1>3, BillingAssumption DEF Init, TypeOK, Good
<1> QED BY <1>2, <1>4 DEF IInv, Good

\* Every step preserves the inductive invariant when ClampUserChargedQuota
\* does not fail.
LEMMA NextInv ==
  ASSUME "clamp" \notin Faults, IInv, [Next]_vars
  PROVE  IInv'
<1>1. ASSUME NEW r \in Requests, RequestStep(r) PROVE IInv'
  <2>1. ASSUME NEW q \in Quotas, Reserve(r, q) \/ Settle(r, q) PROVE IInv'
    <3>1. q \in Nat
      BY BillingAssumption
    <3> QED BY <2>1, <3>1, ReserveInv, SettleInv
  <2> QED BY <1>1, <2>1, NewBillingSessionInv, TryWalletInv, TrySubscriptionInv,
             PreConsumeTokenInv, PreConsumeWalletInv, PreConsumeSubscriptionInv,
             RollbackTokenInv, ReserveImageWalletInv, ReserveWalletInv,
             ReserveSubscriptionInv, ReserveTokenInv, RollbackReserveInv, SettleWalletInv,
             SettleSubscriptionInv, SettleTokenInv, FinishInv, AttemptsFailedInv, RefundInv
          DEF RequestStep
<1>2. ASSUME NEW r \in Requests, RefundStep(r) PROVE IInv'
  BY <1>2, RefundWalletInv, RefundSubscriptionInv, RefundExtraInv, RefundTokenInv DEF RefundStep
<1>3. ASSUME NEW q \in TopUps, TopUp(q) PROVE IInv'
  BY <1>3, TopUpInv
<1>4. CASE UNCHANGED vars
  BY <1>4 DEF vars, IInv, TypeOK
<1> QED BY <1>1, <1>2, <1>3, <1>4 DEF Next

\* The inductive invariant holds in every reachable state.
THEOREM Invariance ==
  ASSUME "clamp" \notin Faults
  PROVE  Spec => []IInv
<1>1. IInv /\ [Next]_vars => IInv'
  BY NextInv
<1> QED BY <1>1, InitInv, PTL DEF Spec

\* The ledgers, sessions and records always hold values of their types: no
\* balance held for a request, and no recorded reservation, becomes negative.
THEOREM TypeCorrect ==
  ASSUME "clamp" \notin Faults
  PROVE  Spec => []TypeOK
<1>1. IInv => TypeOK
  BY DEF IInv
<1> QED BY <1>1, Invariance, PTL

\* No order of settlements, rollbacks, retries and refunds gives a request
\* back more than it paid (BillingSession, WalletFunding, SubscriptionFunding).
THEOREM NoOverRefund ==
  ASSUME "clamp" \notin Faults
  PROVE  Spec => []NeverOverRefunded
<1>1. IInv => NeverOverRefunded
  BY DEF IInv, NeverOverRefunded, RequestInv
<1> QED BY <1>1, Invariance, PTL

\* While the upstream works, the session's preConsumedQuota is exactly what
\* wallet, subscription and token were charged (preConsume, Reserve).
THEOREM Reconciled ==
  ASSUME "clamp" \notin Faults
  PROVE  Spec => []ReservationReconciled
<1>1. IInv => ReservationReconciled
  BY DEF IInv, TypeOK, Session, Profile, ReservationReconciled, RequestInv, StageInv, HoldInv, TokenShare
<1> QED BY <1>1, Invariance, PTL

\* A rejected request was rolled back completely (preConsume, NewBillingSession).
THEOREM RejectionIsFree ==
  ASSUME "clamp" \notin Faults
  PROVE  Spec => []RejectedPaysNothing
<1>1. IInv => RejectedPaysNothing
  BY DEF IInv, TypeOK, Session, Profile, RejectedPaysNothing, RequestInv, StageInv, HoldInv
<1> QED BY <1>1, Invariance, PTL

-----------------------------------------------------------------------------
(* Settlement and refund are exact.                                        *)

\* What ExactInv says of one request.
Exact(s, n, c) == s.info \in Profiles /\ SettledInv(s, n) /\ ReturnInv(s, n, c)

\* What a step of request r may do.
Own(r) ==
  /\ \A q \in Requests \ {r} : session'[q] = session[q] /\ net'[q] = net[q] /\ record'[q] = record[q]
  /\ subUsed' - subUsed = net'[r].subscription - net[r].subscription
  /\ Exact(session'[r], net'[r], record'[r])

\* What a step of request r may rely on.
Ready(r) == IInv /\ Exact(session[r], net[r], record[r]) /\ net[r].subscription <= subUsed


\* A step that leaves request r exact and the others alone.
LEMMA OwnFrame ==
  ASSUME IInv, NEW r \in Requests, NEW s, NEW n, NEW c, Exact(s, n, c),
         session' = [session EXCEPT ![r] = s], net' = [net EXCEPT ![r] = n],
         record' = [record EXCEPT ![r] = c],
         subUsed' - subUsed = n.subscription - net[r].subscription
  PROVE  Own(r)
<1>1. session'[r] = s /\ net'[r] = n /\ record'[r] = c
  BY DEF IInv, TypeOK
<1>2. \A q \in Requests \ {r} : session'[q] = session[q] /\ net'[q] = net[q] /\ record'[q] = record[q]
  BY DEF IInv, TypeOK
<1> QED BY <1>1, <1>2 DEF Own

\* The frame of a step that moves no quota.
LEMMA OwnNoMove ==
  ASSUME IInv, NEW r \in Requests, NEW s, Exact(s, net[r], record[r]),
         session' = [session EXCEPT ![r] = s], NoMove
  PROVE  Own(r)
<1>1. net' = [net EXCEPT ![r] = net[r]] /\ record' = [record EXCEPT ![r] = record[r]]
  BY DEF IInv, TypeOK, NoMove
<1>2. subUsed' - subUsed = net[r].subscription - net[r].subscription
  BY DEF IInv, TypeOK, NoMove, Net
<1> QED BY <1>1, <1>2, OwnFrame

\* The frame of a wallet movement.
LEMMA OwnWallet ==
  ASSUME IInv, NEW r \in Requests, NEW s, NEW d \in Int,
         Exact(s, [net[r] EXCEPT !.wallet = @ + d], record[r]),
         session' = [session EXCEPT ![r] = s], MoveWallet(r, d)
  PROVE  Own(r)
<1> DEFINE n == [net[r] EXCEPT !.wallet = @ + d]
<1>1. net' = [net EXCEPT ![r] = n] /\ record' = [record EXCEPT ![r] = record[r]]
  BY DEF IInv, TypeOK, MoveWallet
<1>2. subUsed' - subUsed = n.subscription - net[r].subscription
  BY DEF IInv, TypeOK, MoveWallet, Net
<1> HIDE DEF n
<1> QED BY <1>1, <1>2, OwnFrame DEF n

\* The frame of a token movement.
LEMMA OwnToken ==
  ASSUME IInv, NEW r \in Requests, NEW s, NEW d \in Int,
         Exact(s, [net[r] EXCEPT !.token = @ + d], record[r]),
         session' = [session EXCEPT ![r] = s], MoveToken(r, d)
  PROVE  Own(r)
<1> DEFINE n == [net[r] EXCEPT !.token = @ + d]
<1>1. net' = [net EXCEPT ![r] = n] /\ record' = [record EXCEPT ![r] = record[r]]
  BY DEF IInv, TypeOK, MoveToken
<1>2. subUsed' - subUsed = n.subscription - net[r].subscription
  BY DEF IInv, TypeOK, MoveToken, Net
<1> HIDE DEF n
<1> QED BY <1>1, <1>2, OwnFrame DEF n

\* A delta that takes back no more than the request holds is applied in full.
LEMMA OwnSub ==
  ASSUME NEW r \in Requests, Ready(r), NEW s, NEW c, NEW d \in Int,
         d >= -net[r].subscription,
         Exact(s, [net[r] EXCEPT !.subscription = @ + d], c),
         session' = [session EXCEPT ![r] = s], MoveSub(r, d),
         record' = [record EXCEPT ![r] = c]
  PROVE  Own(r)
<1> DEFINE n == [net[r] EXCEPT !.subscription = @ + d]
<1>0. subUsed \in Nat /\ net[r] \in Net /\ net[r].subscription \in Int
  BY DEF Ready, IInv, TypeOK, Net
<1>1. NewUsed(d) = subUsed + d
  BY <1>0 DEF Ready, NewUsed, Max2
<1>2. net' = [net EXCEPT ![r] = n]
  <2>1. NewUsed(d) - subUsed = d
    BY <1>0, <1>1
  <2> QED BY <2>1 DEF Ready, IInv, TypeOK, MoveSub
<1>3. subUsed' - subUsed = n.subscription - net[r].subscription
  BY <1>0, <1>1 DEF MoveSub, Net
<1> HIDE DEF n
<1> QED BY <1>2, <1>3, OwnFrame DEF n, Ready

\* A session that holds nothing from a funding source.
Idle(s) == s.pc \in Unfunded /\ s.info \in Profiles

\* Where nothing is funded there is nothing to return or to settle.
LEMMA OwnUnfunded ==
  ASSUME IInv, IInv', NEW r \in Requests, NEW s, Idle(s),
         session' = [session EXCEPT ![r] = s], NoMove \/ \E d \in Int : MoveToken(r, d)
  PROVE  Own(r)
<1>1. session'[r] = s /\ StageInv(s)
  BY DEF IInv, TypeOK, RequestInv
<1>2. ASSUME NEW n, NEW c PROVE Exact(s, n, c)
  BY <1>1 DEF Idle, StageInv, Exact, SettledInv, ReturnInv
<1>3. CASE NoMove
  BY <1>2, <1>3, OwnNoMove
<1>4. ASSUME NEW d \in Int, MoveToken(r, d) PROVE Own(r)
  BY <1>2, <1>4, OwnToken
<1> QED BY <1>3, <1>4

\* The steps of NewBillingSession up to the funding reservation.
LEMMA OpeningOwn ==
  ASSUME NEW r \in Requests, Ready(r), IInv',
         \/ NewBillingSession(r) \/ TryWallet(r) \/ TrySubscription(r)
         \/ PreConsumeToken(r) \/ RollbackToken(r)
  PROVE  Own(r)
<1> DEFINE s == session[r]
<1>0. IInv /\ Good(s, net[r], record[r]) /\ s.info \in Profiles
  BY IInvGood DEF Ready, Exact
<1>f. ASSUME NEW lost, GoFallback(r, lost)
      PROVE  \E s2 : session' = [session EXCEPT ![r] = s2] /\ Idle(s2)
  <2>1. PICK next : session' = [session EXCEPT ![r] = FallenBack(s, next, lost)]
    BY <1>f DEF GoFallback
  <2>2. Idle(FallenBack(s, next, lost))
    BY <1>0 DEF Idle, Good, Session, FallenBack, Fresh, NothingReserved
  <2> QED BY <2>1, <2>2
<1>1. CASE NewBillingSession(r)
  <2>1. PICK source \in FirstSource(s.info.pref), q \in Quotas :
          session' = [session EXCEPT ![r] =
            [Fresh(s, source, "try") EXCEPT !.quota = q,
               !.tokenTrusted = s.info.unlimited \/ token > TrustQuota]]
    BY <1>1 DEF NewBillingSession
  <2> DEFINE s2 == [Fresh(s, source, "try") EXCEPT !.quota = q,
                      !.tokenTrusted = s.info.unlimited \/ token > TrustQuota]
  <2>2. Idle(s2)
    BY <1>0 DEF Idle, Good, Session, Fresh, NothingReserved
  <2> QED BY <1>0, <1>1, <2>1, <2>2, OwnUnfunded DEF NewBillingSession
<1>2. CASE TryWallet(r)
  <2>1. CASE GoFallback(r, FALSE)
    BY <1>0, <1>2, <1>f, <2>1, OwnUnfunded DEF TryWallet
  <2>2. CASE session' = [session EXCEPT ![r] =
               [@ EXCEPT !.pc = "preToken", !.trusted = ShouldTrust(s, wallet),
                         !.delta = IF ShouldTrust(s, wallet) THEN 0 ELSE s.quota]]
    <3>1. Idle([s EXCEPT !.pc = "preToken", !.trusted = ShouldTrust(s, wallet),
              !.delta = IF ShouldTrust(s, wallet) THEN 0 ELSE s.quota])
      BY <1>0 DEF Idle, Good, Session
    <3> QED BY <1>0, <1>2, <2>2, <3>1, OwnUnfunded DEF TryWallet
  <2> QED BY <1>2, <2>1, <2>2 DEF TryWallet
<1>3. CASE TrySubscription(r)
  <2>1. Idle([s EXCEPT !.pc = "preToken", !.delta = Max2(s.quota, 1)])
    BY <1>0 DEF Idle, Good, Session
  <2> QED BY <1>0, <1>3, <2>1, OwnUnfunded DEF TrySubscription
<1>4. CASE PreConsumeToken(r)
  <2>1. Idle([s EXCEPT !.pc = "preFunding", !.tokenConsumed = s.delta])
    BY <1>0 DEF Idle, Good, Session
  <2>2. Idle([s EXCEPT !.pc = "rejected"])
    BY <1>0 DEF Idle, Good, Session
  <2>3. (IF s.info.playground THEN 0 ELSE s.delta) \in Int
    BY <1>0 DEF Good, Session, Profile
  <2> QED BY <1>0, <1>4, <2>1, <2>2, <2>3, OwnUnfunded DEF PreConsumeToken, Goto
<1>5. CASE RollbackToken(r)
  <2> DEFINE back == IF s.info.playground THEN 0 ELSE s.tokenConsumed
  <2>1. -back \in Int
    BY <1>0 DEF Good, Session, Profile
  <2>2. \E s2 : session' = [session EXCEPT ![r] = s2] /\ Idle(s2)
    <3>1. ASSUME NEW lost \in BOOLEAN PROVE Idle(FallenBack(s, "none", lost))
      BY <1>0 DEF Idle, Good, Session, FallenBack
    <3> QED BY <1>5, <1>f, <3>1 DEF RollbackToken
  <2>3. MoveToken(r, -back) \/ NoMove
    BY <1>5 DEF RollbackToken
  <2> HIDE DEF back
  <2> QED BY <1>0, <2>1, <2>2, <2>3, OwnUnfunded
<1> QED BY <1>1, <1>2, <1>3, <1>4, <1>5

\* Reserving on the wallet.
LEMMA PreConsumeWalletOwn ==
  ASSUME NEW r \in Requests, Ready(r), PreConsumeWallet(r)
  PROVE  Own(r)
<1> DEFINE s == session[r]
           n == net[r]
           c == record[r]
<1>0. Good(s, n, c) /\ Exact(s, n, c) /\ n.subscription <= subUsed /\ s.pc = "preFunding" /\ s.source = "wallet"
  BY IInvGood DEF Ready, PreConsumeWallet
<1>d. s.delta \in Int
  BY <1>0 DEF Good, Session
<1>a. Exact([s EXCEPT !.pc = "open", !.preConsumed = s.delta, !.consumed = s.delta],
           [n EXCEPT !.wallet = @ + s.delta], c)
  <2> HIDE DEF s, n, c
  <2> QED BY <1>0, <1>d DEF Good, Session, Profile, Net, Record, RequestInv, StageInv, HoldInv, CoverInv,
             Exact, SettledInv, ReturnInv, Owed
<1>b. Exact([s EXCEPT !.pc = "rollbackFallback"], n, c)
  <2> HIDE DEF s, n, c
  <2> QED BY <1>0 DEF Good, Session, Profile, Net, Record, RequestInv, StageInv, HoldInv, CoverInv,
             Exact, SettledInv, ReturnInv, Owed
<1>e. Exact([s EXCEPT !.pc = "rollbackReject"], n, c)
  <2> HIDE DEF s, n, c
  <2> QED BY <1>0 DEF Good, Session, Profile, Net, Record, RequestInv, StageInv, HoldInv, CoverInv,
             Exact, SettledInv, ReturnInv, Owed
<1>1. CASE /\ MoveWallet(r, s.delta)
           /\ session' = [session EXCEPT ![r] =
                [@ EXCEPT !.pc = "open", !.preConsumed = s.delta, !.consumed = s.delta]]
  BY <1>0, <1>1, <1>a, <1>d, OwnWallet DEF Ready
<1>2. CASE NoMove /\ Goto(r, "rollbackFallback")
  BY <1>0, <1>2, <1>b, OwnNoMove DEF Ready, Goto
<1>3. CASE NoMove /\ Goto(r, "rollbackReject")
  BY <1>0, <1>3, <1>e, OwnNoMove DEF Ready, Goto
<1> QED BY <1>0, <1>1, <1>2, <1>3 DEF PreConsumeWallet

\* Reserving on the subscription.
LEMMA PreConsumeSubscriptionOwn ==
  ASSUME NEW r \in Requests, Ready(r), PreConsumeSubscription(r)
  PROVE  Own(r)
<1> DEFINE s == session[r]
           n == net[r]
           c == record[r]
<1>0. Good(s, n, c) /\ Exact(s, n, c) /\ n.subscription <= subUsed /\ s.pc = "preFunding" /\ s.source = "subscription"
  BY IInvGood DEF Ready, PreConsumeSubscription
<1>d. s.delta \in Int
  BY <1>0 DEF Good, Session
<1>a. Exact([s EXCEPT !.pc = "open", !.preConsumed = s.delta, !.subPre = s.delta],
           [n EXCEPT !.subscription = @ + s.delta], [status |-> "consumed", amount |-> s.delta])
  <2> HIDE DEF s, n, c
  <2> QED BY <1>0, <1>d DEF Good, Session, Profile, Net, Record, RequestInv, StageInv, HoldInv, CoverInv,
             Exact, SettledInv, ReturnInv, Owed
<1>g. s.delta >= -n.subscription
  <2> HIDE DEF s, n, c
  <2> QED BY <1>0, <1>d DEF Good, Session, Profile, Net, Record, RequestInv, StageInv, HoldInv, CoverInv,
             Exact, SettledInv, ReturnInv, Owed
<1>b. Exact([s EXCEPT !.pc = "rollbackFallback"], n, c)
  <2> HIDE DEF s, n, c
  <2> QED BY <1>0 DEF Good, Session, Profile, Net, Record, RequestInv, StageInv, HoldInv, CoverInv,
             Exact, SettledInv, ReturnInv, Owed
<1>e. Exact([s EXCEPT !.pc = "rollbackReject"], n, c)
  <2> HIDE DEF s, n, c
  <2> QED BY <1>0 DEF Good, Session, Profile, Net, Record, RequestInv, StageInv, HoldInv, CoverInv,
             Exact, SettledInv, ReturnInv, Owed
<1>1. CASE /\ MoveSub(r, s.delta)
           /\ record' = [record EXCEPT ![r] = [status |-> "consumed", amount |-> s.delta]]
           /\ session' = [session EXCEPT ![r] =
                [@ EXCEPT !.pc = "open", !.preConsumed = s.delta, !.subPre = s.delta]]
  BY <1>0, <1>1, <1>a, <1>d, <1>g, OwnSub
<1>2. CASE NoMove /\ Goto(r, "rollbackFallback")
  BY <1>0, <1>2, <1>b, OwnNoMove DEF Ready, Goto
<1>3. CASE NoMove /\ Goto(r, "rollbackReject")
  BY <1>0, <1>3, <1>e, OwnNoMove DEF Ready, Goto
<1> QED BY <1>0, <1>1, <1>2, <1>3 DEF PreConsumeSubscription

\* Raising the reservation begins.
LEMMA ReserveOwn ==
  ASSUME NEW r \in Requests, Ready(r), NEW q \in Nat, Reserve(r, q)
  PROVE  Own(r)
<1> DEFINE s == session[r]
           n == net[r]
           c == record[r]
<1>0. Good(s, n, c) /\ Exact(s, n, c) /\ n.subscription <= subUsed /\ s.pc = "open"
  BY IInvGood DEF Ready, Reserve
<1>a. Exact([s EXCEPT !.pc = "reserveFunding", !.delta = q - s.preConsumed], n, c)
  <2> HIDE DEF s, n, c
  <2> QED BY <1>0 DEF Good, Session, Profile, Net, Record, RequestInv, StageInv, HoldInv, CoverInv,
             Exact, SettledInv, ReturnInv, Owed
<1>1. CASE /\ NoMove
           /\ session' = [session EXCEPT ![r] =
                [@ EXCEPT !.pc = "reserveFunding", !.delta = q - s.preConsumed]]
  BY <1>0, <1>1, <1>a, OwnNoMove DEF Ready
<1> QED BY <1>0, <1>1 DEF Reserve

\* An image request on the wallet is exempt from ReturnInv.
LEMMA ReserveImageWalletOwn ==
  ASSUME NEW r \in Requests, Ready(r), ReserveImageWallet(r)
  PROVE  Own(r)
<1> DEFINE s == session[r]
           n == net[r]
           c == record[r]
<1>0. Good(s, n, c) /\ Exact(s, n, c) /\ n.subscription <= subUsed /\ s.pc = "reserveFunding" /\ s.source = "wallet" /\ s.info.image
  BY IInvGood DEF Ready, ReserveImageWallet
<1>d. s.delta \in Int
  BY <1>0 DEF Good, Session
<1>a. Exact([s EXCEPT !.pc = "reserveToken", !.consumed = s.delta],
           [n EXCEPT !.wallet = @ + s.delta], c)
  <2> HIDE DEF s, n, c
  <2> QED BY <1>0, <1>d DEF Good, Session, Profile, Net, Record, RequestInv, StageInv, HoldInv, CoverInv,
             Exact, SettledInv, ReturnInv, Owed
<1>b. Exact([s EXCEPT !.pc = "fail"], n, c)
  <2> HIDE DEF s, n, c
  <2> QED BY <1>0 DEF Good, Session, Profile, Net, Record, RequestInv, StageInv, HoldInv, CoverInv,
             Exact, SettledInv, ReturnInv, Owed
<1>1. CASE /\ MoveWallet(r, s.delta)
           /\ session' = [session EXCEPT ![r] =
                [@ EXCEPT !.pc = "reserveToken", !.consumed = s.delta]]
  BY <1>0, <1>1, <1>a, <1>d, OwnWallet DEF Ready
<1>2. CASE NoMove /\ Goto(r, "fail")
  BY <1>0, <1>2, <1>b, OwnNoMove DEF Ready, Goto
<1> QED BY <1>0, <1>1, <1>2 DEF ReserveImageWallet

\* Another request adds the raise to what its refund returns.
LEMMA ReserveWalletOwn ==
  ASSUME NEW r \in Requests, Ready(r), ReserveWallet(r), "clamp" \notin Faults
  PROVE  Own(r)
<1> DEFINE s == session[r]
           n == net[r]
           c == record[r]
<1>0. Good(s, n, c) /\ Exact(s, n, c) /\ n.subscription <= subUsed /\ s.pc = "reserveFunding" /\ s.source = "wallet" /\ ~s.info.image
  BY IInvGood DEF Ready, ReserveWallet
<1>d. s.delta \in Int
  BY <1>0 DEF Good, Session
<1>a. Exact([s EXCEPT !.pc = "reserveToken", !.consumed = s.consumed + s.delta],
           [n EXCEPT !.wallet = @ + s.delta], c)
  <2> HIDE DEF s, n, c
  <2> QED BY <1>0, <1>d DEF Good, Session, Profile, Net, Record, RequestInv, StageInv, HoldInv, CoverInv,
             Exact, SettledInv, ReturnInv, Owed
<1>b. Exact([s EXCEPT !.pc = "fail"], n, c)
  <2> HIDE DEF s, n, c
  <2> QED BY <1>0 DEF Good, Session, Profile, Net, Record, RequestInv, StageInv, HoldInv, CoverInv,
             Exact, SettledInv, ReturnInv, Owed
<1>1. CASE /\ MoveWallet(r, s.delta)
           /\ session' = [session EXCEPT ![r] =
                [@ EXCEPT !.pc = "reserveToken", !.consumed = s.consumed + s.delta]]
  BY <1>0, <1>1, <1>a, <1>d, OwnWallet DEF Ready
<1>2. CASE NoMove /\ Goto(r, "fail")
  BY <1>0, <1>2, <1>b, OwnNoMove DEF Ready, Goto
<1> QED BY <1>0, <1>1, <1>2 DEF ReserveWallet, MayFail

\* The raise of a subscription is returned as extraReserved.
LEMMA ReserveSubscriptionOwn ==
  ASSUME NEW r \in Requests, Ready(r), ReserveSubscription(r)
  PROVE  Own(r)
<1> DEFINE s == session[r]
           n == net[r]
           c == record[r]
<1>0. Good(s, n, c) /\ Exact(s, n, c) /\ n.subscription <= subUsed /\ s.pc = "reserveFunding" /\ s.source = "subscription"
  BY IInvGood DEF Ready, ReserveSubscription
<1>d. s.delta \in Int
  BY <1>0 DEF Good, Session
<1>r. record = [record EXCEPT ![r] = c]
  BY DEF Ready, IInv, TypeOK
<1>a. Exact([s EXCEPT !.pc = "reserveToken"], [n EXCEPT !.subscription = @ + s.delta], c)
  <2> HIDE DEF s, n, c
  <2> QED BY <1>0, <1>d DEF Good, Session, Profile, Net, Record, RequestInv, StageInv, HoldInv, CoverInv,
             Exact, SettledInv, ReturnInv, Owed
<1>g. s.delta >= -n.subscription
  <2> HIDE DEF s, n, c
  <2> QED BY <1>0, <1>d DEF Good, Session, Profile, Net, Record, RequestInv, StageInv, HoldInv, CoverInv,
             Exact, SettledInv, ReturnInv, Owed
<1>b. Exact([s EXCEPT !.pc = "fail"], n, c)
  <2> HIDE DEF s, n, c
  <2> QED BY <1>0 DEF Good, Session, Profile, Net, Record, RequestInv, StageInv, HoldInv, CoverInv,
             Exact, SettledInv, ReturnInv, Owed
<1>1. CASE MoveSub(r, s.delta) /\ Goto(r, "reserveToken") /\ UNCHANGED record
  BY <1>0, <1>1, <1>a, <1>d, <1>g, <1>r, OwnSub DEF Goto
<1>2. CASE NoMove /\ Goto(r, "fail")
  BY <1>0, <1>2, <1>b, OwnNoMove DEF Ready, Goto
<1> QED BY <1>0, <1>1, <1>2 DEF ReserveSubscription

\* The raise reaches the token.
LEMMA ReserveTokenOwn ==
  ASSUME NEW r \in Requests, Ready(r), ReserveToken(r)
  PROVE  Own(r)
<1> DEFINE s == session[r]
           n == net[r]
           c == record[r]
<1>0. Good(s, n, c) /\ Exact(s, n, c) /\ n.subscription <= subUsed /\ s.pc = "reserveToken"
  BY IInvGood DEF Ready, ReserveToken
<1>d. s.delta \in Int /\ (IF s.info.playground THEN 0 ELSE s.delta) \in Int
  BY <1>0 DEF Good, Session, Profile
<1>a. Exact([s EXCEPT !.pc = "open", !.preConsumed = s.preConsumed + s.delta,
                    !.tokenConsumed = s.tokenConsumed + s.delta,
                    !.extraReserved = s.extraReserved + s.delta,
                    !.trusted = s.trusted /\ ~s.info.image],
           [n EXCEPT !.token = @ + (IF s.info.playground THEN 0 ELSE s.delta)], c)
  <2> HIDE DEF s, n, c
  <2> QED BY <1>0, <1>d DEF Good, Session, Profile, Net, Record, RequestInv, StageInv, HoldInv, CoverInv,
             Exact, SettledInv, ReturnInv, Owed
<1>b. Exact([s EXCEPT !.pc = "rollbackReserve"], n, c)
  <2> HIDE DEF s, n, c
  <2> QED BY <1>0 DEF Good, Session, Profile, Net, Record, RequestInv, StageInv, HoldInv, CoverInv,
             Exact, SettledInv, ReturnInv, Owed
<1>1. CASE /\ MoveToken(r, IF s.info.playground THEN 0 ELSE s.delta)
           /\ session' = [session EXCEPT ![r] =
                [@ EXCEPT !.pc = "open",
                          !.preConsumed = s.preConsumed + s.delta,
                          !.tokenConsumed = s.tokenConsumed + s.delta,
                          !.extraReserved = s.extraReserved + s.delta,
                          !.trusted = s.trusted /\ ~s.info.image]]
  BY <1>0, <1>1, <1>a, <1>d, OwnToken DEF Ready
<1>2. CASE NoMove /\ Goto(r, "rollbackReserve")
  BY <1>0, <1>2, <1>b, OwnNoMove DEF Ready, Goto
<1> QED BY <1>0, <1>1, <1>2 DEF ReserveToken

\* The raise is taken back, or its loss is recorded.
LEMMA RollbackReserveOwn ==
  ASSUME NEW r \in Requests, Ready(r), RollbackReserve(r)
  PROVE  Own(r)
<1> DEFINE s == session[r]
           n == net[r]
           c == record[r]
<1>0. Good(s, n, c) /\ Exact(s, n, c) /\ n.subscription <= subUsed /\ s.pc = "rollbackReserve"
  BY IInvGood DEF Ready, RollbackReserve
<1>d. s.delta \in Int /\ -s.delta \in Int
  BY <1>0 DEF Good, Session
<1>r. record = [record EXCEPT ![r] = c]
  BY DEF Ready, IInv, TypeOK
<1>a. s.source = "wallet" =>
        Exact([s EXCEPT !.pc = "fail", !.consumed = s.consumed - s.delta],
              [n EXCEPT !.wallet = @ + (-s.delta)], c)
  <2> HIDE DEF s, n, c
  <2> QED BY <1>0, <1>d DEF Good, Session, Profile, Net, Record, RequestInv, StageInv, HoldInv, CoverInv,
             Exact, SettledInv, ReturnInv, Owed
<1>b. s.source = "wallet" => Exact([s EXCEPT !.pc = "fail"], n, c)
  <2> HIDE DEF s, n, c
  <2> QED BY <1>0 DEF Good, Session, Profile, Net, Record, RequestInv, StageInv, HoldInv, CoverInv,
             Exact, SettledInv, ReturnInv, Owed
<1>e. s.source = "subscription" =>
        Exact([s EXCEPT !.pc = "fail"], [n EXCEPT !.subscription = @ + (-s.delta)], c)
  <2> HIDE DEF s, n, c
  <2> QED BY <1>0, <1>d DEF Good, Session, Profile, Net, Record, RequestInv, StageInv, HoldInv, CoverInv,
             Exact, SettledInv, ReturnInv, Owed
<1>f. Exact([s EXCEPT !.pc = "fail", !.lostFunding = TRUE], n, c)
  <2> HIDE DEF s, n, c
  <2> QED BY <1>0 DEF Good, Session, Profile, Net, Record, RequestInv, StageInv, HoldInv, CoverInv,
             Exact, SettledInv, ReturnInv, Owed
<1>g. s.source = "subscription" => -s.delta >= -n.subscription
  <2> HIDE DEF s, n, c
  <2> QED BY <1>0, <1>d DEF Good, Session, Profile, Net, Record, RequestInv, StageInv, HoldInv, CoverInv,
             Exact, SettledInv, ReturnInv, Owed
<1>1. CASE /\ s.source = "wallet" /\ MoveWallet(r, -s.delta)
           /\ session' = [session EXCEPT ![r] =
                [[s EXCEPT !.pc = "fail"] EXCEPT !.consumed = s.consumed - s.delta]]
  BY <1>0, <1>1, <1>a, <1>d, OwnWallet DEF Ready
<1>2. CASE s.source = "wallet" /\ NoMove /\ session' = [session EXCEPT ![r] = [s EXCEPT !.pc = "fail"]]
  BY <1>0, <1>2, <1>b, OwnNoMove DEF Ready
<1>3. CASE /\ s.source = "subscription" /\ MoveSub(r, -s.delta) /\ UNCHANGED record
           /\ session' = [session EXCEPT ![r] = [s EXCEPT !.pc = "fail"]]
  BY <1>0, <1>3, <1>d, <1>e, <1>g, <1>r, OwnSub
<1>4. CASE /\ NoMove
           /\ session' = [session EXCEPT ![r] = [[s EXCEPT !.pc = "fail"] EXCEPT !.lostFunding = TRUE]]
  BY <1>0, <1>4, <1>f, OwnNoMove DEF Ready
<1> QED BY <1>0, <1>1, <1>2, <1>3, <1>4 DEF RollbackReserve

\* Settling begins, or finds nothing to do.
LEMMA SettleOwn == ASSUME NEW r \in Requests, NEW q \in Nat, Ready(r), Settle(r,q) PROVE Own(r)
<1> DEFINE s == session[r]
           s2 == IF s.settled THEN [s EXCEPT !.pc = "returned"]
          ELSE IF q - s.preConsumed = 0
            THEN [s EXCEPT !.pc = "returned", !.settled = TRUE, !.actual = q]
            ELSE [s EXCEPT !.pc = IF s.fundingSettled THEN "settleToken" ELSE "settleFunding",
                           !.delta = q - s.preConsumed, !.actual = q]
<1>1. Good(session[r], net[r], record[r]) /\ subUsed \in Nat
  BY IInvGood DEF Ready
<1>2. Exact(s2, net[r], record[r])
  <2>0. s2.info \in Profiles
    BY <1>1 DEF Ready, Exact, Good, Session
  <2>1. SettledInv(s2, net[r])
    BY <1>1 DEF Ready, Exact, Settle, Good, Session, Profile, Net, RequestInv, StageInv, HoldInv, SettledInv
  <2>2. ReturnInv(s2, net[r], record[r])
    BY <1>1 DEF Ready, Exact, Settle, Good, Session, Profile, Net, Record, StageInv, RequestInv, ReturnInv, Owed
  <2> QED BY <2>0, <2>1, <2>2 DEF Exact
<1>3. session' = [session EXCEPT ![r] = s2] /\ NoMove
  BY DEF Settle, Ready, IInv, TypeOK
<1> QED BY <1>2, <1>3, OwnNoMove DEF Ready

\* The wallet carries the real cost.
LEMMA SettleWalletOwn ==
  ASSUME NEW r \in Requests, Ready(r), SettleWallet(r), "clamp" \notin Faults
  PROVE  Own(r)
<1> DEFINE s == session[r]
           n == net[r]
           c == record[r]
<1>0. Good(s, n, c) /\ Exact(s, n, c) /\ n.subscription <= subUsed /\ s.pc = "settleFunding" /\ s.source = "wallet"
  BY IInvGood DEF Ready, SettleWallet
<1>d. s.delta \in Int
  BY <1>0 DEF Good, Session
<1>a. Exact([s EXCEPT !.pc = "settleToken", !.fundingSettled = TRUE],
           [n EXCEPT !.wallet = @ + s.delta], c)
  <2> HIDE DEF s, n, c
  <2> QED BY <1>0, <1>d DEF Good, Session, Profile, Net, Record, RequestInv, StageInv, HoldInv, CoverInv,
             Exact, SettledInv, ReturnInv, Owed
<1>b. Exact([s EXCEPT !.pc = "returned"], n, c)
  <2> HIDE DEF s, n, c
  <2> QED BY <1>0 DEF Good, Session, Profile, Net, Record, RequestInv, StageInv, HoldInv, CoverInv,
             Exact, SettledInv, ReturnInv, Owed
<1>1. CASE /\ MoveWallet(r, s.delta)
           /\ session' = [session EXCEPT ![r] =
                [@ EXCEPT !.pc = "settleToken", !.fundingSettled = TRUE]]
  BY <1>0, <1>1, <1>a, <1>d, OwnWallet DEF Ready
<1>2. CASE NoMove /\ Goto(r, "returned")
  BY <1>0, <1>2, <1>b, OwnNoMove DEF Ready, Goto
<1> QED BY <1>0, <1>1, <1>2 DEF SettleWallet, MayFail

\* The subscription carries the real cost: the floor of the delta is not reached.
LEMMA SettleSubscriptionOwn ==
  ASSUME NEW r \in Requests, Ready(r), SettleSubscription(r)
  PROVE  Own(r)
<1> DEFINE s == session[r]
           n == net[r]
           c == record[r]
<1>0. Good(s, n, c) /\ Exact(s, n, c) /\ n.subscription <= subUsed /\ s.pc = "settleFunding" /\ s.source = "subscription"
  BY IInvGood DEF Ready, SettleSubscription
<1>d. s.delta \in Int
  BY <1>0 DEF Good, Session
<1>r. record = [record EXCEPT ![r] = c]
  BY DEF Ready, IInv, TypeOK
<1>a. Exact([s EXCEPT !.pc = "settleToken", !.fundingSettled = TRUE],
           [n EXCEPT !.subscription = @ + s.delta], c)
  <2> HIDE DEF s, n, c
  <2> QED BY <1>0, <1>d DEF Good, Session, Profile, Net, Record, RequestInv, StageInv, HoldInv, CoverInv,
             Exact, SettledInv, ReturnInv, Owed
<1>g. s.delta >= -n.subscription
  <2> HIDE DEF s, n, c
  <2> QED BY <1>0, <1>d DEF Good, Session, Profile, Net, Record, RequestInv, StageInv, HoldInv, CoverInv,
             Exact, SettledInv, ReturnInv, Owed
<1>b. Exact([s EXCEPT !.pc = "returned"], n, c)
  <2> HIDE DEF s, n, c
  <2> QED BY <1>0 DEF Good, Session, Profile, Net, Record, RequestInv, StageInv, HoldInv, CoverInv,
             Exact, SettledInv, ReturnInv, Owed
<1>1. CASE /\ MoveSub(r, s.delta) /\ UNCHANGED record
           /\ session' = [session EXCEPT ![r] =
                [@ EXCEPT !.pc = "settleToken", !.fundingSettled = TRUE]]
  BY <1>0, <1>1, <1>a, <1>d, <1>g, <1>r, OwnSub
<1>2. CASE NoMove /\ Goto(r, "returned")
  BY <1>0, <1>2, <1>b, OwnNoMove DEF Ready, Goto
<1> QED BY <1>0, <1>1, <1>2 DEF SettleSubscription

\* The token follows, or its error is recorded; the session is settled.
LEMMA SettleTokenOwn ==
  ASSUME NEW r \in Requests, Ready(r), SettleToken(r)
  PROVE  Own(r)
<1> DEFINE s == session[r]
           n == net[r]
           c == record[r]
<1>0. Good(s, n, c) /\ Exact(s, n, c) /\ n.subscription <= subUsed /\ s.pc = "settleToken"
  BY IInvGood DEF Ready, SettleToken
<1>d. s.delta \in Int /\ (IF s.info.playground THEN 0 ELSE s.delta) \in Int
  BY <1>0 DEF Good, Session, Profile
<1>a. Exact([s EXCEPT !.pc = "returned", !.settled = TRUE],
           [n EXCEPT !.token = @ + (IF s.info.playground THEN 0 ELSE s.delta)], c)
  <2> HIDE DEF s, n, c
  <2> QED BY <1>0, <1>d DEF Good, Session, Profile, Net, Record, RequestInv, StageInv, HoldInv, CoverInv,
             Exact, SettledInv, ReturnInv, Owed
<1>b. Exact([[s EXCEPT !.pc = "returned", !.settled = TRUE] EXCEPT !.lostToken = TRUE], n, c)
  <2> HIDE DEF s, n, c
  <2> QED BY <1>0 DEF Good, Session, Profile, Net, Record, RequestInv, StageInv, HoldInv, CoverInv,
             Exact, SettledInv, ReturnInv, Owed
<1>1. CASE /\ MoveToken(r, IF s.info.playground THEN 0 ELSE s.delta)
           /\ session' = [session EXCEPT ![r] = [s EXCEPT !.pc = "returned", !.settled = TRUE]]
  BY <1>0, <1>1, <1>a, <1>d, OwnToken DEF Ready
<1>2. CASE /\ NoMove
           /\ session' = [session EXCEPT ![r] =
                [[s EXCEPT !.pc = "returned", !.settled = TRUE] EXCEPT !.lostToken = TRUE]]
  BY <1>0, <1>2, <1>b, OwnNoMove DEF Ready
<1> QED BY <1>0, <1>1, <1>2 DEF SettleToken

\* The handler returned.
LEMMA FinishOwn ==
  ASSUME NEW r \in Requests, Ready(r), Finish(r)
  PROVE  Own(r)
<1> DEFINE s == session[r]
           n == net[r]
           c == record[r]
<1>0. Good(s, n, c) /\ Exact(s, n, c) /\ n.subscription <= subUsed /\ s.pc = "returned"
  BY IInvGood DEF Ready, Finish
<1>a. Exact([s EXCEPT !.pc = "done"], n, c)
  <2> HIDE DEF s, n, c
  <2> QED BY <1>0 DEF Good, Session, Profile, Net, Record, RequestInv, StageInv, HoldInv, CoverInv,
             Exact, SettledInv, ReturnInv, Owed
<1>b. Exact([s EXCEPT !.pc = "open"], n, c)
  <2> HIDE DEF s, n, c
  <2> QED BY <1>0 DEF Good, Session, Profile, Net, Record, RequestInv, StageInv, HoldInv, CoverInv,
             Exact, SettledInv, ReturnInv, Owed
<1>e. Exact([s EXCEPT !.pc = "fail"], n, c)
  <2> HIDE DEF s, n, c
  <2> QED BY <1>0 DEF Good, Session, Profile, Net, Record, RequestInv, StageInv, HoldInv, CoverInv,
             Exact, SettledInv, ReturnInv, Owed
<1>1. CASE NoMove /\ Goto(r, "done")
  BY <1>0, <1>1, <1>a, OwnNoMove DEF Ready, Goto
<1>2. CASE NoMove /\ Goto(r, "open")
  BY <1>0, <1>2, <1>b, OwnNoMove DEF Ready, Goto
<1>3. CASE NoMove /\ Goto(r, "fail")
  BY <1>0, <1>3, <1>e, OwnNoMove DEF Ready, Goto
<1> QED BY <1>0, <1>1, <1>2, <1>3 DEF Finish

\* The last attempt failed.
LEMMA AttemptsFailedOwn ==
  ASSUME NEW r \in Requests, Ready(r), AttemptsFailed(r)
  PROVE  Own(r)
<1> DEFINE s == session[r]
           n == net[r]
           c == record[r]
<1>0. Good(s, n, c) /\ Exact(s, n, c) /\ n.subscription <= subUsed /\ s.pc = "open"
  BY IInvGood DEF Ready, AttemptsFailed
<1>a. Exact([s EXCEPT !.pc = "fail"], n, c)
  <2> HIDE DEF s, n, c
  <2> QED BY <1>0 DEF Good, Session, Profile, Net, Record, RequestInv, StageInv, HoldInv, CoverInv,
             Exact, SettledInv, ReturnInv, Owed
<1>1. CASE NoMove /\ Goto(r, "fail")
  BY <1>0, <1>1, <1>a, OwnNoMove DEF Ready, Goto
<1> QED BY <1>0, <1>1 DEF AttemptsFailed

\* The refund is decided: it owes what the request holds.
LEMMA RefundOwn ==
  ASSUME NEW r \in Requests, Ready(r), Refund(r)
  PROVE  Own(r)
<1> DEFINE s == session[r]
           n == net[r]
           c == record[r]
<1>0. Good(s, n, c) /\ Exact(s, n, c) /\ n.subscription <= subUsed /\ s.pc = "fail"
  BY IInvGood DEF Ready, Refund
<1>a. Exact([s EXCEPT !.pc = "done", !.refunded = TRUE, !.refund = "funding"], n, c)
  <2> HIDE DEF s, n, c
  <2> QED BY <1>0 DEF Good, Session, Profile, Net, Record, RequestInv, StageInv, HoldInv, CoverInv,
             Exact, SettledInv, ReturnInv, Owed
<1>b. Exact([s EXCEPT !.pc = "done"], n, c)
  <2> HIDE DEF s, n, c
  <2> QED BY <1>0 DEF Good, Session, Profile, Net, Record, RequestInv, StageInv, HoldInv, CoverInv,
             Exact, SettledInv, ReturnInv, Owed
<1>1. CASE NoMove /\ session' = [session EXCEPT ![r] =
                [s EXCEPT !.pc = "done", !.refunded = TRUE, !.refund = "funding"]]
  BY <1>0, <1>1, <1>a, OwnNoMove DEF Ready
<1>2. CASE NoMove /\ Goto(r, "done")
  BY <1>0, <1>2, <1>b, OwnNoMove DEF Ready, Goto
<1> QED BY <1>0, <1>1, <1>2 DEF Refund, Goto


\* The wallet gets back what the session consumed, or the loss is recorded.
LEMMA RefundWalletOwn ==
  ASSUME NEW r \in Requests, Ready(r), RefundWallet(r)
  PROVE  Own(r)
<1> DEFINE s == session[r]
           n == net[r]
           c == record[r]
<1>0. Good(s, n, c) /\ Exact(s, n, c) /\ s.refund = "funding" /\ s.source = "wallet"
  BY IInvGood DEF Ready, RefundWallet
<1>d. s.consumed \in Int /\ -s.consumed \in Int
  BY <1>0 DEF Good, Session
<1>a. s.consumed <= 0 => Exact([s EXCEPT !.refund = "token"], n, c)
  <2> HIDE DEF s, n, c
  <2> QED BY <1>0, <1>d DEF Good, Session, Profile, Net, Record, RequestInv, StageInv, HoldInv, CoverInv,
             Exact, SettledInv, ReturnInv, Owed
<1>b. Exact([s EXCEPT !.refund = "token"], [n EXCEPT !.wallet = @ + (-s.consumed)], c)
  <2> HIDE DEF s, n, c
  <2> QED BY <1>0, <1>d DEF Good, Session, Profile, Net, Record, RequestInv, StageInv, HoldInv, CoverInv,
             Exact, SettledInv, ReturnInv, Owed
<1>e. Exact([[s EXCEPT !.refund = "token"] EXCEPT !.lostFunding = TRUE], n, c)
  <2> HIDE DEF s, n, c
  <2> QED BY <1>0 DEF Good, Session, Profile, Net, Record, RequestInv, StageInv, HoldInv, CoverInv,
             Exact, SettledInv, ReturnInv, Owed
<1>1. CASE s.consumed <= 0 /\ NoMove /\ session' = [session EXCEPT ![r] = [s EXCEPT !.refund = "token"]]
  BY <1>1, <1>a, OwnNoMove DEF Ready
<1>2. CASE MoveWallet(r, -s.consumed) /\ session' = [session EXCEPT ![r] = [s EXCEPT !.refund = "token"]]
  BY <1>2, <1>b, <1>d, OwnWallet DEF Ready
<1>3. CASE /\ NoMove
           /\ session' = [session EXCEPT ![r] = [[s EXCEPT !.refund = "token"] EXCEPT !.lostFunding = TRUE]]
  BY <1>3, <1>e, OwnNoMove DEF Ready
<1> QED BY <1>1, <1>2, <1>3 DEF RefundWallet

\* What an attempt to refund the record leaves in the session: a lost answer
\* changes nothing, an error that ends the attempts is recorded as a loss.
Attempted(s, s2) ==
  /\ s2.pc = s.pc /\ s2.settled = s.settled /\ s2.source = s.source /\ s2.info = s.info
  /\ s2.subPre = s.subPre /\ s2.extraReserved = s.extraReserved /\ s2.lostToken = s.lostToken
  /\ s2.tokenConsumed = s.tokenConsumed /\ s2.refund \in {"funding", "extra"}

\* The record is refunded at most once, however often the attempt repeats.
LEMMA RefundSubscriptionOwn ==
  ASSUME NEW r \in Requests, Ready(r), RefundSubscription(r)
  PROVE  Own(r)
<1> DEFINE s == session[r]
           n == net[r]
           c == record[r]
           again == [s EXCEPT !.tries = @ + 1]
           Retry(lost) == IF s.tries + 1 < MaxAttempts THEN again
                          ELSE [again EXCEPT !.refund = "extra", !.lostFunding = lost]
<1>0. Good(s, n, c) /\ Exact(s, n, c) /\ s.refund = "funding" /\ s.source = "subscription"
  BY IInvGood DEF Ready, RefundSubscription
<1>r. record = [record EXCEPT ![r] = c]
  BY DEF Ready, IInv, TypeOK
\* The session that an attempt leaves.
<1>1. ASSUME NEW lost \in BOOLEAN
      PROVE  /\ Attempted(s, Retry(lost))
             /\ Retry(lost).refund = "extra" => Retry(lost).lostFunding = lost
             /\ Retry(lost).refund = "funding" => Retry(lost).lostFunding = s.lostFunding
  <2> HIDE DEF s
  <2>1. CASE s.tries + 1 < MaxAttempts
    <3>1. Retry(lost) = again
      BY <2>1
    <3> HIDE DEF Retry
    <3> QED BY <1>0, <3>1 DEF Good, Session, Attempted
  <2>2. CASE ~(s.tries + 1 < MaxAttempts)
    <3>1. Retry(lost) = [again EXCEPT !.refund = "extra", !.lostFunding = lost]
      BY <2>2
    <3> HIDE DEF Retry
    <3> QED BY <1>0, <3>1 DEF Good, Session, Attempted
  <2> QED BY <2>1, <2>2
<1>2. LET s2 == [s EXCEPT !.refund = "extra"]
      IN  Attempted(s, s2) /\ s2.lostFunding = s.lostFunding
  BY <1>0 DEF Good, Session, Attempted
<1>3. s.lostFunding \in BOOLEAN /\ c.amount \in Nat /\ -c.amount \in Int
  BY <1>0 DEF Good, Session, Record
<1> HIDE DEF Retry
\* The record was refunded now or before.
<1>4. ASSUME NEW s2, Attempted(s, s2), s2.lostFunding = s.lostFunding,
             session' = [session EXCEPT ![r] = s2], RefundRecord(r),
             UNCHANGED <<wallet, token>>
      PROVE  Own(r)
  <2>1. CASE c.status = "refunded"
    <3>1. Exact(s2, n, c)
      <4> HIDE DEF s, n, c
      <4> QED BY <1>0, <1>4, <2>1 DEF Attempted, Good, Session, Profile, Net, Record, RequestInv, StageInv, HoldInv, CoverInv,
             Exact, SettledInv, ReturnInv, Owed
    <3>2. NoMove
      BY <1>4, <2>1 DEF RefundRecord, NoMove
    <3> QED BY <1>4, <3>1, <3>2, OwnNoMove DEF Ready
  <2>2. CASE c.status # "refunded"
    <3> DEFINE c2 == [c EXCEPT !.status = "refunded"]
    <3>1. Exact(s2, [n EXCEPT !.subscription = @ + (-c.amount)], c2) /\ -c.amount >= -n.subscription
      <4> HIDE DEF s, n, c
      <4> QED BY <1>0, <1>3, <1>4, <2>2 DEF Attempted, Good, Session, Profile, Net, Record, RequestInv, StageInv, HoldInv, CoverInv,
             Exact, SettledInv, ReturnInv, Owed
    <3>2. MoveSub(r, -c.amount) /\ record' = [record EXCEPT ![r] = c2]
      BY <1>4, <2>2 DEF RefundRecord, Ready, IInv, TypeOK
    <3> HIDE DEF c2
    <3> QED BY <1>3, <1>4, <3>1, <3>2, OwnSub
  <2> QED BY <2>1, <2>2
<1>5. CASE RefundRecord(r) /\ session' = [session EXCEPT ![r] = [s EXCEPT !.refund = "extra"]]
  BY <1>2, <1>4, <1>5 DEF RefundSubscription
<1>6. CASE RefundRecord(r) /\ session' = [session EXCEPT ![r] = Retry(s.lostFunding)]
  <2>1. Attempted(s, Retry(s.lostFunding)) /\ Retry(s.lostFunding).lostFunding = s.lostFunding
    BY <1>1, <1>3 DEF Attempted
  <2>2. UNCHANGED <<wallet, token>>
    BY DEF RefundSubscription
  <2> QED BY <1>4, <1>6, <2>1, <2>2
<1>7. CASE /\ UNCHANGED <<subUsed, record, net>>
           /\ session' = [session EXCEPT ![r] = Retry(s.lostFunding \/ c.status # "refunded")]
  <2> DEFINE lost == s.lostFunding \/ c.status # "refunded"
             s2 == Retry(lost)
  <2>1. lost \in BOOLEAN
    OBVIOUS
  <2>2. /\ Attempted(s, s2)
        /\ s2.refund = "extra" => s2.lostFunding = lost
        /\ s2.refund = "funding" => s2.lostFunding = s.lostFunding
    BY <1>1, <2>1
  <2>3. NoMove
    BY <1>7 DEF NoMove, RefundSubscription
  <2>4. session' = [session EXCEPT ![r] = s2]
    BY <1>7
  <2> HIDE DEF s2
  <2>5. Exact(s2, n, c)
    <3> HIDE DEF s, n, c
    <3> QED BY <1>0, <1>3, <2>2 DEF Attempted, Good, Session, Profile, Net, Record, RequestInv, StageInv, HoldInv, CoverInv,
             Exact, SettledInv, ReturnInv, Owed
  <2> QED BY <2>3, <2>4, <2>5, OwnNoMove DEF Ready
<1> QED BY <1>5, <1>6, <1>7 DEF RefundSubscription, Retry

\* What Reserve added comes back in full.
LEMMA RefundExtraOwn ==
  ASSUME NEW r \in Requests, Ready(r), RefundExtra(r)
  PROVE  Own(r)
<1> DEFINE s == session[r]
           n == net[r]
           c == record[r]
<1>0. Good(s, n, c) /\ Exact(s, n, c) /\ s.refund = "extra"
  BY IInvGood DEF Ready, RefundExtra
<1>d. s.extraReserved \in Nat /\ -s.extraReserved \in Int
  BY <1>0 DEF Good, Session
<1>r. record = [record EXCEPT ![r] = c]
  BY DEF Ready, IInv, TypeOK
<1>a. s.extraReserved = 0 => Exact([s EXCEPT !.refund = "token"], n, c)
  <2> HIDE DEF s, n, c
  <2> QED BY <1>0 DEF Good, Session, Profile, Net, Record, RequestInv, StageInv, HoldInv, CoverInv,
             Exact, SettledInv, ReturnInv, Owed
<1>b. /\ Exact([s EXCEPT !.refund = "token"], [n EXCEPT !.subscription = @ + (-s.extraReserved)], c)
      /\ -s.extraReserved >= -n.subscription
  <2> HIDE DEF s, n, c
  <2> QED BY <1>0, <1>d DEF Good, Session, Profile, Net, Record, RequestInv, StageInv, HoldInv, CoverInv,
             Exact, SettledInv, ReturnInv, Owed
<1>e. Exact([[s EXCEPT !.refund = "token"] EXCEPT !.lostFunding = TRUE], n, c)
  <2> HIDE DEF s, n, c
  <2> QED BY <1>0 DEF Good, Session, Profile, Net, Record, RequestInv, StageInv, HoldInv, CoverInv,
             Exact, SettledInv, ReturnInv, Owed
<1>1. CASE /\ s.extraReserved = 0 /\ NoMove
           /\ session' = [session EXCEPT ![r] = [s EXCEPT !.refund = "token"]]
  BY <1>1, <1>a, OwnNoMove DEF Ready
<1>2. CASE /\ MoveSub(r, -s.extraReserved) /\ UNCHANGED record
           /\ session' = [session EXCEPT ![r] = [s EXCEPT !.refund = "token"]]
  BY <1>2, <1>b, <1>d, <1>r, OwnSub
<1>3. CASE /\ NoMove
           /\ session' = [session EXCEPT ![r] = [[s EXCEPT !.refund = "token"] EXCEPT !.lostFunding = TRUE]]
  BY <1>3, <1>e, OwnNoMove DEF Ready
<1> QED BY <1>1, <1>2, <1>3 DEF RefundExtra

\* The token gets its share back.
LEMMA RefundTokenOwn ==
  ASSUME NEW r \in Requests, Ready(r), RefundToken(r)
  PROVE  Own(r)
<1> DEFINE s == session[r]
           n == net[r]
           c == record[r]
           back == IF s.info.playground THEN 0 ELSE s.tokenConsumed
<1>0. Good(s, n, c) /\ Exact(s, n, c) /\ s.refund = "token"
  BY IInvGood DEF Ready, RefundToken
<1>d. -back \in Int
  BY <1>0 DEF Good, Session, Profile
<1>a. Exact([s EXCEPT !.refund = "done"], [n EXCEPT !.token = @ + (-back)], c)
  <2> HIDE DEF s, n, c
  <2> QED BY <1>0, <1>d DEF Good, Session, Profile, Net, Record, RequestInv, StageInv, HoldInv, CoverInv,
             Exact, SettledInv, ReturnInv, Owed
<1>b. Exact([[s EXCEPT !.refund = "done"] EXCEPT !.lostToken = TRUE], n, c)
  <2> HIDE DEF s, n, c
  <2> QED BY <1>0 DEF Good, Session, Profile, Net, Record, RequestInv, StageInv, HoldInv, CoverInv,
             Exact, SettledInv, ReturnInv, Owed
<1>1. CASE MoveToken(r, -back) /\ session' = [session EXCEPT ![r] = [s EXCEPT !.refund = "done"]]
  BY <1>1, <1>a, <1>d, OwnToken DEF Ready
<1>2. CASE /\ NoMove
           /\ session' = [session EXCEPT ![r] = [[s EXCEPT !.refund = "done"] EXCEPT !.lostToken = TRUE]]
  BY <1>2, <1>b, OwnNoMove DEF Ready
<1> QED BY <1>1, <1>2 DEF RefundToken

\* Every step of a request keeps it exact and touches no other.
LEMMA StepOwn ==
  ASSUME NEW r \in Requests, Ready(r), IInv', "clamp" \notin Faults,
         RequestStep(r) \/ RefundStep(r)
  PROVE  Own(r)
<1>1. ASSUME NEW q \in Quotas, Reserve(r, q) \/ Settle(r, q) PROVE Own(r)
  <2>1. q \in Nat
    BY BillingAssumption
  <2> QED BY <1>1, <2>1, ReserveOwn, SettleOwn
<1>2. CASE RequestStep(r)
  <2>1. IInv
    BY DEF Ready
  <2> QED BY <1>1, <1>2, <2>1, OpeningOwn, PreConsumeWalletOwn, PreConsumeSubscriptionOwn,
            ReserveImageWalletOwn, ReserveWalletOwn, ReserveSubscriptionOwn, ReserveTokenOwn,
            RollbackReserveOwn, SettleWalletOwn, SettleSubscriptionOwn, SettleTokenOwn,
            FinishOwn, AttemptsFailedOwn, RefundOwn
         DEF RequestStep
<1>3. CASE RefundStep(r)
  BY <1>3, RefundWalletOwn, RefundSubscriptionOwn, RefundExtraOwn, RefundTokenOwn DEF RefundStep
<1> QED BY <1>2, <1>3

-----------------------------------------------------------------------------
\* What the requests hold of the subscription.
Holdings == [r \in Requests |-> net[r].subscription]

\* The subscription's use is what it was before plus what the requests hold.
Summed == IsSum(subUsed, Holdings, Requests, InitialUsed)

\* So no request holds more than is used.
LEMMA SummedCovers ==
  ASSUME IInv, Summed
  PROVE  SubCovers
<1>1. Holdings \in [Requests -> Int] /\ \A r \in Requests : Holdings[r] >= 0
  BY DEF IInv, TypeOK, Net, RequestInv, Holdings
<1>2. InitialUsed \in Nat /\ InitialUsed \in Int
  BY BillingAssumption
<1>3. \A r \in Requests : InitialUsed + Holdings[r] <= subUsed
  BY <1>1, <1>2, SumFacts DEF Summed
<1>4. ASSUME NEW r \in Requests PROVE net[r].subscription <= subUsed
  <2>1. net[r].subscription \in Int /\ subUsed \in Int
    BY DEF IInv, TypeOK, Net
  <2>2. InitialUsed + net[r].subscription <= subUsed
    BY <1>3 DEF Holdings
  <2> QED BY <1>2, <2>1, <2>2
<1> QED BY <1>4 DEF SubCovers

\* A step of one request moves the subscription by what that request gained.
LEMMA StepSummed ==
  ASSUME IInv, IInv', Summed, NEW r \in Requests, Own(r)
  PROVE  Summed'
<1> DEFINE x == net'[r].subscription
           v == Holdings
           w == Holdings'
<1>1. x \in Int /\ net[r].subscription \in Int /\ subUsed \in Int /\ subUsed' \in Int
  BY DEF IInv, TypeOK, Net
<1>2. Moved(w, v, Requests, r, x)
  <2>1. v \in [Requests -> Int]
    BY DEF IInv, TypeOK, Net, Holdings
  <2>2. w = [v EXCEPT ![r] = x]
    BY DEF Own, Holdings
  <2> QED BY <1>1, <2>1, <2>2 DEF Moved
<1>3. subUsed + (x - v[r]) = subUsed'
  <2>1. v[r] = net[r].subscription /\ subUsed' - subUsed = x - net[r].subscription
    BY DEF Holdings, Own
  <2> HIDE DEF x, v
  <2> QED BY <1>1, <2>1
<1>4. IsSum(subUsed, v, Requests, InitialUsed) /\ InitialUsed \in Int
  BY BillingAssumption DEF Summed
<1> HIDE DEF x, v, w
<1>5. IsSum(subUsed', w, Requests, InitialUsed)
  BY <1>2, <1>3, <1>4, SumShift
<1> QED BY <1>5 DEF Summed, w

\* The inductive invariant of exactness.
AllExact == IInv /\ ExactInv /\ Summed

\* Nothing is held at the start.
LEMMA InitExact ==
  ASSUME IsFiniteSet(Requests), Init
  PROVE  AllExact
<1>1. IInv
  BY InitInv
<1>2. Summed
  <2>1. Holdings = [r \in Requests |-> 0] /\ subUsed = InitialUsed
    BY DEF Init, Holdings
  <2>2. InitialUsed \in Int
    BY BillingAssumption
  <2> QED BY <2>1, <2>2, SumInit DEF Summed
<1>3. ASSUME NEW r \in Requests
      PROVE  /\ session[r].info \in Profiles
             /\ SettledInv(session[r], net[r])
             /\ ReturnInv(session[r], net[r], record[r])
  BY DEF Init, SettledInv, ReturnInv
<1> QED BY <1>1, <1>2, <1>3, SummedCovers DEF AllExact, ExactInv

\* Every step keeps every request exact.
LEMMA NextExact ==
  ASSUME "clamp" \notin Faults, AllExact, [Next]_vars
  PROVE  AllExact'
<1>0. IInv /\ IInv' /\ ExactInv /\ Summed
  BY NextInv DEF AllExact
<1>1. ASSUME NEW r \in Requests, RequestStep(r) \/ RefundStep(r)
      PROVE  AllExact'
  <2>1. Ready(r)
    BY <1>0 DEF Ready, ExactInv, Exact, SubCovers
  <2>2. Own(r)
    BY <1>0, <1>1, <2>1, StepOwn
  <2>3. Summed'
    BY <1>0, <2>2, StepSummed
  <2>4. SubCovers'
    <3>1. ASSUME IInv', Summed' PROVE SubCovers'
      BY <3>1, SummedCovers, PTL
    <3> QED BY <1>0, <2>3, <3>1
  <2>5. ASSUME NEW q \in Requests PROVE Exact(session'[q], net'[q], record'[q])
    BY <1>0, <2>2 DEF Own, ExactInv, Exact
  <2> QED BY <1>0, <2>3, <2>4, <2>5 DEF AllExact, ExactInv, Exact
<1>2. CASE UNCHANGED <<session, net, record, subUsed>>
  <2>1. ExactInv'
    BY <1>0, <1>2 DEF ExactInv, SubCovers
  <2>2. Summed'
    BY <1>0, <1>2 DEF Summed, Holdings
  <2> QED BY <1>0, <2>1, <2>2 DEF AllExact
<1> QED BY <1>1, <1>2 DEF Next, TopUp, vars

\* ExactInv holds in every reachable state.
LEMMA Exactness ==
  ASSUME "clamp" \notin Faults, IsFiniteSet(Requests)
  PROVE  Spec => []ExactInv
<1>1. Init => AllExact
  BY InitExact
<1>2. AllExact /\ [Next]_vars => AllExact'
  BY NextExact
<1>3. AllExact => ExactInv
  BY DEF AllExact
<1> QED BY <1>1, <1>2, <1>3, PTL DEF Spec

\* A settled request has paid exactly its real cost, once, on the source that
\* funds it and on its token, whatever was reserved, raised, retried or done by
\* the user's other requests (BillingSession.Settle).
THEOREM SettlementExact ==
  ASSUME "clamp" \notin Faults, IsFiniteSet(Requests)
  PROVE  Spec => []SettledExactly
<1>1. IInv /\ ExactInv => SettledExactly
  BY DEF IInv, TypeOK, Session, Profile, ExactInv, SettledInv, SettledExactly, Funded, TokenShare
<1> QED BY <1>1, Invariance, Exactness, PTL

\* What a refund that is over has returned: the token's part always, and the
\* funding's but for an image request on the wallet.
RefundedBut(r) ==
  session[r].refund = "done" =>
    /\ \/ session[r].source = "wallet" /\ session[r].info.image
       \/ session[r].lostFunding
       \/ Funded(r) = 0
    /\ session[r].lostToken \/ net[r].token = 0

\* Among any requests, image requests too, a refund that met no storage error
\* has returned all that was taken, the record and the raises, except to the
\* wallet of an image request, whose second raise overwrites
\* WalletFunding.consumed: billing_image_refund (BillingSession.Refund).
THEOREM RefundExact ==
  ASSUME "clamp" \notin Faults, IsFiniteSet(Requests)
  PROVE  Spec => [](\A r \in Requests : RefundedBut(r))
<1>1. IInv /\ ExactInv => \A r \in Requests : RefundedBut(r)
  <2> SUFFICES ASSUME IInv, ExactInv, NEW r \in Requests, session[r].refund = "done"
               PROVE  /\ \/ session[r].source = "wallet" /\ session[r].info.image
                         \/ session[r].lostFunding
                         \/ Funded(r) = 0
                      /\ session[r].lostToken \/ net[r].token = 0
    BY DEF RefundedBut
  <2> DEFINE s == session[r]
  <2>1. s.pc = "done" /\ ~s.settled
    BY DEF IInv, TypeOK, Session, RequestInv, StageInv
  <2>2. ReturnInv(s, net[r], record[r])
    BY DEF ExactInv
  <2> HIDE DEF s
  <2>3. /\ \/ s.source = "wallet" /\ s.info.image
           \/ s.lostFunding
           \/ FundedBy(s, net[r]) = 0
        /\ s.lostToken \/ net[r].token = 0
    <3>1. s.refund = "done"
      BY DEF s
    <3> QED BY <2>1, <2>2, <3>1 DEF ReturnInv, Owed
  <2> QED BY <2>3 DEF Funded, s
<1> QED BY <1>1, Invariance, Exactness, PTL

\* Where no request is for an image, a refund that met no storage error has
\* returned all that was taken (FundingSource.Refund).
THEOREM RefundComplete ==
  ASSUME "clamp" \notin Faults, IsFiniteSet(Requests),
         \A p \in Profiles : ~p.image
  PROVE  Spec => []RefundReturnsAllPreConsumed
<1>1. ExactInv /\ (\A r \in Requests : RefundedBut(r)) => RefundReturnsAllPreConsumed
  BY DEF ExactInv, RefundedBut, RefundReturnsAllPreConsumed
<1> QED BY <1>1, RefundExact, Exactness, PTL

=============================================================================
