--------------------------- MODULE AccountsProofs ---------------------------
(***************************************************************************)
(* Proofs about what a user owns, for any number of calls, plans, orders,  *)
(* amounts, crashes and errors.                                            *)
(*                                                                         *)
(* The wallet (QuotaCache): the ledger is conserved, an exact copy stays   *)
(* exact, reservations never overdraw and a voucher pays once.  The copy   *)
(* and the ledger differ by what the calls under way have still to do, so  *)
(* the invariant speaks of two sums over the calls (Sums): what they owe   *)
(* (ExactSum) and what they may still claim (Covered).  A call's step is   *)
(* proved once to have an Effect, which says how it moves ledger, copy and *)
(* its own share; Effect then keeps both sums.                             *)
(*                                                                         *)
(* The cached group (UserGroupCache): a stale copy has a call that will    *)
(* repair it.  The second factor (LoginVerification): a flow is consumed   *)
(* once, and the lock counts every failure.  A subscription's quota        *)
(* (SubscriptionQuota): the boundary moves a period per reset.             *)
(* Subscriptions: the row locks keep calls Apart, which is what each of    *)
(* them relies on until it commits (TxOK).                                 *)
(***************************************************************************)
EXTENDS QuotaCache, UserGroupCache, LoginVerification, SubscriptionQuota,
  Subscriptions, Sums, TLAPS

-----------------------------------------------------------------------------
(* QuotaCache: types, shapes and the ledger.                               *)

\* A goroutine that still has to update the copy outlives only the call that
\* started it, which for a debit it precedes; a voucher's call carries its worth.
Shape(m) ==
  /\ m.delta # 0 => m.pc \in {"idle", "debit"}
  /\ m.pc = "debit" => m.delta <= 0
  /\ m.pc \in {"redeem", "redeemTx", "order", "orderTx"} => m.amount = VoucherQuota

Shaped == \A c \in QuotaCalls : Shape(moving[c])

WalletInv == QuotaTypeOK /\ Shaped /\ Conserved

\* What one call becomes.
LEMMA Going ==
  ASSUME moving \in [QuotaCalls -> Moving], Shaped, NEW c \in QuotaCalls,
         NEW m \in Moving, Shape(m), QuotaGo(c, m)
  PROVE  /\ moving' \in [QuotaCalls -> Moving] /\ Shaped' /\ moving'[c] = m
         /\ \A d \in QuotaCalls \ {c} : moving'[d] = moving[d]
BY DEF QuotaGo, Shaped

\* Changing the row or the store changes the ledger.
LEMMA Changing ==
  ASSUME dbQuota \in Int, store \in Int, flushing \in Int, NEW d \in Int, Change(d),
         UNCHANGED flushing
  PROVE  /\ dbQuota' \in Int /\ store' \in Int
         /\ Ledger \in Int /\ Ledger' \in Int /\ Ledger' = Ledger + d
BY DEF Change, Ledger

\* What the types say of the parts.
LEMMA Parts ==
  ASSUME QuotaTypeOK, NEW c \in QuotaCalls
  PROVE  /\ moving[c] \in Moving /\ moving \in [QuotaCalls -> Moving] /\ moving[c].pc \in MovingPC
         /\ moving[c].amount \in Nat /\ moving[c].seen \in Int /\ moving[c].delta \in Int
         /\ dbQuota \in Int /\ store \in Int /\ flushing \in Int /\ owed \in Int /\ lost \in Int
         /\ spent \in Nat /\ copy \in Copy /\ copy.quota \in Int /\ Ledger \in Int
         /\ doubtful \in BOOLEAN /\ copy.present \in BOOLEAN /\ copy.exact \in BOOLEAN
BY DEF QuotaTypeOK, Moving, Copy, Ledger

\* The frame: what a call leaves behind when it moves on to m.
Moves(c, m) ==
  /\ QuotaGo(c, m) /\ m \in Moving /\ Shape(m)
  /\ dbQuota' \in Int /\ store' \in Int /\ flushing' = flushing /\ copy' \in Copy
  /\ owed' \in Int /\ lost' \in Int /\ owed' = owed + (lost' - lost) + (Ledger' - Ledger)
  /\ spent' \in Nat
  /\ doubtful' \in BOOLEAN /\ batch' = batch

\* Such a step keeps the ledger.
LEMMA MovesInv ==
  ASSUME WalletInv, NEW c \in QuotaCalls, NEW m, Moves(c, m),
         voucher' \in [Vouchers -> [used: BOOLEAN, locked: BOOLEAN, paid: Nat]],
         calls' \in 0..MaxCalls, errors' \in 0..MaxErrors
  PROVE  WalletInv'
<1>1. /\ moving \in [QuotaCalls -> Moving] /\ owed \in Int /\ lost \in Int /\ Ledger \in Int
      /\ owed = Ledger + lost /\ flushing \in Int /\ batch \in BOOLEAN
  BY DEF WalletInv, QuotaTypeOK, Ledger, Conserved
<1>2. moving' \in [QuotaCalls -> Moving] /\ Shaped'
  BY <1>1, Going DEF Moves, WalletInv
<1>3. Ledger' \in Int
  BY <1>1 DEF Moves, Ledger
<1>6. owed' \in Int /\ lost' \in Int /\ owed' = owed + (lost' - lost) + (Ledger' - Ledger)
  BY DEF Moves
<1>4. owed' = Ledger' + lost'
  BY <1>1, <1>3, <1>6
<1>5. QuotaTypeOK'
  BY <1>1, <1>2, <1>6 DEF Moves, QuotaTypeOK
<1> QED BY <1>2, <1>4, <1>5 DEF WalletInv, Conserved

\* Errors are counted within their bound.
LEMMA Counting ==
  ASSUME errors \in 0..MaxErrors, Erring \/ Smooth
  PROVE  errors' \in 0..MaxErrors
BY QuotaCacheAssumption DEF Erring, Smooth

\* A call that reads or ends and touches nothing else.
LEMMA QuietMove ==
  ASSUME WalletInv, NEW c \in QuotaCalls, NEW m, m \in Moving, Shape(m), QuotaGo(c, m),
         UNCHANGED <<batch, dbQuota, store, flushing, owed, spent, lost>>,
         copy' \in Copy, doubtful' \in BOOLEAN
  PROVE  Moves(c, m)
<1>1. Ledger \in Int /\ Ledger' = Ledger /\ owed \in Int /\ lost \in Int
  BY DEF Ledger, WalletInv, QuotaTypeOK
<1>2. owed' = owed + (lost' - lost) + (Ledger' - Ledger)
  BY <1>1
<1> QED BY <1>2 DEF Moves, WalletInv, QuotaTypeOK

-----------------------------------------------------------------------------
(* QuotaCache: what a step does to the sums over the calls under way.      *)

\* Due, and what the copy is to get back or the ledger is to lose without a
\* new check, of a call in state m.
DueOf(m) ==
  -m.delta - (IF m.pc \in {"persist", "compensate", "debit"} THEN m.amount ELSE 0)

ClaimOf(m) ==
  (IF m.pc \in {"persist", "compensate"} THEN m.amount ELSE 0)
    + (IF m.delta > 0 THEN m.delta ELSE 0)

\* An exact copy moves with the ledger and the dues, or is filled at rest.
KeepsExact(c, m) ==
  copy'.present /\ copy'.exact =>
    \/ /\ copy.present /\ copy.exact
       /\ copy'.quota - Ledger' = copy.quota - Ledger + (DueOf(m) - DueOf(moving[c]))
    \/ AtRest /\ copy'.quota = Ledger' /\ DueOf(m) = 0

\* Without doubt the claims stay covered: by the ledger, by the copy, or, at
\* rest, since there is none.
KeepsClaims(c, m) ==
  ~doubtful' =>
    /\ ~doubtful
    /\ \/ Ledger' + spent' - ClaimOf(m) >= Ledger + spent - ClaimOf(moving[c])
       \/ /\ copy.present
          /\ Ledger' + spent' - ClaimOf(m) >= Ledger + spent - copy.quota - ClaimOf(moving[c])
       \/ AtRest /\ ClaimOf(m) = 0 /\ Ledger' + spent' >= 0
    /\ copy'.present =>
         \/ /\ copy.present
            /\ Ledger' + spent' - copy'.quota - ClaimOf(m) >=
                 Ledger + spent - copy.quota - ClaimOf(moving[c])
         \/ AtRest /\ ClaimOf(m) = 0 /\ Ledger' + spent' - copy'.quota >= 0

Effect(c) == \E m : Moves(c, m) /\ KeepsExact(c, m) /\ KeepsClaims(c, m)

\* A call that leaves the ledger, the copy and what it owes alone.
LEMMA QuietEffect ==
  ASSUME WalletInv, NEW c \in QuotaCalls, NEW m, m \in Moving, Shape(m), QuotaGo(c, m),
         UNCHANGED <<batch, dbQuota, store, flushing, copy, owed, spent, lost, doubtful>>,
         DueOf(m) = DueOf(moving[c]), ClaimOf(m) = ClaimOf(moving[c])
  PROVE  Effect(c)
<1>1. QuotaTypeOK
  BY DEF WalletInv
<1>2. Moves(c, m)
  BY <1>1, QuietMove DEF QuotaTypeOK
<1>3. Ledger' = Ledger /\ Ledger \in Int /\ copy.quota \in Int /\ spent \in Nat
  BY <1>1, Parts DEF Ledger
<1>4. DueOf(m) \in Int /\ ClaimOf(m) \in Int
  BY DEF DueOf, ClaimOf, Moving
<1>5. KeepsExact(c, m)
  BY <1>3, <1>4 DEF KeepsExact
<1>6. KeepsClaims(c, m)
  BY <1>3, <1>4 DEF KeepsClaims
<1> QED BY <1>2, <1>5, <1>6 DEF Effect

\* A call's record, and what it becomes.
LEMMA GoneTo ==
  ASSUME NEW m \in Moving, NEW pc \in MovingPC
  PROVE  \E n \in Moving : /\ n = [m EXCEPT !.pc = pc]
                           /\ n.pc = pc /\ n.amount = m.amount /\ n.delta = m.delta
<1>1. PICK n : n = [m EXCEPT !.pc = pc]
  OBVIOUS
<1>2. n \in Moving /\ n.pc = pc /\ n.amount = m.amount /\ n.delta = m.delta
  BY <1>1 DEF Moving
<1> QED BY <1>1, <1>2

\* A call that is over, but for its goroutine.
LEMMA GoneIdle ==
  ASSUME NEW x \in Int
  PROVE  \E n \in Moving : /\ n = [NotMoving EXCEPT !.delta = x]
                           /\ n.pc = "idle" /\ n.amount = 0 /\ n.delta = x
<1>1. PICK n : n = [NotMoving EXCEPT !.delta = x]
  OBVIOUS
<1>2. n \in Moving /\ n.pc = "idle" /\ n.amount = 0 /\ n.delta = x
  BY <1>1 DEF NotMoving, Moving, MovingPC
<1> QED BY <1>1, <1>2

\* A call at a point where it owes nothing.
LEMMA OwesNothing ==
  ASSUME NEW n \in Moving, n.delta = 0, n.pc \in {"idle", "reserve", "hydrate", "fill", "retry", "fallback"}
  PROVE  Shape(n) /\ DueOf(n) = 0 /\ ClaimOf(n) = 0
BY DEF Shape, DueOf, ClaimOf

\* The script reserves from the copy what the copy covers.
LEMMA ReserveCopyEffect ==
  ASSUME WalletInv, NEW c \in QuotaCalls, ReserveCopy(c)
  PROVE  Effect(c)
<1>0. /\ QuotaTypeOK /\ Shape(moving[c])
      /\ UNCHANGED <<batch, dbQuota, store, flushing, owed, spent, lost, doubtful>>
      /\ moving[c].pc \in {"reserve", "retry"}
      /\ {"persist", "hydrate", "fallback"} \subseteq MovingPC
  BY DEF WalletInv, Shaped, ReserveCopy, MovingPC
<1>1. /\ moving[c] \in Moving /\ moving[c].amount \in Nat /\ moving[c].delta \in Int
      /\ copy \in Copy /\ copy.quota \in Int /\ Ledger \in Int /\ spent \in Nat
      /\ doubtful \in BOOLEAN
  BY <1>0, Parts
<1>2. moving[c].delta = 0 /\ DueOf(moving[c]) = 0 /\ ClaimOf(moving[c]) = 0
  BY <1>0, <1>1 DEF Shape, DueOf, ClaimOf
<1>3. ASSUME NEW pc \in {"hydrate", "fallback"}, GoTo(c, pc), UNCHANGED copy PROVE Effect(c)
  <2>1. PICK n \in Moving : /\ n = [moving[c] EXCEPT !.pc = pc]
                            /\ n.pc = pc /\ n.amount = moving[c].amount /\ n.delta = moving[c].delta
    <3>1. pc \in MovingPC
      BY <1>0
    <3> QED BY <1>1, <3>1, GoneTo
  <2>2. Shape(n) /\ DueOf(n) = 0 /\ ClaimOf(n) = 0
    BY <1>2, <2>1 DEF Shape, DueOf, ClaimOf
  <2> QED BY <1>0, <1>2, <1>3, <2>1, <2>2, QuietEffect DEF GoTo
<1>4. ASSUME MoveDone(c), UNCHANGED copy PROVE Effect(c)
  <2>1. PICK n \in Moving : /\ n = [NotMoving EXCEPT !.delta = moving[c].delta]
                            /\ n.pc = "idle" /\ n.amount = 0 /\ n.delta = moving[c].delta
    BY <1>1, GoneIdle
  <2>2. Shape(n) /\ DueOf(n) = 0 /\ ClaimOf(n) = 0
    BY <1>2, <2>1 DEF Shape, DueOf, ClaimOf
  <2> QED BY <1>0, <1>2, <1>4, <2>1, <2>2, QuietEffect DEF MoveDone
<1>5. ASSUME copy.present, Covers(moving[c].amount), GoTo(c, "persist"),
             copy' = [copy EXCEPT !.quota = @ - moving[c].amount]
      PROVE  Effect(c)
  <2>1. PICK n \in Moving : /\ n = [moving[c] EXCEPT !.pc = "persist"]
                            /\ n.pc = "persist" /\ n.amount = moving[c].amount
                            /\ n.delta = moving[c].delta
    BY <1>0, <1>1, GoneTo
  <2>2. Shape(n) /\ DueOf(n) = -moving[c].amount /\ ClaimOf(n) = moving[c].amount
    BY <1>1, <1>2, <2>1 DEF Shape, DueOf, ClaimOf
  <2>3. /\ copy' \in Copy /\ copy'.present = copy.present /\ copy'.exact = copy.exact
        /\ copy'.quota = copy.quota - moving[c].amount /\ copy.quota >= moving[c].amount
    <3>1. copy' \in Copy /\ copy'.quota = copy.quota - moving[c].amount
      BY <1>1, <1>5 DEF Copy
    <3>2. copy'.present = copy.present /\ copy'.exact = copy.exact
      BY <1>1, <1>5, Zenon DEF Copy
    <3>3. copy.quota >= moving[c].amount
      BY <1>5 DEF Covers
    <3> QED BY <3>1, <3>2, <3>3
  <2>4. Ledger' = Ledger /\ spent' = spent /\ doubtful' = doubtful /\ doubtful' \in BOOLEAN
    BY <1>0, <1>1 DEF Ledger
  <2>5. Moves(c, n)
    BY <1>0, <1>5, <2>1, <2>2, <2>3, <2>4, QuietMove DEF GoTo
  <2>6. KeepsExact(c, n)
    BY <1>1, <1>2, <1>5, <2>2, <2>3, <2>4 DEF KeepsExact
  <2>7. KeepsClaims(c, n)
    BY <1>1, <1>2, <1>5, <2>2, <2>3, <2>4 DEF KeepsClaims
  <2> QED BY <2>5, <2>6, <2>7 DEF Effect
<1> QED BY <1>3, <1>4, <1>5 DEF ReserveCopy

\* The row is read.
LEMMA HydrateEffect ==
  ASSUME WalletInv, NEW c \in QuotaCalls, Hydrate(c)
  PROVE  Effect(c)
<1>0. /\ QuotaTypeOK /\ Shape(moving[c])
      /\ UNCHANGED <<batch, dbQuota, store, flushing, copy, owed, spent, lost, doubtful>>
      /\ moving[c].pc = "hydrate" /\ {"fill", "fallback"} \subseteq MovingPC
  BY DEF WalletInv, Shaped, Hydrate, MovingPC
<1>1. /\ moving[c] \in Moving /\ moving[c].amount \in Nat /\ moving[c].delta \in Int /\ dbQuota \in Int
  BY <1>0, Parts
<1>2. moving[c].delta = 0 /\ DueOf(moving[c]) = 0 /\ ClaimOf(moving[c]) = 0
  BY <1>0, <1>1 DEF Shape, DueOf, ClaimOf
<1>3. CASE GoTo(c, "fallback")
  <2>1. PICK n \in Moving : /\ n = [moving[c] EXCEPT !.pc = "fallback"]
                            /\ n.pc = "fallback" /\ n.amount = moving[c].amount
                            /\ n.delta = moving[c].delta
    BY <1>0, <1>1, GoneTo
  <2>2. Shape(n) /\ DueOf(n) = 0 /\ ClaimOf(n) = 0
    BY <1>2, <2>1 DEF Shape, DueOf, ClaimOf
  <2> QED BY <1>0, <1>2, <1>3, <2>1, <2>2, QuietEffect DEF GoTo
<1>4. CASE QuotaGo(c, [moving[c] EXCEPT !.pc = "fill", !.seen = dbQuota])
  <2>0. PICK n : n = [moving[c] EXCEPT !.pc = "fill", !.seen = dbQuota]
    OBVIOUS
  <2>1. /\ n \in Moving /\ n.pc = "fill" /\ n.amount = moving[c].amount
        /\ n.delta = 0
    BY <1>0, <1>1, <1>2, <2>0 DEF Moving
  <2>2. Shape(n) /\ DueOf(n) = 0 /\ ClaimOf(n) = 0
    BY <2>1, OwesNothing
  <2> QED BY <1>0, <1>2, <1>4, <2>0, <2>1, <2>2, QuietEffect
<1> QED BY <1>3, <1>4 DEF Hydrate

\* The copy is filled if there is none, and doubtful unless at rest.
LEMMA QuotaFillEffect ==
  ASSUME WalletInv, NEW c \in QuotaCalls, QuotaFill(c)
  PROVE  Effect(c)
<1>0. /\ QuotaTypeOK /\ Shape(moving[c])
      /\ UNCHANGED <<batch, dbQuota, store, flushing, owed, spent, lost>>
      /\ moving[c].pc = "fill" /\ "retry" \in MovingPC
      /\ QuotaGo(c, [moving[c] EXCEPT !.pc = "retry", !.seen = 0])
  BY DEF WalletInv, Shaped, QuotaFill, MovingPC
<1>1. /\ moving[c] \in Moving /\ moving[c].amount \in Nat /\ moving[c].delta \in Int
      /\ moving[c].seen \in Int /\ dbQuota \in Int /\ copy \in Copy /\ copy.quota \in Int
      /\ Ledger \in Int /\ spent \in Nat /\ doubtful \in BOOLEAN
      /\ copy.present \in BOOLEAN /\ copy.exact \in BOOLEAN
  BY <1>0, Parts
<1>2. moving[c].delta = 0 /\ DueOf(moving[c]) = 0 /\ ClaimOf(moving[c]) = 0
  BY <1>0, <1>1 DEF Shape, DueOf, ClaimOf
<1>n. PICK n : n = [moving[c] EXCEPT !.pc = "retry", !.seen = 0]
  OBVIOUS
<1>3. /\ n \in Moving /\ n.pc = "retry" /\ n.amount = moving[c].amount
      /\ n.delta = 0
  BY <1>0, <1>1, <1>2, <1>n DEF Moving
<1>4. Shape(n) /\ DueOf(n) = 0 /\ ClaimOf(n) = 0 /\ QuotaGo(c, n)
  <2>1. QuotaGo(c, n)
    BY <1>0, <1>n
  <2>2. Shape(n) /\ DueOf(n) = 0 /\ ClaimOf(n) = 0
    BY <1>3, OwesNothing
  <2> QED BY <2>1, <2>2
<1>5. CASE UNCHANGED <<copy, doubtful>>
  BY <1>0, <1>2, <1>3, <1>4, <1>5, QuietEffect
<1>6. CASE /\ copy' = FilledCopy(moving[c].seen)
           /\ doubtful' = (doubtful \/ ~FilledCopy(moving[c].seen).exact)
  <2>1. CASE copy.present
    <3>1. copy' = copy /\ (~doubtful' => ~doubtful) /\ doubtful' \in BOOLEAN
      BY <1>1, <1>6, <2>1 DEF FilledCopy
    <3>2. Ledger' = Ledger /\ spent' = spent
      BY <1>0 DEF Ledger
    <3>3. Moves(c, n)
      BY <1>0, <1>1, <1>3, <1>4, <3>1, QuietMove
    <3>4. KeepsExact(c, n)
      BY <1>1, <1>2, <1>4, <3>1, <3>2 DEF KeepsExact
    <3>5. KeepsClaims(c, n)
      BY <1>1, <1>2, <1>4, <3>1, <3>2 DEF KeepsClaims
    <3> QED BY <3>3, <3>4, <3>5 DEF Effect
  <2>2. CASE ~copy.present
    <3>0. PICK e \in BOOLEAN : e = (moving[c].seen = dbQuota /\ AtRest)
      OBVIOUS
    <3>1. /\ copy' = [present |-> TRUE, quota |-> moving[c].seen, exact |-> e]
          /\ doubtful' = (doubtful \/ ~e)
      BY <1>6, <2>2, <3>0 DEF FilledCopy
    <3>2. /\ copy' \in Copy /\ copy'.quota = moving[c].seen /\ copy'.exact = e
          /\ doubtful' \in BOOLEAN /\ (~doubtful' => ~doubtful /\ e)
      BY <1>1, <3>1 DEF Copy
    <3>3. Ledger' = Ledger /\ spent' = spent
      BY <1>0 DEF Ledger
    <3>4. e => AtRest /\ Ledger = moving[c].seen
      BY <3>0 DEF AtRest
    <3>5. Moves(c, n)
      BY <1>0, <1>1, <1>3, <1>4, <3>2, QuietMove
    <3>6. KeepsExact(c, n)
      BY <1>4, <3>2, <3>3, <3>4 DEF KeepsExact
    <3>7. ~doubtful' => Ledger' + spent' - copy'.quota >= 0 /\ AtRest /\ ~doubtful
      BY <1>1, <3>2, <3>3, <3>4
    <3>8. KeepsClaims(c, n)
      BY <1>1, <1>2, <1>4, <2>2, <3>2, <3>3, <3>4, <3>7 DEF KeepsClaims
    <3> QED BY <3>5, <3>6, <3>8 DEF Effect
  <2> QED BY <2>1, <2>2
<1> QED BY <1>5, <1>6 DEF QuotaFill

\* The row is reserved from directly, beside a copy or at rest.
LEMMA ReserveRowEffect ==
  ASSUME WalletInv, NEW c \in QuotaCalls, ReserveRow(c)
  PROVE  Effect(c)
<1>0. /\ QuotaTypeOK /\ Shape(moving[c]) /\ moving[c].pc = "fallback" /\ MoveDone(c)
      /\ UNCHANGED <<batch, store, flushing, spent, lost>>
  BY DEF WalletInv, Shaped, ReserveRow
<1>1. /\ moving[c].amount \in Nat /\ moving[c].delta \in Int /\ owed \in Int
      /\ dbQuota \in Int /\ store \in Int /\ flushing \in Int /\ copy \in Copy /\ copy.quota \in Int
      /\ Ledger \in Int /\ spent \in Nat /\ doubtful \in BOOLEAN
      /\ copy.present \in BOOLEAN /\ copy.exact \in BOOLEAN
  BY <1>0, Parts
<1>2. moving[c].delta = 0 /\ DueOf(moving[c]) = 0 /\ ClaimOf(moving[c]) = 0
  BY <1>0, <1>1 DEF Shape, DueOf, ClaimOf
<1>3. PICK n \in Moving : /\ n = [NotMoving EXCEPT !.delta = moving[c].delta]
                          /\ n.pc = "idle" /\ n.amount = 0 /\ n.delta = moving[c].delta
  BY <1>1, GoneIdle
<1>4. Shape(n) /\ DueOf(n) = 0 /\ ClaimOf(n) = 0
  BY <1>2, <1>3, OwesNothing
<1>5. QuotaGo(c, n)
  BY <1>0, <1>3 DEF MoveDone
<1>6. CASE UNCHANGED <<dbQuota, owed, copy, doubtful>>
  BY <1>0, <1>2, <1>4, <1>5, <1>6, QuietEffect
<1>7. CASE /\ dbQuota >= moving[c].amount /\ dbQuota' = dbQuota - moving[c].amount
           /\ Told(-moving[c].amount) /\ copy' = [copy EXCEPT !.exact = ~copy.present]
           /\ doubtful' = (doubtful \/ copy.present \/ ~AtRest)
  <2>1. /\ dbQuota' \in Int /\ Ledger' = Ledger - moving[c].amount /\ Ledger' \in Int
        /\ owed' = owed - moving[c].amount
    BY <1>0, <1>1, <1>7 DEF Ledger, Told
  <2>2. copy' \in Copy /\ copy'.present = copy.present /\ copy'.exact = ~copy.present
    BY <1>1, <1>7 DEF Copy
  <2>3. /\ doubtful' \in BOOLEAN /\ (~doubtful' => ~doubtful /\ ~copy.present /\ AtRest)
    BY <1>7
  <2>4. AtRest => Ledger' + spent' >= 0
    BY <1>0, <1>1, <1>7, <2>1 DEF AtRest
  <2>9. lost \in Int /\ lost' = lost
    BY <1>0, Parts
  <2>5. owed' = owed + (lost' - lost) + (Ledger' - Ledger) /\ owed' \in Int /\ lost' \in Int
    BY <1>1, <2>1, <2>9
  <2>6. Moves(c, n)
    BY <1>0, <1>1, <1>4, <1>5, <2>1, <2>2, <2>3, <2>5 DEF Moves
  <2>7. KeepsExact(c, n)
    BY <2>2 DEF KeepsExact
  <2>8. KeepsClaims(c, n)
    BY <1>4, <2>2, <2>3, <2>4 DEF KeepsClaims
  <2> QED BY <2>6, <2>7, <2>8 DEF Effect
<1> QED BY <1>6, <1>7 DEF ReserveRow

\* A call that changes the ledger by d and leaves the copy alone.
LEMMA LedgerEffect ==
  ASSUME WalletInv, NEW c \in QuotaCalls, NEW n \in Moving, Shape(n), QuotaGo(c, n),
         NEW d \in Int, dbQuota' \in Int, store' \in Int, Ledger' = Ledger + d,
         \/ owed' = owed + d /\ lost' = lost
         \/ owed' = owed /\ lost' = lost - d,
         UNCHANGED <<batch, flushing, copy, doubtful>>, spent' \in Nat,
         DueOf(n) = DueOf(moving[c]) - d,
         spent' + d - ClaimOf(n) >= spent - ClaimOf(moving[c])
  PROVE  Effect(c)
<1>1. /\ moving[c] \in Moving /\ Ledger \in Int /\ owed \in Int /\ copy \in Copy
      /\ copy.quota \in Int /\ spent \in Nat /\ doubtful \in BOOLEAN
  BY Parts DEF WalletInv
<1>2. DueOf(n) \in Int /\ ClaimOf(n) \in Int /\ DueOf(moving[c]) \in Int /\ ClaimOf(moving[c]) \in Int
  BY <1>1 DEF DueOf, ClaimOf, Moving
<1>0. lost \in Int
  BY DEF WalletInv, QuotaTypeOK
<1>3. owed' = owed + (lost' - lost) + (Ledger' - Ledger) /\ owed' \in Int /\ lost' \in Int
  BY <1>0, <1>1
<1>4. Moves(c, n)
  BY <1>1, <1>3 DEF Moves
<1>5. KeepsExact(c, n)
  BY <1>1, <1>2 DEF KeepsExact
<1>6. /\ Ledger' + spent' - ClaimOf(n) >= Ledger + spent - ClaimOf(moving[c])
      /\ Ledger' + spent' - copy'.quota - ClaimOf(n) >=
           Ledger + spent - copy.quota - ClaimOf(moving[c])
  BY <1>1, <1>2
<1>7. KeepsClaims(c, n)
  BY <1>6 DEF KeepsClaims
<1> QED BY <1>4, <1>5, <1>7 DEF Effect

\* A call that changes the copy, if there is one, and not the ledger.
LEMMA CopyEffect ==
  ASSUME WalletInv, NEW c \in QuotaCalls, NEW n \in Moving, Shape(n), QuotaGo(c, n), NEW d \in Int,
         UNCHANGED <<batch, dbQuota, store, flushing, owed, spent, lost>>,
         DueOf(n) = DueOf(moving[c]) + d,
         d <= ClaimOf(moving[c]) - ClaimOf(n), ClaimOf(moving[c]) >= ClaimOf(n),
         \/ /\ doubtful' = doubtful
            /\ copy' = IF copy.present THEN [copy EXCEPT !.quota = @ + d] ELSE copy
         \/ Spoil(0)
  PROVE  Effect(c)
<1>1. /\ moving[c] \in Moving /\ Ledger \in Int /\ owed \in Int /\ copy \in Copy
      /\ copy.quota \in Int /\ spent \in Nat /\ doubtful \in BOOLEAN
      /\ copy.present \in BOOLEAN /\ copy.exact \in BOOLEAN
  BY Parts DEF WalletInv
<1>2. DueOf(n) \in Int /\ ClaimOf(n) \in Int /\ DueOf(moving[c]) \in Int /\ ClaimOf(moving[c]) \in Int
  BY <1>1 DEF DueOf, ClaimOf, Moving
<1>3. Ledger' = Ledger /\ spent' = spent
  BY DEF Ledger
<1>4. CASE /\ doubtful' = doubtful
           /\ copy' = IF copy.present THEN [copy EXCEPT !.quota = @ + d] ELSE copy
  <2>1. /\ copy' \in Copy /\ copy'.present = copy.present /\ copy'.exact = copy.exact
        /\ copy.present => copy'.quota = copy.quota + d
    <3>1. CASE copy.present
      <4>1. PICK x \in Int : x = copy.quota + d
        BY <1>1
      <4>2. copy' = [copy EXCEPT !.quota = x]
        BY <1>4, <3>1, <4>1
      <4>3. copy' \in Copy /\ copy'.quota = x
        BY <1>1, <4>2 DEF Copy
      <4>4. copy'.present = copy.present /\ copy'.exact = copy.exact
        BY <1>1, <4>2, Zenon DEF Copy
      <4> QED BY <4>1, <4>3, <4>4
    <3>2. CASE ~copy.present
      BY <1>1, <1>4, <3>2
    <3> QED BY <3>1, <3>2
  <2>2. Moves(c, n)
    BY <1>1, <1>4, <2>1, QuietMove
  <2>3. KeepsExact(c, n)
    BY <1>1, <1>2, <1>3, <2>1 DEF KeepsExact
  <2>4. KeepsClaims(c, n)
    BY <1>1, <1>2, <1>3, <1>4, <2>1 DEF KeepsClaims
  <2> QED BY <2>2, <2>3, <2>4 DEF Effect
<1>5. CASE Spoil(0)
  <2>1. copy' \in Copy /\ copy'.present = copy.present /\ copy'.exact = ~copy.present
    BY <1>1, <1>5 DEF Copy, Spoil
  <2>2. doubtful' \in BOOLEAN /\ (~doubtful' => ~doubtful /\ ~copy.present)
    BY <1>5 DEF Spoil
  <2>3. Moves(c, n)
    BY <1>1, <2>1, <2>2, QuietMove
  <2>4. KeepsExact(c, n)
    BY <2>1 DEF KeepsExact
  <2>5. KeepsClaims(c, n)
    BY <1>1, <1>2, <1>3, <2>1, <2>2 DEF KeepsClaims
  <2> QED BY <2>3, <2>4, <2>5 DEF Effect
<1> QED BY <1>4, <1>5

\* The record of a call that is over, but for its goroutine, and what it owes.
LEMMA IdleOwes ==
  ASSUME NEW x \in Int
  PROVE  \E n \in Moving : /\ n = [NotMoving EXCEPT !.delta = x]
                           /\ n.pc = "idle" /\ n.delta = x /\ Shape(n) /\ DueOf(n) = -x
                           /\ ClaimOf(n) = IF x > 0 THEN x ELSE 0
<1>1. PICK n \in Moving : /\ n = [NotMoving EXCEPT !.delta = x]
                          /\ n.pc = "idle" /\ n.amount = 0 /\ n.delta = x
  BY GoneIdle
<1>2. Shape(n) /\ DueOf(n) = -x /\ ClaimOf(n) = IF x > 0 THEN x ELSE 0
  BY <1>1 DEF Shape, DueOf, ClaimOf
<1> QED BY <1>1, <1>2

\* What has been reserved from the copy is taken from the ledger.
LEMMA PersistEffect ==
  ASSUME WalletInv, NEW c \in QuotaCalls, Persist(c)
  PROVE  Effect(c)
<1>0. /\ QuotaTypeOK /\ Shape(moving[c]) /\ moving[c].pc = "persist" /\ "compensate" \in MovingPC
      /\ UNCHANGED <<batch, flushing, copy, spent, lost, doubtful>>
  BY DEF WalletInv, Shaped, Persist, MovingPC
<1>1. /\ moving[c] \in Moving /\ moving[c].amount \in Nat /\ moving[c].delta \in Int /\ owed \in Int
      /\ dbQuota \in Int /\ store \in Int /\ flushing \in Int /\ spent \in Nat
  BY <1>0, Parts
<1>2. /\ moving[c].delta = 0 /\ DueOf(moving[c]) = -moving[c].amount
      /\ ClaimOf(moving[c]) = moving[c].amount
  BY <1>0, <1>1 DEF Shape, DueOf, ClaimOf
<1>3. CASE Change(-moving[c].amount) /\ Told(-moving[c].amount) /\ MoveDone(c)
  <2>1. PICK n \in Moving : /\ n = [NotMoving EXCEPT !.delta = moving[c].delta] /\ Shape(n)
                            /\ n.pc = "idle" /\ n.delta = moving[c].delta
                            /\ n.pc = "idle" /\ n.delta = moving[c].delta
                          /\ DueOf(n) = -moving[c].delta
                            /\ ClaimOf(n) = IF moving[c].delta > 0 THEN moving[c].delta ELSE 0
    BY <1>1, IdleOwes
  <2>0. QuotaGo(c, n)
    BY <1>3, <2>1 DEF MoveDone
  <2>2. DueOf(n) = 0 /\ ClaimOf(n) = 0 /\ QuotaGo(c, n)
    BY <1>2, <2>0, <2>1, OwesNothing
  <2>3. PICK d \in Int : d = -moving[c].amount
    BY <1>1
  <2>4. /\ dbQuota' \in Int /\ store' \in Int /\ Ledger' = Ledger + d /\ owed' = owed + d
    BY <1>0, <1>1, <1>3, <2>3, Changing DEF Told
  <2>5. /\ DueOf(n) = DueOf(moving[c]) - d
        /\ spent' + d - ClaimOf(n) >= spent - ClaimOf(moving[c]) /\ spent' \in Nat
    BY <1>0, <1>1, <1>2, <2>2, <2>3
  <2> QED BY <1>0, <2>1, <2>2, <2>3, <2>4, <2>5, LedgerEffect
<1>4. CASE GoTo(c, "compensate") /\ UNCHANGED <<dbQuota, store, owed>>
  <2>1. PICK n \in Moving : /\ n = [moving[c] EXCEPT !.pc = "compensate"]
                            /\ n.pc = "compensate" /\ n.amount = moving[c].amount
                            /\ n.delta = moving[c].delta
    BY <1>0, <1>1, GoneTo
  <2>2. Shape(n) /\ DueOf(n) = -moving[c].amount /\ ClaimOf(n) = moving[c].amount
    BY <1>1, <1>2, <2>1 DEF Shape, DueOf, ClaimOf
  <2> QED BY <1>0, <1>2, <1>4, <2>1, <2>2, QuietEffect DEF GoTo
<1> QED BY <1>3, <1>4 DEF Persist

\* What could not be taken from the ledger goes back to the copy.
LEMMA CompensateEffect ==
  ASSUME WalletInv, NEW c \in QuotaCalls, Compensate(c)
  PROVE  Effect(c)
<1>0. /\ QuotaTypeOK /\ Shape(moving[c]) /\ moving[c].pc = "compensate" /\ MoveDone(c)
      /\ UNCHANGED <<batch, dbQuota, store, flushing, owed, spent, lost>>
      /\ \/ /\ doubtful' = doubtful
            /\ copy' = IF copy.present THEN [copy EXCEPT !.quota = @ + moving[c].amount] ELSE copy
         \/ Spoil(0)
  BY DEF WalletInv, Shaped, Compensate
<1>1. moving[c] \in Moving /\ moving[c].amount \in Nat /\ moving[c].delta \in Int
  BY <1>0, Parts
<1>2. /\ moving[c].delta = 0 /\ DueOf(moving[c]) = -moving[c].amount
      /\ ClaimOf(moving[c]) = moving[c].amount
  BY <1>0, <1>1 DEF Shape, DueOf, ClaimOf
<1>3. PICK n \in Moving : /\ n = [NotMoving EXCEPT !.delta = moving[c].delta] /\ Shape(n)
                          /\ n.pc = "idle" /\ n.delta = moving[c].delta
                          /\ DueOf(n) = -moving[c].delta
                          /\ ClaimOf(n) = IF moving[c].delta > 0 THEN moving[c].delta ELSE 0
  BY <1>1, IdleOwes
<1>g. QuotaGo(c, n)
  BY <1>0, <1>3 DEF MoveDone
<1>4. DueOf(n) = 0 /\ ClaimOf(n) = 0 /\ QuotaGo(c, n)
  BY <1>2, <1>3, <1>g, OwesNothing
<1>5. PICK d \in Int : d = moving[c].amount
  BY <1>1
<1>6. /\ DueOf(n) = DueOf(moving[c]) + d /\ d <= ClaimOf(moving[c]) - ClaimOf(n)
      /\ ClaimOf(moving[c]) >= ClaimOf(n)
  BY <1>1, <1>2, <1>4, <1>5
<1> QED BY <1>0, <1>3, <1>4, <1>5, <1>6, CopyEffect

\* A credit reaches the ledger, and the copy by a goroutine.
LEMMA CreditEffect ==
  ASSUME WalletInv, NEW c \in QuotaCalls, Credit(c)
  PROVE  Effect(c)
<1>0. /\ QuotaTypeOK /\ Shape(moving[c]) /\ moving[c].pc = "credit"
      /\ UNCHANGED <<batch, flushing, copy, spent, lost, doubtful>>
  BY DEF WalletInv, Shaped, Credit
<1>1. /\ moving[c] \in Moving /\ moving[c].amount \in Nat /\ moving[c].delta \in Int /\ owed \in Int
      /\ dbQuota \in Int /\ store \in Int /\ flushing \in Int /\ spent \in Nat
  BY <1>0, Parts
<1>2. moving[c].delta = 0 /\ DueOf(moving[c]) = 0 /\ ClaimOf(moving[c]) = 0
  BY <1>0, <1>1 DEF Shape, DueOf, ClaimOf
<1>3. CASE /\ Change(moving[c].amount) /\ Told(moving[c].amount)
           /\ QuotaGo(c, [NotMoving EXCEPT !.delta = moving[c].amount])
  <2>1. PICK d \in Int : d = moving[c].amount /\ d \in Nat
    BY <1>1
  <2>2. PICK n \in Moving : /\ n = [NotMoving EXCEPT !.delta = d] /\ Shape(n)
                            /\ DueOf(n) = -d /\ ClaimOf(n) = IF d > 0 THEN d ELSE 0
    BY <2>1, IdleOwes
  <2>3. QuotaGo(c, n)
    BY <1>3, <2>1, <2>2
  <2>4. /\ dbQuota' \in Int /\ store' \in Int /\ Ledger' = Ledger + d /\ owed' = owed + d
    BY <1>0, <1>1, <1>3, <2>1, Changing DEF Told
  <2>5. /\ DueOf(n) = DueOf(moving[c]) - d
        /\ spent' + d - ClaimOf(n) >= spent - ClaimOf(moving[c]) /\ spent' \in Nat
    BY <1>0, <1>1, <1>2, <2>1, <2>2
  <2> QED BY <1>0, <2>1, <2>2, <2>3, <2>4, <2>5, LedgerEffect
<1>4. CASE MoveDone(c) /\ UNCHANGED <<dbQuota, store, owed>>
  <2>1. PICK n \in Moving : /\ n = [NotMoving EXCEPT !.delta = moving[c].delta] /\ Shape(n)
                            /\ n.pc = "idle" /\ n.delta = moving[c].delta
                            /\ n.pc = "idle" /\ n.delta = moving[c].delta
                          /\ DueOf(n) = -moving[c].delta
                            /\ ClaimOf(n) = IF moving[c].delta > 0 THEN moving[c].delta ELSE 0
    BY <1>1, IdleOwes
  <2>0. QuotaGo(c, n)
    BY <1>4, <2>1 DEF MoveDone
  <2>2. DueOf(n) = 0 /\ ClaimOf(n) = 0 /\ QuotaGo(c, n)
    BY <1>2, <2>0, <2>1, OwesNothing
  <2> QED BY <1>0, <1>2, <1>4, <2>1, <2>2, QuietEffect
<1> QED BY <1>3, <1>4 DEF Credit

\* A settlement's debit reaches the ledger.
LEMMA DebitEffect ==
  ASSUME WalletInv, NEW c \in QuotaCalls, Debit(c)
  PROVE  Effect(c)
<1>0. /\ QuotaTypeOK /\ Shape(moving[c]) /\ moving[c].pc = "debit" /\ MoveDone(c)
      /\ UNCHANGED <<batch, flushing>>
  BY DEF WalletInv, Shaped, Debit
<1>1. /\ moving[c] \in Moving /\ moving[c].amount \in Nat /\ moving[c].delta \in Int /\ owed \in Int
      /\ dbQuota \in Int /\ store \in Int /\ flushing \in Int /\ spent \in Nat
      /\ copy \in Copy /\ doubtful \in BOOLEAN /\ copy.present \in BOOLEAN
      /\ Ledger \in Int /\ copy.quota \in Int
  BY <1>0, Parts
<1>2. /\ moving[c].delta <= 0 /\ DueOf(moving[c]) = -moving[c].delta - moving[c].amount
      /\ ClaimOf(moving[c]) = 0
  BY <1>0, <1>1 DEF Shape, DueOf, ClaimOf
<1>3. PICK n \in Moving : /\ n = [NotMoving EXCEPT !.delta = moving[c].delta] /\ Shape(n)
                          /\ n.pc = "idle" /\ n.delta = moving[c].delta
                          /\ DueOf(n) = -moving[c].delta
                          /\ ClaimOf(n) = IF moving[c].delta > 0 THEN moving[c].delta ELSE 0
  BY <1>1, IdleOwes
<1>4. ClaimOf(n) = 0 /\ QuotaGo(c, n)
  BY <1>0, <1>1, <1>2, <1>3 DEF MoveDone
<1>5. CASE /\ Change(-moving[c].amount)
           /\ \/ Told(-moving[c].amount) /\ lost' = lost
              \/ owed' = owed /\ lost' = lost + moving[c].amount
           /\ spent' = spent + moving[c].amount /\ UNCHANGED <<copy, doubtful>>
  <2>3. PICK d \in Int : d = -moving[c].amount
    BY <1>1
  <2>1. /\ dbQuota' \in Int /\ store' \in Int /\ Ledger' = Ledger + d
    BY <1>0, <1>1, <1>5, <2>3, Changing
  <2>2. lost \in Int
    BY <1>0, Parts
  <2>4. \/ owed' = owed + d /\ lost' = lost
        \/ owed' = owed /\ lost' = lost - d
    BY <1>1, <1>5, <2>2, <2>3 DEF Told
  <2>5. /\ DueOf(n) = DueOf(moving[c]) - d
        /\ spent' + d - ClaimOf(n) >= spent - ClaimOf(moving[c]) /\ spent' \in Nat
    BY <1>1, <1>2, <1>3, <1>4, <1>5, <2>3
  <2> QED BY <1>0, <1>3, <1>4, <1>5, <2>1, <2>3, <2>4, <2>5, LedgerEffect
<1>6. CASE Spoil(0) /\ UNCHANGED <<dbQuota, store, owed, spent, lost>>
  <2>1. copy' \in Copy /\ copy'.present = copy.present /\ copy'.exact = ~copy.present
    BY <1>1, <1>6 DEF Copy, Spoil
  <2>2. doubtful' \in BOOLEAN /\ (~doubtful' => ~doubtful /\ ~copy.present)
    BY <1>6 DEF Spoil
  <2>3. Moves(c, n)
    BY <1>0, <1>1, <1>3, <1>4, <1>6, <2>1, <2>2, QuietMove
  <2>4. KeepsExact(c, n)
    BY <2>1 DEF KeepsExact
  <2>5. Ledger' + spent' - ClaimOf(n) >= Ledger + spent - ClaimOf(moving[c])
    BY <1>0, <1>1, <1>2, <1>4, <1>6 DEF Ledger
  <2>6. KeepsClaims(c, n)
    BY <2>1, <2>2, <2>5 DEF KeepsClaims
  <2> QED BY <2>3, <2>4, <2>6 DEF Effect
<1> QED BY <1>5, <1>6 DEF Debit

\* The goroutine updates the copy, if there is one.
LEMMA ApplyDeltaEffect ==
  ASSUME WalletInv, NEW c \in QuotaCalls, ApplyDelta(c)
  PROVE  Effect(c)
<1>0. /\ QuotaTypeOK /\ Shape(moving[c])
      /\ QuotaGo(c, [moving[c] EXCEPT !.delta = 0])
      /\ UNCHANGED <<batch, dbQuota, store, flushing, owed, spent, lost>>
      /\ \/ /\ doubtful' = doubtful
            /\ copy' = IF copy.present THEN [copy EXCEPT !.quota = @ + moving[c].delta] ELSE copy
         \/ Spoil(0)
  BY DEF WalletInv, Shaped, ApplyDelta
<1>1. moving[c] \in Moving /\ moving[c].amount \in Nat /\ moving[c].delta \in Int
  BY <1>0, Parts
<1>2. PICK n : n = [moving[c] EXCEPT !.delta = 0]
  OBVIOUS
<1>3. /\ n \in Moving /\ n.pc = moving[c].pc /\ n.amount = moving[c].amount /\ n.delta = 0
  BY <1>1, <1>2 DEF Moving
<1>4. PICK d \in Int : d = moving[c].delta
  BY <1>1
<1>5. /\ Shape(n) /\ DueOf(n) = DueOf(moving[c]) + d
      /\ ClaimOf(moving[c]) - ClaimOf(n) = (IF d > 0 THEN d ELSE 0)
      /\ ClaimOf(moving[c]) \in Int /\ ClaimOf(n) \in Int
  BY <1>0, <1>1, <1>3, <1>4 DEF Shape, DueOf, ClaimOf
<1>6. d <= ClaimOf(moving[c]) - ClaimOf(n) /\ ClaimOf(moving[c]) >= ClaimOf(n)
  BY <1>5
<1>7. QuotaGo(c, n)
  BY <1>0, <1>2
<1> QED BY <1>0, <1>3, <1>4, <1>5, <1>6, <1>7, CopyEffect

\* A voucher is read, or locked.
LEMMA OpenVoucherEffect ==
  ASSUME WalletInv, NEW c \in QuotaCalls, OpenVoucher(c)
  PROVE  Effect(c)
<1>0. /\ QuotaTypeOK /\ Shape(moving[c])
      /\ UNCHANGED <<batch, dbQuota, store, flushing, copy, owed, spent, lost, doubtful>>
      /\ moving[c].pc \in {"redeem", "order"} /\ {"redeemTx", "orderTx"} \subseteq MovingPC
      /\ GoTo(c, "redeemTx") \/ GoTo(c, "orderTx") \/ MoveDone(c)
  BY DEF WalletInv, Shaped, OpenVoucher, MovingPC
<1>1. /\ moving[c] \in Moving /\ moving[c].amount \in Nat /\ moving[c].delta \in Int
  BY <1>0, Parts
<1>2. /\ moving[c].delta = 0 /\ DueOf(moving[c]) = 0 /\ ClaimOf(moving[c]) = 0
      /\ moving[c].amount = VoucherQuota
  BY <1>0, <1>1 DEF Shape, DueOf, ClaimOf
<1>3. ASSUME NEW pc \in {"redeemTx", "orderTx"}, GoTo(c, pc) PROVE Effect(c)
  <2>0. pc \in MovingPC
    BY <1>0
  <2>1. PICK n \in Moving : /\ n = [moving[c] EXCEPT !.pc = pc]
                            /\ n.pc = pc /\ n.amount = moving[c].amount /\ n.delta = moving[c].delta
    BY <1>1, <2>0, GoneTo
  <2>2. Shape(n) /\ DueOf(n) = 0 /\ ClaimOf(n) = 0
    BY <1>2, <2>1 DEF Shape, DueOf, ClaimOf
  <2> QED BY <1>0, <1>2, <1>3, <2>1, <2>2, QuietEffect DEF GoTo
<1>4. CASE MoveDone(c)
  <2>1. PICK n \in Moving : /\ n = [NotMoving EXCEPT !.delta = moving[c].delta] /\ Shape(n)
                            /\ n.pc = "idle" /\ n.delta = moving[c].delta
                            /\ n.pc = "idle" /\ n.delta = moving[c].delta
                          /\ DueOf(n) = -moving[c].delta
                            /\ ClaimOf(n) = IF moving[c].delta > 0 THEN moving[c].delta ELSE 0
    BY <1>1, IdleOwes
  <2>0. QuotaGo(c, n)
    BY <1>4, <2>1 DEF MoveDone
  <2>2. DueOf(n) = 0 /\ ClaimOf(n) = 0
    BY <1>2, <2>1, OwesNothing
  <2> QED BY <1>0, <1>2, <2>0, <2>1, <2>2, QuietEffect
<1> QED BY <1>0, <1>3, <1>4

\* A voucher's credit reaches the row, and the copy by a goroutine.
LEMMA CommitVoucherEffect ==
  ASSUME WalletInv, NEW c \in QuotaCalls, CommitVoucher(c)
  PROVE  Effect(c)
<1>0. /\ QuotaTypeOK /\ Shape(moving[c])
      /\ UNCHANGED <<batch, store, flushing, copy, spent, lost, doubtful>>
      /\ moving[c].pc \in {"redeemTx", "orderTx"}
      /\ \/ /\ dbQuota' = dbQuota + moving[c].amount /\ Told(moving[c].amount)
            /\ QuotaGo(c, [NotMoving EXCEPT !.delta = moving[c].amount])
         \/ MoveDone(c) /\ UNCHANGED <<dbQuota, owed>>
  BY DEF WalletInv, Shaped, CommitVoucher
<1>1. /\ moving[c] \in Moving /\ moving[c].amount \in Nat /\ moving[c].delta \in Int /\ owed \in Int
      /\ dbQuota \in Int /\ store \in Int /\ flushing \in Int /\ spent \in Nat
  BY <1>0, Parts
<1>2. moving[c].delta = 0 /\ DueOf(moving[c]) = 0 /\ ClaimOf(moving[c]) = 0
  BY <1>0, <1>1 DEF Shape, DueOf, ClaimOf
<1>3. CASE /\ dbQuota' = dbQuota + moving[c].amount /\ Told(moving[c].amount)
           /\ QuotaGo(c, [NotMoving EXCEPT !.delta = moving[c].amount])
  <2>1. PICK d \in Int : d = moving[c].amount /\ d \in Nat
    BY <1>1
  <2>2. PICK n \in Moving : /\ n = [NotMoving EXCEPT !.delta = d] /\ Shape(n)
                            /\ DueOf(n) = -d /\ ClaimOf(n) = IF d > 0 THEN d ELSE 0
    BY <2>1, IdleOwes
  <2>3. QuotaGo(c, n)
    BY <1>3, <2>1, <2>2
  <2>4. /\ dbQuota' \in Int /\ store' \in Int /\ Ledger' = Ledger + d /\ owed' = owed + d
    BY <1>0, <1>1, <1>3, <2>1 DEF Told, Ledger
  <2>5. /\ DueOf(n) = DueOf(moving[c]) - d
        /\ spent' + d - ClaimOf(n) >= spent - ClaimOf(moving[c]) /\ spent' \in Nat
    BY <1>0, <1>1, <1>2, <2>1, <2>2
  <2> QED BY <1>0, <2>1, <2>2, <2>3, <2>4, <2>5, LedgerEffect
<1>4. CASE MoveDone(c) /\ UNCHANGED <<dbQuota, owed>>
  <2>1. PICK n \in Moving : /\ n = [NotMoving EXCEPT !.delta = moving[c].delta] /\ Shape(n)
                            /\ n.pc = "idle" /\ n.delta = moving[c].delta
                            /\ n.pc = "idle" /\ n.delta = moving[c].delta
                          /\ DueOf(n) = -moving[c].delta
                            /\ ClaimOf(n) = IF moving[c].delta > 0 THEN moving[c].delta ELSE 0
    BY <1>1, IdleOwes
  <2>0. QuotaGo(c, n)
    BY <1>4, <2>1 DEF MoveDone
  <2>2. DueOf(n) = 0 /\ ClaimOf(n) = 0
    BY <1>2, <2>1, OwesNothing
  <2> QED BY <1>0, <1>2, <1>4, <2>0, <2>1, <2>2, QuietEffect
<1> QED BY <1>0, <1>3, <1>4

\* A call begins; a debit's goroutine is started at once.
LEMMA StartCallEffect ==
  ASSUME WalletInv, NEW c \in QuotaCalls,
         NEW kind \in {"reserve", "credit", "debit", "redeem", "order"},
         NEW a \in Nat, StartCall(c, kind, a)
  PROVE  Effect(c)
<1>0. /\ QuotaTypeOK /\ moving[c] = NotMoving /\ VoucherQuota \in Nat
      /\ UNCHANGED <<batch, dbQuota, store, flushing, copy, owed, spent, lost, doubtful>>
      /\ kind \in {"redeem", "order"} => a = VoucherQuota
      /\ {"reserve", "credit", "debit", "redeem", "order"} \subseteq MovingPC
  BY QuotaCacheAssumption DEF WalletInv, StartCall, MovingPC
<1>1. PICK x \in Int : x = IF kind = "debit" THEN -a ELSE 0
  OBVIOUS
<1>2. PICK n : n = [NotMoving EXCEPT !.pc = kind, !.amount = a, !.delta = x]
  OBVIOUS
<1>3. QuotaGo(c, n)
  BY <1>1, <1>2 DEF StartCall
<1>4. n = [pc |-> kind, amount |-> a, seen |-> 0, delta |-> x]
  BY <1>2 DEF NotMoving
<1>5. n \in Moving /\ n.pc = kind /\ n.amount = a /\ n.delta = x
  BY <1>0, <1>4 DEF Moving
<1>6. Shape(n) /\ DueOf(n) = 0 /\ ClaimOf(n) = 0
  BY <1>0, <1>1, <1>5 DEF Shape, DueOf, ClaimOf
<1>7. DueOf(moving[c]) = 0 /\ ClaimOf(moving[c]) = 0
  <2>1. NotMoving \in Moving /\ NotMoving.delta = 0 /\ NotMoving.pc = "idle"
    BY DEF NotMoving, Moving, MovingPC
  <2> QED BY <1>0, <2>1, OwesNothing
<1> QED BY <1>0, <1>3, <1>5, <1>6, <1>7, QuietEffect

\* Every step of a call has such an effect.
LEMMA MoveStepEffect ==
  ASSUME WalletInv, NEW c \in QuotaCalls, MoveStep(c)
  PROVE  Effect(c)
BY ReserveCopyEffect, HydrateEffect, QuotaFillEffect, ReserveRowEffect, PersistEffect,
   CompensateEffect, CreditEffect, DebitEffect, ApplyDeltaEffect, OpenVoucherEffect,
   CommitVoucherEffect DEF MoveStep

-----------------------------------------------------------------------------
(* QuotaCache: the copy is exact, and the claims are covered.              *)

Dues == [c \in QuotaCalls |-> DueOf(moving[c])]

Claims == [c \in QuotaCalls |-> ClaimOf(moving[c])]

\* An exact copy differs from the ledger by what the calls under way owe.
ExactSum ==
  copy.present /\ copy.exact => IsSum(copy.quota - Ledger, Dues, QuotaCalls, 0)

\* Without doubt, what the calls may claim together is in the ledger, and
\* besides what the copy would still let others reserve.
Covered ==
  \E y : /\ IsSum(y, Claims, QuotaCalls, 0)
         /\ ~doubtful => /\ Ledger + spent >= y
                         /\ copy.present => Ledger + spent - copy.quota >= y

\* What is owed and claimed are integers, and claims are natural numbers.
LEMMA SumTypes ==
  ASSUME QuotaTypeOK
  PROVE  /\ Dues \in [QuotaCalls -> Int] /\ Claims \in [QuotaCalls -> Int]
         /\ \A c \in QuotaCalls : Claims[c] >= 0
<1>1. ASSUME NEW c \in QuotaCalls
      PROVE  DueOf(moving[c]) \in Int /\ ClaimOf(moving[c]) \in Int /\ ClaimOf(moving[c]) >= 0
  <2>1. moving[c].amount \in Nat /\ moving[c].delta \in Int
    BY Parts
  <2> QED BY <2>1 DEF DueOf, ClaimOf
<1> QED BY <1>1 DEF Dues, Claims

SumsTyped == Weights(Dues, QuotaCalls) /\ Weights(Claims, QuotaCalls)

\* In short.
LEMMA SumsAreTyped == QuotaTypeOK => SumsTyped
BY SumTypes DEF SumsTyped, Weights

\* Claims add up to no less than nothing.
LEMMA ClaimsSum ==
  ASSUME QuotaTypeOK, NEW y, IsSum(y, Claims, QuotaCalls, 0)
  PROVE  y \in Int /\ y >= 0
<1>1. Claims \in [QuotaCalls -> Int] /\ \A c \in QuotaCalls : Claims[c] >= 0
  BY SumTypes
<1>2. /\ y \in Int
      /\ (\A r \in QuotaCalls : Claims[r] = 0) => y = 0
      /\ (\A r \in QuotaCalls : Claims[r] >= 0) => \A r \in QuotaCalls : 0 + Claims[r] <= y
  BY <1>1, SumFacts
<1>3. CASE QuotaCalls = {}
  BY <1>2, <1>3
<1>4. ASSUME NEW r \in QuotaCalls PROVE y >= 0
  <2>1. Claims[r] \in Int /\ Claims[r] >= 0 /\ 0 + Claims[r] <= y
    BY <1>1, <1>2
  <2> QED BY <1>2, <2>1
<1> QED BY <1>2, <1>3, <1>4

\* At rest nobody owes or claims anything.
LEMMA RestSums ==
  ASSUME QuotaTypeOK, Shaped, AtRest
  PROVE  /\ \A c \in QuotaCalls : DueOf(moving[c]) = 0 /\ ClaimOf(moving[c]) = 0
         /\ Dues = [c \in QuotaCalls |-> 0] /\ Claims = [c \in QuotaCalls |-> 0]
<1>1. ASSUME NEW c \in QuotaCalls PROVE DueOf(moving[c]) = 0 /\ ClaimOf(moving[c]) = 0
  <2>1. moving[c].amount \in Nat /\ moving[c].delta \in Int /\ Shape(moving[c])
    BY Parts DEF Shaped
  <2>2. DueOf(moving[c]) = 0
    BY DEF AtRest, Due, DueOf
  <2>3. ClaimOf(moving[c]) = 0
    <3>1. CASE moving[c].pc \in {"persist", "compensate"}
      <4>1. moving[c].delta = 0
        BY <2>1, <3>1 DEF Shape
      <4>2. moving[c].amount = 0
        BY <2>1, <2>2, <3>1, <4>1 DEF DueOf
      <4> QED BY <3>1, <4>1, <4>2 DEF ClaimOf
    <3>2. CASE moving[c].pc \notin {"persist", "compensate"}
      <4>1. CASE moving[c].pc = "debit"
        BY <2>1, <3>2, <4>1 DEF Shape, ClaimOf
      <4>2. CASE moving[c].pc # "debit"
        <5>1. moving[c].delta = 0
          BY <2>1, <2>2, <3>2, <4>2 DEF DueOf
        <5> QED BY <3>2, <5>1 DEF ClaimOf
      <4> QED BY <4>1, <4>2
    <3> QED BY <3>1, <3>2
  <2> QED BY <2>2, <2>3
<1> QED BY <1>1 DEF Dues, Claims

\* The effect of a call's step keeps both.
LEMMA EffectSums ==
  ASSUME WalletInv, WalletInv', ExactSum, Covered, NEW c \in QuotaCalls, Effect(c)
  PROVE  ExactSum' /\ Covered'
<1>0. PICK m : Moves(c, m) /\ KeepsExact(c, m) /\ KeepsClaims(c, m)
  BY DEF Effect
<1>1. /\ m \in Moving /\ moving' = [moving EXCEPT ![c] = m]
      /\ moving \in [QuotaCalls -> Moving] /\ IsFiniteSet(QuotaCalls)
  BY <1>0, QuotaCacheAssumption DEF Moves, QuotaGo, WalletInv, QuotaTypeOK
<1>2. /\ Dues \in [QuotaCalls -> Int] /\ Claims \in [QuotaCalls -> Int]
      /\ Dues' \in [QuotaCalls -> Int] /\ Claims' \in [QuotaCalls -> Int]
  <2>1. QuotaTypeOK /\ QuotaTypeOK'
    BY DEF WalletInv
  <2>2. QuotaTypeOK' => SumsTyped'
    BY SumsAreTyped, PTL
  <2> QED BY <2>1, <2>2, SumsAreTyped DEF SumsTyped, Weights
<1>3. /\ moving'[c] = m /\ \A d \in QuotaCalls \ {c} : moving'[d] = moving[d]
  BY <1>1
<1>4. DueOf(m) \in Int /\ ClaimOf(m) \in Int /\ DueOf(moving[c]) \in Int /\ ClaimOf(moving[c]) \in Int
  BY <1>1 DEF DueOf, ClaimOf, Moving
<1>5. Moved(Dues', Dues, QuotaCalls, c, DueOf(m)) /\ Dues[c] = DueOf(moving[c])
  <2>1. Dues' = [Dues EXCEPT ![c] = DueOf(m)]
    BY <1>3 DEF Dues
  <2> QED BY <1>2, <1>4, <2>1 DEF Moved, Dues
<1>6. Moved(Claims', Claims, QuotaCalls, c, ClaimOf(m)) /\ Claims[c] = ClaimOf(moving[c])
  <2>1. Claims' = [Claims EXCEPT ![c] = ClaimOf(m)]
    BY <1>3 DEF Claims
  <2> QED BY <1>2, <1>4, <2>1 DEF Moved, Claims
<1>7. /\ Ledger \in Int /\ Ledger' \in Int /\ copy.quota \in Int /\ copy'.quota \in Int
      /\ spent \in Nat /\ spent' \in Nat
  BY DEF WalletInv, QuotaTypeOK, Copy, Ledger
<1>8. ASSUME AtRest
      PROVE  /\ DueOf(m) = 0 => IsSum(0, Dues', QuotaCalls, 0)
             /\ ClaimOf(m) = 0 => IsSum(0, Claims', QuotaCalls, 0)
  <2>1. /\ \A d \in QuotaCalls : DueOf(moving[d]) = 0 /\ ClaimOf(moving[d]) = 0
    BY <1>8, RestSums DEF WalletInv
  <2>2. DueOf(m) = 0 => Dues' = [d \in QuotaCalls |-> 0]
    BY <1>3, <2>1 DEF Dues
  <2>3. ClaimOf(m) = 0 => Claims' = [d \in QuotaCalls |-> 0]
    BY <1>3, <2>1 DEF Claims
  <2> QED BY <1>1, <2>2, <2>3, SumInit
<1>9. ExactSum'
  <2> SUFFICES ASSUME copy'.present, copy'.exact
               PROVE  IsSum(copy'.quota - Ledger', Dues', QuotaCalls, 0)
    BY DEF ExactSum
  <2>1. CASE /\ copy.present /\ copy.exact
             /\ copy'.quota - Ledger' = copy.quota - Ledger + (DueOf(m) - DueOf(moving[c]))
    <3>1. IsSum(copy.quota - Ledger, Dues, QuotaCalls, 0)
      BY <2>1 DEF ExactSum
    <3>2. IsSum(copy.quota - Ledger + (DueOf(m) - Dues[c]), Dues', QuotaCalls, 0)
      BY <1>5, <3>1, SumShift
    <3> QED BY <1>5, <2>1, <3>2
  <2>2. CASE AtRest /\ copy'.quota = Ledger' /\ DueOf(m) = 0
    <3>0. PICK x \in Int : x = Ledger' /\ x = copy'.quota
      BY <1>7, <2>2
    <3>1. copy'.quota - Ledger' = 0
      BY <3>0
    <3> QED BY <1>8, <2>2, <3>1
  <2> QED BY <1>0, <2>1, <2>2 DEF KeepsExact
<1>10. Covered'
  <2>1. PICK y : /\ IsSum(y, Claims, QuotaCalls, 0)
                 /\ ~doubtful => /\ Ledger + spent >= y
                                 /\ copy.present => Ledger + spent - copy.quota >= y
    BY DEF Covered
  <2>2. y \in Int /\ y >= 0
    BY <2>1, ClaimsSum DEF WalletInv
  <2>3. PICK z : z = y + (ClaimOf(m) - ClaimOf(moving[c]))
    OBVIOUS
  <2>4. IsSum(z, Claims', QuotaCalls, 0)
    BY <1>6, <2>1, <2>3, SumShift
  <2>5. AtRest /\ ClaimOf(m) = 0 => z = 0
    <3>1. Claims' \in [QuotaCalls -> Int]
      BY <1>2
    <3> QED BY <1>1, <1>8, <2>4, <3>1, SumUnique DEF Weights
  <2>6. ASSUME ~doubtful'
        PROVE  Ledger' + spent' >= z /\ (copy'.present => Ledger' + spent' - copy'.quota >= z)
    <3>1. /\ ~doubtful
          /\ \/ Ledger' + spent' - ClaimOf(m) >= Ledger + spent - ClaimOf(moving[c])
             \/ /\ copy.present
                /\ Ledger' + spent' - ClaimOf(m) >= Ledger + spent - copy.quota - ClaimOf(moving[c])
             \/ AtRest /\ ClaimOf(m) = 0 /\ Ledger' + spent' >= 0
          /\ copy'.present =>
               \/ /\ copy.present
                  /\ Ledger' + spent' - copy'.quota - ClaimOf(m) >=
                       Ledger + spent - copy.quota - ClaimOf(moving[c])
               \/ AtRest /\ ClaimOf(m) = 0 /\ Ledger' + spent' - copy'.quota >= 0
      BY <1>0, <2>6 DEF KeepsClaims
    <3>2. Ledger + spent >= y /\ (copy.present => Ledger + spent - copy.quota >= y)
      BY <2>1, <3>1
    <3>3. Ledger' + spent' >= z
      <4>1. CASE Ledger' + spent' - ClaimOf(m) >= Ledger + spent - ClaimOf(moving[c])
        BY <1>4, <1>7, <2>2, <2>3, <3>2, <4>1
      <4>2. CASE /\ copy.present
                 /\ Ledger' + spent' - ClaimOf(m) >= Ledger + spent - copy.quota - ClaimOf(moving[c])
        <5>1. Ledger + spent - copy.quota >= y
          BY <3>2, <4>2
        <5> QED BY <1>4, <1>7, <2>2, <2>3, <4>2, <5>1
      <4>3. CASE AtRest /\ ClaimOf(m) = 0 /\ Ledger' + spent' >= 0
        BY <2>5, <4>3
      <4> QED BY <3>1, <4>1, <4>2, <4>3
    <3>4. ASSUME copy'.present PROVE Ledger' + spent' - copy'.quota >= z
      <4>1. CASE /\ copy.present
                 /\ Ledger' + spent' - copy'.quota - ClaimOf(m) >=
                      Ledger + spent - copy.quota - ClaimOf(moving[c])
        <5>1. Ledger + spent - copy.quota >= y
          BY <3>2, <4>1
        <5> QED BY <1>4, <1>7, <2>2, <2>3, <4>1, <5>1
      <4>2. CASE AtRest /\ ClaimOf(m) = 0 /\ Ledger' + spent' - copy'.quota >= 0
        BY <2>5, <4>2
      <4> QED BY <3>1, <3>4, <4>1, <4>2
    <3> QED BY <3>3, <3>4
  <2> QED BY <2>4, <2>6 DEF Covered
<1> QED BY <1>9, <1>10

-----------------------------------------------------------------------------
(* QuotaCache: the invariant and the theorems.                             *)

VoucherRow == [used: BOOLEAN, locked: BOOLEAN, paid: Nat]

VoucherTypes == voucher \in [Vouchers -> VoucherRow]

\* A used voucher has paid its worth; an open order is held by one call.
VouchersPaid ==
  \A v \in Vouchers : voucher[v].paid = IF voucher[v].used THEN VoucherQuota ELSE 0

OrderHeld ==
  \A c \in QuotaCalls : moving[c].pc = "orderTx" =>
    /\ "order" \in Vouchers /\ voucher["order"].locked /\ ~voucher["order"].used
    /\ \A d \in QuotaCalls : moving[d].pc = "orderTx" => d = c

\* A call's step that leaves the vouchers alone.
LEMMA VouchersAlone ==
  ASSUME WalletInv, VouchersPaid, OrderHeld, NEW c \in QuotaCalls, UNCHANGED voucher,
         NEW m, m.pc # "orderTx", QuotaGo(c, m)
  PROVE  VouchersPaid' /\ OrderHeld'
<1>1. moving' = [moving EXCEPT ![c] = m] /\ moving \in [QuotaCalls -> Moving]
  BY DEF QuotaGo, WalletInv, QuotaTypeOK
<1>2. OrderHeld'
  BY <1>1 DEF OrderHeld
<1> QED BY <1>2 DEF VouchersPaid

\* A call that ends.
LEMMA VouchersDone ==
  ASSUME WalletInv, VouchersPaid, OrderHeld, NEW c \in QuotaCalls, UNCHANGED voucher, MoveDone(c)
  PROVE  VouchersPaid' /\ OrderHeld'
<1>1. PICK m : m = [NotMoving EXCEPT !.delta = moving[c].delta]
  OBVIOUS
<1>2. m.pc # "orderTx" /\ QuotaGo(c, m)
  BY <1>1 DEF NotMoving, MoveDone
<1> QED BY <1>2, VouchersAlone

\* A call that goes on, not into an order's transaction.
LEMMA VouchersGo ==
  ASSUME WalletInv, VouchersPaid, OrderHeld, NEW c \in QuotaCalls, UNCHANGED voucher,
         NEW pc, pc # "orderTx", GoTo(c, pc)
  PROVE  VouchersPaid' /\ OrderHeld'
<1>1. PICK m : m = [moving[c] EXCEPT !.pc = pc]
  OBVIOUS
<1>2. moving[c] \in Moving
  BY Parts DEF WalletInv
<1>3. m.pc # "orderTx" /\ QuotaGo(c, m)
  BY <1>1, <1>2 DEF GoTo, Moving
<1> QED BY <1>3, VouchersAlone

\* Opening a voucher locks an order, for one call.
LEMMA OpenVouchers ==
  ASSUME WalletInv, VouchersPaid, OrderHeld, NEW c \in QuotaCalls, OpenVoucher(c)
  PROVE  VouchersPaid' /\ OrderHeld' /\ VoucherTypes'
<1>0. /\ voucher \in [Vouchers -> VoucherRow] /\ moving \in [QuotaCalls -> Moving]
      /\ moving[c] \in Moving
  BY DEF WalletInv, QuotaTypeOK, VoucherRow
<1>1. PICK v \in Vouchers :
        /\ moving[c].pc = (IF v = "code" THEN "redeem" ELSE "order")
        /\ ~voucher[v].locked
        /\ \/ /\ ~voucher[v].used
              /\ voucher' = [voucher EXCEPT ![v].locked = v = "order"]
              /\ GoTo(c, IF v = "code" THEN "redeemTx" ELSE "orderTx")
           \/ voucher[v].used /\ MoveDone(c) /\ UNCHANGED voucher
  BY DEF OpenVoucher
<1>2. CASE MoveDone(c) /\ UNCHANGED voucher
  BY <1>0, <1>2, VouchersDone DEF VoucherTypes
<1>3. CASE /\ ~voucher[v].used
           /\ voucher' = [voucher EXCEPT ![v].locked = v = "order"]
           /\ GoTo(c, IF v = "code" THEN "redeemTx" ELSE "orderTx")
  <2>1. v \in {"code", "order"}
    BY QuotaCacheAssumption
  <2>2. PICK b \in BOOLEAN : b = (v = "order")
    OBVIOUS
  <2>3. voucher' = [voucher EXCEPT ![v] = [voucher[v] EXCEPT !.locked = b]]
    BY <1>0, <1>3, <2>2
  <2>4. PICK w : w = [voucher[v] EXCEPT !.locked = b]
    OBVIOUS
  <2>5. w \in VoucherRow /\ w.used = voucher[v].used /\ w.locked = b /\ w.paid = voucher[v].paid
    <3>1. voucher[v] \in VoucherRow
      BY <1>0
    <3>2. w \in VoucherRow /\ w.paid = voucher[v].paid
      BY <2>4, <3>1 DEF VoucherRow
    <3>3. w.used = voucher[v].used /\ w.locked = b
      BY <2>4, <3>1, Zenon DEF VoucherRow
    <3> QED BY <3>2, <3>3
  <2>6. voucher' = [voucher EXCEPT ![v] = w]
    BY <2>3, <2>4
  <2>7. VoucherTypes'
    BY <1>0, <2>5, <2>6 DEF VoucherTypes
  <2>8. /\ voucher'[v] = w /\ \A u \in Vouchers \ {v} : voucher'[u] = voucher[u]
    BY <1>0, <2>6
  <2>9. VouchersPaid'
    BY <2>5, <2>8 DEF VouchersPaid
  <2>10. PICK m : m = [moving[c] EXCEPT !.pc = IF v = "code" THEN "redeemTx" ELSE "orderTx"]
    OBVIOUS
  <2>11. m.pc = (IF v = "code" THEN "redeemTx" ELSE "orderTx") /\ QuotaGo(c, m)
    BY <1>0, <1>3, <2>10 DEF GoTo, Moving
  <2>12. moving'[c] = m /\ \A d \in QuotaCalls \ {c} : moving'[d] = moving[d]
    BY <1>0, <2>11 DEF QuotaGo
  <2>13. OrderHeld'
    <3>1. CASE v = "code"
      BY <2>8, <2>11, <2>12, <3>1 DEF OrderHeld
    <3>2. CASE v = "order"
      <4>1. \A d \in QuotaCalls : moving[d].pc # "orderTx"
        BY <1>1, <3>2 DEF OrderHeld
      <4>2. voucher'["order"].locked /\ ~voucher'["order"].used
        BY <1>3, <2>2, <2>5, <2>8, <3>2
      <4> QED BY <2>12, <3>2, <4>1, <4>2 DEF OrderHeld
    <3> QED BY <2>1, <3>1, <3>2
  <2> QED BY <2>7, <2>9, <2>13
<1> QED BY <1>1, <1>2, <1>3

\* Using a voucher pays it, and only if nobody has used it before.
LEMMA CommitVouchers ==
  ASSUME WalletInv, VouchersPaid, OrderHeld, NEW c \in QuotaCalls, CommitVoucher(c)
  PROVE  VouchersPaid' /\ OrderHeld' /\ VoucherTypes'
<1>0. /\ voucher \in [Vouchers -> VoucherRow] /\ moving \in [QuotaCalls -> Moving]
      /\ moving[c] \in Moving /\ Shape(moving[c]) /\ VoucherQuota \in Nat
  BY QuotaCacheAssumption DEF WalletInv, QuotaTypeOK, VoucherRow, Shaped
<1>1. PICK v \in Vouchers :
        /\ moving[c].pc = (IF v = "code" THEN "redeemTx" ELSE "orderTx")
        /\ \/ /\ StillUnused(v)
              /\ voucher' = [voucher EXCEPT ![v] =
                               [used |-> TRUE, locked |-> FALSE, paid |-> @.paid + moving[c].amount]]
              /\ QuotaGo(c, [NotMoving EXCEPT !.delta = moving[c].amount])
           \/ voucher' = [voucher EXCEPT ![v].locked = FALSE] /\ MoveDone(c)
  BY DEF CommitVoucher
<1>2. v \in {"code", "order"} /\ voucher[v] \in VoucherRow
  BY <1>0, QuotaCacheAssumption
<1>3. ASSUME NEW w \in VoucherRow, voucher' = [voucher EXCEPT ![v] = w],
             w.paid = IF w.used THEN VoucherQuota ELSE 0,
             NEW m, m.pc = "idle", QuotaGo(c, m)
      PROVE  VouchersPaid' /\ OrderHeld' /\ VoucherTypes'
  <2>1. voucher'[v] = w /\ \A u \in Vouchers \ {v} : voucher'[u] = voucher[u]
    BY <1>0, <1>3
  <2>2. VouchersPaid'
    BY <1>3, <2>1 DEF VouchersPaid
  <2>3. VoucherTypes'
    BY <1>0, <1>3 DEF VoucherTypes
  <2>4. moving'[c] = m /\ \A d \in QuotaCalls \ {c} : moving'[d] = moving[d]
    BY <1>0, <1>3 DEF QuotaGo
  <2>5. OrderHeld'
    <3>1. CASE v = "code"
      BY <1>3, <2>1, <2>4, <3>1 DEF OrderHeld
    <3>2. CASE v = "order"
      <4>1. \A d \in QuotaCalls \ {c} : moving[d].pc # "orderTx"
        BY <1>1, <3>2 DEF OrderHeld
      <4> QED BY <1>3, <2>4, <4>1 DEF OrderHeld
    <3> QED BY <1>2, <3>1, <3>2
  <2> QED BY <2>2, <2>3, <2>5
<1>4. CASE /\ StillUnused(v)
           /\ voucher' = [voucher EXCEPT ![v] =
                            [used |-> TRUE, locked |-> FALSE, paid |-> @.paid + moving[c].amount]]
           /\ QuotaGo(c, [NotMoving EXCEPT !.delta = moving[c].amount])
  <2>1. ~voucher[v].used
    BY <1>1, <1>2, <1>4 DEF StillUnused, OrderHeld
  <2>2. voucher[v].paid = 0 /\ moving[c].amount = VoucherQuota
    BY <1>0, <1>1, <2>1 DEF VouchersPaid, Shape
  <2>3. PICK w : w = [used |-> TRUE, locked |-> FALSE, paid |-> voucher[v].paid + moving[c].amount]
    OBVIOUS
  <2>4. /\ w \in VoucherRow /\ w.used = TRUE /\ w.paid = VoucherQuota
        /\ voucher' = [voucher EXCEPT ![v] = w]
    BY <1>0, <1>4, <2>2, <2>3 DEF VoucherRow
  <2>5. PICK m : m = [NotMoving EXCEPT !.delta = moving[c].amount]
    OBVIOUS
  <2>6. m.pc = "idle" /\ QuotaGo(c, m)
    BY <1>4, <2>5 DEF NotMoving
  <2> QED BY <1>3, <2>4, <2>6
<1>5. CASE voucher' = [voucher EXCEPT ![v].locked = FALSE] /\ MoveDone(c)
  <2>1. PICK w : w = [voucher[v] EXCEPT !.locked = FALSE]
    OBVIOUS
  <2>2. /\ w \in VoucherRow /\ w.paid = voucher[v].paid
    BY <1>2, <2>1 DEF VoucherRow
  <2>3. w.used = voucher[v].used
    BY <1>2, <2>1, Zenon DEF VoucherRow
  <2>4. voucher' = [voucher EXCEPT ![v] = w]
    BY <1>0, <1>5, <2>1
  <2>5. PICK m : m = [NotMoving EXCEPT !.delta = moving[c].delta]
    OBVIOUS
  <2>6. m.pc = "idle" /\ QuotaGo(c, m)
    BY <1>5, <2>5 DEF NotMoving, MoveDone
  <2>7. w.paid = IF w.used THEN VoucherQuota ELSE 0
    BY <2>2, <2>3 DEF VouchersPaid
  <2> QED BY <1>3, <2>2, <2>4, <2>6, <2>7
<1> QED BY <1>1, <1>4, <1>5
\* No other step touches a voucher.
LEMMA StepVouchers ==
  ASSUME WalletInv, VouchersPaid, OrderHeld, NEW c \in QuotaCalls, MoveStep(c)
  PROVE  VouchersPaid' /\ OrderHeld' /\ VoucherTypes'
<1>0. /\ VoucherTypes /\ moving[c] \in Moving /\ Shape(moving[c]) /\ moving[c].delta \in Int
  BY Parts DEF WalletInv, QuotaTypeOK, VoucherTypes, VoucherRow, Shaped
<1>1. UNCHANGED voucher => VoucherTypes'
  BY <1>0 DEF VoucherTypes
<1>2. CASE OpenVoucher(c)
  BY <1>2, OpenVouchers
<1>3. CASE CommitVoucher(c)
  BY <1>3, CommitVouchers
<1>4. CASE ReserveCopy(c)
  <2>1. UNCHANGED voucher /\ (MoveDone(c) \/ \E pc : pc # "orderTx" /\ GoTo(c, pc))
    BY <1>4 DEF ReserveCopy
  <2> QED BY <1>1, <2>1, VouchersDone, VouchersGo
<1>5. CASE Hydrate(c)
  <2>0. UNCHANGED voucher
    BY <1>5 DEF Hydrate
  <2>1. CASE GoTo(c, "fallback")
    BY <1>1, <2>0, <2>1, VouchersGo
  <2>2. CASE QuotaGo(c, [moving[c] EXCEPT !.pc = "fill", !.seen = dbQuota])
    <3>1. PICK n : n = [moving[c] EXCEPT !.pc = "fill", !.seen = dbQuota]
      OBVIOUS
    <3>2. n.pc = "fill"
      BY <1>0, <3>1 DEF Moving
    <3>3. n.pc # "orderTx" /\ QuotaGo(c, n)
      BY <2>2, <3>1, <3>2
    <3> QED BY <1>1, <2>0, <3>3, VouchersAlone
  <2> QED BY <1>5, <2>1, <2>2 DEF Hydrate
<1>6. CASE QuotaFill(c)
  <2>1. PICK n : n = [moving[c] EXCEPT !.pc = "retry", !.seen = 0]
    OBVIOUS
  <2>2. n.pc = "retry"
    BY <1>0, <2>1 DEF Moving
  <2>3. UNCHANGED voucher /\ n.pc # "orderTx" /\ QuotaGo(c, n)
    BY <1>6, <2>1, <2>2 DEF QuotaFill
  <2> QED BY <1>1, <2>3, VouchersAlone
<1>7. CASE ReserveRow(c) \/ Persist(c) \/ Compensate(c) \/ Debit(c)
  <2>1. UNCHANGED voucher /\ (MoveDone(c) \/ GoTo(c, "compensate"))
    BY <1>7 DEF ReserveRow, Persist, Compensate, Debit
  <2> QED BY <1>1, <2>1, VouchersDone, VouchersGo
<1>8. CASE Credit(c)
  <2>0. UNCHANGED voucher /\ (MoveDone(c) \/ QuotaGo(c, [NotMoving EXCEPT !.delta = moving[c].amount]))
    BY <1>8 DEF Credit
  <2>1. CASE MoveDone(c)
    BY <1>1, <2>0, <2>1, VouchersDone
  <2>2. CASE QuotaGo(c, [NotMoving EXCEPT !.delta = moving[c].amount])
    <3>1. PICK n : n = [NotMoving EXCEPT !.delta = moving[c].amount]
      OBVIOUS
    <3>2. n.pc # "orderTx" /\ QuotaGo(c, n)
      BY <2>2, <3>1 DEF NotMoving
    <3> QED BY <1>1, <2>0, <3>2, VouchersAlone
  <2> QED BY <2>0, <2>1, <2>2
<1>9. CASE ApplyDelta(c)
  <2>1. PICK n : n = [moving[c] EXCEPT !.delta = 0]
    OBVIOUS
  <2>2. n.pc = moving[c].pc
    BY <1>0, <2>1 DEF Moving
  <2>3. moving[c].pc \in {"idle", "debit"}
    BY <1>0, <1>9 DEF ApplyDelta, Shape
  <2>4. UNCHANGED voucher /\ n.pc # "orderTx" /\ QuotaGo(c, n)
    BY <1>9, <2>1, <2>2, <2>3 DEF ApplyDelta
  <2> QED BY <1>1, <2>4, VouchersAlone
<1> QED BY <1>2, <1>3, <1>4, <1>5, <1>6, <1>7, <1>8, <1>9 DEF MoveStep

\* What holds of the wallet at every moment.
AccountInv == WalletInv /\ ExactSum /\ Covered /\ VouchersPaid /\ OrderHeld

\* A call's step keeps it.
LEMMA MoveStepInv ==
  ASSUME AccountInv, NEW c \in QuotaCalls, MoveStep(c)
  PROVE  AccountInv'
<1>1. Effect(c) /\ VouchersPaid' /\ OrderHeld' /\ VoucherTypes'
  BY MoveStepEffect, StepVouchers DEF AccountInv
<1>2. /\ calls' = calls /\ (Erring \/ Smooth)
  BY DEF MoveStep, ReserveCopy, Hydrate, QuotaFill, ReserveRow, Persist, Compensate, Credit, Debit,
         ApplyDelta, OpenVoucher, CommitVoucher
<1>3. calls' \in 0..MaxCalls /\ errors' \in 0..MaxErrors
  BY <1>2, Counting DEF AccountInv, WalletInv, QuotaTypeOK
<1>4. WalletInv'
  <2>1. PICK m : Moves(c, m)
    BY <1>1 DEF Effect
  <2> QED BY <1>1, <1>3, <2>1, MovesInv DEF AccountInv, VoucherTypes, VoucherRow
<1>5. ExactSum' /\ Covered'
  BY <1>1, <1>4, EffectSums DEF AccountInv
<1> QED BY <1>1, <1>4, <1>5 DEF AccountInv

\* So does a new call.
LEMMA StartCallInv ==
  ASSUME AccountInv, NEW c \in QuotaCalls, NEW a \in Nat,
         NEW kind \in {"reserve", "credit", "debit", "redeem", "order"}, StartCall(c, kind, a)
  PROVE  AccountInv'
<1>1. Effect(c)
  BY StartCallEffect DEF AccountInv
<1>2. /\ UNCHANGED voucher /\ calls < MaxCalls /\ calls' = calls + 1 /\ Smooth
  BY DEF StartCall
<1>3. VoucherTypes' /\ voucher \in [Vouchers -> VoucherRow]
  BY <1>2 DEF AccountInv, WalletInv, QuotaTypeOK, VoucherTypes, VoucherRow
<1>4. calls' \in 0..MaxCalls /\ errors' \in 0..MaxErrors
  BY <1>2, Counting, QuotaCacheAssumption DEF AccountInv, WalletInv, QuotaTypeOK
<1>5. VouchersPaid' /\ OrderHeld'
  <2>1. PICK n : n = [NotMoving EXCEPT !.pc = kind, !.amount = a,
                                       !.delta = IF kind = "debit" THEN -a ELSE 0]
    OBVIOUS
  <2>2. n.pc = kind
    BY <2>1 DEF NotMoving
  <2>3. n.pc # "orderTx" /\ QuotaGo(c, n)
    BY <2>1, <2>2 DEF StartCall
  <2> QED BY <1>2, <2>3, VouchersAlone DEF AccountInv
<1>6. WalletInv'
  <2>1. PICK m : Moves(c, m)
    BY <1>1 DEF Effect
  <2> QED BY <1>3, <1>4, <2>1, MovesInv DEF AccountInv, VoucherTypes, VoucherRow
<1>7. ExactSum' /\ Covered'
  BY <1>1, <1>6, EffectSums DEF AccountInv
<1> QED BY <1>5, <1>6, <1>7 DEF AccountInv

\* A step beside the calls keeps it when the ledger and an exact or undoubted
\* copy stay what they are.
LEMMA AsideInv ==
  ASSUME AccountInv, UNCHANGED <<moving, voucher, batch, spent, owed, calls>>,
         dbQuota' \in Int, store' \in Int, flushing' \in Int, lost' \in Int, copy' \in Copy,
         doubtful' \in BOOLEAN, errors' \in 0..MaxErrors, owed = Ledger' + lost',
         copy'.present /\ copy'.exact =>
           copy.present /\ copy.exact /\ copy'.quota = copy.quota /\ Ledger' = Ledger,
         ~doubtful' => /\ ~doubtful /\ Ledger' = Ledger
                       /\ copy'.present => copy.present /\ copy'.quota = copy.quota
  PROVE  AccountInv'
<1>1. WalletInv'
  BY DEF AccountInv, WalletInv, QuotaTypeOK, Shaped, Conserved
<1>2. Dues' = Dues /\ Claims' = Claims /\ spent' = spent
  BY DEF Dues, Claims
<1>3. VouchersPaid' /\ OrderHeld'
  BY DEF AccountInv, VouchersPaid, OrderHeld
<1>4. ExactSum'
  BY <1>2 DEF AccountInv, ExactSum
<1>5. Covered'
  <2>1. PICK y : /\ IsSum(y, Claims, QuotaCalls, 0)
                 /\ ~doubtful => /\ Ledger + spent >= y
                                 /\ copy.present => Ledger + spent - copy.quota >= y
    BY DEF AccountInv, Covered
  <2>2. IsSum(y, Claims', QuotaCalls, 0)
    BY <1>2, <2>1
  <2>3. ~doubtful' => /\ Ledger' + spent' >= y
                      /\ copy'.present => Ledger' + spent' - copy'.quota >= y
    BY <1>2, <2>1
  <2> QED BY <2>2, <2>3 DEF Covered
<1> QED BY <1>1, <1>3, <1>4, <1>5 DEF AccountInv

\* An error on the copy leaves none that counts as exact.
LEMMA Spoiling ==
  ASSUME copy \in Copy, doubtful \in BOOLEAN, NEW n \in Int, Spoil(n)
  PROVE  /\ copy' \in Copy /\ copy'.present = copy.present /\ copy'.quota = copy.quota
         /\ ~(copy'.present /\ copy'.exact)
         /\ doubtful' \in BOOLEAN /\ (~doubtful' => ~doubtful /\ ~copy'.present /\ n = 0)
<1>0. PICK e \in BOOLEAN : e = ~copy.present
  OBVIOUS
<1>1. copy' = [copy EXCEPT !.exact = e] /\ doubtful' = (doubtful \/ copy.present \/ n # 0)
  BY <1>0 DEF Spoil
<1>2. copy' \in Copy /\ copy'.quota = copy.quota
  BY <1>1 DEF Copy
<1>3. copy'.present = copy.present /\ copy'.exact = e
  BY <1>1, Zenon DEF Copy
<1> QED BY <1>0, <1>1, <1>2, <1>3

\* The batch updater, and expiry.
LEMMA FlushInv ==
  ASSUME AccountInv, FlushTake \/ FlushApply \/ ExpireCopy \/ UNCHANGED quotaVars
  PROVE  AccountInv'
<1>0. /\ dbQuota \in Int /\ store \in Int /\ flushing \in Int /\ lost \in Int /\ copy \in Copy
      /\ doubtful \in BOOLEAN /\ errors \in 0..MaxErrors /\ owed = Ledger + lost /\ Ledger \in Int
  BY DEF AccountInv, WalletInv, QuotaTypeOK, Conserved, Ledger
<1>1. CASE FlushTake
  <2>1. /\ UNCHANGED <<moving, voucher, batch, spent, owed, calls, dbQuota, lost, copy, doubtful, errors>>
        /\ store' = 0 /\ flushing' = store /\ flushing = 0
    BY <1>1 DEF FlushTake, Smooth
  <2>2. Ledger' = Ledger
    BY <1>0, <2>1 DEF Ledger
  <2> QED BY <1>0, <2>1, <2>2, AsideInv
<1>2. CASE ExpireCopy
  <2>1. /\ UNCHANGED <<moving, voucher, batch, spent, owed, calls, dbQuota, store, flushing, lost, doubtful, errors>>
        /\ copy' = NoCopy
    BY <1>2 DEF ExpireCopy, Smooth
  <2>2. copy' \in Copy /\ ~copy'.present
    BY <2>1 DEF NoCopy, Copy
  <2>3. Ledger' = Ledger
    BY <2>1 DEF Ledger
  <2> QED BY <1>0, <2>1, <2>2, <2>3, AsideInv
<1>3. CASE FlushApply
  <2>1. /\ UNCHANGED <<moving, voucher, batch, spent, owed, calls, store>>
        /\ flushing # 0 /\ flushing' = 0
    BY <1>3 DEF FlushApply
  <2>2. CASE dbQuota' = dbQuota + flushing /\ Smooth /\ UNCHANGED <<lost, copy, doubtful>>
    <3>1. Ledger' = Ledger /\ errors' = errors
      BY <1>0, <2>1, <2>2 DEF Ledger, Smooth
    <3> QED BY <1>0, <2>1, <2>2, <3>1, AsideInv
  <2>3. CASE Erring /\ lost' = lost + flushing /\ Spoil(flushing) /\ UNCHANGED dbQuota
    <3>1. errors' \in 0..MaxErrors
      BY <1>0, <2>3, Counting
    <3>2. /\ copy' \in Copy /\ ~(copy'.present /\ copy'.exact) /\ doubtful' \in BOOLEAN /\ doubtful'
      BY <1>0, <2>1, <2>3, Spoiling
    <3>3. owed = Ledger' + lost' /\ lost' \in Int
      BY <1>0, <2>1, <2>3 DEF Ledger
    <3> QED BY <1>0, <2>1, <2>3, <3>1, <3>2, <3>3, AsideInv
  <2> QED BY <1>3, <2>2, <2>3 DEF FlushApply
<1>4. CASE UNCHANGED quotaVars
  <2>1. UNCHANGED <<moving, voucher, batch, spent, owed, calls, dbQuota, store, flushing, lost, copy, doubtful, errors>>
    BY <1>4 DEF quotaVars
  <2>2. Ledger' = Ledger
    BY <2>1 DEF Ledger
  <2> QED BY <1>0, <2>1, <2>2, AsideInv
<1> QED BY <1>1, <1>2, <1>3, <1>4

\* Calls that do nothing owe and claim nothing.
LEMMA IdleSums ==
  /\ DueOf(NotMoving) = 0 /\ ClaimOf(NotMoving) = 0 /\ Shape(NotMoving) /\ NotMoving \in Moving
  /\ NotMoving.pc = "idle"
<1>1. /\ NotMoving \in Moving /\ NotMoving.pc = "idle" /\ NotMoving.amount = 0 /\ NotMoving.delta = 0
  BY DEF NotMoving, Moving, MovingPC
<1>2. Shape(NotMoving) /\ DueOf(NotMoving) = 0 /\ ClaimOf(NotMoving) = 0
  BY <1>1, OwesNothing
<1> QED BY <1>1, <1>2

\* A crash: no call is left, the store is gone, and the orders are unlocked.
LEMMA CrashInv ==
  ASSUME AccountInv, NodeCrash
  PROVE  AccountInv'
<1>0. /\ dbQuota \in Int /\ store \in Int /\ flushing \in Int /\ lost \in Int /\ copy \in Copy
      /\ doubtful \in BOOLEAN /\ errors \in 0..MaxErrors /\ owed = Ledger + lost /\ Ledger \in Int
      /\ spent \in Nat /\ owed \in Int /\ voucher \in [Vouchers -> VoucherRow]
      /\ IsFiniteSet(QuotaCalls) /\ batch \in BOOLEAN /\ calls \in 0..MaxCalls
  BY QuotaCacheAssumption DEF AccountInv, WalletInv, QuotaTypeOK, Conserved, Ledger, VoucherRow
<1>1. /\ UNCHANGED <<batch, dbQuota, owed, spent, calls>> /\ store' = 0 /\ flushing' = 0
      /\ lost' = lost + store + flushing /\ Erring /\ Spoil(store + flushing)
      /\ moving' = [c \in QuotaCalls |-> NotMoving]
      /\ voucher' = [v \in Vouchers |-> [voucher[v] EXCEPT !.locked = FALSE]]
  BY DEF NodeCrash
<1>2. /\ copy' \in Copy /\ ~(copy'.present /\ copy'.exact) /\ doubtful' \in BOOLEAN
      /\ ~doubtful' => ~doubtful /\ ~copy'.present /\ store + flushing = 0
  <2>1. store + flushing \in Int
    BY <1>0
  <2> QED BY <1>0, <1>1, <2>1, Spoiling
<1>3. errors' \in 0..MaxErrors
  BY <1>0, <1>1, Counting
<1>4. lost' \in Int /\ Ledger' = dbQuota /\ owed' = Ledger' + lost'
  BY <1>0, <1>1 DEF Ledger
<1>5. /\ moving' \in [QuotaCalls -> Moving] /\ Shaped'
      /\ \A c \in QuotaCalls : moving'[c].pc # "orderTx"
  BY <1>1, IdleSums DEF Shaped
<1>6. ASSUME NEW v \in Vouchers
      PROVE  /\ voucher'[v] \in VoucherRow /\ voucher'[v].used = voucher[v].used
             /\ voucher'[v].paid = voucher[v].paid
  <2>1. voucher'[v] = [voucher[v] EXCEPT !.locked = FALSE] /\ voucher[v] \in VoucherRow
    BY <1>0, <1>1
  <2>2. voucher'[v] \in VoucherRow /\ voucher'[v].paid = voucher[v].paid
    BY <2>1 DEF VoucherRow
  <2>3. voucher'[v].used = voucher[v].used
    BY <2>1, Zenon DEF VoucherRow
  <2> QED BY <2>2, <2>3
<1>7. voucher' \in [Vouchers -> VoucherRow]
  <2>1. voucher' = [v \in Vouchers |-> voucher'[v]]
    BY <1>1
  <2> QED BY <1>6, <2>1
<1>8. WalletInv'
  BY <1>0, <1>1, <1>2, <1>3, <1>4, <1>5, <1>7 DEF WalletInv, QuotaTypeOK, Conserved, VoucherRow
<1>9. VouchersPaid' /\ OrderHeld'
  BY <1>5, <1>6 DEF AccountInv, VouchersPaid, OrderHeld
<1>10. ExactSum'
  BY <1>2 DEF ExactSum
<1>11. Covered'
  <2>1. PICK y : /\ IsSum(y, Claims, QuotaCalls, 0)
                 /\ ~doubtful => Ledger + spent >= y
    BY DEF AccountInv, Covered
  <2>2. y \in Int /\ y >= 0
    BY <2>1, ClaimsSum DEF AccountInv, WalletInv
  <2>3. Claims' = [c \in QuotaCalls |-> 0]
    BY <1>1, IdleSums DEF Claims
  <2>4. IsSum(0, Claims', QuotaCalls, 0)
    BY <1>0, <2>3, SumInit
  <2>5. ASSUME ~doubtful' PROVE Ledger' + spent' >= 0 /\ ~copy'.present
    <3>1. ~copy'.present /\ store + flushing = 0 /\ Ledger + spent >= y
      BY <1>2, <2>1, <2>5
    <3>2. Ledger = dbQuota
      BY <1>0, <3>1 DEF Ledger
    <3> QED BY <1>0, <1>1, <1>4, <2>2, <3>1, <3>2
  <2> QED BY <2>4, <2>5 DEF Covered
<1> QED BY <1>8, <1>9, <1>10, <1>11 DEF AccountInv

\* The wallet starts so.
LEMMA StartInv ==
  ASSUME QuotaInit
  PROVE  AccountInv
<1>0. /\ batch \in BOOLEAN /\ IsFiniteSet(QuotaCalls) /\ InitialQuota \in Nat
      /\ MaxCalls \in Nat /\ MaxErrors \in Nat /\ VoucherQuota \in Nat
  BY QuotaCacheAssumption DEF QuotaInit
<1>1. /\ dbQuota = InitialQuota /\ store = 0 /\ flushing = 0 /\ copy = NoCopy
      /\ moving = [c \in QuotaCalls |-> NotMoving]
      /\ voucher = [v \in Vouchers |-> [used |-> FALSE, locked |-> FALSE, paid |-> 0]]
      /\ owed = InitialQuota /\ spent = 0 /\ lost = 0 /\ doubtful = FALSE
      /\ calls = 0 /\ errors = 0
  BY DEF QuotaInit
<1>2. Ledger = InitialQuota /\ Conserved
  BY <1>0, <1>1 DEF Ledger, Conserved
<1>3. copy \in Copy /\ ~copy.present
  BY <1>1 DEF NoCopy, Copy
<1>4. moving \in [QuotaCalls -> Moving] /\ Shaped /\ OrderHeld
  BY <1>1, IdleSums DEF Shaped, OrderHeld
<1>5. voucher \in [Vouchers -> [used: BOOLEAN, locked: BOOLEAN, paid: Nat]] /\ VouchersPaid
  BY <1>1 DEF VouchersPaid
<1>6. WalletInv
  <2>1. /\ dbQuota \in Int /\ store \in Int /\ flushing \in Int /\ owed \in Int /\ spent \in Nat
        /\ lost \in Int /\ calls \in 0..MaxCalls /\ errors \in 0..MaxErrors
    BY <1>0, <1>1
  <2>2. doubtful \in BOOLEAN
    BY <1>1
  <2> QED BY <1>0, <1>2, <1>3, <1>4, <1>5, <2>1, <2>2 DEF WalletInv, QuotaTypeOK
<1>7. Claims = [c \in QuotaCalls |-> 0]
  BY <1>1, IdleSums DEF Claims
<1>8. IsSum(0, Claims, QuotaCalls, 0)
  BY <1>0, <1>7, SumInit
<1>9. Covered
  BY <1>0, <1>1, <1>2, <1>3, <1>8 DEF Covered
<1> QED BY <1>3, <1>4, <1>5, <1>6, <1>9 DEF AccountInv, ExactSum

\* Every step keeps it.
LEMMA NextInv ==
  ASSUME AccountInv, [QuotaNext]_quotaVars
  PROVE  AccountInv'
<1>1. ASSUME NEW c \in QuotaCalls, NEW a \in Amounts \cup {VoucherQuota},
             NEW kind \in {"reserve", "credit", "debit"} \cup
                          (IF "code" \in Vouchers THEN {"redeem"} ELSE {}) \cup
                          (IF "order" \in Vouchers THEN {"order"} ELSE {}),
             StartCall(c, kind, a)
      PROVE  AccountInv'
  <2>1. a \in Nat /\ kind \in {"reserve", "credit", "debit", "redeem", "order"}
    BY QuotaCacheAssumption
  <2> QED BY <1>1, <2>1, StartCallInv
<1>2. ASSUME NEW c \in QuotaCalls, MoveStep(c) PROVE AccountInv'
  BY <1>2, MoveStepInv
<1>3. ASSUME FlushTake \/ FlushApply \/ ExpireCopy \/ UNCHANGED quotaVars PROVE AccountInv'
  BY <1>3, FlushInv
<1>4. ASSUME NodeCrash PROVE AccountInv'
  BY <1>4, CrashInv
<1> QED BY <1>1, <1>2, <1>3, <1>4 DEF QuotaNext

\* The dues, added up the way Expected adds them, are the sum.
LEMMA DuesAdd ==
  ASSUME QuotaTypeOK
  PROVE  IsSum(MapThenSumSet(Due, QuotaCalls), Dues, QuotaCalls, 0)
<1> DEFINE S == QuotaCalls
           F(i) == i = [s \in SUBSET S |->
                          IF s = {} THEN 0
                          ELSE Due(CHOOSE x \in s : TRUE) + i[s \ {CHOOSE x \in s : TRUE}]]
           it == CHOOSE i : F(i)
<1>1. MapThenSumSet(Due, S) = it[S]
  BY DEF MapThenSumSet, MapThenFoldSet
<1>2. Weights(Dues, S) /\ IsFiniteSet(S)
  BY SumsAreTyped, QuotaCacheAssumption DEF SumsTyped
<1>3. ASSUME NEW i PROVE SumFold(i, Dues, S) <=> F(i)
  <2>1. ASSUME NEW s \in SUBSET S, s # {}
        PROVE  Dues[CHOOSE x \in s : TRUE] = Due(CHOOSE x \in s : TRUE)
    <3>1. PICK x \in s : x = CHOOSE z \in s : TRUE
      BY <2>1
    <3>2. Dues[x] = Due(x)
      BY DEF Dues, Due, DueOf
    <3> QED BY <3>1, <3>2
  <2>2. [s \in SUBSET S |->
           IF s = {} THEN 0 ELSE Dues[CHOOSE x \in s : TRUE] + i[s \ {CHOOSE x \in s : TRUE}]]
        = [s \in SUBSET S |->
             IF s = {} THEN 0
             ELSE Due(CHOOSE x \in s : TRUE) + i[s \ {CHOOSE x \in s : TRUE}]]
    BY <2>1
  <2> QED BY <2>2 DEF SumFold
<1>4. \E i : F(i)
  <2>1. PICK i : SumFold(i, Dues, S)
    BY <1>2, FoldExists
  <2>2. F(i)
    BY <1>3, <2>1
  <2> QED BY <2>2
<1>5. F(it)
  BY <1>4
<1>6. SumFold(it, Dues, S)
  BY <1>3, <1>5
<1> HIDE DEF it
<1>7. IsSum(it[S], Dues, S, 0)
  BY <1>2, <1>6, FoldIsSum
<1> QED BY <1>1, <1>7

\* An exact copy says what Expected says.
LEMMA ExactCopy == AccountInv => CopyExact
<1> SUFFICES ASSUME AccountInv, copy.present, copy.exact PROVE copy.quota = Expected
  BY DEF CopyExact
<1>1. QuotaTypeOK /\ IsSum(copy.quota - Ledger, Dues, QuotaCalls, 0)
  BY DEF AccountInv, WalletInv, ExactSum
<1>2. Weights(Dues, QuotaCalls) /\ IsFiniteSet(QuotaCalls)
  BY <1>1, SumsAreTyped, QuotaCacheAssumption DEF SumsTyped
<1>3. PICK y : y = MapThenSumSet(Due, QuotaCalls) /\ IsSum(y, Dues, QuotaCalls, 0)
  BY <1>1, DuesAdd
<1>4. y = copy.quota - Ledger
  BY <1>1, <1>2, <1>3, SumUnique
<1>5. copy.quota \in Int /\ Ledger \in Int
  BY <1>1 DEF QuotaTypeOK, Copy, Ledger
<1>6. copy.quota = Ledger + y
  BY <1>4, <1>5
<1> QED BY <1>3, <1>6 DEF Expected

\* Undoubted, the ledger covers what the settlements have not overdrawn.
LEMMA CoveredLedger == AccountInv => NoOverdraft
<1> SUFFICES ASSUME AccountInv, ~doubtful PROVE Ledger + spent >= 0
  BY DEF NoOverdraft
<1>1. PICK y : IsSum(y, Claims, QuotaCalls, 0) /\ Ledger + spent >= y
  BY DEF AccountInv, Covered
<1>2. y \in Int /\ y >= 0 /\ Ledger \in Int /\ spent \in Nat
  BY <1>1, ClaimsSum DEF AccountInv, WalletInv, QuotaTypeOK, Ledger
<1> QED BY <1>1, <1>2

\* Each voucher has paid its worth or nothing.
LEMMA PaidVouchers == AccountInv => PaidOnce
<1>1. VoucherQuota \in Nat
  BY QuotaCacheAssumption, Zenon
<1>2. ASSUME VouchersPaid PROVE PaidOnce
  BY <1>1, <1>2 DEF VouchersPaid, PaidOnce
<1> QED BY <1>2, Zenon DEF AccountInv

\* The invariant holds throughout.
LEMMA AccountAlways == QuotaSpec => []AccountInv
<1>1. QuotaInit => AccountInv
  BY StartInv
<1>2. AccountInv /\ [QuotaNext]_quotaVars => AccountInv'
  BY NextInv
<1> QED BY <1>1, <1>2, PTL DEF QuotaSpec

\* Conserved: however calls, flushes, errors and crashes interleave, the row, the
\* store and a running flush of the batch updater hold what the callers were
\* told, less what failed flushes and crashes have lost and what was debited
\* although the caller was told that it was not.
THEOREM LedgerConserved == QuotaSpec => []Conserved
<1>1. AccountInv => Conserved
  BY DEF AccountInv, WalletInv
<1> QED BY <1>1, AccountAlways, PTL

\* CopyExact: a Redis copy that was filled at rest stays the ledger plus what
\* the calls under way have still to do, for any number of calls.
THEOREM CopyStaysExact == QuotaSpec => []CopyExact
BY ExactCopy, AccountAlways, PTL

\* NoOverdraft: reservations spend no more than the balance, unless a copy was
\* wrong, a fallback overtook a change or a flush was lost.
THEOREM NothingOverdrawn == QuotaSpec => []NoOverdraft
BY CoveredLedger, AccountAlways, PTL

\* PaidOnce: a redemption code or an order is paid at most once, however many
\* calls present it and whether or not the node crashes among them.
THEOREM VoucherPaidOnce == QuotaSpec => []PaidOnce
BY PaidVouchers, AccountAlways, PTL

-----------------------------------------------------------------------------
(* UserGroupCache: a stale group is repaired.                              *)

\* The refresh x will still repair the group h of the hash: it writes again,
\* or compares the row with what it wrote and finds the difference.
Repairs(x, h) == x.pc \in {"read", "write", "last"} \/ (x.pc = "verify" /\ x.seen = h)

\* While a refresh's group is stale some refresh is under way that repairs it.
StaleIsRepaired ==
  ~cutShort /\ cached.by = "refresh" /\ cached.group # group
  => \E c \in GroupCalls : Repairs(refresh[c], cached.group)

GroupInv == GroupTypeOK /\ StaleIsRepaired

\* The transaction that changes the group begins a refresh.
LEMMA GrantInv ==
  ASSUME GroupInv, NEW c \in GroupCalls, NEW g \in Groups, Grant(c, g)
  PROVE  GroupInv'
<1>1. PICK x : x = [refresh[c] EXCEPT !.pc = "read"]
  OBVIOUS
<1>2. x \in GroupRefresh /\ x.pc = "read"
  BY <1>1 DEF GroupInv, GroupTypeOK, GroupRefresh
<1>3. refresh' = [refresh EXCEPT ![c] = x]
  BY <1>1 DEF Grant
<1>4. refresh' \in [GroupCalls -> GroupRefresh] /\ refresh'[c] = x
  BY <1>2, <1>3 DEF GroupInv, GroupTypeOK
<1>5. GroupTypeOK'
  BY <1>4, UserGroupCacheAssumption DEF GroupInv, GroupTypeOK, Grant, GroupFine
<1>6. StaleIsRepaired'
  BY <1>2, <1>4 DEF StaleIsRepaired, Repairs
<1> QED BY <1>5, <1>6 DEF GroupInv

\* A step of a refresh that writes nothing and still repairs what it repaired.
LEMMA RefreshGoesOn ==
  ASSUME GroupInv, NEW c \in GroupCalls, NEW x \in GroupRefresh,
         refresh' = [refresh EXCEPT ![c] = x],
         Repairs(refresh[c], cached.group) =>
           Repairs(x, cached.group) \/ cached.group = group,
         UNCHANGED <<group, cached, filling, grants, groupErrors, cutShort>>
  PROVE  GroupInv'
<1>1. /\ refresh' \in [GroupCalls -> GroupRefresh] /\ refresh'[c] = x
      /\ \A d \in GroupCalls : d # c => refresh'[d] = refresh[d]
  BY DEF GroupInv, GroupTypeOK
<1>2. GroupTypeOK'
  BY <1>1 DEF GroupInv, GroupTypeOK
<1>3. StaleIsRepaired'
  BY <1>1 DEF GroupInv, StaleIsRepaired
<1> QED BY <1>2, <1>3 DEF GroupInv

\* The row is read.
LEMMA GroupReadInv ==
  ASSUME GroupInv, NEW c \in GroupCalls, GroupRead(c)
  PROVE  GroupInv'
<1>1. PICK x : x = [refresh[c] EXCEPT !.pc = "write", !.seen = group]
  OBVIOUS
<1>2. x \in GroupRefresh /\ x.pc = "write"
  <2>1. refresh[c] \in GroupRefresh /\ group \in Groups \cup {"none"}
    BY DEF GroupInv, GroupTypeOK
  <2> QED BY <1>1, <2>1 DEF GroupRefresh
<1>3. refresh' = [refresh EXCEPT ![c] = x]
  BY <1>1 DEF GroupRead
<1>4. UNCHANGED <<group, cached, filling, grants, groupErrors, cutShort>>
  BY DEF GroupRead, GroupFine
<1>5. Repairs(x, cached.group)
  BY <1>2 DEF Repairs
<1> QED BY <1>2, <1>3, <1>4, <1>5, RefreshGoesOn

\* What a refresh writes.
LEMMA WriteGroupOK ==
  ASSUME GroupTypeOK, NEW g \in Groups \cup {"none"}, WriteGroup(g)
  PROVE  /\ cached' \in [group: Groups \cup {"none"}, by: {"nobody", "refresh", "fill"}]
         /\ cached'.by = "refresh" => cached'.group = g
<1>1. CASE cached = NoHash
  BY <1>1 DEF WriteGroup, NoHash
<1>2. CASE cached # NoHash
  BY <1>2 DEF WriteGroup
<1> QED BY <1>1, <1>2

\* A refresh that has written a stale group verifies it.
LEMMA GroupWriteInv ==
  ASSUME GroupInv, NEW c \in GroupCalls, GroupWrite(c)
  PROVE  GroupInv'
<1>1. PICK x : x = [refresh[c] EXCEPT !.pc = "verify"]
  OBVIOUS
<1>2. refresh[c] \in GroupRefresh /\ refresh[c].seen \in Groups \cup {"none"}
  BY DEF GroupInv, GroupTypeOK, GroupRefresh
<1>3. x \in GroupRefresh /\ x.pc = "verify" /\ x.seen = refresh[c].seen
  BY <1>1, <1>2 DEF GroupRefresh
<1>4. refresh' = [refresh EXCEPT ![c] = x]
  BY <1>1 DEF GroupWrite
<1>5. refresh' \in [GroupCalls -> GroupRefresh] /\ refresh'[c] = x
  BY <1>3, <1>4 DEF GroupInv, GroupTypeOK
<1>6. /\ cached' \in [group: Groups \cup {"none"}, by: {"nobody", "refresh", "fill"}]
      /\ cached'.by = "refresh" => cached'.group = refresh[c].seen
  BY <1>2, WriteGroupOK DEF GroupWrite, GroupInv
<1>7. GroupTypeOK'
  BY <1>5, <1>6 DEF GroupInv, GroupTypeOK, GroupWrite, GroupFine
<1>8. StaleIsRepaired'
  BY <1>3, <1>5, <1>6 DEF StaleIsRepaired, Repairs
<1> QED BY <1>7, <1>8 DEF GroupInv

\* A refresh ends only when the row still has what it wrote.
LEMMA GroupVerifyInv ==
  ASSUME GroupInv, NEW c \in GroupCalls, GroupVerify(c)
  PROVE  GroupInv'
<1>1. PICK y : y = refresh[c]
  OBVIOUS
<1>2. y \in GroupRefresh /\ y.round \in 0..2 /\ y.pc = "verify" /\ group \in Groups
  BY <1>1 DEF GroupInv, GroupTypeOK, GroupRefresh, GroupVerify
<1>3. UNCHANGED <<group, cached, filling, grants, groupErrors, cutShort>>
  BY DEF GroupVerify, GroupFine
<1>4. CASE group = y.seen
  <2>1. refresh' = [refresh EXCEPT ![c] = NoRefresh]
    BY <1>1, <1>4 DEF GroupVerify, Agrees
  <2>2. NoRefresh \in GroupRefresh
    BY DEF NoRefresh, GroupRefresh
  <2>3. Repairs(refresh[c], cached.group) => cached.group = group
    BY <1>1, <1>2, <1>4 DEF Repairs
  <2> QED BY <1>3, <2>1, <2>2, <2>3, RefreshGoesOn
<1>5. CASE group # y.seen /\ y.round < 2
  <2>1. PICK x : x = [pc |-> "write", seen |-> group, round |-> y.round + 1]
    OBVIOUS
  <2>2. refresh' = [refresh EXCEPT ![c] = x]
    BY <1>1, <1>5, <2>1 DEF GroupVerify, Agrees
  <2>3. y.round + 1 \in 0..2
    BY <1>2, <1>5
  <2>4. x \in GroupRefresh
    BY <1>2, <2>1, <2>3 DEF GroupRefresh
  <2>5. Repairs(x, cached.group)
    BY <2>1 DEF Repairs
  <2> QED BY <1>3, <2>2, <2>4, <2>5, RefreshGoesOn
<1>6. CASE group # y.seen /\ ~(y.round < 2)
  <2>1. PICK x : x = [y EXCEPT !.pc = "last", !.seen = group]
    OBVIOUS
  <2>2. refresh' = [refresh EXCEPT ![c] = x]
    BY <1>1, <1>6, <2>1 DEF GroupVerify, Agrees
  <2>3. x \in GroupRefresh /\ x.pc = "last"
    BY <1>2, <2>1 DEF GroupRefresh
  <2>4. Repairs(x, cached.group)
    BY <2>3 DEF Repairs
  <2> QED BY <1>3, <2>2, <2>3, <2>4, RefreshGoesOn
<1> QED BY <1>4, <1>5, <1>6

\* The group that the last refresh wrote is the row's when no refresh is under
\* way and none ended early, whatever refreshes, changes and fills came in
\* between.
THEOREM GroupStaysRepaired == GroupSpec => []GroupRepaired
<1>1. GroupInit => GroupInv
  <2> SUFFICES ASSUME GroupInit PROVE GroupInv
    OBVIOUS
  <2>1. NoRefresh \in GroupRefresh
    BY DEF NoRefresh, GroupRefresh
  <2>2. GroupTypeOK
    <3>1. cutShort \in BOOLEAN
      BY DEF GroupInit
    <3>2. cached \in [group: Groups \cup {"none"}, by: {"nobody", "refresh", "fill"}]
      BY DEF GroupInit, NoHash
    <3>3. grants \in 0..MaxGrants /\ groupErrors \in 0..MaxGroupErrors
      BY UserGroupCacheAssumption DEF GroupInit
    <3> QED BY <2>1, <3>1, <3>2, <3>3 DEF GroupInit, GroupTypeOK
  <2>3. StaleIsRepaired
    BY DEF GroupInit, NoHash, StaleIsRepaired
  <2> QED BY <2>2, <2>3 DEF GroupInv
<1>2. GroupInv /\ [GroupNext]_groupVars => GroupInv'
  <2> SUFFICES ASSUME GroupInv, [GroupNext]_groupVars PROVE GroupInv'
    OBVIOUS
  <2>0. NoRefresh \in GroupRefresh
    BY DEF NoRefresh, GroupRefresh
  <2>1. ASSUME NEW c \in GroupCalls, GroupLast(c) PROVE GroupInv'
    <3>1. refresh[c].seen \in Groups \cup {"none"}
      BY DEF GroupInv, GroupTypeOK, GroupRefresh
    <3>2. cached' \in [group: Groups \cup {"none"}, by: {"nobody", "refresh", "fill"}]
      BY <2>1, <3>1, WriteGroupOK DEF GroupLast, GroupInv
    <3>3. GroupTypeOK'
      BY <2>0, <2>1, <3>2 DEF GroupInv, GroupTypeOK, GroupLast
    <3> QED BY <2>1, <3>3 DEF GroupInv, StaleIsRepaired, GroupLast
  <2>2. ASSUME NEW c \in GroupCalls, CutShort(c) PROVE GroupInv'
    <3>1. GroupTypeOK'
      BY <2>0, <2>2, UserGroupCacheAssumption DEF GroupInv, GroupTypeOK, CutShort
    <3> QED BY <2>2, <3>1 DEF GroupInv, StaleIsRepaired, CutShort
  <2>3. ASSUME NEW f \in GroupFills, FillRead(f) PROVE GroupInv'
    BY <2>3 DEF GroupInv, GroupTypeOK, StaleIsRepaired, FillRead, GroupFine
  <2>4. ASSUME NEW f \in GroupFills, FillWrite(f) PROVE GroupInv'
    <3>1. cached' = [group |-> filling[f], by |-> "fill"] /\ filling[f] \in Groups \cup {"none"}
      BY <2>4 DEF GroupInv, GroupTypeOK, FillWrite
    <3>2. GroupTypeOK'
      BY <2>4, <3>1 DEF GroupInv, GroupTypeOK, FillWrite, GroupFine
    <3> QED BY <3>1, <3>2 DEF GroupInv, StaleIsRepaired
  <2>5. CASE DropHash
    BY <2>5 DEF GroupInv, GroupTypeOK, StaleIsRepaired, DropHash, GroupFine, NoHash
  <2>6. CASE UNCHANGED groupVars
    BY <2>6 DEF groupVars, GroupInv, GroupTypeOK, StaleIsRepaired
  <2> QED BY <2>1, <2>2, <2>3, <2>4, <2>5, <2>6, GrantInv, GroupReadInv, GroupWriteInv,
             GroupVerifyInv DEF GroupNext
<1>3. GroupInv => GroupRepaired
  <2> SUFFICES ASSUME GroupInv, \A c \in GroupCalls : refresh[c].pc = "idle", ~cutShort,
                      cached.by = "refresh"
               PROVE  cached.group = group
    BY DEF GroupRepaired
  <2>1. \A c \in GroupCalls : ~Repairs(refresh[c], cached.group)
    BY DEF Repairs
  <2> QED BY <2>1 DEF GroupInv, StaleIsRepaired
<1> QED BY <1>1, <1>2, <1>3, PTL DEF GroupSpec

-----------------------------------------------------------------------------
(* LoginVerification: a challenge and a backup code are used once, and the *)
(* lock comes in time.                                                     *)

LoginOnce ==
  /\ userVersion \in Nat
  /\ flow \in [Flows -> Flow]
  /\ \A f \in Flows : flow[f].sessions = IF flow[f].consumed THEN 1 ELSE 0
  /\ spare \subseteq BackupCodes
  /\ accepted \in [BackupCodes -> Nat]
  /\ \A c \in BackupCodes : accepted[c] <= 1 /\ (c \in spare => accepted[c] = 0)

\* A submission as far as the failures depend on it.
TrialShape == [pc: {"idle", "load", "check", "spend", "count", "countWrite", "reset", "complete"},
               flow: Flows \cup {NoTrial.flow}, code: BackupCodes \cup {"right", "wrong"},
               seen: Nat, tries: Nat]

TrialOK(x) ==
  /\ x \in TrialShape
  /\ x.pc \in {"load", "check", "spend"} => x.tries = 0

\* A wrong code that was compared and will be counted, where n is the number of
\* failures in the row: each time its count was overtaken the number had grown,
\* so the tries do not run out before the lock.
ToCount(x, n) ==
  \/ x.pc = "count" /\ (n < MaxFailAttempts => x.tries <= n)
  \/ /\ x.pc = "countWrite"
     /\ IF n < MaxFailAttempts THEN x.tries <= x.seen /\ x.seen <= n ELSE x.seen = n

Pending(tr, n) == {t \in Trials : ToCount(tr[t], n)}

\* A code that may still be compared although the row is locked.
Comparing(tr) == {t \in Trials : tr[t].pc \in {"check", "spend"}}

Least(a, b) == IF a <= b THEN a ELSE b

\* Before the lock every compared wrong code was counted or will be; under the
\* lock only those already past the check of the lock add to them.
Compared(fa, tr, k, errs) ==
  IF fa.enabled /\ fa.lock = 0
  THEN k <= Least(fa.failed, MaxFailAttempts - 1) + Cardinality(Pending(tr, fa.failed)) + errs
  ELSE k + Cardinality(Comparing(tr)) <= MaxFailAttempts - 1 + Cardinality(Trials) + errs

TrialsOK(tr) ==
  /\ tr = [t \in Trials |-> tr[t]]
  /\ \A t \in Trials : TrialOK(tr[t])

RowOK(fa) == fa \in [enabled: BOOLEAN, failed: Nat, lock: Nat]

LoginInv ==
  /\ TrialsOK(trial)
  /\ RowOK(factor)
  /\ tested \in Nat /\ loginErrors \in Nat
  /\ Compared(factor, trial, tested, loginErrors)

FlowOK(x) == x \in Flow /\ x.sessions = IF x.consumed THEN 1 ELSE 0

\* One challenge changes.
LEMMA FlowSet ==
  ASSUME LoginOnce, NEW f \in Flows, NEW x, FlowOK(x),
         flow' = [flow EXCEPT ![f] = x], UNCHANGED <<userVersion, spare, accepted>>
  PROVE  LoginOnce'
<1>1. flow' \in [Flows -> Flow] /\ \A g \in Flows : flow'[g] = IF g = f THEN x ELSE flow[g]
  BY DEF LoginOnce, FlowOK
<1> QED BY <1>1 DEF LoginOnce, FlowOK

\* A challenge is opened.
LEMMA OpenFlowOnce ==
  ASSUME LoginOnce, NEW f \in Flows, OpenFlow(f)
  PROVE  LoginOnce'
<1>1. PICK x : x = [NoFlow EXCEPT !.version = userVersion, !.left = FlowTicks]
  OBVIOUS
<1>2. userVersion \in Nat /\ FlowTicks \in Nat
  BY LoginVerificationAssumption DEF LoginOnce
<1>3. x = [version |-> userVersion, left |-> FlowTicks, consumed |-> FALSE, sessions |-> 0]
  BY <1>1 DEF NoFlow
<1>4. FlowOK(x)
  BY <1>2, <1>3 DEF FlowOK, Flow
<1>5. flow' = [flow EXCEPT ![f] = x] /\ UNCHANGED <<userVersion, spare, accepted>>
  BY <1>1 DEF OpenFlow
<1> QED BY <1>4, <1>5, FlowSet

\* A challenge is consumed with its session, once.
LEMMA CompleteOnce ==
  ASSUME LoginOnce, NEW t \in Trials, CompleteLogin(t)
  PROVE  LoginOnce'
<1>1. PICK f : f = trial[t].flow
  OBVIOUS
<1>2. UNCHANGED <<userVersion, spare, accepted>>
  BY DEF CompleteLogin
<1>3. CASE ~Claimable(f)
  <2>1. flow' = flow
    BY <1>1, <1>3 DEF CompleteLogin
  <2> QED BY <1>2, <2>1 DEF LoginOnce
<1>4. CASE Claimable(f)
  <2>1. flow' = [flow EXCEPT ![f] = [flow[f] EXCEPT !.consumed = TRUE, !.sessions = @ + 1]]
    BY <1>1, <1>4 DEF CompleteLogin
  <2>2. CASE f \notin Flows
    <3>1. flow' = flow
      BY <2>1, <2>2 DEF LoginOnce
    <3> QED BY <1>2, <3>1 DEF LoginOnce
  <2>3. CASE f \in Flows
    <3>1. flow[f] \in Flow /\ ~flow[f].consumed /\ flow[f].sessions = 0
      BY <1>4, <2>3 DEF LoginOnce, Claimable, Open
    <3>2. PICK y : y = flow[f]
      OBVIOUS
    <3>3. PICK k \in Nat : k = y.sessions + 1 /\ k = 1
      BY <3>1, <3>2
    <3>4. PICK x : x = [y EXCEPT !.consumed = TRUE, !.sessions = k]
      OBVIOUS
    <3>6. x = [flow[f] EXCEPT !.consumed = TRUE, !.sessions = @ + 1]
      BY <3>2, <3>3, <3>4
    <3>7. flow' = [flow EXCEPT ![f] = x]
      BY <2>1, <3>6
    <3>8. x \in Flow /\ x.consumed = TRUE /\ x.sessions = 1
      BY <3>1, <3>2, <3>3, <3>4 DEF Flow
    <3>5. FlowOK(x)
      BY <3>8 DEF FlowOK
    <3> QED BY <1>2, <2>3, <3>7, <3>5, FlowSet
  <2> QED BY <2>2, <2>3
<1> QED BY <1>3, <1>4

\* A backup code is accepted when it is taken from the unused ones.
LEMMA SpendOnce ==
  ASSUME LoginOnce, NEW t \in Trials, SpendCode(t)
  PROVE  LoginOnce'
<1>1. PICK c : c = trial[t].code
  OBVIOUS
<1>2. UNCHANGED <<userVersion, flow>>
  BY DEF SpendCode
<1>3. CASE c \in spare
  <2>1. spare' = spare \ {c} /\ accepted' = [accepted EXCEPT ![c] = @ + 1]
    BY <1>1, <1>3 DEF SpendCode, StillSpare
  <2>2. c \in BackupCodes /\ accepted[c] = 0 /\ accepted \in [BackupCodes -> Nat]
    BY <1>3 DEF LoginOnce
  <2>3. /\ accepted' \in [BackupCodes -> Nat]
        /\ \A d \in BackupCodes : accepted'[d] = IF d = c THEN 1 ELSE accepted[d]
    BY <2>1, <2>2
  <2> QED BY <1>2, <2>1, <2>3 DEF LoginOnce
<1>4. CASE c \notin spare
  BY <1>1, <1>2, <1>4 DEF SpendCode, StillSpare, LoginOnce
<1> QED BY <1>3, <1>4

\* Time passes for every challenge.
LEMMA TickOnce ==
  ASSUME LoginOnce, LoginTick
  PROVE  LoginOnce'
<1>1. UNCHANGED <<userVersion, spare, accepted>>
  BY DEF LoginTick
<1>2. flow' = [f \in Flows |-> [flow[f] EXCEPT !.left = IF @ > 0 THEN @ - 1 ELSE 0]]
  BY DEF LoginTick
<1>3. ASSUME NEW f \in Flows PROVE FlowOK(flow'[f])
  <2>1. PICK x : x = flow[f]
    OBVIOUS
  <2>2. x \in Flow /\ x.left \in Nat /\ x.sessions = IF x.consumed THEN 1 ELSE 0
    BY <2>1 DEF LoginOnce, Flow
  <2>3. PICK k \in Nat : k = IF x.left > 0 THEN x.left - 1 ELSE 0
    BY <2>2
  <2>4. flow'[f] = [x EXCEPT !.left = k]
    BY <1>2, <2>1, <2>2, <2>3 DEF Flow
  <2>5. flow'[f] \in Flow /\ flow'[f].sessions = x.sessions /\ flow'[f].consumed = x.consumed
    BY <2>2, <2>4 DEF Flow
  <2> QED BY <2>2, <2>5 DEF FlowOK
<1>4. flow' \in [Flows -> Flow]
  BY <1>2, <1>3 DEF FlowOK
<1> QED BY <1>1, <1>3, <1>4 DEF LoginOnce, FlowOK

\* A challenge gives one session and a backup code is accepted once, however
\* many submissions race.
THEOREM LoginUsedOnce == LoginSpec => []UsedOnce
<1>1. LoginInit => LoginOnce
  <2> SUFFICES ASSUME LoginInit PROVE LoginOnce
    OBVIOUS
  <2>1. NoFlow \in Flow /\ NoFlow.consumed = FALSE /\ NoFlow.sessions = 0
    BY DEF NoFlow, Flow
  <2>2. flow \in [Flows -> Flow] /\ \A f \in Flows : flow[f] = NoFlow
    BY <2>1 DEF LoginInit
  <2> QED BY <2>1, <2>2 DEF LoginInit, LoginOnce
<1>2. LoginOnce /\ [LoginNext]_loginVars => LoginOnce'
  <2> SUFFICES ASSUME LoginOnce, [LoginNext]_loginVars PROVE LoginOnce'
    OBVIOUS
  <2>1. ASSUME NEW t \in Trials, TrialStep(t) PROVE LoginOnce'
    <3>1. ASSUME UNCHANGED <<userVersion, flow, spare, accepted>> PROVE LoginOnce'
      BY <3>1 DEF LoginOnce
    <3>2. ASSUME NEW f \in Flows, NEW code, SubmitCode(t, f, code) PROVE LoginOnce'
      BY <3>1, <3>2 DEF SubmitCode
    <3>3. CASE LoadFactor(t)
      BY <3>1, <3>3 DEF LoadFactor
    <3>4. CASE CheckCode(t)
      BY <3>1, <3>4 DEF CheckCode
    <3>5. CASE CountRead(t)
      BY <3>1, <3>5 DEF CountRead
    <3>6. CASE CountWrite(t)
      BY <3>1, <3>6 DEF CountWrite
    <3>7. CASE ResetCount(t)
      BY <3>1, <3>7 DEF ResetCount
    <3>8. CASE BreakOff(t)
      BY <3>1, <3>8 DEF BreakOff
    <3> QED BY <2>1, <3>2, <3>3, <3>4, <3>5, <3>6, <3>7, <3>8, SpendOnce, CompleteOnce
            DEF TrialStep
  <2>2. CASE DisableFactor
    BY <2>2 DEF LoginOnce, DisableFactor
  <2>3. CASE UNCHANGED loginVars
    BY <2>3 DEF loginVars, LoginOnce
  <2> QED BY <2>1, <2>2, <2>3, OpenFlowOnce, TickOnce DEF LoginNext
<1>3. LoginOnce => UsedOnce
  BY DEF LoginOnce, UsedOnce, Flow
<1> QED BY <1>1, <1>2, <1>3, PTL DEF LoginSpec

\* The sets of submissions are finite, and what their sizes say.
LEMMA TrialCounts ==
  ASSUME NEW P \in SUBSET Trials, NEW Q \in SUBSET Trials, NEW t
  PROVE  /\ Cardinality(P) \in Nat /\ Cardinality(Q) \in Nat /\ Cardinality(Trials) \in Nat
         /\ Cardinality(P) <= Cardinality(Trials)
         /\ P \subseteq Q => Cardinality(P) <= Cardinality(Q)
         /\ P \subseteq Q \cup {t} => Cardinality(P) <= Cardinality(Q) + 1
         /\ (t \notin P /\ P \cup {t} \subseteq Q) => Cardinality(P) + 1 <= Cardinality(Q)
         /\ P \cap Q = {} => Cardinality(P) + Cardinality(Q) <= Cardinality(Trials)
<1>0. IsFiniteSet(Trials)
  BY LoginVerificationAssumption
<1>1. IsFiniteSet(P) /\ IsFiniteSet(Q) /\ Cardinality(P) <= Cardinality(Trials)
  BY <1>0, FS_Subset
<1>2. Cardinality(P) \in Nat /\ Cardinality(Q) \in Nat /\ Cardinality(Trials) \in Nat
  BY <1>0, <1>1, FS_CardinalityType
<1>3. P \subseteq Q => Cardinality(P) <= Cardinality(Q)
  BY <1>1, FS_Subset
<1>4. P \subseteq Q \cup {t} => Cardinality(P) <= Cardinality(Q) + 1
  <2> SUFFICES ASSUME P \subseteq Q \cup {t} PROVE Cardinality(P) <= Cardinality(Q) + 1
    OBVIOUS
  <2>1. /\ IsFiniteSet(Q \cup {t})
        /\ Cardinality(Q \cup {t}) = IF t \in Q THEN Cardinality(Q) ELSE Cardinality(Q) + 1
    BY <1>1, FS_AddElement
  <2>2. Cardinality(P) <= Cardinality(Q \cup {t})
    BY <2>1, FS_Subset
  <2> QED BY <1>2, <2>1, <2>2
<1>5. (t \notin P /\ P \cup {t} \subseteq Q) => Cardinality(P) + 1 <= Cardinality(Q)
  <2> SUFFICES ASSUME t \notin P, P \cup {t} \subseteq Q
               PROVE  Cardinality(P) + 1 <= Cardinality(Q)
    OBVIOUS
  <2>1. Cardinality(P \cup {t}) = Cardinality(P) + 1
    BY <1>1, FS_AddElement
  <2>2. Cardinality(P \cup {t}) <= Cardinality(Q)
    BY <1>1, FS_Subset
  <2> QED BY <2>1, <2>2
<1>6. P \cap Q = {} => Cardinality(P) + Cardinality(Q) <= Cardinality(Trials)
  <2> SUFFICES ASSUME P \cap Q = {}
               PROVE  Cardinality(P) + Cardinality(Q) <= Cardinality(Trials)
    OBVIOUS
  <2>1. Cardinality(P \cup Q) = Cardinality(P) + Cardinality(Q) - Cardinality(P \cap Q)
    BY <1>1, FS_Union
  <2>2. Cardinality(P \cap Q) = 0
    BY FS_EmptySet
  <2>3. P \cup Q \in SUBSET Trials
    OBVIOUS
  <2>4. Cardinality(P \cup Q) <= Cardinality(Trials)
    BY <1>0, <2>3, FS_Subset
  <2> QED BY <1>2, <2>1, <2>2, <2>4
<1> QED BY <1>1, <1>2, <1>3, <1>4, <1>5, <1>6

\* One submission changes.
Turned(tr2, tr, t, x) ==
  /\ t \in Trials
  /\ \A s \in Trials : tr2[s] = IF s = t THEN x ELSE tr[s]

\* Submitting changes one.
LEMMA TrialTurned ==
  ASSUME TrialsOK(trial), NEW t \in Trials, NEW x, TrialOK(x), Submit(t, x)
  PROVE  TrialsOK(trial') /\ Turned(trial', trial, t, x)
<1>1. trial' = [s \in Trials |-> IF s = t THEN x ELSE trial[s]]
  BY DEF Submit, TrialsOK
<1>2. \A s \in Trials : trial'[s] = IF s = t THEN x ELSE trial[s]
  BY <1>1
<1>3. \A s \in Trials : TrialOK(trial'[s])
  BY <1>2 DEF TrialsOK
<1>4. trial' = [s \in Trials |-> trial'[s]]
  BY <1>1
<1> QED BY <1>2, <1>3, <1>4 DEF TrialsOK, Turned

LoginNumbers(fa, k, errs) == RowOK(fa) /\ k \in Nat /\ errs \in Nat

\* The bounds on the failures, as numbers.
LEMMA RowNumbers ==
  ASSUME NEW fa, RowOK(fa)
  PROVE  /\ fa.failed \in Nat /\ fa.lock \in Nat /\ MaxFailAttempts \in Nat
         /\ MaxFailAttempts >= 1 /\ MaxTries \in Nat /\ MaxTries >= MaxFailAttempts
         /\ Least(fa.failed, MaxFailAttempts - 1) \in Nat
         /\ Least(fa.failed, MaxFailAttempts - 1) <= MaxFailAttempts - 1
<1>1. fa.failed \in Nat /\ fa.lock \in Nat
  BY DEF RowOK
<1>2. MaxFailAttempts \in Nat /\ MaxFailAttempts >= 1 /\ MaxTries \in Nat /\ MaxTries >= MaxFailAttempts
  BY LoginVerificationAssumption, TriesAssumption
<1> QED BY <1>1, <1>2 DEF Least

\* A submission that goes on where it counted, and past no check of the lock.
LEMMA ComparedKept ==
  ASSUME NEW fa, NEW tr, NEW tr2, NEW k, NEW errs, NEW t, NEW x,
         LoginNumbers(fa, k, errs), Compared(fa, tr, k, errs), Turned(tr2, tr, t, x),
         fa.enabled /\ fa.lock = 0 => (ToCount(tr[t], fa.failed) => ToCount(x, fa.failed)),
         ~(fa.enabled /\ fa.lock = 0) =>
           (x.pc \in {"check", "spend"} => tr[t].pc \in {"check", "spend"})
  PROVE  Compared(fa, tr2, k, errs)
<1> DEFINE L == Least(fa.failed, MaxFailAttempts - 1)
<1>1. /\ RowOK(fa) /\ k \in Nat /\ errs \in Nat /\ L \in Nat /\ MaxFailAttempts \in Nat
  BY RowNumbers DEF LoginNumbers
<1>2. CASE fa.enabled /\ fa.lock = 0
  <2> DEFINE P == Pending(tr, fa.failed)
             Q == Pending(tr2, fa.failed)
  <2>1. P \in SUBSET Trials /\ Q \in SUBSET Trials /\ P \subseteq Q
    BY <1>2 DEF Pending, Turned
  <2>2. Cardinality(P) <= Cardinality(Q) /\ Cardinality(P) \in Nat /\ Cardinality(Q) \in Nat
    BY <2>1, TrialCounts
  <2>3. k <= L + Cardinality(P) + errs
    BY <1>2 DEF Compared
  <2> HIDE DEF P, Q, L
  <2>4. k <= L + Cardinality(Q) + errs
    BY <1>1, <2>2, <2>3
  <2> QED BY <1>2, <2>4 DEF Compared, Q, L
<1>3. CASE ~(fa.enabled /\ fa.lock = 0)
  <2> DEFINE P == Comparing(tr)
             Q == Comparing(tr2)
  <2>1. P \in SUBSET Trials /\ Q \in SUBSET Trials /\ Q \subseteq P
    BY <1>3 DEF Comparing, Turned
  <2>2. /\ Cardinality(Q) <= Cardinality(P) /\ Cardinality(P) \in Nat /\ Cardinality(Q) \in Nat
        /\ Cardinality(Trials) \in Nat
    BY <2>1, TrialCounts
  <2>3. k + Cardinality(P) <= MaxFailAttempts - 1 + Cardinality(Trials) + errs
    BY <1>3 DEF Compared
  <2> HIDE DEF P, Q
  <2>4. k + Cardinality(Q) <= MaxFailAttempts - 1 + Cardinality(Trials) + errs
    BY <1>1, <2>2, <2>3
  <2> QED BY <1>3, <2>4 DEF Compared, Q
<1> QED BY <1>2, <1>3

\* A wrong code is compared: it will be counted, or it was past the lock.
LEMMA ComparedWrong ==
  ASSUME NEW fa, NEW tr, NEW tr2, NEW k, NEW errs, NEW t, NEW x,
         LoginNumbers(fa, k, errs), Compared(fa, tr, k, errs), Turned(tr2, tr, t, x),
         tr[t].pc \in {"check", "spend"}, x.pc = "count", x.tries = 0
  PROVE  Compared(fa, tr2, k + 1, errs)
<1> DEFINE L == Least(fa.failed, MaxFailAttempts - 1)
<1>1. /\ RowOK(fa) /\ k \in Nat /\ errs \in Nat /\ L \in Nat /\ MaxFailAttempts \in Nat
      /\ fa.failed \in Nat
  BY RowNumbers DEF LoginNumbers
<1>2. CASE fa.enabled /\ fa.lock = 0
  <2> DEFINE P == Pending(tr, fa.failed)
             Q == Pending(tr2, fa.failed)
  <2>0. ~ToCount(tr[t], fa.failed) /\ ToCount(x, fa.failed)
    BY <1>1 DEF ToCount
  <2>1. P \in SUBSET Trials /\ Q \in SUBSET Trials /\ t \notin P /\ P \cup {t} \subseteq Q
    BY <2>0 DEF Pending, Turned
  <2>2. Cardinality(P) + 1 <= Cardinality(Q) /\ Cardinality(P) \in Nat /\ Cardinality(Q) \in Nat
    BY <2>1, TrialCounts
  <2>3. k <= L + Cardinality(P) + errs
    BY <1>2 DEF Compared
  <2> HIDE DEF P, Q, L
  <2>4. k + 1 <= L + Cardinality(Q) + errs
    BY <1>1, <2>2, <2>3
  <2> QED BY <1>2, <2>4 DEF Compared, Q, L
<1>3. CASE ~(fa.enabled /\ fa.lock = 0)
  <2> DEFINE P == Comparing(tr)
             Q == Comparing(tr2)
  <2>1. P \in SUBSET Trials /\ Q \in SUBSET Trials /\ t \notin Q /\ Q \cup {t} \subseteq P
    BY <1>3 DEF Comparing, Turned
  <2>2. /\ Cardinality(Q) + 1 <= Cardinality(P) /\ Cardinality(P) \in Nat /\ Cardinality(Q) \in Nat
        /\ Cardinality(Trials) \in Nat
    BY <2>1, TrialCounts
  <2>3. k + Cardinality(P) <= MaxFailAttempts - 1 + Cardinality(Trials) + errs
    BY <1>3 DEF Compared
  <2> HIDE DEF P, Q
  <2>4. k + 1 + Cardinality(Q) <= MaxFailAttempts - 1 + Cardinality(Trials) + errs
    BY <1>1, <2>2, <2>3
  <2> QED BY <1>3, <2>4 DEF Compared, Q
<1> QED BY <1>2, <1>3

\* A submission breaks off.
LEMMA ComparedBroken ==
  ASSUME NEW fa, NEW tr, NEW tr2, NEW k, NEW errs, NEW t, NEW x,
         LoginNumbers(fa, k, errs), Compared(fa, tr, k, errs), Turned(tr2, tr, t, x),
         x.pc = "idle"
  PROVE  Compared(fa, tr2, k, errs + 1)
<1> DEFINE L == Least(fa.failed, MaxFailAttempts - 1)
<1>1. /\ RowOK(fa) /\ k \in Nat /\ errs \in Nat /\ L \in Nat /\ MaxFailAttempts \in Nat
  BY RowNumbers DEF LoginNumbers
<1>2. CASE fa.enabled /\ fa.lock = 0
  <2> DEFINE P == Pending(tr, fa.failed)
             Q == Pending(tr2, fa.failed)
  <2>1. P \in SUBSET Trials /\ Q \in SUBSET Trials /\ P \subseteq Q \cup {t}
    BY DEF Pending, Turned
  <2>2. Cardinality(P) <= Cardinality(Q) + 1 /\ Cardinality(P) \in Nat /\ Cardinality(Q) \in Nat
    BY <2>1, TrialCounts
  <2>3. k <= L + Cardinality(P) + errs
    BY <1>2 DEF Compared
  <2> HIDE DEF P, Q, L
  <2>4. k <= L + Cardinality(Q) + (errs + 1)
    BY <1>1, <2>2, <2>3
  <2> QED BY <1>2, <2>4 DEF Compared, Q, L
<1>3. CASE ~(fa.enabled /\ fa.lock = 0)
  <2> DEFINE P == Comparing(tr)
             Q == Comparing(tr2)
  <2>1. P \in SUBSET Trials /\ Q \in SUBSET Trials /\ Q \subseteq P
    BY <1>3 DEF Comparing, Turned
  <2>2. /\ Cardinality(Q) <= Cardinality(P) /\ Cardinality(P) \in Nat /\ Cardinality(Q) \in Nat
        /\ Cardinality(Trials) \in Nat
    BY <2>1, TrialCounts
  <2>3. k + Cardinality(P) <= MaxFailAttempts - 1 + Cardinality(Trials) + errs
    BY <1>3 DEF Compared
  <2> HIDE DEF P, Q
  <2>4. k + Cardinality(Q) <= MaxFailAttempts - 1 + Cardinality(Trials) + (errs + 1)
    BY <1>1, <2>2, <2>3
  <2> QED BY <1>3, <2>4 DEF Compared, Q
<1> QED BY <1>2, <1>3

\* After a reset of the count.
LEMMA ComparedZero ==
  ASSUME NEW fa, NEW tr, NEW errs, LoginNumbers(fa, 0, errs)
  PROVE  Compared(fa, tr, 0, errs)
<1> DEFINE L == Least(fa.failed, MaxFailAttempts - 1)
           P == Pending(tr, fa.failed)
           Q == Comparing(tr)
<1>1. /\ RowOK(fa) /\ errs \in Nat /\ L \in Nat /\ MaxFailAttempts \in Nat /\ MaxFailAttempts >= 1
  BY RowNumbers DEF LoginNumbers
<1>2. P \in SUBSET Trials /\ Q \in SUBSET Trials
  BY DEF Pending, Comparing
<1>3. /\ Cardinality(P) \in Nat /\ Cardinality(Q) \in Nat /\ Cardinality(Trials) \in Nat
      /\ Cardinality(Q) <= Cardinality(Trials)
  BY <1>2, TrialCounts
<1> HIDE DEF P, Q, L
<1>4. /\ 0 <= L + Cardinality(P) + errs
      /\ 0 + Cardinality(Q) <= MaxFailAttempts - 1 + Cardinality(Trials) + errs
  BY <1>1, <1>3
<1> QED BY <1>4 DEF Compared, P, Q, L

\* The lock, and the end of the factor, come while every compared code was
\* counted or belongs to a submission that has passed its comparison.
LEMMA ComparedLocked ==
  ASSUME NEW fa, NEW fb, NEW tr, NEW k, NEW errs,
         LoginNumbers(fa, k, errs), Compared(fa, tr, k, errs), RowOK(fb),
         ~(fb.enabled /\ fb.lock = 0)
  PROVE  Compared(fb, tr, k, errs)
<1> DEFINE L == Least(fa.failed, MaxFailAttempts - 1)
           P == Pending(tr, fa.failed)
           Q == Comparing(tr)
<1>1. /\ k \in Nat /\ errs \in Nat /\ L \in Nat /\ MaxFailAttempts \in Nat
      /\ L <= MaxFailAttempts - 1
  BY RowNumbers DEF LoginNumbers
<1>2. CASE fa.enabled /\ fa.lock = 0
  <2>1. P \in SUBSET Trials /\ Q \in SUBSET Trials /\ P \cap Q = {}
    BY DEF Pending, Comparing, ToCount
  <2>2. /\ Cardinality(P) + Cardinality(Q) <= Cardinality(Trials) /\ Cardinality(Trials) \in Nat
        /\ Cardinality(P) \in Nat /\ Cardinality(Q) \in Nat
    BY <2>1, TrialCounts
  <2>3. k <= L + Cardinality(P) + errs
    BY <1>2 DEF Compared
  <2> HIDE DEF P, Q, L
  <2>4. k + Cardinality(Q) <= MaxFailAttempts - 1 + Cardinality(Trials) + errs
    BY <1>1, <2>2, <2>3
  <2> QED BY <2>4 DEF Compared, Q
<1>3. CASE ~(fa.enabled /\ fa.lock = 0)
  BY <1>3 DEF Compared
<1> QED BY <1>2, <1>3

\* A failure is counted before the limit: the others stay to be counted.
LEMMA ComparedCounted ==
  ASSUME NEW fa, NEW fb, NEW tr, NEW tr2, NEW k, NEW errs, NEW t, NEW x,
         LoginNumbers(fa, k, errs), Compared(fa, tr, k, errs), Turned(tr2, tr, t, x),
         TrialsOK(tr), fa.enabled, fa.lock = 0, fa.failed + 1 < MaxFailAttempts,
         RowOK(fb), fb.enabled, fb.lock = 0, fb.failed = fa.failed + 1
  PROVE  Compared(fb, tr2, k, errs)
<1> DEFINE n == fa.failed
           P == Pending(tr, n)
           Q == Pending(tr2, n + 1)
<1>1. k \in Nat /\ errs \in Nat /\ n \in Nat /\ MaxFailAttempts \in Nat
  BY RowNumbers DEF LoginNumbers
<1>2. Least(n, MaxFailAttempts - 1) = n /\ Least(n + 1, MaxFailAttempts - 1) = n + 1
  BY <1>1 DEF Least
<1>3. ASSUME NEW s \in Trials, ToCount(tr[s], n) PROVE ToCount(tr[s], n + 1)
  <2>1. tr[s] \in TrialShape
    BY DEF TrialsOK, TrialOK
  <2>2. tr[s].tries \in Nat /\ tr[s].seen \in Nat
    BY <2>1 DEF TrialShape
  <2> QED BY <1>1, <1>3, <2>2 DEF ToCount
<1>4. P \in SUBSET Trials /\ Q \in SUBSET Trials /\ P \subseteq Q \cup {t}
  BY <1>3 DEF Pending, Turned
<1>5. Cardinality(P) <= Cardinality(Q) + 1 /\ Cardinality(P) \in Nat /\ Cardinality(Q) \in Nat
  BY <1>4, TrialCounts
<1>6. k <= n + Cardinality(P) + errs
  BY <1>2 DEF Compared
<1> HIDE DEF P, Q, n
<1>7. k <= (n + 1) + Cardinality(Q) + errs
  BY <1>1, <1>5, <1>6
<1> QED BY <1>2, <1>7 DEF Compared, Q, n

\* A submission that leaves row and counts alone.
LEMMA LoginKept ==
  ASSUME LoginInv, NEW t \in Trials, NEW x, TrialOK(x), Submit(t, x),
         UNCHANGED <<factor, tested, loginErrors>>,
         factor.enabled /\ factor.lock = 0 =>
           (ToCount(trial[t], factor.failed) => ToCount(x, factor.failed)),
         ~(factor.enabled /\ factor.lock = 0) =>
           (x.pc \in {"check", "spend"} => trial[t].pc \in {"check", "spend"})
  PROVE  LoginInv'
<1>1. TrialsOK(trial') /\ Turned(trial', trial, t, x)
  BY TrialTurned DEF LoginInv
<1>2. LoginNumbers(factor, tested, loginErrors) /\ Compared(factor, trial, tested, loginErrors)
  BY DEF LoginInv, LoginNumbers
<1>3. Compared(factor, trial', tested, loginErrors)
  BY <1>1, <1>2, ComparedKept
<1> QED BY <1>1, <1>3 DEF LoginInv

\* The submission between two others.
LEMMA NoTrialOK == TrialOK(NoTrial) /\ NoTrial.pc = "idle"
<1>1. NoTrial \in TrialShape
  BY DEF NoTrial, TrialShape
<1> QED BY <1>1 DEF NoTrial, TrialOK

\* A submission that goes on to another statement.
LEMMA TrialGoesOn ==
  ASSUME LoginInv, NEW t \in Trials, NEW x, NEW pc, x = [trial[t] EXCEPT !.pc = pc],
         pc \in {"check", "spend", "count", "reset", "complete"},
         pc \in {"check", "spend"} => trial[t].pc \in {"load", "check", "spend"}
  PROVE  TrialOK(x) /\ x.pc = pc /\ x.tries = trial[t].tries
<1>1. trial[t] \in TrialShape /\ (trial[t].pc \in {"load", "check", "spend"} => trial[t].tries = 0)
  BY DEF LoginInv, TrialsOK, TrialOK
<1>2. x \in TrialShape /\ x.pc = pc /\ x.tries = trial[t].tries
  BY <1>1 DEF TrialShape
<1> QED BY <1>1, <1>2 DEF TrialOK

\* A code is submitted.
LEMMA SubmitInv ==
  ASSUME LoginInv, NEW t \in Trials, NEW f \in Flows,
         NEW code \in BackupCodes \cup {"right", "wrong"}, SubmitCode(t, f, code)
  PROVE  LoginInv'
<1>1. PICK y : y = NoTrial
  OBVIOUS
<1>2. PICK x : x = [y EXCEPT !.pc = "load", !.flow = f, !.code = code]
  OBVIOUS
<1>3. y \in TrialShape /\ y.tries = 0
  BY <1>1, NoTrialOK DEF TrialOK, NoTrial
<1>4. x \in TrialShape /\ x.pc = "load" /\ x.tries = 0
  BY <1>2, <1>3 DEF TrialShape
<1>5. TrialOK(x)
  BY <1>4 DEF TrialOK
<1>6. trial[t].pc = "idle" /\ Submit(t, x) /\ UNCHANGED <<factor, tested, loginErrors>>
  BY <1>1, <1>2 DEF SubmitCode
<1>7. ~ToCount(trial[t], factor.failed)
  BY <1>6 DEF ToCount
<1> QED BY <1>4, <1>5, <1>6, <1>7, LoginKept

\* The lock is checked.
LEMMA LoadInv ==
  ASSUME LoginInv, NEW t \in Trials, LoadFactor(t)
  PROVE  LoginInv'
<1>1. trial[t].pc = "load" /\ UNCHANGED <<factor, tested, loginErrors>>
  BY DEF LoadFactor
<1>2. ~ToCount(trial[t], factor.failed)
  BY <1>1 DEF ToCount
<1>3. CASE Available
  <2>1. PICK x : x = [trial[t] EXCEPT !.pc = "check"]
    OBVIOUS
  <2>2. Submit(t, x) /\ factor.enabled /\ factor.lock = 0
    BY <1>3, <2>1 DEF LoadFactor, At, Available
  <2>3. TrialOK(x)
    BY <1>1, <2>1, TrialGoesOn
  <2> QED BY <1>1, <1>2, <2>2, <2>3, LoginKept
<1>4. CASE ~Available
  <2>1. Submit(t, NoTrial)
    BY <1>4 DEF LoadFactor
  <2> QED BY <1>1, <1>2, <2>1, NoTrialOK, LoginKept
<1> QED BY <1>3, <1>4

\* A wrong code.
LEMMA WrongInv ==
  ASSUME LoginInv, NEW t \in Trials, trial[t].pc \in {"check", "spend"}, WrongCode(t),
         UNCHANGED <<factor, loginErrors>>
  PROVE  LoginInv'
<1>1. PICK x : x = [trial[t] EXCEPT !.pc = "count"]
  OBVIOUS
<1>2. Submit(t, x) /\ tested' = tested + 1
  BY <1>1 DEF WrongCode, At
<1>3. TrialOK(x) /\ x.pc = "count" /\ x.tries = trial[t].tries
  BY <1>1, TrialGoesOn
<1>4. x.tries = 0
  BY <1>3 DEF LoginInv, TrialsOK, TrialOK
<1>5. TrialsOK(trial') /\ Turned(trial', trial, t, x)
  BY <1>2, <1>3, TrialTurned DEF LoginInv
<1>6. LoginNumbers(factor, tested, loginErrors) /\ Compared(factor, trial, tested, loginErrors)
  BY DEF LoginInv, LoginNumbers
<1>7. Compared(factor, trial', tested + 1, loginErrors)
  BY <1>3, <1>4, <1>5, <1>6, ComparedWrong
<1>8. tested + 1 \in Nat
  BY DEF LoginInv
<1> QED BY <1>2, <1>5, <1>7, <1>8 DEF LoginInv

\* A right code, or a backup code that is there.
LEMMA RightInv ==
  ASSUME LoginInv, NEW t \in Trials, trial[t].pc \in {"check", "spend"},
         NEW pc \in {"spend", "reset"}, At(t, pc), UNCHANGED <<factor, tested, loginErrors>>
  PROVE  LoginInv'
<1>1. PICK x : x = [trial[t] EXCEPT !.pc = pc]
  OBVIOUS
<1>2. Submit(t, x)
  BY <1>1 DEF At
<1>3. TrialOK(x)
  BY <1>1, TrialGoesOn
<1>4. ~ToCount(trial[t], factor.failed)
  BY DEF ToCount
<1> QED BY <1>2, <1>3, <1>4, LoginKept

\* The failures are read.
LEMMA CountReadInv ==
  ASSUME LoginInv, NEW t \in Trials, CountRead(t)
  PROVE  LoginInv'
<1>1. trial[t].pc = "count" /\ UNCHANGED <<factor, tested, loginErrors>>
  BY DEF CountRead
<1>2. CASE Available
  <2>1. PICK n \in Nat : n = factor.failed
    BY RowNumbers DEF LoginInv
  <2>2. PICK x : x = [trial[t] EXCEPT !.pc = "countWrite", !.seen = n]
    OBVIOUS
  <2>3. Submit(t, x)
    BY <1>2, <2>1, <2>2 DEF CountRead
  <2>4. trial[t] \in TrialShape
    BY DEF LoginInv, TrialsOK, TrialOK
  <2>5. x \in TrialShape /\ x.pc = "countWrite" /\ x.seen = n /\ x.tries = trial[t].tries
    BY <2>2, <2>4 DEF TrialShape
  <2>6. TrialOK(x)
    BY <2>5 DEF TrialOK
  <2>7. ToCount(trial[t], factor.failed) => ToCount(x, factor.failed)
    BY <1>1, <2>1, <2>5 DEF ToCount
  <2>8. x.pc \notin {"check", "spend"}
    BY <2>5
  <2> QED BY <1>1, <2>3, <2>6, <2>7, <2>8, LoginKept
<1>3. CASE ~Available
  <2>1. Submit(t, NoTrial)
    BY <1>3 DEF CountRead
  <2> QED BY <1>1, <1>3, <2>1, NoTrialOK, LoginKept DEF Available
<1> QED BY <1>2, <1>3

\* A failure is counted, the count was overtaken, or it is given up, which
\* happens only when a lock or a reset came in between.
LEMMA CountWriteInv ==
  ASSUME LoginInv, NEW t \in Trials, CountWrite(t)
  PROVE  LoginInv'
<1>1. trial[t].pc = "countWrite" /\ UNCHANGED <<tested, loginErrors>>
  BY DEF CountWrite
<1>2. trial[t] \in TrialShape /\ trial[t].seen \in Nat /\ trial[t].tries \in Nat
  <2>1. trial[t] \in TrialShape
    BY DEF LoginInv, TrialsOK, TrialOK
  <2> QED BY <2>1 DEF TrialShape
<1>3. PICK n \in Nat : n = factor.failed
  BY RowNumbers DEF LoginInv
<1>4. MaxFailAttempts \in Nat /\ MaxTries \in Nat /\ MaxTries >= MaxFailAttempts
  BY RowNumbers DEF LoginInv
<1>5. CASE Unraced(t)
  <2>1. PICK m \in Nat : m = trial[t].seen + 1
    BY <1>2
  <2>2. PICK l : l = IF m >= MaxFailAttempts THEN LockTicks ELSE factor.lock
    OBVIOUS
  <2>3. factor.enabled /\ factor.lock = 0 /\ n = trial[t].seen /\ m = n + 1
    BY <1>3, <1>5, <2>1 DEF Unraced, Available
  <2>4. factor' = [factor EXCEPT !.failed = m, !.lock = l] /\ Submit(t, NoTrial)
    BY <1>5, <2>1, <2>2 DEF CountWrite
  <2>5. l \in Nat /\ (m >= MaxFailAttempts => l # 0) /\ (~(m >= MaxFailAttempts) => l = 0)
    BY <2>2, <2>3, LoginVerificationAssumption
  <2>6. /\ RowOK(factor') /\ factor'.failed = m /\ factor'.lock = l
        /\ factor'.enabled = factor.enabled
    BY <2>4, <2>5 DEF LoginInv, RowOK
  <2>7. TrialsOK(trial') /\ Turned(trial', trial, t, NoTrial)
    BY <2>4, NoTrialOK, TrialTurned DEF LoginInv
  <2>8. LoginNumbers(factor, tested, loginErrors) /\ Compared(factor, trial, tested, loginErrors)
    BY DEF LoginInv, LoginNumbers
  <2>9. Compared(factor', trial', tested, loginErrors)
    <3>1. CASE m >= MaxFailAttempts
      <4>1. ~(factor'.enabled /\ factor'.lock = 0)
        BY <2>5, <2>6, <3>1
      <4>2. Compared(factor', trial, tested, loginErrors)
        BY <2>6, <2>8, <4>1, ComparedLocked
      <4>3. LoginNumbers(factor', tested, loginErrors)
        BY <2>6, <2>8 DEF LoginNumbers
      <4>4. NoTrial.pc \notin {"check", "spend"}
        BY NoTrialOK
      <4> QED BY <2>7, <4>1, <4>2, <4>3, <4>4, ComparedKept
    <3>2. CASE ~(m >= MaxFailAttempts)
      <4>1. /\ factor.failed + 1 < MaxFailAttempts /\ factor'.failed = factor.failed + 1
            /\ factor'.lock = 0 /\ factor'.enabled /\ factor.enabled /\ factor.lock = 0
        BY <1>3, <1>4, <2>3, <2>5, <2>6, <3>2
      <4>2. TrialsOK(trial) /\ RowOK(factor')
        BY <2>6 DEF LoginInv
      <4> QED BY <2>7, <2>8, <4>1, <4>2, ComparedCounted
    <3> QED BY <3>1, <3>2
  <2> QED BY <1>1, <2>6, <2>7, <2>9 DEF LoginInv
<1>6. CASE ~Unraced(t)
  <2>1. factor' = factor
    BY <1>6 DEF CountWrite
  <2>2. ASSUME factor.enabled, factor.lock = 0, ToCount(trial[t], n)
        PROVE  n < MaxFailAttempts /\ trial[t].tries + 1 <= n
    <3>1. n # trial[t].seen
      BY <1>3, <1>6, <2>2 DEF Unraced, Available
    <3>2. n < MaxFailAttempts /\ trial[t].tries <= trial[t].seen /\ trial[t].seen <= n
      BY <1>1, <1>4, <2>2, <3>1 DEF ToCount
    <3> QED BY <1>2, <3>1, <3>2
  <2>3. CASE trial[t].tries + 1 < MaxTries
    <3>1. PICK m \in Nat : m = trial[t].tries + 1
      BY <1>2
    <3>2. PICK x : x = [trial[t] EXCEPT !.pc = "count", !.tries = m]
      OBVIOUS
    <3>3. Submit(t, x)
      BY <1>2, <1>4, <1>6, <2>3, <3>1, <3>2 DEF CountWrite
    <3>4. x \in TrialShape /\ x.pc = "count" /\ x.tries = m
      BY <1>2, <3>2 DEF TrialShape
    <3>5. TrialOK(x) /\ x.pc \notin {"check", "spend"}
      BY <3>4 DEF TrialOK
    <3>6. factor.enabled /\ factor.lock = 0 =>
            (ToCount(trial[t], factor.failed) => ToCount(x, factor.failed))
      BY <1>3, <2>2, <3>1, <3>4 DEF ToCount
    <3> QED BY <1>1, <2>1, <3>3, <3>5, <3>6, LoginKept
  <2>4. CASE ~(trial[t].tries + 1 < MaxTries)
    <3>1. Submit(t, NoTrial)
      BY <1>2, <1>4, <1>6, <2>4 DEF CountWrite
    <3>2. ~(factor.enabled /\ factor.lock = 0 /\ ToCount(trial[t], factor.failed))
      BY <1>2, <1>3, <1>4, <2>2, <2>4
    <3> QED BY <1>1, <2>1, <3>1, <3>2, NoTrialOK, LoginKept
  <2> QED BY <2>3, <2>4
<1> QED BY <1>5, <1>6

\* A success resets the count.
LEMMA ResetInv ==
  ASSUME LoginInv, NEW t \in Trials, ResetCount(t)
  PROVE  LoginInv'
<1>1. PICK x : x = [trial[t] EXCEPT !.pc = "complete"]
  OBVIOUS
<1>2. trial[t].pc = "reset" /\ Submit(t, x) /\ loginErrors' = loginErrors
  BY <1>1 DEF ResetCount, At
<1>3. TrialOK(x) /\ x.pc = "complete"
  BY <1>1, TrialGoesOn
<1>4. CASE factor.enabled
  <2>1. factor' = [factor EXCEPT !.failed = 0, !.lock = 0] /\ tested' = 0
    BY <1>4 DEF ResetCount
  <2>2. RowOK(factor')
    BY <2>1 DEF LoginInv, RowOK
  <2>3. TrialsOK(trial')
    BY <1>2, <1>3, TrialTurned DEF LoginInv
  <2>4. LoginNumbers(factor', 0, loginErrors)
    BY <2>2 DEF LoginNumbers, LoginInv
  <2>5. Compared(factor', trial', 0, loginErrors)
    BY <2>4, ComparedZero
  <2> QED BY <1>2, <2>1, <2>2, <2>3, <2>5 DEF LoginInv
<1>5. CASE ~factor.enabled
  <2>1. factor' = factor /\ tested' = tested
    BY <1>5 DEF ResetCount
  <2>2. ~ToCount(trial[t], factor.failed)
    BY <1>2 DEF ToCount
  <2> QED BY <1>2, <1>3, <1>5, <2>1, <2>2, LoginKept
<1> QED BY <1>4, <1>5

\* A submission ends with the session or without, or breaks off.
LEMMA LeaveLoginInv ==
  ASSUME LoginInv, NEW t \in Trials, CompleteLogin(t) \/ BreakOff(t)
  PROVE  LoginInv'
<1>1. CASE CompleteLogin(t)
  <2>1. trial[t].pc = "complete" /\ Submit(t, NoTrial) /\ UNCHANGED <<factor, tested, loginErrors>>
    BY <1>1 DEF CompleteLogin
  <2>2. ~ToCount(trial[t], factor.failed)
    BY <2>1 DEF ToCount
  <2> QED BY <2>1, <2>2, NoTrialOK, LoginKept
<1>2. CASE BreakOff(t)
  <2>1. Submit(t, NoTrial) /\ loginErrors' = loginErrors + 1 /\ UNCHANGED <<factor, tested>>
    BY <1>2 DEF BreakOff
  <2>2. TrialsOK(trial') /\ Turned(trial', trial, t, NoTrial)
    BY <2>1, NoTrialOK, TrialTurned DEF LoginInv
  <2>3. LoginNumbers(factor, tested, loginErrors) /\ Compared(factor, trial, tested, loginErrors)
    BY DEF LoginInv, LoginNumbers
  <2>4. Compared(factor, trial', tested, loginErrors + 1)
    BY <2>2, <2>3, NoTrialOK, ComparedBroken
  <2>5. loginErrors + 1 \in Nat
    BY DEF LoginInv
  <2> QED BY <2>1, <2>2, <2>4, <2>5 DEF LoginInv
<1> QED BY <1>1, <1>2

\* The factor is removed.
LEMMA DisableInv ==
  ASSUME LoginInv, DisableFactor
  PROVE  LoginInv'
<1>1. factor' = [enabled |-> FALSE, failed |-> 0, lock |-> 0] /\ UNCHANGED <<trial, tested, loginErrors>>
  BY DEF DisableFactor
<1>2. factor'.enabled = FALSE
  BY <1>1
<1>3. RowOK(factor')
  BY <1>1 DEF RowOK
<1>4. LoginNumbers(factor, tested, loginErrors) /\ Compared(factor, trial, tested, loginErrors)
  BY DEF LoginInv, LoginNumbers
<1>5. Compared(factor', trial, tested, loginErrors)
  BY <1>2, <1>3, <1>4, ComparedLocked
<1> QED BY <1>1, <1>3, <1>5 DEF LoginInv

\* The lock expires, or goes on.
LEMMA LoginTickInv ==
  ASSUME LoginInv, LoginTick
  PROVE  LoginInv'
<1>1. PICK l : l = factor.lock
  OBVIOUS
<1>2. l \in Nat /\ RowOK(factor)
  BY <1>1, RowNumbers DEF LoginInv
<1>3. PICK k \in Nat : k = IF l > 0 THEN l - 1 ELSE 0
  BY <1>2
<1>4. factor' = [factor EXCEPT !.lock = k] /\ UNCHANGED <<trial, loginErrors>>
  BY <1>1, <1>3 DEF LoginTick
<1>5. /\ RowOK(factor') /\ factor'.lock = k /\ factor'.failed = factor.failed
      /\ factor'.enabled = factor.enabled
  BY <1>2, <1>4 DEF RowOK
<1>6. LoginNumbers(factor, tested, loginErrors) /\ Compared(factor, trial, tested, loginErrors)
  BY DEF LoginInv, LoginNumbers
<1>7. CASE l = 1
  <2>1. tested' = 0
    BY <1>1, <1>7 DEF LoginTick
  <2>2. LoginNumbers(factor', 0, loginErrors)
    BY <1>5, <1>6 DEF LoginNumbers
  <2>3. Compared(factor', trial, 0, loginErrors)
    BY <2>2, ComparedZero
  <2> QED BY <1>4, <1>5, <2>1, <2>3 DEF LoginInv
<1>8. CASE l # 1
  <2>1. tested' = tested /\ (k = 0 <=> l = 0)
    BY <1>1, <1>2, <1>3, <1>8 DEF LoginTick
  <2>2. Compared(factor', trial, tested, loginErrors)
    BY <1>1, <1>5, <1>6, <2>1 DEF Compared
  <2> QED BY <1>4, <1>5, <2>1, <2>2 DEF LoginInv
<1> QED BY <1>7, <1>8

\* The lock comes after MaxFailAttempts wrong codes and at most one more for
\* each other submission under way and each failed count: no concurrent count is
\* lost, for any number of submissions.
THEOREM LockStaysInTime == LoginSpec => []LockComesInTime
<1>1. LoginInit => LoginInv
  <2> SUFFICES ASSUME LoginInit PROVE LoginInv
    OBVIOUS
  <2>1. trial = [t \in Trials |-> NoTrial] /\ tested = 0 /\ loginErrors = 0
    BY DEF LoginInit
  <2>2. \A t \in Trials : trial[t] = NoTrial
    BY <2>1
  <2>3. TrialsOK(trial)
    BY <2>1, <2>2, NoTrialOK DEF TrialsOK
  <2>4. RowOK(factor)
    BY DEF LoginInit, RowOK
  <2>5. LoginNumbers(factor, 0, 0)
    BY <2>4 DEF LoginNumbers
  <2>6. Compared(factor, trial, 0, 0)
    BY <2>5, ComparedZero
  <2> QED BY <2>1, <2>3, <2>4, <2>6 DEF LoginInv
<1>2. LoginInv /\ [LoginNext]_loginVars => LoginInv'
  <2> SUFFICES ASSUME LoginInv, [LoginNext]_loginVars PROVE LoginInv'
    OBVIOUS
  <2>1. ASSUME NEW f \in Flows, OpenFlow(f) PROVE LoginInv'
    BY <2>1 DEF LoginInv, OpenFlow
  <2>2. ASSUME NEW t \in Trials, CheckCode(t) PROVE LoginInv'
    <3>1. trial[t].pc \in {"check", "spend"} /\ UNCHANGED <<factor, loginErrors>>
      BY <2>2 DEF CheckCode
    <3>2. \/ At(t, "reset") /\ UNCHANGED tested
          \/ At(t, "spend") /\ UNCHANGED tested
          \/ WrongCode(t)
      BY <2>2 DEF CheckCode
    <3> QED BY <3>1, <3>2, WrongInv, RightInv
  <2>3. ASSUME NEW t \in Trials, SpendCode(t) PROVE LoginInv'
    <3>1. trial[t].pc \in {"check", "spend"} /\ UNCHANGED <<factor, loginErrors>>
      BY <2>3 DEF SpendCode
    <3>2. (At(t, "reset") /\ UNCHANGED tested) \/ WrongCode(t)
      BY <2>3 DEF SpendCode
    <3> QED BY <3>1, <3>2, WrongInv, RightInv
  <2>4. ASSUME NEW t \in Trials, TrialStep(t) PROVE LoginInv'
    BY <2>2, <2>3, <2>4, SubmitInv, LoadInv, CountReadInv, CountWriteInv, ResetInv,
       LeaveLoginInv DEF TrialStep
  <2>5. CASE UNCHANGED loginVars
    BY <2>5 DEF loginVars, LoginInv
  <2> QED BY <2>1, <2>4, <2>5, DisableInv, LoginTickInv DEF LoginNext
<1>3. LoginInv => LockComesInTime
  <2> SUFFICES ASSUME LoginInv PROVE LockComesInTime
    OBVIOUS
  <2> DEFINE L == Least(factor.failed, MaxFailAttempts - 1)
             P == Pending(trial, factor.failed)
             Q == Comparing(trial)
  <2>1. /\ L \in Nat /\ L <= MaxFailAttempts - 1 /\ MaxFailAttempts \in Nat
        /\ tested \in Nat /\ loginErrors \in Nat
    BY RowNumbers DEF LoginInv
  <2>2. P \in SUBSET Trials /\ Q \in SUBSET Trials
    BY DEF Pending, Comparing
  <2>3. /\ Cardinality(P) \in Nat /\ Cardinality(Q) \in Nat /\ Cardinality(Trials) \in Nat
        /\ Cardinality(P) <= Cardinality(Trials)
    BY <2>2, TrialCounts
  <2>4. \/ tested <= L + Cardinality(P) + loginErrors
        \/ tested + Cardinality(Q) <= MaxFailAttempts - 1 + Cardinality(Trials) + loginErrors
    BY DEF LoginInv, Compared
  <2> HIDE DEF L, P, Q
  <2>5. tested <= MaxFailAttempts + Cardinality(Trials) - 1 + loginErrors
    BY <2>1, <2>3, <2>4
  <2> QED BY <2>5 DEF LockComesInTime
<1> QED BY <1>1, <1>2, <1>3, PTL DEF LoginSpec

-----------------------------------------------------------------------------
(* SubscriptionQuota: a period is not overdrawn, nor begun twice.          *)

QuotaRow == [used: Nat, last: Nat, next: Nat]

ResetsCounted == [auto: Nat, all: Nat, setBack: BOOLEAN]

\* The boundary a row counts its periods from.
BaseOf(row) == IF row.last > 0 THEN row.last ELSE StartTime

\* One subscription at time n: what its requests have taken in this period is in
\* the row or was returned by requests of earlier periods, and every reset at a
\* boundary moved the row's boundary on by a period.
SubOK(s, row, count, tk, lt, n) ==
  /\ row \in QuotaRow /\ count \in ResetsCounted /\ tk \in Int /\ lt \in Nat
  /\ row.used <= TotalOf[s] /\ tk <= row.used + lt
  /\ BaseOf(row) <= n
  /\ ~count.setBack => count.auto * Period <= BaseOf(row) - StartTime

\* A request's clock reading is not in the future.
SubRequestOK(x, n) ==
  \/ x.pc \in {"new", "done"}
  \/ x.pc = "pre" /\ x.amount \in Nat /\ x.at \in Nat /\ x.at <= n
  \/ x.pc = "held" /\ x.amount \in Nat /\ x.sub \in Running

PassOK(x, n) ==
  \/ x.pc = "idle"
  \/ x \in [pc: {"reset"}, at: Nat, due: SUBSET Running] /\ x.at <= n

AdminOK(x, n) == x \in [begun: Nat, at: Nat] /\ x.at <= n

\* What the rows and the histories are functions of.
SubShape ==
  /\ quotaRow = [s \in Running |-> quotaRow[s]] /\ resets = [s \in Running |-> resets[s]]
  /\ taken = [s \in Running |-> taken[s]] /\ late = [s \in Running |-> late[s]]
  /\ request = [r \in SubRequests |-> request[r]]

EverySubOK(rows, counts, tk, lt, n) ==
  \A s \in Running : SubOK(s, rows[s], counts[s], tk[s], lt[s], n)

SubQuotaInv ==
  /\ now \in Nat /\ StartTime <= now
  /\ SubShape
  /\ EverySubOK(quotaRow, resets, taken, late, now)
  /\ \A r \in SubRequests : SubRequestOK(request[r], now)
  /\ PassOK(resetPass, now)
  /\ AdminOK(adminReset, now)

\* Whole periods.
LEMMA Divided ==
  ASSUME NEW n \in Nat, NEW p \in Nat \ {0}
  PROVE  n \div p \in Nat /\ p * (n \div p) <= n /\ n < p * (n \div p) + p
OBVIOUS

\* A number of whole periods that fit is at most the quotient.
LEMMA WholePeriods ==
  ASSUME NEW n \in Nat, NEW p \in Nat \ {0}, NEW a \in Nat, a * p <= n
  PROVE  a <= n \div p
<1>1. PICK q \in Nat : q = n \div p /\ n < p * q + p
  BY Divided
<1>2. SUFFICES ASSUME a >= q + 1 PROVE FALSE
  BY <1>1
<1>3. PICK d \in Nat : a = q + 1 + d
  BY <1>2
<1>4. a * p = p * q + p + d * p
  BY <1>3
<1>5. d * p \in Nat /\ p * q \in Nat
  OBVIOUS
<1> QED BY <1>1, <1>4, <1>5

\* Boundaries that have passed.
LEMMA PassedOK ==
  ASSUME NEW s \in Running, NEW base \in Nat, NEW at \in Nat
  PROVE  /\ Passed(s, base, at) \in Nat
         /\ Passed(s, base, at) > 0 => base + Period * Passed(s, base, at) <= at
<1>0. EndOf[s] \in Nat /\ Period \in Nat \ {0}
  BY SubscriptionQuotaAssumption
<1>1. PICK l : l = IF at < EndOf[s] THEN at ELSE EndOf[s]
  OBVIOUS
<1>2. l \in Nat /\ l <= at
  BY <1>0, <1>1
<1>3. Passed(s, base, at) = IF l < base THEN 0 ELSE (l - base) \div Period
  BY <1>1 DEF Passed
<1>4. CASE l < base
  BY <1>3, <1>4
<1>5. CASE ~(l < base)
  <2>1. PICK n \in Nat : n = l - base
    BY <1>2, <1>5
  <2>2. n \div Period \in Nat /\ Period * (n \div Period) <= n
    BY <1>0, Divided
  <2>3. PICK q \in Nat : q = Passed(s, base, at) /\ Period * q <= n /\ Period * q \in Nat
    BY <1>0, <1>3, <1>5, <2>1, <2>2
  <2>4. base + Period * q <= at
    BY <1>2, <2>1, <2>3
  <2> QED BY <2>3, <2>4
<1> QED BY <1>4, <1>5

\* The next boundary.
LEMMA NextResetOK ==
  ASSUME NEW s \in Running, NEW base \in Nat
  PROVE  NextReset(s, base) \in Nat
BY SubscriptionQuotaAssumption DEF NextReset

\* A row that is looked at is reset and moves to a later boundary that has
\* passed, or keeps what is used and its boundary.
LEMMA MaybeResetOK ==
  ASSUME NEW s \in Running, quotaRow[s] \in QuotaRow, NEW at \in Nat
  PROVE  LET row == quotaRow[s]
             new == MaybeReset(s, at)
         IN /\ new \in QuotaRow
            /\ Resets(s, at) =>
                 new.used = 0 /\ BaseOf(new) >= BaseOf(row) + Period /\ BaseOf(new) <= at
            /\ ~Resets(s, at) => new.used = row.used /\ BaseOf(new) = BaseOf(row)
<1>1. PICK row : row = quotaRow[s]
  OBVIOUS
<1>2. PICK new : new = MaybeReset(s, at)
  OBVIOUS
<1>3. PICK base : base = BaseOf(row)
  OBVIOUS
<1>4. row \in QuotaRow /\ row.used \in Nat /\ row.last \in Nat /\ row.next \in Nat
  BY <1>1 DEF QuotaRow
<1>5. base \in Nat /\ base > 0 /\ Period \in Nat \ {0}
  BY <1>3, <1>4, SubscriptionQuotaAssumption DEF BaseOf, StartTime
<1>6. /\ new = IF row.next > 0 /\ row.next > at THEN row
               ELSE IF Passed(s, base, at) > 0 THEN Advanced(s, row, base, at)
               ELSE IF row.next = 0 /\ NextReset(s, base) > 0
               THEN [row EXCEPT !.next = NextReset(s, base), !.last = base]
               ELSE row
      /\ Resets(s, at) <=> (row.next = 0 \/ row.next <= at) /\ Passed(s, base, at) > 0
  BY <1>1, <1>2, <1>3 DEF MaybeReset, Resets, BaseOf
<1>7. PICK q \in Nat : q = Passed(s, base, at) /\ (q > 0 => base + Period * q <= at)
  BY <1>5, PassedOK
<1>8. CASE row.next > 0 /\ row.next > at
  <2>1. new = row /\ ~Resets(s, at)
    BY <1>4, <1>6, <1>8
  <2> QED BY <1>1, <1>2, <1>4, <2>1
<1>9. CASE ~(row.next > 0 /\ row.next > at) /\ q > 0
  <2>1. Resets(s, at)
    BY <1>4, <1>6, <1>7, <1>9
  <2>2. PICK last : last = base + Period * q
    OBVIOUS
  <2>3. last \in Nat /\ last >= base + Period /\ last > 0 /\ last <= at
    <3>1. PICK d \in Nat : q = d + 1
      BY <1>9
    <3>2. Period * q = Period * d + Period /\ Period * d \in Nat
      BY <1>5, <3>1
    <3> QED BY <1>5, <1>7, <1>9, <2>2, <3>2
  <2>4. new = [used |-> 0, last |-> last, next |-> NextReset(s, last)]
    BY <1>6, <1>7, <1>9, <2>2 DEF Advanced
  <2>5. new \in QuotaRow /\ new.used = 0 /\ BaseOf(new) = last
    BY <2>3, <2>4, NextResetOK DEF QuotaRow, BaseOf
  <2> QED BY <1>1, <1>2, <1>3, <2>1, <2>3, <2>5
<1>10. CASE ~(row.next > 0 /\ row.next > at) /\ ~(q > 0) /\ row.next = 0 /\ NextReset(s, base) > 0
  <2>1. PICK n \in Nat : n = NextReset(s, base)
    BY <1>5, NextResetOK
  <2>2. new = [row EXCEPT !.next = n, !.last = base] /\ ~Resets(s, at)
    BY <1>6, <1>7, <1>10, <2>1
  <2>3. new \in QuotaRow /\ new.used = row.used /\ new.last = base
    BY <1>4, <1>5, <2>1, <2>2 DEF QuotaRow
  <2>4. BaseOf(new) = base
    BY <1>5, <2>3 DEF BaseOf
  <2> QED BY <1>1, <1>2, <1>3, <2>2, <2>3, <2>4
<1>11. CASE /\ ~(row.next > 0 /\ row.next > at) /\ ~(q > 0)
            /\ ~(row.next = 0 /\ NextReset(s, base) > 0)
  <2>1. new = row /\ ~Resets(s, at)
    BY <1>6, <1>7, <1>11
  <2> QED BY <1>1, <1>2, <1>4, <2>1
<1> QED BY <1>8, <1>9, <1>10, <1>11

\* A count of resets, one more.
LEMMA CountedOK ==
  ASSUME NEW c \in ResetsCounted
  PROVE  LET d == [c EXCEPT !.auto = @ + 1, !.all = @ + 1]
         IN d \in ResetsCounted /\ d.auto = c.auto + 1 /\ d.setBack = c.setBack
<1>1. c.auto \in Nat /\ c.all \in Nat
  BY DEF ResetsCounted
<1>2. PICK i \in Nat : i = c.auto + 1
  BY <1>1
<1>3. PICK j \in Nat : j = c.all + 1
  BY <1>1
<1>4. PICK d : d = [c EXCEPT !.auto = i, !.all = j]
  OBVIOUS
<1>5. d = [c EXCEPT !.auto = @ + 1, !.all = @ + 1]
  BY <1>2, <1>3, <1>4
<1>6. d \in ResetsCounted /\ d.auto = i /\ d.setBack = c.setBack
  BY <1>4 DEF ResetsCounted
<1> QED BY <1>2, <1>5, <1>6

\* Looking at a row keeps what is known of its subscription.
LEMMA LookedAtOK ==
  ASSUME NEW s \in Running, NEW at \in Nat, NEW n \in Nat, at <= n,
         SubOK(s, quotaRow[s], resets[s], taken[s], late[s], n)
  PROVE  /\ Resets(s, at) =>
              SubOK(s, MaybeReset(s, at), [resets[s] EXCEPT !.auto = @ + 1, !.all = @ + 1],
                    0, 0, n)
         /\ ~Resets(s, at) => SubOK(s, MaybeReset(s, at), resets[s], taken[s], late[s], n)
<1>1. PICK row : row = quotaRow[s]
  OBVIOUS
<1>2. PICK new : new = MaybeReset(s, at)
  OBVIOUS
<1>3. PICK c : c = resets[s]
  OBVIOUS
<1>4. /\ row \in QuotaRow /\ c \in ResetsCounted /\ taken[s] \in Int /\ late[s] \in Nat
      /\ row.used <= TotalOf[s] /\ taken[s] <= row.used + late[s]
      /\ BaseOf(row) <= n
      /\ ~c.setBack => c.auto * Period <= BaseOf(row) - StartTime
  BY <1>1, <1>3 DEF SubOK
<1>5. /\ new \in QuotaRow
      /\ Resets(s, at) =>
           new.used = 0 /\ BaseOf(new) >= BaseOf(row) + Period /\ BaseOf(new) <= at
      /\ ~Resets(s, at) => new.used = row.used /\ BaseOf(new) = BaseOf(row)
  BY <1>1, <1>2, <1>4, MaybeResetOK
<1>6. /\ BaseOf(new) \in Nat /\ BaseOf(row) \in Nat /\ Period \in Nat /\ TotalOf[s] \in Nat
      /\ c.auto \in Nat /\ StartTime \in Nat
  BY <1>4, <1>5, SubscriptionQuotaAssumption DEF BaseOf, QuotaRow, ResetsCounted, StartTime
<1>7. ASSUME ~Resets(s, at) PROVE SubOK(s, new, c, taken[s], late[s], n)
  BY <1>4, <1>5, <1>7 DEF SubOK
<1>8. ASSUME Resets(s, at)
      PROVE  SubOK(s, new, [c EXCEPT !.auto = @ + 1, !.all = @ + 1], 0, 0, n)
  <2>1. PICK d : d = [c EXCEPT !.auto = @ + 1, !.all = @ + 1]
    OBVIOUS
  <2>2. d \in ResetsCounted /\ d.auto = c.auto + 1 /\ d.setBack = c.setBack
    BY <1>4, <2>1, CountedOK
  <2>3. ~d.setBack => d.auto * Period <= BaseOf(new) - StartTime
    <3> SUFFICES ASSUME ~d.setBack PROVE d.auto * Period <= BaseOf(new) - StartTime
      OBVIOUS
    <3>1. c.auto * Period <= BaseOf(row) - StartTime
      BY <1>4, <2>2
    <3>2. d.auto * Period = c.auto * Period + Period /\ c.auto * Period \in Nat
      <4>1. PICK i \in Nat : i = c.auto
        BY <1>6
      <4>2. (i + 1) * Period = i * Period + Period /\ i * Period \in Nat
        BY <1>6
      <4> QED BY <2>2, <4>1, <4>2
    <3>3. BaseOf(new) >= BaseOf(row) + Period
      BY <1>5, <1>8
    <3> HIDE DEF BaseOf
    <3> QED BY <1>6, <3>1, <3>2, <3>3
  <2>4. new.used = 0 /\ BaseOf(new) <= n
    BY <1>5, <1>6, <1>8
  <2>5. new.used <= TotalOf[s] /\ 0 <= new.used + 0
    BY <1>6, <2>4
  <2> QED BY <1>5, <2>1, <2>2, <2>3, <2>4, <2>5 DEF SubOK
<1> QED BY <1>2, <1>3, <1>7, <1>8

\* Taking what the row has left.
LEMMA TakenOK ==
  ASSUME NEW s \in Running, NEW row, NEW c, NEW tk, NEW lt, NEW n, SubOK(s, row, c, tk, lt, n),
         NEW a \in Nat, TotalOf[s] - row.used >= a
  PROVE  SubOK(s, [row EXCEPT !.used = @ + a], c, tk + a, lt, n)
<1>1. row \in QuotaRow /\ row.used \in Nat /\ TotalOf[s] \in Nat /\ tk \in Int /\ lt \in Nat
  BY SubscriptionQuotaAssumption DEF SubOK, QuotaRow
<1>2. PICK u \in Nat : u = row.used + a
  BY <1>1
<1>3. PICK new : new = [row EXCEPT !.used = u]
  OBVIOUS
<1>4. new = [row EXCEPT !.used = @ + a]
  BY <1>2, <1>3
<1>5. new \in QuotaRow /\ new.used = u /\ new.last = row.last
  BY <1>1, <1>3 DEF QuotaRow
<1>6. BaseOf(new) = BaseOf(row)
  BY <1>5 DEF BaseOf
<1>7. tk <= row.used + lt
  BY DEF SubOK
<1>8. u <= TotalOf[s] /\ tk + a <= u + lt /\ tk + a \in Int
  BY <1>1, <1>2, <1>7
<1>9. SubOK(s, new, c, tk + a, lt, n)
  BY <1>5, <1>6, <1>8 DEF SubOK
<1> QED BY <1>4, <1>9

\* Time goes on.
LEMMA SubOKLater ==
  ASSUME NEW s \in Running, NEW row, NEW c, NEW tk, NEW lt, NEW n \in Nat,
         SubOK(s, row, c, tk, lt, n)
  PROVE  SubOK(s, row, c, tk, lt, n + 1)
<1>1. BaseOf(row) \in Nat /\ BaseOf(row) <= n
  BY DEF SubOK, BaseOf, QuotaRow, StartTime
<1>2. BaseOf(row) <= n + 1
  BY <1>1
<1> QED BY <1>2 DEF SubOK

\* A request settles or gives back, in its period or later.
LEMMA SettledOK ==
  ASSUME NEW s \in Running, NEW row, NEW c, NEW tk, NEW lt, NEW n, SubOK(s, row, c, tk, lt, n),
         NEW delta \in Int, NEW same, Fits(s, Floored(row.used + delta)),
         NEW tk2, NEW lt2, tk2 = IF same THEN tk + delta ELSE tk,
         lt2 = IF ~same /\ delta < 0 THEN lt - delta ELSE lt
  PROVE  SubOK(s, [row EXCEPT !.used = Floored(row.used + delta)], c, tk2, lt2, n)
<1>1. /\ row \in QuotaRow /\ row.used \in Nat /\ TotalOf[s] \in Nat /\ tk \in Int /\ lt \in Nat
      /\ tk <= row.used + lt
  BY SubscriptionQuotaAssumption DEF SubOK, QuotaRow
<1>2. PICK u \in Nat : u = Floored(row.used + delta) /\ u >= row.used + delta
  BY <1>1 DEF Floored
<1>3. PICK new : new = [row EXCEPT !.used = u]
  OBVIOUS
<1>4. new \in QuotaRow /\ new.used = u /\ new.last = row.last
  BY <1>1, <1>3 DEF QuotaRow
<1>5. BaseOf(new) = BaseOf(row)
  BY <1>4 DEF BaseOf
<1>6. u <= TotalOf[s]
  BY <1>2 DEF Fits
<1>7. tk2 \in Int /\ lt2 \in Nat /\ tk2 <= u + lt2
  <2>1. CASE same
    BY <1>1, <1>2, <2>1
  <2>2. CASE ~same /\ delta < 0
    BY <1>1, <1>2, <2>2
  <2>3. CASE ~same /\ ~(delta < 0)
    BY <1>1, <1>2, <2>3
  <2> QED BY <2>1, <2>2, <2>3
<1>8. SubOK(s, new, c, tk2, lt2, n)
  BY <1>4, <1>5, <1>6, <1>7 DEF SubOK
<1> QED BY <1>2, <1>3, <1>8

\* One request changes.
LEMMA RequestSet ==
  ASSUME SubQuotaInv, NEW r \in SubRequests, NEW x, SubRequestOK(x, now),
         request' = [request EXCEPT ![r] = x]
  PROVE  /\ request' = [q \in SubRequests |-> request'[q]]
         /\ \A q \in SubRequests : SubRequestOK(request'[q], now)
<1>1. request' = [q \in SubRequests |-> IF q = r THEN x ELSE request[q]]
  BY DEF SubQuotaInv, SubShape
<1>2. \A q \in SubRequests : request'[q] = IF q = r THEN x ELSE request[q]
  BY <1>1
<1>3. \A q \in SubRequests : SubRequestOK(request'[q], now)
  BY <1>2 DEF SubQuotaInv
<1> QED BY <1>1, <1>3

\* A request begins.
LEMMA PreConsumeStartInv ==
  ASSUME SubQuotaInv, NEW r \in SubRequests, NEW a \in SubAmounts, PreConsumeStart(r, a)
  PROVE  SubQuotaInv'
<1>1. PICK x : x = [pc |-> "pre", amount |-> a, at |-> now]
  OBVIOUS
<1>2. /\ request' = [request EXCEPT ![r] = x]
      /\ UNCHANGED <<now, quotaRow, resetPass, adminReset, resets, taken, late>>
  BY <1>1 DEF PreConsumeStart
<1>3. SubRequestOK(x, now)
  BY <1>1, SubscriptionQuotaAssumption DEF SubRequestOK, SubQuotaInv
<1>4. /\ request' = [q \in SubRequests |-> request'[q]]
      /\ \A q \in SubRequests : SubRequestOK(request'[q], now)
  BY <1>2, <1>3, RequestSet
<1> QED BY <1>2, <1>4 DEF SubQuotaInv, SubShape

\* The subscriptions looked at before s, and s.
Tried(s, at) == {t \in Running : IsActive(t, at) /\ t <= s}

\* What a reservation does, where reset are the rows that it resets.
TakesFrom(r, a, s, at, tried, reset) ==
  /\ quotaRow' = [t \in Running |->
       LET row == IF t \in tried THEN MaybeReset(t, at) ELSE quotaRow[t]
       IN IF t = s THEN [row EXCEPT !.used = @ + a] ELSE row]
  /\ CountResets(reset)
  /\ request' = [request EXCEPT ![r] =
       [pc |-> "held", amount |-> a, sub |-> s, period |-> resets'[s].all]]
  /\ taken' = [t \in Running |-> (IF t \in reset THEN 0 ELSE taken[t])
                                 + (IF t = s THEN a ELSE 0)]
  /\ late' = [t \in Running |-> IF t \in reset THEN 0 ELSE late[t]]

\* A reservation finds nothing or takes from one subscription.
LEMMA PreConsumeCases ==
  ASSUME NEW r, PreConsume(r)
  PROVE  \/ request' = [request EXCEPT ![r] = [pc |-> "done"]] /\ UNCHANGED <<quotaRow, resets, taken, late>>
         \/ \E s \in {s \in Running : IsActive(s, request[r].at) /\ Enough(s, request[r].amount, request[r].at)} :
              TakesFrom(r, request[r].amount, s, request[r].at, Tried(s, request[r].at),
                        {t \in Tried(s, request[r].at) : Resets(t, request[r].at)})
BY Zenon DEF PreConsume, TakesFrom, Tried

\* The request takes from the first subscription that has enough, and those
\* before it are looked at.
LEMMA PreConsumeInv ==
  ASSUME SubQuotaInv, NEW r \in SubRequests, PreConsume(r)
  PROVE  SubQuotaInv'
<1>1. PICK at : at = request[r].at
  OBVIOUS
<1>2. PICK a : a = request[r].amount
  OBVIOUS
<1>3. request[r].pc = "pre" /\ UNCHANGED <<now, resetPass, adminReset>>
  BY DEF PreConsume
<1>4. at \in Nat /\ at <= now /\ a \in Nat /\ now \in Nat
  BY <1>1, <1>2, <1>3 DEF SubQuotaInv, SubRequestOK
<1>5. SubRequestOK([pc |-> "done"], now)
  BY DEF SubRequestOK
<1> DEFINE fit == {s \in Running : IsActive(s, at) /\ Enough(s, a, at)}
<1>6. CASE request' = [request EXCEPT ![r] = [pc |-> "done"]] /\ UNCHANGED <<quotaRow, resets, taken, late>>
  <2>1. /\ request' = [q \in SubRequests |-> request'[q]]
        /\ \A q \in SubRequests : SubRequestOK(request'[q], now)
    BY <1>5, <1>6, RequestSet
  <2> QED BY <1>3, <1>6, <2>1 DEF SubQuotaInv, SubShape
<1>7. ASSUME NEW s \in fit, NEW tried, tried = Tried(s, at),
             NEW reset, reset = {t \in tried : Resets(t, at)},
             TakesFrom(r, a, s, at, tried, reset)
      PROVE  SubQuotaInv'
  <2>1. PICK x : x = [pc |-> "held", amount |-> a, sub |-> s, period |-> resets'[s].all]
    OBVIOUS
  <2>2. SubRequestOK(x, now)
    BY <1>4, <2>1 DEF SubRequestOK
  <2>3. /\ request' = [q \in SubRequests |-> request'[q]]
        /\ \A q \in SubRequests : SubRequestOK(request'[q], now)
    BY <1>7, <2>1, <2>2, RequestSet DEF TakesFrom
  <2>4. s \in Running /\ s \in tried /\ TotalOf[s] - MaybeReset(s, at).used >= a
    <3>1. s \in Running /\ IsActive(s, at) /\ Enough(s, a, at) /\ s <= s
      BY SubscriptionQuotaAssumption
    <3> QED BY <1>7, <3>1 DEF Enough, Tried
  <2>5. ASSUME NEW t \in Running
        PROVE  SubOK(t, quotaRow'[t], resets'[t], taken'[t], late'[t], now)
    <3>1. PICK row : row = IF t \in tried THEN MaybeReset(t, at) ELSE quotaRow[t]
      OBVIOUS
    <3>2. PICK tk : tk = IF t \in reset THEN 0 ELSE taken[t]
      OBVIOUS
    <3>3. resets'[t] = IF t \in reset THEN [resets[t] EXCEPT !.auto = @ + 1, !.all = @ + 1]
                       ELSE resets[t]
      BY <1>7 DEF CountResets, TakesFrom
    <3>4. late'[t] = IF t \in reset THEN 0 ELSE late[t]
      BY <1>7 DEF TakesFrom
    <3>5. SubOK(t, quotaRow[t], resets[t], taken[t], late[t], now)
      BY DEF SubQuotaInv, EverySubOK
    <3>6. SubOK(t, row, resets'[t], tk, late'[t], now)
      <4>1. CASE t \in tried /\ Resets(t, at)
        <5>1. t \in reset
          BY <1>7, <4>1
        <5> QED BY <1>4, <3>1, <3>2, <3>3, <3>4, <3>5, <4>1, <5>1, LookedAtOK
      <4>2. CASE t \in tried /\ ~Resets(t, at)
        <5>1. t \notin reset
          BY <1>7, <4>2
        <5> QED BY <1>4, <3>1, <3>2, <3>3, <3>4, <3>5, <4>2, <5>1, LookedAtOK
      <4>3. CASE t \notin tried
        <5>1. t \notin reset
          BY <1>7, <4>3
        <5> QED BY <3>1, <3>2, <3>3, <3>4, <3>5, <4>3, <5>1
      <4> QED BY <4>1, <4>2, <4>3
    <3>7. tk \in Int
      BY <3>6 DEF SubOK
    <3>8. CASE t = s
      <4>1. TotalOf[t] - row.used >= a
        BY <2>4, <3>1, <3>8
      <4>2. SubOK(t, [row EXCEPT !.used = @ + a], resets'[t], tk + a, late'[t], now)
        BY <1>4, <3>6, <4>1, TakenOK
      <4>3. quotaRow'[t] = [row EXCEPT !.used = @ + a]
        BY <1>7, <3>1, <3>8 DEF TakesFrom
      <4>4. taken'[t] = tk + a
        BY <1>7, <3>2, <3>8 DEF TakesFrom
      <4> QED BY <4>2, <4>3, <4>4
    <3>9. CASE t # s
      <4>1. quotaRow'[t] = row
        BY <1>7, <3>1, <3>9 DEF TakesFrom
      <4>2. taken'[t] = tk + 0
        BY <1>7, <3>2, <3>9 DEF TakesFrom
      <4>3. taken'[t] = tk
        BY <3>7, <4>2
      <4> QED BY <3>6, <4>1, <4>3
    <3> QED BY <3>8, <3>9
  <2>6. /\ quotaRow' = [t \in Running |-> quotaRow'[t]] /\ taken' = [t \in Running |-> taken'[t]]
        /\ late' = [t \in Running |-> late'[t]] /\ resets' = [t \in Running |-> resets'[t]]
    <3>1. quotaRow' = [t \in Running |-> quotaRow'[t]]
      BY <1>7 DEF TakesFrom
    <3>2. taken' = [t \in Running |-> taken'[t]]
      BY <1>7 DEF TakesFrom
    <3>3. late' = [t \in Running |-> late'[t]]
      BY <1>7 DEF TakesFrom
    <3>4. resets' = [t \in Running |-> resets'[t]]
      BY <1>7 DEF CountResets, TakesFrom
    <3> QED BY <3>1, <3>2, <3>3, <3>4
  <2>7. now' = now /\ EverySubOK(quotaRow', resets', taken', late', now)
    BY <1>3, <2>5 DEF EverySubOK
  <2> QED BY <1>3, <2>3, <2>6, <2>7 DEF SubQuotaInv, SubShape
<1>8. CASE \E s \in fit :
             TakesFrom(r, a, s, at, Tried(s, at), {t \in Tried(s, at) : Resets(t, at)})
  <2>1. PICK s \in fit :
             TakesFrom(r, a, s, at, Tried(s, at), {t \in Tried(s, at) : Resets(t, at)})
    BY <1>8
  <2>2. PICK tried : tried = Tried(s, at)
    OBVIOUS
  <2>3. PICK reset : reset = {t \in tried : Resets(t, at)}
    OBVIOUS
  <2>4. TakesFrom(r, a, s, at, tried, reset)
    BY <2>1, <2>2, <2>3
  <2> QED BY <1>7, <2>2, <2>3, <2>4
<1>9. \/ request' = [request EXCEPT ![r] = [pc |-> "done"]] /\ UNCHANGED <<quotaRow, resets, taken, late>>
      \/ \E s \in fit :
             TakesFrom(r, a, s, at, Tried(s, at), {t \in Tried(s, at) : Resets(t, at)})
  BY <1>1, <1>2, PreConsumeCases
<1> QED BY <1>6, <1>8, <1>9

\* A request settles, or is refunded.
LEMMA PostConsumeInv ==
  ASSUME SubQuotaInv, NEW r \in SubRequests, NEW delta \in Int, PostConsumeDelta(r, delta)
  PROVE  SubQuotaInv'
<1>1. PICK s : s = request[r].sub
  OBVIOUS
<1>2. request[r].pc = "held" /\ UNCHANGED <<now, resetPass, adminReset, resets>>
  BY DEF PostConsumeDelta
<1>3. s \in Running
  BY <1>1, <1>2 DEF SubQuotaInv, SubRequestOK
<1>4. request' = [request EXCEPT ![r] = [pc |-> "done"]] /\ SubRequestOK([pc |-> "done"], now)
  BY DEF PostConsumeDelta, SubRequestOK
<1>5. /\ request' = [q \in SubRequests |-> request'[q]]
      /\ \A q \in SubRequests : SubRequestOK(request'[q], now)
  BY <1>4, RequestSet
<1>6. PICK u : u = Floored(quotaRow[s].used + delta)
  OBVIOUS
<1>7. CASE ~Fits(s, u)
  <2>1. UNCHANGED <<quotaRow, taken, late>>
    BY <1>1, <1>6, <1>7 DEF PostConsumeDelta
  <2> QED BY <1>2, <1>5, <2>1 DEF SubQuotaInv, SubShape
<1>8. CASE Fits(s, u)
  <2>1. PICK same \in BOOLEAN : same = (request[r].period = resets[s].all)
    OBVIOUS
  <2>2. /\ quotaRow' = [quotaRow EXCEPT ![s].used = u]
        /\ taken' = IF same THEN [taken EXCEPT ![s] = @ + delta] ELSE taken
        /\ late' = IF ~same /\ delta < 0 THEN [late EXCEPT ![s] = @ - delta] ELSE late
    BY <1>1, <1>6, <1>8, <2>1 DEF PostConsumeDelta
  <2>3. /\ quotaRow = [t \in Running |-> quotaRow[t]] /\ taken = [t \in Running |-> taken[t]]
        /\ late = [t \in Running |-> late[t]]
    BY DEF SubQuotaInv, SubShape
  <2>4. SubOK(s, quotaRow[s], resets[s], taken[s], late[s], now)
    BY <1>3 DEF SubQuotaInv, EverySubOK
  <2>5. PICK row : row = [quotaRow[s] EXCEPT !.used = u]
    OBVIOUS
  <2>6. /\ quotaRow' = [t \in Running |-> quotaRow'[t]]
        /\ quotaRow'[s] = row /\ \A t \in Running : t # s => quotaRow'[t] = quotaRow[t]
    BY <1>3, <2>2, <2>3, <2>5
  <2>7. /\ taken' = [t \in Running |-> taken'[t]]
        /\ taken'[s] = IF same THEN taken[s] + delta ELSE taken[s]
        /\ \A t \in Running : t # s => taken'[t] = taken[t]
    BY <1>3, <2>2, <2>3
  <2>8. /\ late' = [t \in Running |-> late'[t]]
        /\ late'[s] = IF ~same /\ delta < 0 THEN late[s] - delta ELSE late[s]
        /\ \A t \in Running : t # s => late'[t] = late[t]
    BY <1>3, <2>2, <2>3
  <2>9. SubOK(s, quotaRow'[s], resets[s], taken'[s], late'[s], now)
    BY <1>3, <1>6, <1>8, <2>4, <2>5, <2>6, <2>7, <2>8, SettledOK
  <2>10. EverySubOK(quotaRow', resets, taken', late', now)
    BY <2>6, <2>7, <2>8, <2>9 DEF SubQuotaInv, EverySubOK
  <2> QED BY <1>2, <1>5, <2>6, <2>7, <2>8, <2>10 DEF SubQuotaInv, SubShape
<1> QED BY <1>7, <1>8

\* The maintenance pass lists what is due.
LEMMA ResetStartInv ==
  ASSUME SubQuotaInv, ResetStart
  PROVE  SubQuotaInv'
<1>1. PICK due \in SUBSET Running : resetPass' = [pc |-> "reset", at |-> now, due |-> due]
  BY DEF ResetStart
<1>2. UNCHANGED <<now, quotaRow, request, adminReset, resets, taken, late>>
  BY DEF ResetStart
<1>3. PassOK(resetPass', now)
  BY <1>1 DEF PassOK, SubQuotaInv
<1> QED BY <1>2, <1>3 DEF SubQuotaInv, SubShape

\* The pass looks at one row again.
LEMMA ResetOneInv ==
  ASSUME SubQuotaInv, NEW s \in Running, ResetOne(s)
  PROVE  SubQuotaInv'
<1>1. /\ resetPass.pc = "reset" /\ UNCHANGED <<now, request, adminReset>>
      /\ resetPass' = IF resetPass.due = {s} THEN NoPass
                      ELSE [resetPass EXCEPT !.due = @ \ {s}]
  BY DEF ResetOne
<1>2. resetPass \in [pc: {"reset"}, at: Nat, due: SUBSET Running] /\ resetPass.at <= now
  BY <1>1 DEF SubQuotaInv, PassOK
<1>3. PassOK(resetPass', now)
  <2>1. CASE resetPass.due = {s}
    BY <1>1, <2>1 DEF PassOK, NoPass
  <2>2. CASE resetPass.due # {s}
    <3>1. PICK d \in SUBSET Running : d = resetPass.due \ {s}
      BY <1>2
    <3>2. resetPass' = [resetPass EXCEPT !.due = d]
      BY <1>1, <2>2, <3>1
    <3> QED BY <1>2, <3>2 DEF PassOK
  <2> QED BY <2>1, <2>2
<1>4. PICK at \in Nat : at = resetPass.at
  BY <1>2
<1>5. CASE UNCHANGED <<quotaRow, resets, taken, late>>
  BY <1>1, <1>3, <1>5 DEF SubQuotaInv, SubShape
<1>6. ASSUME quotaRow' = [quotaRow EXCEPT ![s] = MaybeReset(s, at)],
             NEW reset, reset = {t \in {s} : Resets(t, at)}, CountResets(reset), Forget(reset)
      PROVE  SubQuotaInv'
  <2>1. quotaRow' = [t \in Running |-> IF t = s THEN MaybeReset(s, at) ELSE quotaRow[t]]
    BY <1>6 DEF SubQuotaInv, SubShape
  <2>2. ASSUME NEW t \in Running
        PROVE  SubOK(t, quotaRow'[t], resets'[t], taken'[t], late'[t], now)
    <3>1. resets'[t] = IF t \in reset THEN [resets[t] EXCEPT !.auto = @ + 1, !.all = @ + 1]
                       ELSE resets[t]
      BY <1>6 DEF CountResets
    <3>2. /\ taken'[t] = IF t \in reset THEN 0 ELSE taken[t]
          /\ late'[t] = IF t \in reset THEN 0 ELSE late[t]
      BY <1>6 DEF Forget
    <3>3. SubOK(t, quotaRow[t], resets[t], taken[t], late[t], now)
      BY DEF SubQuotaInv, EverySubOK
    <3>4. at <= now /\ now \in Nat
      BY <1>2, <1>4 DEF SubQuotaInv
    <3>5. CASE t = s /\ Resets(t, at)
      <4>1. t \in reset /\ quotaRow'[t] = MaybeReset(t, at)
        BY <1>6, <2>1, <3>5
      <4>2. SubOK(t, MaybeReset(t, at), [resets[t] EXCEPT !.auto = @ + 1, !.all = @ + 1], 0, 0, now)
        BY <3>3, <3>4, <3>5, LookedAtOK
      <4> QED BY <3>1, <3>2, <4>1, <4>2
    <3>6. CASE t = s /\ ~Resets(t, at)
      <4>1. t \notin reset /\ quotaRow'[t] = MaybeReset(t, at)
        BY <1>6, <2>1, <3>6
      <4> QED BY <3>1, <3>2, <3>3, <3>4, <3>6, <4>1, LookedAtOK
    <3>7. CASE t # s
      <4>1. t \notin reset /\ quotaRow'[t] = quotaRow[t]
        BY <1>6, <2>1, <3>7
      <4> QED BY <3>1, <3>2, <3>3, <4>1
    <3> QED BY <3>5, <3>6, <3>7
  <2>3. quotaRow' = [t \in Running |-> quotaRow'[t]]
    BY <2>1
  <2>4. resets' = [t \in Running |-> resets'[t]]
    BY <1>6 DEF CountResets
  <2>5. taken' = [t \in Running |-> taken'[t]]
    BY <1>6 DEF Forget
  <2>6. late' = [t \in Running |-> late'[t]]
    BY <1>6 DEF Forget
  <2>7. EverySubOK(quotaRow', resets', taken', late', now)
    BY <2>2 DEF EverySubOK
  <2> QED BY <1>1, <1>3, <2>3, <2>4, <2>5, <2>6, <2>7 DEF SubQuotaInv, SubShape
<1>7. \/ UNCHANGED <<quotaRow, resets, taken, late>>
      \/ /\ quotaRow' = [quotaRow EXCEPT ![s] = MaybeReset(s, at)]
         /\ CountResets({t \in {s} : Resets(t, at)}) /\ Forget({t \in {s} : Resets(t, at)})
  <2>1. \/ UNCHANGED <<quotaRow, resets, taken, late>>
        \/ /\ quotaRow' = [quotaRow EXCEPT ![s] = MaybeReset(s, resetPass.at)]
           /\ CountResets({t \in {s} : Resets(t, resetPass.at)})
           /\ Forget({t \in {s} : Resets(t, resetPass.at)})
    BY Zenon DEF ResetOne
  <2> QED BY <1>4, <2>1
<1>8. PICK reset : reset = {t \in {s} : Resets(t, at)}
  OBVIOUS
<1>9. \/ UNCHANGED <<quotaRow, resets, taken, late>>
      \/ /\ quotaRow' = [quotaRow EXCEPT ![s] = MaybeReset(s, at)]
         /\ CountResets(reset) /\ Forget(reset)
  BY <1>7, <1>8
<1> QED BY <1>5, <1>6, <1>8, <1>9

\* An administrator's reset reads the clock.
LEMMA AdminResetStartInv ==
  ASSUME SubQuotaInv, AdminResetStart
  PROVE  SubQuotaInv'
<1>1. /\ adminReset' = [begun |-> adminReset.begun + 1, at |-> now]
      /\ UNCHANGED <<now, quotaRow, request, resetPass, resets, taken, late>>
  BY DEF AdminResetStart
<1>2. adminReset.begun \in Nat
  BY DEF SubQuotaInv, AdminOK
<1>3. PICK k \in Nat : k = adminReset.begun + 1
  BY <1>2
<1>4. AdminOK(adminReset', now)
  BY <1>1, <1>3 DEF AdminOK, SubQuotaInv
<1> QED BY <1>1, <1>4 DEF SubQuotaInv, SubShape

\* A row after an administrator's reset: the boundary is not set back without
\* being noted.
LEMMA SetBackOK ==
  ASSUME NEW s \in Running, NEW row, NEW c, NEW tk, NEW lt, NEW n \in Nat, StartTime <= n,
         SubOK(s, row, c, tk, lt, n), NEW new \in QuotaRow, new.used = 0, new.last <= n,
         NEW d \in ResetsCounted, d.auto = c.auto, ~d.setBack => ~c.setBack /\ ~(new.last < row.last)
  PROVE  SubOK(s, new, d, 0, 0, n)
<1>1. /\ row \in QuotaRow /\ row.last \in Nat /\ new.last \in Nat /\ StartTime \in Nat
      /\ TotalOf[s] \in Nat
  BY SubscriptionQuotaAssumption DEF SubOK, QuotaRow, StartTime
<1>2. BaseOf(new) <= n /\ BaseOf(new) \in Nat /\ BaseOf(row) \in Nat
  BY <1>1 DEF BaseOf
<1>3. ~(new.last < row.last) => BaseOf(new) >= BaseOf(row)
  BY <1>1 DEF BaseOf, StartTime
<1>4. ASSUME ~d.setBack PROVE d.auto * Period <= BaseOf(new) - StartTime
  <2>1. c.auto * Period <= BaseOf(row) - StartTime /\ BaseOf(new) >= BaseOf(row)
    BY <1>3, <1>4 DEF SubOK
  <2>2. PICK k \in Nat : k = d.auto * Period /\ k = c.auto * Period
    BY SubscriptionQuotaAssumption DEF ResetsCounted
  <2> QED BY <1>1, <1>2, <2>1, <2>2
<1>5. new.used <= TotalOf[s] /\ 0 <= new.used + 0
  BY <1>1
<1> QED BY <1>2, <1>4, <1>5 DEF SubOK

\* An administrator resets the running subscriptions.
LEMMA AdminResetInv ==
  ASSUME SubQuotaInv, NEW advance \in BOOLEAN, AdminReset(advance)
  PROVE  SubQuotaInv'
<1>1. PICK at : at = adminReset.at
  OBVIOUS
<1>2. /\ at > 0 /\ adminReset' = [adminReset EXCEPT !.at = 0]
      /\ UNCHANGED <<now, request, resetPass>>
  BY <1>1 DEF AdminReset
<1>3. adminReset \in [begun: Nat, at: Nat] /\ at \in Nat /\ at <= now /\ now \in Nat /\ StartTime <= now
  BY <1>1 DEF SubQuotaInv, AdminOK
<1>4. AdminOK(adminReset', now)
  BY <1>2, <1>3 DEF AdminOK
<1> DEFINE S == {s \in Running : IsActive(s, at)}
           Row(s) == IF ~advance THEN [quotaRow[s] EXCEPT !.used = 0]
                     ELSE [used |-> 0, next |-> NextReset(s, at),
                           last |-> IF NextReset(s, at) > 0 THEN at ELSE 0]
           Count(s) == [resets[s] EXCEPT !.all = @ + 1,
                                         !.setBack = @ \/ Row(s).last < quotaRow[s].last]
<1>5. quotaRow' = [s \in Running |-> IF s \in S THEN Row(s) ELSE quotaRow[s]]
  BY <1>1, Zenon DEF AdminReset
<1>6. resets' = [s \in Running |-> IF s \notin S THEN resets[s] ELSE Count(s)]
  BY <1>1, Zenon DEF AdminReset
<1>7. /\ taken' = [s \in Running |-> IF s \in S THEN 0 ELSE taken[s]]
      /\ late' = [s \in Running |-> IF s \in S THEN 0 ELSE late[s]]
  BY <1>1, Zenon DEF AdminReset, Forget
<1>8. ASSUME NEW s \in Running
      PROVE  SubOK(s, quotaRow'[s], resets'[s], taken'[s], late'[s], now)
  <2>1. SubOK(s, quotaRow[s], resets[s], taken[s], late[s], now)
    BY DEF SubQuotaInv, EverySubOK
  <2>2. CASE s \notin S
    <3>1. /\ quotaRow'[s] = quotaRow[s] /\ resets'[s] = resets[s] /\ taken'[s] = taken[s]
          /\ late'[s] = late[s]
      BY <1>5, <1>6, <1>7, <2>2
    <3> QED BY <2>1, <3>1
  <2>3. CASE s \in S
    <3>1. PICK new : new = Row(s)
      OBVIOUS
    <3>2. new \in QuotaRow /\ new.used = 0 /\ new.last <= now
      <4>1. CASE ~advance
        <5>1. quotaRow[s] \in QuotaRow /\ BaseOf(quotaRow[s]) <= now
          BY <2>1 DEF SubOK
        <5>2. quotaRow[s].last \in Nat /\ quotaRow[s].last <= now
          BY <1>3, <5>1 DEF QuotaRow, BaseOf, StartTime
        <5>3. new = [quotaRow[s] EXCEPT !.used = 0]
          BY <3>1, <4>1
        <5> QED BY <5>1, <5>2, <5>3 DEF QuotaRow
      <4>2. CASE advance
        <5>1. PICK k \in Nat : k = NextReset(s, at)
          BY <1>3, NextResetOK
        <5>2. PICK l \in Nat : l = (IF k > 0 THEN at ELSE 0) /\ l <= now
          BY <1>3
        <5>3. new = [used |-> 0, next |-> k, last |-> l]
          BY <3>1, <4>2, <5>1, <5>2
        <5> QED BY <5>2, <5>3 DEF QuotaRow
      <4> QED BY <4>1, <4>2
    <3>3. PICK c : c = resets[s]
      OBVIOUS
    <3>4. c \in ResetsCounted /\ c.all \in Nat /\ c.setBack \in BOOLEAN
      BY <2>1, <3>3 DEF SubOK, ResetsCounted
    <3>5. PICK j \in Nat : j = c.all + 1
      BY <3>4
    <3>6. PICK b \in BOOLEAN : b = (c.setBack \/ new.last < quotaRow[s].last)
      OBVIOUS
    <3>7. PICK d : d = [c EXCEPT !.all = j, !.setBack = b]
      OBVIOUS
    <3>8. d \in ResetsCounted /\ d.auto = c.auto /\ d.setBack = b
      BY <3>4, <3>7 DEF ResetsCounted
    <3>9. d = Count(s)
      BY <3>1, <3>3, <3>5, <3>6, <3>7
    <3>10. ~d.setBack => ~c.setBack /\ ~(new.last < quotaRow[s].last)
      BY <3>6, <3>8
    <3>11. SubOK(s, new, d, 0, 0, now)
      BY <1>3, <2>1, <3>2, <3>3, <3>8, <3>10, SetBackOK
    <3>12. quotaRow'[s] = new /\ taken'[s] = 0 /\ late'[s] = 0
      BY <1>5, <1>7, <2>3, <3>1
    <3>13. resets'[s] = d
      BY <1>6, <2>3, <3>9
    <3> QED BY <3>11, <3>12, <3>13
  <2> QED BY <2>2, <2>3
<1>9. quotaRow' = [s \in Running |-> quotaRow'[s]]
  BY <1>5
<1>10. resets' = [s \in Running |-> resets'[s]]
  BY <1>6
<1>11. taken' = [s \in Running |-> taken'[s]] /\ late' = [s \in Running |-> late'[s]]
  BY <1>7
<1>12. EverySubOK(quotaRow', resets', taken', late', now)
  BY <1>8 DEF EverySubOK
<1> QED BY <1>2, <1>4, <1>9, <1>10, <1>11, <1>12 DEF SubQuotaInv, SubShape

\* Time passes.
LEMMA SubTickInv ==
  ASSUME SubQuotaInv, SubQuotaTick
  PROVE  SubQuotaInv'
<1>1. PICK n \in Nat : n = now /\ StartTime <= n
  BY DEF SubQuotaInv
<1>2. now' = n + 1 /\ UNCHANGED <<quotaRow, request, resetPass, adminReset, resets, taken, late>>
  BY <1>1 DEF SubQuotaTick
<1>3. n + 1 \in Nat /\ StartTime <= n + 1
  BY <1>1 DEF StartTime
<1>4. EverySubOK(quotaRow, resets, taken, late, n + 1)
  BY <1>1, SubOKLater DEF SubQuotaInv, EverySubOK
<1>5. ASSUME NEW r \in SubRequests PROVE SubRequestOK(request[r], n + 1)
  <2>1. SubRequestOK(request[r], n)
    BY <1>1 DEF SubQuotaInv
  <2> QED BY <2>1 DEF SubRequestOK
<1>6. PassOK(resetPass, n + 1)
  <2>1. PassOK(resetPass, n)
    BY <1>1 DEF SubQuotaInv
  <2> QED BY <2>1 DEF PassOK
<1>7. AdminOK(adminReset, n + 1)
  <2>1. AdminOK(adminReset, n)
    BY <1>1 DEF SubQuotaInv
  <2> QED BY <2>1 DEF AdminOK
<1> QED BY <1>2, <1>3, <1>4, <1>5, <1>6, <1>7 DEF SubQuotaInv, SubShape

\* Every subscription begins a period.
LEMMA SubQuotaStart == SubQuotaInit => SubQuotaInv
<1> SUFFICES ASSUME SubQuotaInit PROVE SubQuotaInv
  OBVIOUS
<1>1. now = 1 /\ StartTime = 1
  BY DEF SubQuotaInit, StartTime
<1>2. ASSUME NEW s \in Running PROVE SubOK(s, quotaRow[s], resets[s], taken[s], late[s], 1)
  <2>1. PICK k \in Nat : k = NextReset(s, StartTime)
    BY <1>1, NextResetOK
  <2>2. PICK l \in Nat : l = IF k > 0 THEN 1 ELSE 0
    OBVIOUS
  <2>3. quotaRow[s] = [used |-> 0, next |-> k, last |-> l]
    BY <1>1, <2>1, <2>2 DEF SubQuotaInit
  <2>4. resets[s] = [auto |-> 0, all |-> 0, setBack |-> FALSE] /\ taken[s] = 0 /\ late[s] = 0
    BY DEF SubQuotaInit
  <2>5. quotaRow[s] \in QuotaRow /\ BaseOf(quotaRow[s]) = 1 /\ quotaRow[s].used = 0
    BY <1>1, <2>2, <2>3 DEF QuotaRow, BaseOf
  <2>6. resets[s] \in ResetsCounted /\ resets[s].auto = 0
    BY <2>4 DEF ResetsCounted
  <2>7. TotalOf[s] \in Nat /\ Period \in Nat
    BY SubscriptionQuotaAssumption
  <2>8. /\ quotaRow[s].used <= TotalOf[s] /\ taken[s] <= quotaRow[s].used + late[s]
        /\ taken[s] \in Int /\ late[s] \in Nat
    BY <2>4, <2>5, <2>7
  <2>9. BaseOf(quotaRow[s]) <= 1 /\ resets[s].auto * Period <= BaseOf(quotaRow[s]) - StartTime
    BY <1>1, <2>5, <2>6, <2>7
  <2> QED BY <2>5, <2>6, <2>8, <2>9 DEF SubOK
<1>3. EverySubOK(quotaRow, resets, taken, late, now)
  BY <1>1, <1>2 DEF EverySubOK
<1>4. SubShape
  BY DEF SubQuotaInit, SubShape
<1>5. \A r \in SubRequests : SubRequestOK(request[r], now)
  BY DEF SubQuotaInit, SubRequestOK, NotYet
<1>6. PassOK(resetPass, now) /\ AdminOK(adminReset, now)
  BY <1>1 DEF SubQuotaInit, PassOK, AdminOK, NoPass
<1> QED BY <1>1, <1>3, <1>4, <1>5, <1>6 DEF SubQuotaInv

\* Every step keeps it.
LEMMA SubQuotaStep == SubQuotaInv /\ [SubQuotaNext]_subQuotaVars => SubQuotaInv'
<1> SUFFICES ASSUME SubQuotaInv, [SubQuotaNext]_subQuotaVars PROVE SubQuotaInv'
  OBVIOUS
<1>1. ASSUME NEW r \in SubRequests, SettleRequest(r) \/ RefundRequest(r) PROVE SubQuotaInv'
  <2>1. request[r].pc = "held"
    BY <1>1 DEF SettleRequest, RefundRequest, PostConsumeDelta
  <2>2. request[r].amount \in Nat
    BY <2>1 DEF SubQuotaInv, SubRequestOK
  <2>3. CASE SettleRequest(r)
    <3>1. PICK x \in SubAmounts : PostConsumeDelta(r, x - request[r].amount)
      BY <2>3 DEF SettleRequest
    <3>2. x - request[r].amount \in Int
      BY <2>2, SubscriptionQuotaAssumption
    <3> QED BY <3>1, <3>2, PostConsumeInv
  <2>4. CASE RefundRequest(r)
    <3>1. -request[r].amount \in Int
      BY <2>2
    <3> QED BY <2>4, <3>1, PostConsumeInv DEF RefundRequest
  <2> QED BY <1>1, <2>3, <2>4
<1>2. CASE UNCHANGED subQuotaVars
  BY <1>2 DEF subQuotaVars, SubQuotaInv, SubShape
<1> QED BY <1>1, <1>2, PreConsumeStartInv, PreConsumeInv, ResetStartInv, ResetOneInv,
           AdminResetStartInv, AdminResetInv, SubTickInv DEF SubQuotaNext

\* Requests of one period never take more than the subscription's total from
\* it, but for what requests of an earlier period have given back in this one.
THEOREM PeriodStaysBounded == SubQuotaSpec => []PeriodBounded
<1>1. SubQuotaInv => PeriodBounded
  <2> SUFFICES ASSUME SubQuotaInv, NEW s \in Running PROVE taken[s] <= TotalOf[s] + late[s]
    BY DEF PeriodBounded
  <2>1. /\ quotaRow[s].used \in Nat /\ taken[s] \in Int /\ late[s] \in Nat
        /\ quotaRow[s].used <= TotalOf[s] /\ taken[s] <= quotaRow[s].used + late[s]
    BY DEF SubQuotaInv, EverySubOK, SubOK, QuotaRow
  <2>2. TotalOf[s] \in Nat
    BY SubscriptionQuotaAssumption
  <2> QED BY <2>1, <2>2
<1> QED BY <1>1, SubQuotaStart, SubQuotaStep, PTL DEF SubQuotaSpec

\* A subscription is reset at most once for each boundary that has passed,
\* unless an administrator's reset has set its times back.
THEOREM BoundaryResetsOnce == SubQuotaSpec => []OneResetPerPeriod
<1>1. SubQuotaInv => OneResetPerPeriod
  <2> SUFFICES ASSUME SubQuotaInv, NEW s \in Running, ~resets[s].setBack
               PROVE  resets[s].auto <= (now - StartTime) \div Period
    BY DEF OneResetPerPeriod
  <2>1. /\ resets[s].auto \in Nat /\ BaseOf(quotaRow[s]) <= now
        /\ resets[s].auto * Period <= BaseOf(quotaRow[s]) - StartTime
        /\ quotaRow[s] \in QuotaRow
    BY DEF SubQuotaInv, EverySubOK, SubOK, ResetsCounted
  <2>2. PICK n \in Nat : n = now - StartTime
    BY DEF SubQuotaInv, StartTime
  <2>3. Period \in Nat \ {0} /\ now \in Nat /\ StartTime \in Nat /\ BaseOf(quotaRow[s]) \in Nat
    BY <2>1, SubscriptionQuotaAssumption DEF SubQuotaInv, StartTime, QuotaRow, BaseOf
  <2>4. PICK k \in Nat : k = resets[s].auto * Period
    BY <2>1, <2>3
  <2>5. resets[s].auto * Period <= n
    BY <2>1, <2>2, <2>3, <2>4
  <2>6. resets[s].auto <= n \div Period
    BY <2>1, <2>3, <2>5, WholePeriods
  <2> QED BY <2>2, <2>6
<1> QED BY <1>1, SubQuotaStart, SubQuotaStep, PTL DEF SubQuotaSpec

-----------------------------------------------------------------------------
(* Subscriptions: what is granted was sold, and the end of a subscription  *)
(* takes no group away from one that runs.                                 *)

SubSources == Orders \cup {"admin", "balance"}

SubRow(x) ==
  \/ x = NoSub
  \/ x \in [status: {"active", "expired", "cancelled", "deleted"}, plan: Plans,
            source: SubSources, end: Nat, prev: {x.prev}]

IsGranted(x) == x.status # "none"

IsPresent(x) == x.status \notin {"none", "deleted"}

\* A running subscription that raises the group.
Lifts(x, k) == x.status = "active" /\ x.end > k /\ Plan[x.plan].upgrade # ""

Raises(x) == IsGranted(x) /\ Plan[x.plan].upgrade # ""

SoldFor(sb, o) == {s \in Ids : IsGranted(sb[s]) /\ sb[s].source = o}

BoughtOf(sb, p) == {s \in Ids : IsPresent(sb[s]) /\ sb[s].plan = p}

\* What a call in progress relies on: the order it completes is still pending,
\* the purchases it counted are below the limit, the rows it has locked are as
\* it found them, and nothing that runs would lose the group it lowers.
TxOK(x, sb, od, k, ov) ==
  \/ x.pc = "idle"
  \/ /\ x.pc \in {"user", "count"}
     /\ x \in [op: {"grant"}, pc: {"user", "count"}, plan: Plans, source: SubSources]
     /\ x.source \in Orders => od[x.source] = "pending"
  \/ /\ x.pc = "insert" /\ x.op = "grant" /\ x.plan \in Plans /\ x.source \in SubSources
     /\ x.source \in Orders => od[x.source] = "pending"
     /\ Plan[x.plan].limit > 0 => Cardinality(BoughtOf(sb, x.plan)) < Plan[x.plan].limit
  \/ /\ x.pc \in {"lower", "lowered"} /\ x.op \in {"cancelled", "deleted"}
     /\ x.sub \in Ids /\ IsPresent(sb[x.sub]) /\ x.now \in Nat /\ x.now <= k
     /\ x.pc = "lowered" /\ x.target # "" => \A s \in Ids \ {x.sub} : ~Lifts(sb[s], k)
  \/ x.pc = "mark" /\ x.op = "expire" /\ x.now \in Nat /\ x.now <= k
  \/ /\ x.pc = "check"
     /\ x \in [op: {"expire"}, pc: {"check"}, now: Nat, due: SUBSET Ids] /\ x.now <= k
     /\ \A s \in x.due : sb[s].status = "active"
  \/ /\ x.pc \in {"keep", "revert"} /\ x.op = "expire" /\ x.due \subseteq Ids
     /\ \A s \in x.due : sb[s].status = "active"
     /\ x.pc = "revert" => \A s \in Ids \ (x.due \cup ov) : ~Lifts(sb[s], k)

\* The rows a call will write.
Writes(x) ==
  IF x.pc \in {"lower", "lowered"} THEN {x.sub}
  ELSE IF x.pc \in {"check", "keep", "revert"} THEN x.due ELSE {}

Granting(x) == x.pc \in {"user", "count", "insert"}

\* What the row locks keep apart.
Apart(x, y) ==
  /\ Granting(x) /\ Granting(y) => x.source # y.source \/ x.source \notin Orders
  /\ ~(x.pc \in {"count", "insert"} /\ y.pc \in {"count", "insert"})
  /\ ~(x.pc = "lowered" /\ x.target # "" /\ y.pc \in {"count", "insert"})
  /\ ~(y.pc = "lowered" /\ y.target # "" /\ x.pc \in {"count", "insert"})
  /\ Writes(x) \cap Writes(y) = {}

SoldOK(sb, od) ==
  \A o \in Orders : IF od[o] = "success" THEN \E s \in Ids : SoldFor(sb, o) = {s}
                    ELSE SoldFor(sb, o) = {}

LimitOK(sb) ==
  \A p \in Plans : Plan[p].limit > 0 => Cardinality(BoughtOf(sb, p)) <= Plan[p].limit

\* The group is that of the subscription s or of a later one.
HeldSince(sb, s, g) ==
  \E t \in Ids : t >= s /\ Raises(sb[t]) /\ g = Plan[sb[t].plan].upgrade

RaisedOK(sb, k, ov, g) == \A s \in Ids \ ov : Lifts(sb[s], k) => HeldSince(sb, s, g)

SubsShape ==
  /\ clock \in Nat
  /\ subs = [s \in Ids |-> subs[s]] /\ orders = [o \in Orders |-> orders[o]]
  /\ subCall = [c \in SubCalls |-> subCall[c]]
  /\ \A s \in Ids : SubRow(subs[s])

SubsInv ==
  /\ SubsShape
  /\ \A c \in SubCalls : TxOK(subCall[c], subs, orders, clock, overtaken)
  /\ \A c, d \in SubCalls : c # d => Apart(subCall[c], subCall[d])
  /\ SoldOK(subs, orders) /\ LimitOK(subs)
  /\ RaisedOK(subs, clock, overtaken, userGroup)

\* The locks keep calls apart both ways.
LEMMA ApartSym ==
  ASSUME NEW x, NEW y, Apart(x, y)
  PROVE  Apart(y, x)
BY DEF Apart

\* A step of one call that commits nothing.
LEMMA TxStep ==
  ASSUME SubsInv, NEW c \in SubCalls, NEW x, subCall' = [subCall EXCEPT ![c] = x],
         UNCHANGED <<clock, userGroup, subs, orders, overtaken>>,
         TxOK(x, subs, orders, clock, overtaken),
         \A d \in SubCalls : d # c => Apart(x, subCall[d])
  PROVE  SubsInv'
<1>1. subCall' = [d \in SubCalls |-> IF d = c THEN x ELSE subCall[d]]
  BY DEF SubsInv, SubsShape
<1>2. \A d \in SubCalls : subCall'[d] = IF d = c THEN x ELSE subCall[d]
  BY <1>1
<1>3. subCall' = [d \in SubCalls |-> subCall'[d]]
  BY <1>1
<1>4. \A d \in SubCalls : TxOK(subCall'[d], subs, orders, clock, overtaken)
  BY <1>2 DEF SubsInv
<1>5. ASSUME NEW d \in SubCalls, NEW e \in SubCalls, d # e PROVE Apart(subCall'[d], subCall'[e])
  <2>1. CASE d = c
    BY <1>2, <1>5, <2>1
  <2>2. CASE e = c
    BY <1>2, <1>5, <2>2, ApartSym
  <2>3. CASE d # c /\ e # c
    BY <1>2, <1>5, <2>3 DEF SubsInv
  <2> QED BY <2>1, <2>2, <2>3
<1> QED BY <1>3, <1>4, <1>5 DEF SubsInv, SubsShape

\* A call that has returned.
LEMMA NoTxOK ==
  /\ \A sb, od, k, ov : TxOK(NoTx, sb, od, k, ov)
  /\ \A y : Apart(NoTx, y) /\ Apart(y, NoTx)
<1>1. NoTx.pc = "idle"
  BY DEF NoTx
<1>2. Writes(NoTx) = {} /\ ~Granting(NoTx)
  BY <1>1 DEF Writes, Granting
<1> QED BY <1>1, <1>2 DEF TxOK, Apart

\* A call is rolled back, or ends without a commit.
LEMMA TxReturn ==
  ASSUME SubsInv, NEW c \in SubCalls, Return(c),
         UNCHANGED <<clock, userGroup, subs, orders, overtaken>>
  PROVE  SubsInv'
BY NoTxOK, TxStep DEF Return

\* A grant begins.
LEMMA GrantBegins ==
  ASSUME SubsInv, NEW c \in SubCalls, NEW p \in Plans, NEW source \in SubSources,
         Begin(c, Grants(p, source)),
         source \in Orders => /\ orders[source] = "pending"
                              /\ \A d \in SubCalls : ~HoldsOrder(d, source)
  PROVE  SubsInv'
<1>1. PICK x : x = Grants(p, source)
  OBVIOUS
<1>2. /\ x \in [op: {"grant"}, pc: {"user", "count"}, plan: Plans, source: SubSources]
      /\ x.pc = "user" /\ x.source = source
  BY <1>1 DEF Grants
<1>3. TxOK(x, subs, orders, clock, overtaken)
  BY <1>2 DEF TxOK
<1>4. ASSUME NEW d \in SubCalls, d # c PROVE Apart(x, subCall[d])
  <2>1. Granting(subCall[d]) => InTx(d) /\ subCall[d].op = "grant"
    BY DEF SubsInv, TxOK, Granting, InTx
  <2>2. Granting(subCall[d]) => subCall[d].source # source \/ source \notin Orders
    BY <2>1 DEF HoldsOrder
  <2>3. Writes(x) = {}
    BY <1>2 DEF Writes
  <2> QED BY <1>2, <2>2, <2>3 DEF Apart
<1>5. /\ subCall' = [subCall EXCEPT ![c] = x]
      /\ UNCHANGED <<clock, userGroup, subs, orders, overtaken>>
  BY <1>1 DEF Begin
<1> QED BY <1>3, <1>4, <1>5, TxStep

\* Paid orders, grants and purchases.
LEMMA GrantsBeginInv ==
  ASSUME SubsInv, NEW c \in SubCalls
  PROVE  /\ \A o \in Orders : CompleteOrder(c, o) => SubsInv'
         /\ \A p \in Plans : BindSubscription(c, p) \/ PurchaseWithBalance(c, p) => SubsInv'
<1>1. ASSUME NEW o \in Orders, CompleteOrder(c, o) PROVE SubsInv'
  <2>1. OrderPlan[o] \in Plans /\ o \in SubSources
    BY SubscriptionsAssumption DEF SubSources
  <2>2. /\ orders[o] = "pending" /\ \A d \in SubCalls : ~HoldsOrder(d, o)
        /\ Begin(c, Grants(OrderPlan[o], o))
    BY <1>1 DEF CompleteOrder, Payable
  <2> QED BY <2>1, <2>2, GrantBegins
<1>2. ASSUME NEW p \in Plans, BindSubscription(c, p) \/ PurchaseWithBalance(c, p) PROVE SubsInv'
  <2>1. Begin(c, Grants(p, "admin")) \/ Begin(c, Grants(p, "balance"))
    BY <1>2 DEF BindSubscription, PurchaseWithBalance
  <2>2. "admin" \in SubSources /\ "balance" \in SubSources
    BY DEF SubSources
  <2>3. "admin" \notin Orders /\ "balance" \notin Orders
    BY SubscriptionsAssumption
  <2> QED BY <2>1, <2>2, <2>3, GrantBegins
<1> QED BY <1>1, <1>2

\* What a call in one of its states is.
LEMMA TxParts ==
  ASSUME SubsInv, NEW c \in SubCalls, NEW x, x = subCall[c]
  PROVE  /\ x.pc \in {"user", "count"} =>
              /\ x \in [op: {"grant"}, pc: {"user", "count"}, plan: Plans, source: SubSources]
              /\ x.source \in Orders => orders[x.source] = "pending"
         /\ x.pc = "insert" =>
              /\ x.op = "grant" /\ x.plan \in Plans /\ x.source \in SubSources
              /\ x.source \in Orders => orders[x.source] = "pending"
              /\ Plan[x.plan].limit > 0 => Cardinality(BoughtOf(subs, x.plan)) < Plan[x.plan].limit
         /\ x.pc \in {"lower", "lowered"} =>
              /\ x.op \in {"cancelled", "deleted"} /\ x.sub \in Ids /\ IsPresent(subs[x.sub])
              /\ x.now \in Nat /\ x.now <= clock
         /\ x.pc = "lowered" /\ x.target # "" => \A s \in Ids \ {x.sub} : ~Lifts(subs[s], clock)
         /\ x.pc = "mark" => x.op = "expire" /\ x.now \in Nat /\ x.now <= clock
         /\ x.pc = "check" =>
              /\ x \in [op: {"expire"}, pc: {"check"}, now: Nat, due: SUBSET Ids]
              /\ x.now <= clock /\ \A s \in x.due : subs[s].status = "active"
         /\ x.pc \in {"keep", "revert"} =>
              /\ x.op = "expire" /\ x.due \subseteq Ids /\ \A s \in x.due : subs[s].status = "active"
         /\ x.pc = "revert" => \A s \in Ids \ (x.due \cup overtaken) : ~Lifts(subs[s], clock)
<1>1. TxOK(x, subs, orders, clock, overtaken)
  BY DEF SubsInv
<1> QED BY <1>1 DEF TxOK

\* The user's row is locked.
LEMMA GrantLockInv ==
  ASSUME SubsInv, NEW c \in SubCalls, GrantLock(c)
  PROVE  SubsInv'
<1>1. UNCHANGED <<clock, userGroup, subs, orders, overtaken>> /\ subCall[c].pc = "user" /\ UserFree(c)
  BY DEF GrantLock, LockUser
<1>2. CASE Return(c)
  BY <1>1, <1>2, TxReturn
<1>3. CASE Goto(c, "count")
  <2>1. PICK y : y = subCall[c]
    OBVIOUS
  <2>2. PICK x : x = [y EXCEPT !.pc = "count"]
    OBVIOUS
  <2>3. subCall' = [subCall EXCEPT ![c] = x]
    BY <1>3, <2>1, <2>2 DEF Goto
  <2>4. /\ y \in [op: {"grant"}, pc: {"user", "count"}, plan: Plans, source: SubSources]
        /\ y.source \in Orders => orders[y.source] = "pending"
        /\ y.pc = "user"
    BY <1>1, <2>1, TxParts
  <2>5. /\ x \in [op: {"grant"}, pc: {"user", "count"}, plan: Plans, source: SubSources]
        /\ x.pc = "count" /\ x.source = y.source
    BY <2>2, <2>4
  <2>6. TxOK(x, subs, orders, clock, overtaken)
    BY <2>4, <2>5 DEF TxOK
  <2>7. ASSUME NEW d \in SubCalls, d # c PROVE Apart(x, subCall[d])
    <3>1. subCall[d].pc \notin {"count", "insert", "lowered"}
      BY <1>1, <2>7 DEF UserFree, HoldsUser
    <3>2. Apart(y, subCall[d])
      BY <2>1, <2>7 DEF SubsInv
    <3>3. Writes(x) = {} /\ Granting(y)
      BY <2>4, <2>5 DEF Writes, Granting
    <3> QED BY <2>5, <3>1, <3>2, <3>3 DEF Apart
  <2> QED BY <1>1, <2>3, <2>6, <2>7, TxStep
<1> QED BY <1>2, <1>3 DEF GrantLock

\* The purchases are counted.
LEMMA GrantCountInv ==
  ASSUME SubsInv, NEW c \in SubCalls, GrantCount(c)
  PROVE  SubsInv'
<1>1. UNCHANGED <<clock, userGroup, subs, orders, overtaken>> /\ subCall[c].pc = "count"
  BY DEF GrantCount
<1>2. PICK y : y = subCall[c]
  OBVIOUS
<1>3. PICK p : p = y.plan
  OBVIOUS
<1>4. PICK counted : counted = IF Plan[p].limit = 0 THEN {} ELSE Purchases(p)
  OBVIOUS
<1>5. /\ y \in [op: {"grant"}, pc: {"user", "count"}, plan: Plans, source: SubSources]
      /\ y.source \in Orders => orders[y.source] = "pending"
      /\ y.pc = "count"
  BY <1>1, <1>2, TxParts
<1>6. CASE Return(c)
  BY <1>1, <1>6, TxReturn
<1>7. ASSUME Plan[p].limit > 0 => Cardinality(counted) < Plan[p].limit,
             subCall' = [subCall EXCEPT ![c] =
                [op |-> "grant", pc |-> "insert", plan |-> p, source |-> y.source,
                 counted |-> counted]]
      PROVE  SubsInv'
  <2>1. PICK x : x = [op |-> "grant", pc |-> "insert", plan |-> p, source |-> y.source,
                      counted |-> counted]
    OBVIOUS
  <2>2. x.op = "grant" /\ x.pc = "insert" /\ x.plan = p /\ x.source = y.source
    BY <2>1
  <2>3. Purchases(p) = BoughtOf(subs, p)
    BY DEF Purchases, BoughtOf, Present, IsPresent
  <2>4. Plan[p].limit > 0 => Cardinality(BoughtOf(subs, p)) < Plan[p].limit
    BY <1>4, <1>7, <2>3
  <2>5. TxOK(x, subs, orders, clock, overtaken)
    BY <1>3, <1>5, <2>2, <2>4 DEF TxOK
  <2>6. ASSUME NEW d \in SubCalls, d # c PROVE Apart(x, subCall[d])
    <3>1. Apart(y, subCall[d])
      BY <1>2, <2>6 DEF SubsInv
    <3>2. Writes(x) = {} /\ Granting(y) /\ Granting(x)
      BY <1>5, <2>2 DEF Writes, Granting
    <3> QED BY <1>5, <2>2, <3>1, <3>2 DEF Apart
  <2> QED BY <1>1, <1>7, <2>1, <2>5, <2>6, TxStep
<1> QED BY <1>2, <1>3, <1>4, <1>6, <1>7 DEF GrantCount

\* Rows that no other call has locked.
LEMMA FreeRow ==
  ASSUME NEW c, NEW s, SubFree(c, s), NEW d \in SubCalls, d # c
  PROVE  s \notin Writes(subCall[d])
BY DEF SubFree, HoldsSub, Writes

\* A subscription is withdrawn.
LEMMA WithdrawInv ==
  ASSUME SubsInv, NEW c \in SubCalls, NEW s \in Ids, NEW status \in {"cancelled", "deleted"},
         Withdraw(c, s, status)
  PROVE  SubsInv'
<1>1. PICK x : x = [op |-> status, pc |-> "lower", sub |-> s, now |-> clock]
  OBVIOUS
<1>2. /\ subCall' = [subCall EXCEPT ![c] = x] /\ Present(s) /\ SubFree(c, s)
      /\ UNCHANGED <<clock, userGroup, subs, orders, overtaken>>
  BY <1>1 DEF Withdraw, Begin
<1>3. x.pc = "lower" /\ x.op = status /\ x.sub = s /\ x.now = clock /\ clock \in Nat
  BY <1>1 DEF SubsInv, SubsShape
<1>4. IsPresent(subs[x.sub])
  BY <1>2, <1>3 DEF Present, IsPresent
<1>5. TxOK(x, subs, orders, clock, overtaken)
  BY <1>3, <1>4 DEF TxOK
<1>6. ASSUME NEW d \in SubCalls, d # c PROVE Apart(x, subCall[d])
  <2>1. Writes(x) = {s} /\ ~Granting(x)
    BY <1>3 DEF Writes, Granting
  <2>2. s \notin Writes(subCall[d])
    BY <1>2, <1>6, FreeRow
  <2> QED BY <1>3, <2>1, <2>2 DEF Apart
<1> QED BY <1>2, <1>5, <1>6, TxStep

\* A row that was granted.
LEMMA RowParts ==
  ASSUME SubsInv, NEW s \in Ids, IsGranted(subs[s])
  PROVE  /\ subs[s] \in [status: {"active", "expired", "cancelled", "deleted"}, plan: Plans,
                         source: SubSources, end: Nat, prev: {subs[s].prev}]
         /\ subs[s].end \in Nat /\ subs[s].plan \in Plans /\ subs[s].source \in SubSources
<1>1. SubRow(subs[s])
  BY DEF SubsInv, SubsShape
<1>2. subs[s] \in [status: {"active", "expired", "cancelled", "deleted"}, plan: Plans,
                   source: SubSources, end: Nat, prev: {subs[s].prev}]
  BY <1>1 DEF SubRow, IsGranted, NoSub
<1> QED BY <1>2

\* No subscription that runs now, when none ran at an earlier time.
LEMMA NoneLifts ==
  ASSUME SubsInv, NEW at \in Nat, at <= clock, NEW except, ~ActiveUpgraded(at, except),
         NEW s \in Ids, s \notin except
  PROVE  ~Lifts(subs[s], clock)
<1> SUFFICES ASSUME Lifts(subs[s], clock) PROVE FALSE
  OBVIOUS
<1>1. subs[s].status = "active" /\ subs[s].end > clock /\ Plan[subs[s].plan].upgrade # ""
  BY DEF Lifts
<1>2. subs[s].end \in Nat /\ clock \in Nat
  BY <1>1, RowParts DEF IsGranted, SubsInv, SubsShape
<1>3. PICK e \in Nat, k \in Nat : e = subs[s].end /\ k = clock
  BY <1>2
<1>4. e > k /\ at <= k
  BY <1>1, <1>3
<1>5. e > at
  BY <1>4
<1> QED BY <1>1, <1>3, <1>5 DEF ActiveUpgraded

\* What the withdrawal does to the group is decided.
LEMMA WithdrawLowerInv ==
  ASSUME SubsInv, NEW c \in SubCalls, WithdrawLower(c)
  PROVE  SubsInv'
<1>1. PICK y : y = subCall[c]
  OBVIOUS
<1>2. PICK p : p = Plan[subs[y.sub].plan]
  OBVIOUS
<1>3. PICK quiet \in BOOLEAN : quiet = (p.upgrade = "" /\ p.downgrade = "")
  OBVIOUS
<1>4. PICK target : target = IF quiet \/ ActiveUpgraded(y.now, {y.sub}) THEN "" ELSE Target(y.sub)
  OBVIOUS
<1>5. PICK x : x = [op |-> y.op, pc |-> "lowered", sub |-> y.sub, now |-> y.now, target |-> target]
  OBVIOUS
<1>6. /\ y.pc = "lower" /\ (quiet \/ UserFree(c))
      /\ UNCHANGED <<clock, userGroup, subs, orders, overtaken>>
      /\ subCall' = [subCall EXCEPT ![c] = x]
  BY <1>1, <1>2, <1>3, <1>4, <1>5 DEF WithdrawLower, LockUser
<1>7. /\ y.op \in {"cancelled", "deleted"} /\ y.sub \in Ids /\ IsPresent(subs[y.sub])
      /\ y.now \in Nat /\ y.now <= clock
  BY <1>1, <1>6, TxParts
<1>8. x.op = y.op /\ x.pc = "lowered" /\ x.sub = y.sub /\ x.now = y.now /\ x.target = target
  BY <1>5
<1>9. ASSUME x.target # "" PROVE \A s \in Ids \ {x.sub} : ~Lifts(subs[s], clock)
  <2>1. ~ActiveUpgraded(y.now, {y.sub})
    BY <1>4, <1>8, <1>9
  <2> QED BY <1>7, <1>8, <2>1, NoneLifts
<1>10. TxOK(x, subs, orders, clock, overtaken)
  BY <1>7, <1>8, <1>9 DEF TxOK
<1>11. ASSUME NEW d \in SubCalls, d # c PROVE Apart(x, subCall[d])
  <2>1. Apart(y, subCall[d])
    BY <1>1, <1>11 DEF SubsInv
  <2>2. Writes(x) = Writes(y) /\ ~Granting(x)
    BY <1>6, <1>8 DEF Writes, Granting
  <2>3. x.target # "" => subCall[d].pc \notin {"count", "insert"}
    BY <1>4, <1>6, <1>8, <1>11 DEF UserFree, HoldsUser
  <2> QED BY <1>8, <2>1, <2>2, <2>3 DEF Apart
<1> QED BY <1>6, <1>10, <1>11, TxStep

\* An expiry pass begins.
LEMMA ExpireStartInv ==
  ASSUME SubsInv, NEW c \in SubCalls, ExpireStart(c)
  PROVE  SubsInv'
<1>1. PICK x : x = [op |-> "expire", pc |-> "mark", now |-> clock]
  OBVIOUS
<1>2. /\ subCall' = [subCall EXCEPT ![c] = x]
      /\ UNCHANGED <<clock, userGroup, subs, orders, overtaken>>
  BY <1>1 DEF ExpireStart, Begin
<1>3. x.op = "expire" /\ x.pc = "mark" /\ x.now \in Nat /\ x.now <= clock
  BY <1>1 DEF SubsInv, SubsShape
<1>4. TxOK(x, subs, orders, clock, overtaken)
  BY <1>3 DEF TxOK
<1>5. Writes(x) = {} /\ ~Granting(x)
  BY <1>3 DEF Writes, Granting
<1>6. \A d \in SubCalls : Apart(x, subCall[d])
  BY <1>3, <1>5 DEF Apart
<1> QED BY <1>2, <1>4, <1>6, TxStep

\* The due rows are locked.
LEMMA ExpireMarkInv ==
  ASSUME SubsInv, NEW c \in SubCalls, ExpireMark(c)
  PROVE  SubsInv'
<1>1. PICK y : y = subCall[c]
  OBVIOUS
<1>2. PICK due : due = DueSubs(y.now)
  OBVIOUS
<1>3. PICK x : x = [op |-> "expire", pc |-> "check", now |-> y.now, due |-> due]
  OBVIOUS
<1>4. /\ y.pc = "mark" /\ \A s \in due : SubFree(c, s)
      /\ subCall' = [subCall EXCEPT ![c] = x]
      /\ UNCHANGED <<clock, userGroup, subs, orders, overtaken>>
  BY <1>1, <1>2, <1>3 DEF ExpireMark
<1>5. y.now \in Nat /\ y.now <= clock
  BY <1>1, <1>4, TxParts
<1>6. due \in SUBSET Ids /\ \A s \in due : subs[s].status = "active"
  BY <1>2 DEF DueSubs
<1>7. /\ x \in [op: {"expire"}, pc: {"check"}, now: Nat, due: SUBSET Ids] /\ x.now <= clock
      /\ x.due = due /\ x.pc = "check"
  BY <1>3, <1>5, <1>6
<1>8. TxOK(x, subs, orders, clock, overtaken)
  BY <1>6, <1>7 DEF TxOK
<1>9. ASSUME NEW d \in SubCalls, d # c PROVE Apart(x, subCall[d])
  <2>1. Writes(x) = due /\ ~Granting(x)
    BY <1>7 DEF Writes, Granting
  <2>2. \A s \in due : s \notin Writes(subCall[d])
    BY <1>4, <1>9, FreeRow
  <2> QED BY <1>7, <2>1, <2>2 DEF Apart
<1> QED BY <1>4, <1>8, <1>9, TxStep

\* An expiry pass that has decided.
HasChecked(x, y) ==
  /\ x.pc \in {"keep", "revert"} /\ x.op = "expire" /\ x.due = y.due
  /\ x.pc = "revert" => ~ActiveUpgraded(y.now, y.due)

\* The decision of an expiry pass holds until it is overtaken.
LEMMA CheckedInv ==
  ASSUME SubsInv, NEW c \in SubCalls, NEW y, y = subCall[c], y.pc = "check",
         NEW x, HasChecked(x, y), subCall' = [subCall EXCEPT ![c] = x],
         UNCHANGED <<clock, userGroup, subs, orders, overtaken>>
  PROVE  SubsInv'
<1>3. /\ y.now \in Nat /\ y.due \subseteq Ids
      /\ y.now <= clock /\ \A s \in y.due : subs[s].status = "active"
  <2>1. y \in [op: {"expire"}, pc: {"check"}, now: Nat, due: SUBSET Ids]
    BY TxParts
  <2>2. y.now <= clock /\ \A s \in y.due : subs[s].status = "active"
    BY TxParts
  <2> QED BY <2>1, <2>2
<1>4. /\ x.pc \in {"keep", "revert"} /\ x.op = "expire" /\ x.due = y.due
      /\ x.pc = "revert" => ~ActiveUpgraded(y.now, y.due)
  BY DEF HasChecked
<1>8. x.pc = "revert" => \A s \in Ids \ x.due : ~Lifts(subs[s], clock)
  BY <1>3, <1>4, NoneLifts
<1>5. x.pc = "revert" => \A s \in Ids \ (x.due \cup overtaken) : ~Lifts(subs[s], clock)
  BY <1>8
<1>6. TxOK(x, subs, orders, clock, overtaken)
  BY <1>3, <1>4, <1>5 DEF TxOK
<1>7. ASSUME NEW d \in SubCalls, d # c PROVE Apart(x, subCall[d])
  <2>1. Apart(y, subCall[d])
    BY <1>7 DEF SubsInv
  <2>2. Writes(x) = Writes(y) /\ ~Granting(x)
    BY <1>4 DEF Writes, Granting
  <2> QED BY <1>4, <2>1, <2>2 DEF Apart
<1> QED BY <1>6, <1>7, TxStep

\* Whether another subscription keeps the group is decided.
LEMMA ExpireCheckInv ==
  ASSUME SubsInv, NEW c \in SubCalls, ExpireCheck(c)
  PROVE  SubsInv'
<1>1. PICK y : y = subCall[c]
  OBVIOUS
<1>2. y.pc = "check" /\ UNCHANGED <<clock, userGroup, subs, orders, overtaken>>
  BY <1>1 DEF ExpireCheck
<1>3. y \in [op: {"expire"}, pc: {"check"}, now: Nat, due: SUBSET Ids]
  BY <1>1, <1>2, TxParts
<1>5. CASE Goto(c, "keep")
  <2>1. PICK x : x = [y EXCEPT !.pc = "keep"]
    OBVIOUS
  <2>2. x.pc = "keep" /\ x.op = "expire" /\ x.due = y.due
    BY <1>3, <2>1
  <2>3. subCall' = [subCall EXCEPT ![c] = x]
    BY <1>1, <1>5, <2>1 DEF Goto
  <2>4. HasChecked(x, y)
    BY <2>2 DEF HasChecked
  <2> QED BY <1>1, <1>2, <2>3, <2>4, CheckedInv
<1>6. ASSUME ~ActiveUpgraded(y.now, y.due), NEW last,
             subCall' = [subCall EXCEPT ![c] =
                [op |-> "expire", pc |-> "revert", due |-> y.due, last |-> last]]
      PROVE  SubsInv'
  <2>1. PICK x : x = [op |-> "expire", pc |-> "revert", due |-> y.due, last |-> last]
    OBVIOUS
  <2>2. HasChecked(x, y)
    BY <1>6, <2>1 DEF HasChecked
  <2>3. subCall' = [subCall EXCEPT ![c] = x]
    BY <1>6, <2>1
  <2> QED BY <1>1, <1>2, <2>2, <2>3, CheckedInv
<1> QED BY <1>1, <1>5, <1>6 DEF ExpireCheck

\* A call commits: it returns, and the rest is as the invariant asks.
LEMMA CommitStep ==
  ASSUME SubsInv, NEW c \in SubCalls, Return(c), UNCHANGED clock,
         subs' = [s \in Ids |-> subs'[s]], orders' = [o \in Orders |-> orders'[o]],
         \A s \in Ids : SubRow(subs'[s]),
         \A d \in SubCalls : d # c => TxOK(subCall[d], subs', orders', clock, overtaken'),
         SoldOK(subs', orders'), LimitOK(subs'), RaisedOK(subs', clock, overtaken', userGroup')
  PROVE  SubsInv'
<1>1. subCall' = [d \in SubCalls |-> IF d = c THEN NoTx ELSE subCall[d]]
  BY DEF SubsInv, SubsShape, Return
<1>2. \A d \in SubCalls : subCall'[d] = IF d = c THEN NoTx ELSE subCall[d]
  BY <1>1
<1>3. subCall' = [d \in SubCalls |-> subCall'[d]]
  BY <1>1
<1>4. \A d \in SubCalls : TxOK(subCall'[d], subs', orders', clock, overtaken')
  BY <1>2, NoTxOK
<1>5. ASSUME NEW d \in SubCalls, NEW e \in SubCalls, d # e PROVE Apart(subCall'[d], subCall'[e])
  <2>1. CASE d = c \/ e = c
    BY <1>2, <2>1, NoTxOK
  <2>2. CASE d # c /\ e # c
    BY <1>2, <1>5, <2>2 DEF SubsInv
  <2> QED BY <2>1, <2>2
<1> QED BY <1>3, <1>4, <1>5 DEF SubsInv, SubsShape

\* Rows end and none is granted.
Ebbs(sb2, sb, k) ==
  \A s \in Ids : /\ IsGranted(sb2[s]) <=> IsGranted(sb[s])
                 /\ IsGranted(sb[s]) => sb2[s].plan = sb[s].plan /\ sb2[s].source = sb[s].source
                 /\ IsPresent(sb2[s]) => IsPresent(sb[s])
                 /\ Lifts(sb2[s], k) => Lifts(sb[s], k)

\* There are finitely many rows.
LEMMA IdsFinite == IsFiniteSet(Ids)
<1>1. MaxSubs \in Nat
  BY SubscriptionsAssumption, Zenon
<1>2. IsFiniteSet(1..MaxSubs)
  BY <1>1, FS_Interval
<1> QED BY <1>2 DEF Ids

\* Counting the purchases of a plan.
LEMMA BoughtFinite ==
  ASSUME NEW sb, NEW p
  PROVE  IsFiniteSet(BoughtOf(sb, p)) /\ Cardinality(BoughtOf(sb, p)) \in Nat
<1>1. BoughtOf(sb, p) \subseteq Ids
  BY DEF BoughtOf
<1>2. IsFiniteSet(BoughtOf(sb, p))
  BY <1>1, IdsFinite, FS_Subset
<1> QED BY <1>2, FS_CardinalityType

\* As rows end, no plan is held more often.
LEMMA EbbsBought ==
  ASSUME NEW sb, NEW sb2, NEW k, Ebbs(sb2, sb, k), NEW p
  PROVE  Cardinality(BoughtOf(sb2, p)) <= Cardinality(BoughtOf(sb, p))
<1>1. BoughtOf(sb2, p) \subseteq BoughtOf(sb, p)
  BY DEF BoughtOf, Ebbs, IsPresent, IsGranted
<1> QED BY <1>1, BoughtFinite, FS_Subset

\* A plan's limit.
LEMMA LimitNat == \A p \in Plans : Plan[p].limit \in Nat
BY SubscriptionsAssumption

\* As rows end, a call that does not write them may go on.
LEMMA EbbsTx ==
  ASSUME NEW sb, NEW sb2, NEW k, NEW od, NEW ov, NEW ov2, NEW y, TxOK(y, sb, od, k, ov),
         Ebbs(sb2, sb, k), \A s \in Writes(y) : sb2[s] = sb[s], ov \subseteq ov2
  PROVE  TxOK(y, sb2, od, k, ov2)
<1>1. CASE y.pc = "insert"
  <2>1. /\ y.op = "grant" /\ y.plan \in Plans /\ y.source \in SubSources
        /\ y.source \in Orders => od[y.source] = "pending"
        /\ Plan[y.plan].limit > 0 => Cardinality(BoughtOf(sb, y.plan)) < Plan[y.plan].limit
    BY <1>1 DEF TxOK
  <2>2. PICK m \in Nat, n \in Nat, l \in Nat :
          /\ m = Cardinality(BoughtOf(sb, y.plan)) /\ n = Cardinality(BoughtOf(sb2, y.plan))
          /\ l = Plan[y.plan].limit
    BY <2>1, BoughtFinite, LimitNat
  <2>3. n <= m
    BY <2>2, EbbsBought
  <2>4. l > 0 => n < l
    BY <2>1, <2>2, <2>3
  <2> QED BY <1>1, <2>1, <2>2, <2>4 DEF TxOK
<1>2. CASE y.pc \in {"lower", "lowered"}
  <2>1. /\ y.op \in {"cancelled", "deleted"}
        /\ y.sub \in Ids /\ IsPresent(sb[y.sub]) /\ y.now \in Nat /\ y.now <= k
        /\ y.pc = "lowered" /\ y.target # "" => \A s \in Ids \ {y.sub} : ~Lifts(sb[s], k)
    BY <1>2 DEF TxOK
  <2>2. sb2[y.sub] = sb[y.sub]
    BY <1>2 DEF Writes
  <2>3. IsPresent(sb2[y.sub])
    BY <2>1, <2>2
  <2>4. y.pc = "lowered" /\ y.target # "" => \A s \in Ids \ {y.sub} : ~Lifts(sb2[s], k)
    BY <2>1 DEF Ebbs
  <2> QED BY <1>2, <2>1, <2>3, <2>4 DEF TxOK
<1>3. CASE y.pc = "check"
  <2>1. /\ y \in [op: {"expire"}, pc: {"check"}, now: Nat, due: SUBSET Ids] /\ y.now <= k
        /\ \A s \in y.due : sb[s].status = "active"
    BY <1>3 DEF TxOK
  <2>2. \A s \in y.due : sb2[s] = sb[s]
    BY <1>3 DEF Writes
  <2>3. \A s \in y.due : sb2[s].status = "active"
    BY <2>1, <2>2
  <2> QED BY <1>3, <2>1, <2>3 DEF TxOK
<1>4. CASE y.pc \in {"keep", "revert"}
  <2>1. /\ y.op = "expire" /\ y.due \subseteq Ids
        /\ \A s \in y.due : sb[s].status = "active"
        /\ y.pc = "revert" => \A s \in Ids \ (y.due \cup ov) : ~Lifts(sb[s], k)
    BY <1>4 DEF TxOK
  <2>2. \A s \in y.due : sb2[s] = sb[s]
    BY <1>4 DEF Writes
  <2>3. \A s \in y.due : sb2[s].status = "active"
    BY <2>1, <2>2
  <2>4. y.pc = "revert" => \A s \in Ids \ (y.due \cup ov2) : ~Lifts(sb2[s], k)
    BY <2>1 DEF Ebbs
  <2> QED BY <1>4, <2>1, <2>3, <2>4 DEF TxOK
<1>5. CASE y.pc \in {"idle", "user", "count", "mark"}
  BY <1>5 DEF TxOK
<1> QED BY <1>1, <1>2, <1>3, <1>4, <1>5 DEF TxOK

\* As rows end, what was sold and the limits stand.
LEMMA EbbsSold ==
  ASSUME NEW sb, NEW sb2, NEW k, NEW od, Ebbs(sb2, sb, k), SoldOK(sb, od), LimitOK(sb)
  PROVE  SoldOK(sb2, od) /\ LimitOK(sb2)
<1>1. \A o \in Orders : SoldFor(sb2, o) = SoldFor(sb, o)
  BY DEF SoldFor, Ebbs
<1>2. SoldOK(sb2, od)
  BY <1>1 DEF SoldOK
<1>3. ASSUME NEW p \in Plans, Plan[p].limit > 0 PROVE Cardinality(BoughtOf(sb2, p)) <= Plan[p].limit
  <2>1. PICK m \in Nat, n \in Nat, l \in Nat :
          /\ m = Cardinality(BoughtOf(sb, p)) /\ n = Cardinality(BoughtOf(sb2, p))
          /\ l = Plan[p].limit
    BY BoughtFinite, LimitNat
  <2>2. n <= m
    BY <2>1, EbbsBought
  <2>3. m <= l
    BY <1>3, <2>1 DEF LimitOK
  <2>4. n <= l
    BY <2>2, <2>3
  <2> QED BY <2>1, <2>4
<1> QED BY <1>2, <1>3 DEF LimitOK

\* As rows end, the group is kept unless it is lowered with none left.
LEMMA EbbsRaised ==
  ASSUME NEW sb, NEW sb2, NEW k, Ebbs(sb2, sb, k), NEW ov, NEW g, NEW g2, RaisedOK(sb, k, ov, g),
         g2 = g \/ \A s \in Ids \ ov : ~Lifts(sb2[s], k)
  PROVE  RaisedOK(sb2, k, ov, g2)
<1> SUFFICES ASSUME NEW s \in Ids \ ov, Lifts(sb2[s], k)
             PROVE  HeldSince(sb2, s, g2)
  BY DEF RaisedOK
<1>1. g2 = g /\ Lifts(sb[s], k)
  BY DEF Ebbs
<1>2. PICK t \in Ids : t >= s /\ Raises(sb[t]) /\ g = Plan[sb[t].plan].upgrade
  BY <1>1 DEF RaisedOK, HeldSince
<1>3. Raises(sb2[t]) /\ sb2[t].plan = sb[t].plan
  BY <1>2 DEF Ebbs, Raises
<1> QED BY <1>1, <1>2, <1>3 DEF HeldSince

\* A call that ends rows of its own commits.
LEMMA EbbsCommit ==
  ASSUME SubsInv, NEW c \in SubCalls, Return(c), UNCHANGED <<clock, orders>>,
         subs' = [s \in Ids |-> subs'[s]], \A s \in Ids : SubRow(subs'[s]),
         Ebbs(subs', subs, clock), \A s \in Ids : s \notin Writes(subCall[c]) => subs'[s] = subs[s],
         UNCHANGED overtaken,
         userGroup' = userGroup \/ \A s \in Ids \ overtaken : ~Lifts(subs'[s], clock)
  PROVE  SubsInv'
<1>1. ASSUME NEW d \in SubCalls, d # c PROVE TxOK(subCall[d], subs', orders', clock, overtaken')
  <2>1. TxOK(subCall[d], subs, orders, clock, overtaken) /\ Apart(subCall[c], subCall[d])
    BY <1>1 DEF SubsInv
  <2>2. Writes(subCall[d]) \subseteq Ids
    BY <2>1 DEF TxOK, Writes
  <2>3. \A s \in Writes(subCall[d]) : subs'[s] = subs[s]
    BY <2>1, <2>2 DEF Apart
  <2>4. TxOK(subCall[d], subs', orders, clock, overtaken')
    BY <2>1, <2>3, EbbsTx
  <2> QED BY <2>4
<1>2. SoldOK(subs', orders) /\ LimitOK(subs')
  BY EbbsSold DEF SubsInv
<1>3. RaisedOK(subs', clock, overtaken', userGroup')
  <2>1. RaisedOK(subs, clock, overtaken, userGroup)
    BY DEF SubsInv
  <2>2. RaisedOK(subs', clock, overtaken, userGroup')
    BY <2>1, EbbsRaised
  <2> QED BY <2>2
<1>4. orders' = [o \in Orders |-> orders'[o]] /\ SoldOK(subs', orders')
  BY <1>2 DEF SubsInv, SubsShape
<1> QED BY <1>1, <1>2, <1>3, <1>4, CommitStep

\* A withdrawal commits.
LEMMA WithdrawCommitInv ==
  ASSUME SubsInv, NEW c \in SubCalls, WithdrawCommit(c)
  PROVE  SubsInv'
<1>1. PICK y : y = subCall[c]
  OBVIOUS
<1>2. y.pc = "lowered"
  BY <1>1 DEF WithdrawCommit
<1>3. /\ y.op \in {"cancelled", "deleted"} /\ y.sub \in Ids /\ IsPresent(subs[y.sub])
      /\ y.now \in Nat
  BY <1>1, <1>2, TxParts
<1>4. y.target # "" => \A s \in Ids \ {y.sub} : ~Lifts(subs[s], clock)
  BY <1>1, <1>2, TxParts
<1>5. PICK a : a = subs[y.sub]
  OBVIOUS
<1>6. /\ a \in [status: {"active", "expired", "cancelled", "deleted"}, plan: Plans,
                source: SubSources, end: Nat, prev: {a.prev}]
      /\ IsPresent(a)
  BY <1>3, <1>5, RowParts DEF IsPresent, IsGranted
<1>7. PICK e \in Nat : e = IF y.op = "cancelled" THEN y.now ELSE a.end
  BY <1>3, <1>6
<1>8. PICK b : b = [a EXCEPT !.status = y.op, !.end = e]
  OBVIOUS
<1>9. /\ b \in [status: {"active", "expired", "cancelled", "deleted"}, plan: Plans,
                source: SubSources, end: Nat, prev: {b.prev}]
      /\ b.status = y.op /\ b.plan = a.plan /\ b.source = a.source
  BY <1>3, <1>6, <1>8
<1>10. subs' = [subs EXCEPT ![y.sub] = b]
  <2>1. subs' = [subs EXCEPT ![y.sub].status = y.op,
                             ![y.sub].end = IF y.op = "cancelled" THEN y.now ELSE @]
    BY <1>1 DEF WithdrawCommit
  <2>2. subs = [s \in Ids |-> subs[s]]
    BY DEF SubsInv, SubsShape
  <2> QED BY <1>3, <1>5, <1>6, <1>7, <1>8, <2>1, <2>2
<1>11. \A s \in Ids : subs'[s] = IF s = y.sub THEN b ELSE subs[s]
  BY <1>3, <1>10 DEF SubsInv, SubsShape
<1>12. subs' = [s \in Ids |-> subs'[s]]
  BY <1>3, <1>10 DEF SubsInv, SubsShape
<1>13. SubRow(b) /\ ~Lifts(b, clock) /\ IsGranted(b) /\ IsGranted(a)
  BY <1>3, <1>6, <1>9 DEF SubRow, Lifts, IsGranted, IsPresent
<1>14. \A s \in Ids : SubRow(subs'[s])
  BY <1>11, <1>13 DEF SubsInv, SubsShape
<1>15. Ebbs(subs', subs, clock)
  BY <1>5, <1>6, <1>9, <1>11, <1>13 DEF Ebbs
<1>16. Writes(y) = {y.sub}
  BY <1>2 DEF Writes
<1>17. \A s \in Ids : s \notin Writes(subCall[c]) => subs'[s] = subs[s]
  BY <1>1, <1>11, <1>16
<1>18. Regroup(y.target) /\ Return(c) /\ UNCHANGED <<clock, orders, overtaken>>
  BY <1>1 DEF WithdrawCommit
<1>19. userGroup' = userGroup \/ \A s \in Ids \ overtaken : ~Lifts(subs'[s], clock)
  <2>1. CASE y.target = ""
    BY <1>18, <2>1 DEF Regroup
  <2>2. CASE y.target # ""
    BY <1>4, <1>11, <1>13, <2>2
  <2> QED BY <2>1, <2>2
<1> QED BY <1>12, <1>14, <1>15, <1>17, <1>18, <1>19, EbbsCommit

\* An expiry pass commits.
LEMMA ExpireCommitInv ==
  ASSUME SubsInv, NEW c \in SubCalls, ExpireCommit(c)
  PROVE  SubsInv'
<1>1. PICK y : y = subCall[c]
  OBVIOUS
<1>2. y.pc = "keep" \/ y.pc = "revert"
  BY <1>1 DEF ExpireCommit
<1>3. y.due \subseteq Ids /\ \A s \in y.due : subs[s].status = "active"
  BY <1>1, <1>2, TxParts
<1>4. y.pc = "revert" => \A s \in Ids \ (y.due \cup overtaken) : ~Lifts(subs[s], clock)
  BY <1>1, TxParts
<1>5. subs' = [s \in Ids |-> IF s \in y.due THEN [subs[s] EXCEPT !.status = "expired"]
                                            ELSE subs[s]]
  BY <1>1 DEF ExpireCommit, MarkExpired
<1>6. subs' = [s \in Ids |-> subs'[s]]
  BY <1>5
<1>7. \A s \in Ids : s \notin y.due => subs'[s] = subs[s]
  BY <1>5
<1>8. ASSUME NEW s \in Ids, s \in y.due
      PROVE  /\ SubRow(subs'[s]) /\ ~Lifts(subs'[s], clock)
             /\ IsGranted(subs'[s]) /\ IsGranted(subs[s]) /\ IsPresent(subs[s])
             /\ subs'[s].plan = subs[s].plan /\ subs'[s].source = subs[s].source
  <2>1. PICK a : a = subs[s]
    OBVIOUS
  <2>2. PICK b : b = [a EXCEPT !.status = "expired"]
    OBVIOUS
  <2>3. subs'[s] = b
    BY <1>5, <1>8, <2>1, <2>2
  <2>4. a.status = "active"
    BY <1>3, <1>8, <2>1
  <2>5. IsGranted(a) /\ IsPresent(a)
    BY <2>4 DEF IsGranted, IsPresent
  <2>6. a \in [status: {"active", "expired", "cancelled", "deleted"}, plan: Plans,
               source: SubSources, end: Nat, prev: {a.prev}]
    BY <2>1, <2>5, RowParts
  <2>7. /\ b \in [status: {"active", "expired", "cancelled", "deleted"}, plan: Plans,
                  source: SubSources, end: Nat, prev: {b.prev}]
        /\ b.status = "expired" /\ b.plan = a.plan /\ b.source = a.source
    BY <2>2, <2>6
  <2>8. SubRow(b) /\ ~Lifts(b, clock) /\ IsGranted(b)
    BY <2>7 DEF SubRow, Lifts, IsGranted
  <2> QED BY <2>1, <2>3, <2>5, <2>7, <2>8
<1>9. \A s \in Ids : SubRow(subs'[s])
  BY <1>7, <1>8 DEF SubsInv, SubsShape
<1>10. Ebbs(subs', subs, clock)
  BY <1>7, <1>8 DEF Ebbs
<1>11. Writes(y) = y.due
  BY <1>2 DEF Writes
<1>12. \A s \in Ids : s \notin Writes(subCall[c]) => subs'[s] = subs[s]
  BY <1>1, <1>7, <1>11
<1>13. Return(c) /\ UNCHANGED <<clock, orders, overtaken>>
  BY <1>1 DEF ExpireCommit
<1>14. userGroup' = userGroup \/ \A s \in Ids \ overtaken : ~Lifts(subs'[s], clock)
  <2>1. CASE y.pc = "keep"
    BY <1>1, <2>1 DEF ExpireCommit
  <2>2. CASE y.pc = "revert"
    BY <1>4, <1>7, <1>8, <2>2
  <2> QED BY <1>2, <2>1, <2>2
<1> QED BY <1>6, <1>9, <1>10, <1>12, <1>13, <1>14, EbbsCommit

\* The row a grant inserts.
GrantsRow(sb2, sb, s, a) ==
  /\ s \in Ids /\ \A t \in Ids : IsGranted(sb[t]) <=> t < s
  /\ \A t \in Ids : sb2[t] = IF t = s THEN a ELSE sb[t]

\* The row is new to every other.
LEMMA GrantsNew ==
  ASSUME NEW sb, NEW sb2, NEW s, NEW a, GrantsRow(sb2, sb, s, a)
  PROVE  ~IsGranted(sb[s]) /\ sb2[s] = a /\ \A t \in Ids : t # s => sb2[t] = sb[t]
<1>1. s \in Int
  BY DEF GrantsRow, Ids
<1>2. ~(s < s)
  BY <1>1
<1> QED BY <1>2 DEF GrantsRow

\* A grant leaves the other calls as they were, the passes it overtakes apart.
LEMMA GrantTx ==
  ASSUME NEW sb, NEW sb2, NEW s, NEW a, GrantsRow(sb2, sb, s, a),
         NEW od, NEW od2, NEW k, NEW ov, NEW ov2, NEW x, NEW y, x.pc = "insert", Apart(x, y),
         \A o \in Orders : od2[o] = IF o = x.source THEN "success" ELSE od[o],
         TxOK(y, sb, od, k, ov), ov \subseteq ov2, y.pc = "revert" => s \in ov2
  PROVE  TxOK(y, sb2, od2, k, ov2)
<1>1. ~IsGranted(sb[s]) /\ \A t \in Ids : t # s => sb2[t] = sb[t]
  BY GrantsNew
<1>2. CASE y.pc \in {"user", "count"}
  <2>1. Granting(x) /\ Granting(y)
    BY <1>2 DEF Granting
  <2>2. x.source # y.source \/ x.source \notin Orders
    BY <2>1 DEF Apart
  <2>3. /\ y \in [op: {"grant"}, pc: {"user", "count"}, plan: Plans, source: SubSources]
        /\ y.source \in Orders => od[y.source] = "pending"
    BY <1>2 DEF TxOK
  <2>4. y.source \in Orders => od2[y.source] = "pending"
    BY <2>2, <2>3
  <2> QED BY <1>2, <2>3, <2>4 DEF TxOK
<1>3. CASE y.pc \in {"lower", "lowered"}
  <2>1. /\ y.op \in {"cancelled", "deleted"}
        /\ y.sub \in Ids /\ IsPresent(sb[y.sub]) /\ y.now \in Nat /\ y.now <= k
    BY <1>3 DEF TxOK
  <2>2. ~(y.pc = "lowered" /\ y.target # "")
    BY DEF Apart
  <2>3. y.sub # s
    BY <1>1, <2>1 DEF IsPresent, IsGranted
  <2>4. IsPresent(sb2[y.sub])
    BY <1>1, <2>1, <2>3
  <2> QED BY <1>3, <2>1, <2>2, <2>4 DEF TxOK
<1>4. CASE y.pc = "check"
  <2>1. /\ y \in [op: {"expire"}, pc: {"check"}, now: Nat, due: SUBSET Ids] /\ y.now <= k
        /\ \A t \in y.due : sb[t].status = "active"
    BY <1>4 DEF TxOK
  <2>2. ASSUME NEW t \in y.due PROVE sb2[t].status = "active"
    <3>1. t \in Ids /\ t # s
      BY <1>1, <2>1 DEF IsGranted
    <3> QED BY <1>1, <2>1, <3>1
  <2> QED BY <1>4, <2>1, <2>2 DEF TxOK
<1>5. CASE y.pc \in {"keep", "revert"}
  <2>1. /\ y.op = "expire" /\ y.due \subseteq Ids
        /\ \A t \in y.due : sb[t].status = "active"
    BY <1>5 DEF TxOK
  <2>2. ASSUME NEW t \in y.due PROVE sb2[t].status = "active"
    <3>1. t \in Ids /\ t # s
      BY <1>1, <2>1 DEF IsGranted
    <3> QED BY <1>1, <2>1, <3>1
  <2>3. y.pc = "revert" => \A t \in Ids \ (y.due \cup ov) : ~Lifts(sb[t], k)
    BY <1>5 DEF TxOK
  <2>4. y.pc = "revert" => \A t \in Ids \ (y.due \cup ov2) : ~Lifts(sb2[t], k)
    BY <1>1, <2>3
  <2> QED BY <1>5, <2>1, <2>2, <2>4 DEF TxOK
<1>6. y.pc # "insert"
  BY DEF Apart
<1>7. CASE y.pc \in {"idle", "mark"}
  BY <1>7 DEF TxOK
<1> QED BY <1>2, <1>3, <1>4, <1>5, <1>6, <1>7 DEF TxOK

\* A grant sells the order it completes once.
LEMMA GrantSold ==
  ASSUME NEW sb, NEW sb2, NEW s, NEW a, GrantsRow(sb2, sb, s, a), IsGranted(a),
         NEW od, NEW od2, \A o \in Orders : od2[o] = IF o = a.source THEN "success" ELSE od[o],
         a.source \in Orders => od[a.source] = "pending", SoldOK(sb, od)
  PROVE  SoldOK(sb2, od2)
<1>1. ~IsGranted(sb[s]) /\ sb2[s] = a /\ \A t \in Ids : t # s => sb2[t] = sb[t]
  BY GrantsNew
<1>2. s \in Ids
  BY DEF GrantsRow
<1>3. ASSUME NEW o \in Orders
      PROVE  IF od2[o] = "success" THEN \E t \in Ids : SoldFor(sb2, o) = {t}
             ELSE SoldFor(sb2, o) = {}
  <2>1. CASE o = a.source
    <3>1. SoldFor(sb, o) = {}
      BY <2>1 DEF SoldOK
    <3>2. SoldFor(sb2, o) = {s}
      BY <1>1, <1>2, <2>1, <3>1 DEF SoldFor
    <3> QED BY <1>2, <2>1, <3>2
  <2>2. CASE o # a.source
    <3>1. SoldFor(sb2, o) = SoldFor(sb, o)
      BY <1>1, <2>2 DEF SoldFor
    <3> QED BY <2>2, <3>1 DEF SoldOK
  <2> QED BY <2>1, <2>2
<1> QED BY <1>3 DEF SoldOK

\* A grant keeps the limit it counted to.
LEMMA GrantLimit ==
  ASSUME NEW sb, NEW sb2, NEW s, NEW a, GrantsRow(sb2, sb, s, a), LimitOK(sb), a.plan \in Plans,
         Plan[a.plan].limit > 0 => Cardinality(BoughtOf(sb, a.plan)) < Plan[a.plan].limit
  PROVE  LimitOK(sb2)
<1>1. sb2[s] = a /\ \A t \in Ids : t # s => sb2[t] = sb[t]
  BY GrantsNew
<1>2. ASSUME NEW p \in Plans, Plan[p].limit > 0 PROVE Cardinality(BoughtOf(sb2, p)) <= Plan[p].limit
  <2>1. CASE p # a.plan
    <3>1. BoughtOf(sb2, p) \subseteq BoughtOf(sb, p)
      BY <1>1, <2>1 DEF BoughtOf
    <3>2. Cardinality(BoughtOf(sb2, p)) <= Cardinality(BoughtOf(sb, p))
      BY <3>1, BoughtFinite, FS_Subset
    <3>3. PICK m \in Nat, n \in Nat, l \in Nat :
            /\ m = Cardinality(BoughtOf(sb, p)) /\ n = Cardinality(BoughtOf(sb2, p))
            /\ l = Plan[p].limit
      BY BoughtFinite, LimitNat
    <3>4. n <= m /\ m <= l
      BY <1>2, <3>2, <3>3 DEF LimitOK
    <3>5. n <= l
      BY <3>4
    <3> QED BY <3>3, <3>5
  <2>2. CASE p = a.plan
    <3>1. BoughtOf(sb2, p) \subseteq BoughtOf(sb, p) \cup {s}
      BY <1>1 DEF BoughtOf
    <3>2. /\ IsFiniteSet(BoughtOf(sb, p) \cup {s})
          /\ \/ Cardinality(BoughtOf(sb, p) \cup {s}) = Cardinality(BoughtOf(sb, p))
             \/ Cardinality(BoughtOf(sb, p) \cup {s}) = Cardinality(BoughtOf(sb, p)) + 1
      BY BoughtFinite, FS_AddElement
    <3>3. Cardinality(BoughtOf(sb2, p)) <= Cardinality(BoughtOf(sb, p) \cup {s})
      BY <3>1, <3>2, FS_Subset
    <3>4. PICK m \in Nat, n \in Nat, l \in Nat :
            /\ m = Cardinality(BoughtOf(sb, p)) /\ n = Cardinality(BoughtOf(sb2, p))
            /\ l = Plan[p].limit
      BY BoughtFinite, LimitNat
    <3>5. PICK j : j = Cardinality(BoughtOf(sb, p) \cup {s})
      OBVIOUS
    <3>6. (j = m \/ j = m + 1) /\ n <= j /\ m < l
      BY <1>2, <2>2, <3>2, <3>3, <3>4, <3>5
    <3>7. n <= l
      BY <3>6
    <3> QED BY <3>4, <3>7
  <2> QED BY <2>1, <2>2
<1> QED BY <1>2 DEF LimitOK

\* The group a grant raises to.
RaisedTo(a, g, g2) == g2 = IF Plan[a.plan].upgrade = "" THEN g ELSE Plan[a.plan].upgrade

\* A grant is later than every other and raises the group to its own.
LEMMA GrantRaised ==
  ASSUME NEW sb, NEW sb2, NEW s, NEW a, GrantsRow(sb2, sb, s, a), IsGranted(a),
         NEW k, NEW ov, NEW ov2, ov \subseteq ov2, NEW g, NEW g2, RaisedOK(sb, k, ov, g),
         RaisedTo(a, g, g2)
  PROVE  RaisedOK(sb2, k, ov2, g2)
<1>1. ~IsGranted(sb[s]) /\ sb2[s] = a /\ \A t \in Ids : t # s => sb2[t] = sb[t]
  BY GrantsNew
<1>2. s \in Ids /\ \A t \in Ids : IsGranted(sb[t]) <=> t < s
  BY DEF GrantsRow
<1> SUFFICES ASSUME NEW u \in Ids \ ov2, Lifts(sb2[u], k)
             PROVE  HeldSince(sb2, u, g2)
  BY DEF RaisedOK
<1>3. CASE Plan[a.plan].upgrade # ""
  <2>1. Raises(sb2[s]) /\ g2 = Plan[sb2[s].plan].upgrade
    BY <1>1, <1>3 DEF Raises, RaisedTo
  <2>2. u \in Int /\ s \in Int
    BY <1>2 DEF Ids
  <2>3. u = s \/ u < s
    BY <1>1, <1>2 DEF Lifts, IsGranted
  <2>4. s >= u
    BY <2>2, <2>3
  <2> QED BY <1>2, <2>1, <2>4 DEF HeldSince
<1>4. CASE Plan[a.plan].upgrade = ""
  <2>1. u # s
    BY <1>1, <1>4 DEF Lifts
  <2>2. Lifts(sb[u], k)
    BY <1>1, <2>1
  <2>3. PICK t \in Ids : t >= u /\ Raises(sb[t]) /\ g = Plan[sb[t].plan].upgrade
    BY <2>2 DEF RaisedOK, HeldSince
  <2>4. t # s
    BY <1>1, <2>3 DEF Raises
  <2>5. sb2[t] = sb[t] /\ g2 = g
    BY <1>1, <1>4, <2>4 DEF RaisedTo
  <2> QED BY <2>3, <2>5 DEF HeldSince
<1> QED BY <1>3, <1>4

\* A grant commits.
LEMMA GrantCommitInv ==
  ASSUME SubsInv, NEW c \in SubCalls, GrantCommit(c)
  PROVE  SubsInv'
<1>1. PICK y : y = subCall[c]
  OBVIOUS
<1>2. PICK a : a = NewSub(y)
  OBVIOUS
<1>3. y.pc = "insert" /\ Return(c) /\ UNCHANGED clock
  BY <1>1 DEF GrantCommit
<1>4. /\ userGroup' = IF Plan[y.plan].upgrade = "" THEN userGroup ELSE Plan[y.plan].upgrade
      /\ orders' = [o \in Orders |-> IF o = y.source THEN "success" ELSE orders[o]]
  BY <1>1 DEF GrantCommit
<1>5. PICK s \in Ids : /\ \A t \in Ids : Granted(t) <=> t < s
                       /\ subs' = [subs EXCEPT ![s] = a]
                       /\ overtaken' = IF \E d \in SubCalls : subCall[d].pc = "revert"
                                       THEN overtaken \cup {s} ELSE overtaken
  BY <1>1, <1>2 DEF GrantCommit
<1>18. overtaken \subseteq overtaken'
  BY <1>5
<1>6. /\ y.op = "grant" /\ y.plan \in Plans /\ y.source \in SubSources
      /\ y.source \in Orders => orders[y.source] = "pending"
      /\ Plan[y.plan].limit > 0 => Cardinality(BoughtOf(subs, y.plan)) < Plan[y.plan].limit
  BY <1>1, <1>3, TxParts
<1>7. PICK e \in Nat : e = clock + Plan[y.plan].duration
  <2>1. Plan[y.plan].duration \in Nat
    BY <1>6, SubscriptionsAssumption
  <2>2. clock \in Nat
    BY DEF SubsInv, SubsShape
  <2> QED BY <2>1, <2>2
<1>8. /\ a \in [status: {"active", "expired", "cancelled", "deleted"}, plan: Plans,
                source: SubSources, end: Nat, prev: {a.prev}]
      /\ a.status = "active" /\ a.plan = y.plan /\ a.source = y.source
  <2>1. PICK q : q = IF Plan[y.plan].upgrade # "" /\ userGroup # Plan[y.plan].upgrade
                     THEN userGroup ELSE ""
    OBVIOUS
  <2>2. a = [status |-> "active", plan |-> y.plan, source |-> y.source, end |-> e, prev |-> q]
    BY <1>2, <1>7, <2>1 DEF NewSub
  <2> QED BY <1>6, <2>2
<1>9. IsGranted(a) /\ SubRow(a)
  BY <1>8 DEF IsGranted, SubRow
<1>10. /\ \A t \in Ids : subs'[t] = IF t = s THEN a ELSE subs[t]
       /\ subs' = [t \in Ids |-> subs'[t]]
  BY <1>5 DEF SubsInv, SubsShape
<1>11. GrantsRow(subs', subs, s, a)
  BY <1>5, <1>10 DEF GrantsRow, Granted, IsGranted
<1>12. \A t \in Ids : SubRow(subs'[t])
  BY <1>9, <1>10 DEF SubsInv, SubsShape
<1>13. /\ orders' = [o \in Orders |-> orders'[o]]
       /\ \A o \in Orders : orders'[o] = IF o = y.source THEN "success" ELSE orders[o]
  BY <1>4
<1>14. ASSUME NEW d \in SubCalls, d # c PROVE TxOK(subCall[d], subs', orders', clock, overtaken')
  <2>1. TxOK(subCall[d], subs, orders, clock, overtaken) /\ Apart(y, subCall[d])
    BY <1>1, <1>14 DEF SubsInv
  <2>2. subCall[d].pc = "revert" => s \in overtaken'
    BY <1>5
  <2> QED BY <1>3, <1>11, <1>13, <1>18, <2>1, <2>2, GrantTx
<1>15. SoldOK(subs', orders')
  BY <1>6, <1>8, <1>9, <1>11, <1>13, GrantSold DEF SubsInv
<1>16. LimitOK(subs')
  BY <1>6, <1>8, <1>11, GrantLimit DEF SubsInv
<1>17. RaisedOK(subs', clock, overtaken', userGroup')
  <2>1. RaisedTo(a, userGroup, userGroup')
    BY <1>4, <1>8 DEF RaisedTo
  <2>2. RaisedOK(subs, clock, overtaken, userGroup)
    BY DEF SubsInv
  <2> QED BY <1>9, <1>11, <1>18, <2>1, <2>2, GrantRaised
<1> QED BY <1>3, <1>10, <1>12, <1>13, <1>14, <1>15, <1>16, <1>17, CommitStep

\* An order that no call holds expires.
LEMMA ExpireOrderInv ==
  ASSUME SubsInv, NEW o \in Orders, ExpireOrder(o)
  PROVE  SubsInv'
<1>1. /\ orders[o] = "pending" /\ \A d \in SubCalls : ~HoldsOrder(d, o)
      /\ orders' = [orders EXCEPT ![o] = "expired"]
      /\ UNCHANGED <<clock, userGroup, subs, subCall, overtaken>>
  BY DEF ExpireOrder
<1>2. /\ \A q \in Orders : orders'[q] = IF q = o THEN "expired" ELSE orders[q]
      /\ orders' = [q \in Orders |-> orders'[q]]
  BY <1>1 DEF SubsInv, SubsShape
<1>3. ASSUME NEW d \in SubCalls PROVE TxOK(subCall[d], subs, orders', clock, overtaken)
  <2>1. TxOK(subCall[d], subs, orders, clock, overtaken)
    BY DEF SubsInv
  <2>2. Granting(subCall[d]) => InTx(d) /\ subCall[d].op = "grant"
    BY <2>1 DEF TxOK, Granting, InTx
  <2>3. Granting(subCall[d]) => subCall[d].source # o
    BY <1>1, <2>2 DEF HoldsOrder
  <2>4. CASE Granting(subCall[d])
    <3>1. subCall[d].source \in Orders => orders'[subCall[d].source] = orders[subCall[d].source]
      BY <1>2, <2>3, <2>4
    <3> QED BY <2>1, <2>4, <3>1 DEF TxOK, Granting
  <2>5. CASE ~Granting(subCall[d])
    BY <2>1, <2>5 DEF TxOK, Granting
  <2> QED BY <2>4, <2>5
<1>4. SoldOK(subs, orders')
  BY <1>1, <1>2 DEF SubsInv, SoldOK
<1> QED BY <1>1, <1>2, <1>3, <1>4 DEF SubsInv, SubsShape

\* What no longer runs does not run later.
LEMMA LiftsEarlier ==
  ASSUME SubsInv, NEW s \in Ids, Lifts(subs[s], clock + 1)
  PROVE  Lifts(subs[s], clock)
<1>1. subs[s].status = "active" /\ subs[s].end > clock + 1 /\ Plan[subs[s].plan].upgrade # ""
  BY DEF Lifts
<1>2. subs[s].end \in Nat /\ clock \in Nat
  BY <1>1, RowParts DEF IsGranted, SubsInv, SubsShape
<1>3. PICK e \in Nat, k \in Nat : e = subs[s].end /\ k = clock
  BY <1>2
<1>4. e > k + 1
  BY <1>1, <1>3
<1>5. e > k
  BY <1>4
<1> QED BY <1>1, <1>3, <1>5 DEF Lifts

\* Time passes.
LEMMA SubsTickInv ==
  ASSUME SubsInv, SubsTick
  PROVE  SubsInv'
<1>1. clock' = clock + 1 /\ UNCHANGED <<userGroup, subs, orders, subCall, overtaken>> /\ clock \in Nat
  BY DEF SubsTick, SubsInv, SubsShape
<1>2. clock' \in Nat /\ \A n \in Nat : n <= clock => n <= clock'
  BY <1>1
<1>3. \A s \in Ids : Lifts(subs[s], clock') => Lifts(subs[s], clock)
  BY <1>1, LiftsEarlier
<1>4. ASSUME NEW d \in SubCalls PROVE TxOK(subCall[d], subs, orders, clock', overtaken)
  <2>1. PICK y : y = subCall[d]
    OBVIOUS
  <2>2. TxOK(y, subs, orders, clock, overtaken)
    BY <2>1 DEF SubsInv
  <2>3. CASE y.pc \in {"lower", "lowered"}
    <3>1. /\ y.op \in {"cancelled", "deleted"}
          /\ y.sub \in Ids /\ IsPresent(subs[y.sub]) /\ y.now \in Nat /\ y.now <= clock
          /\ y.pc = "lowered" /\ y.target # "" => \A s \in Ids \ {y.sub} : ~Lifts(subs[s], clock)
      BY <2>2, <2>3 DEF TxOK
    <3>2. y.now <= clock'
      BY <1>2, <3>1
    <3>3. y.pc = "lowered" /\ y.target # "" => \A s \in Ids \ {y.sub} : ~Lifts(subs[s], clock')
      BY <1>3, <3>1
    <3> QED BY <2>1, <2>3, <3>1, <3>2, <3>3 DEF TxOK
  <2>4. CASE y.pc = "mark"
    <3>1. y.op = "expire" /\ y.now \in Nat /\ y.now <= clock'
      BY <1>2, <2>2, <2>4 DEF TxOK
    <3> QED BY <2>1, <2>4, <3>1 DEF TxOK
  <2>5. CASE y.pc = "check"
    <3>1. /\ y \in [op: {"expire"}, pc: {"check"}, now: Nat, due: SUBSET Ids] /\ y.now <= clock
          /\ \A s \in y.due : subs[s].status = "active"
      BY <2>2, <2>5 DEF TxOK
    <3>2. y.now <= clock'
      BY <1>2, <3>1
    <3> QED BY <2>1, <2>5, <3>1, <3>2 DEF TxOK
  <2>6. CASE y.pc \in {"keep", "revert"}
    <3>1. /\ y.op = "expire" /\ y.due \subseteq Ids
          /\ \A s \in y.due : subs[s].status = "active"
          /\ y.pc = "revert" => \A s \in Ids \ (y.due \cup overtaken) : ~Lifts(subs[s], clock)
      BY <2>2, <2>6 DEF TxOK
    <3>2. y.pc = "revert" => \A s \in Ids \ (y.due \cup overtaken) : ~Lifts(subs[s], clock')
      BY <1>3, <3>1
    <3> QED BY <2>1, <2>6, <3>1, <3>2 DEF TxOK
  <2>7. CASE y.pc \in {"idle", "user", "count", "insert"}
    BY <2>1, <2>2, <2>7 DEF TxOK
  <2> QED BY <2>2, <2>3, <2>4, <2>5, <2>6, <2>7 DEF TxOK
<1>5. RaisedOK(subs, clock', overtaken, userGroup)
  BY <1>3 DEF SubsInv, RaisedOK
<1> QED BY <1>1, <1>2, <1>4, <1>5 DEF SubsInv, SubsShape

\* At the start nothing is sold.
LEMMA SubsInitInv ==
  ASSUME SubsInit
  PROVE  SubsInv
<1>1. \A s \in Ids : subs[s] = NoSub /\ SubRow(NoSub)
  BY DEF SubsInit, SubRow
<1>2. ~IsGranted(NoSub) /\ ~IsPresent(NoSub) /\ \A k : ~Lifts(NoSub, k)
  BY DEF NoSub, IsGranted, IsPresent, Lifts
<1>3. SubsShape
  BY <1>1 DEF SubsInit, SubsShape
<1>4. /\ \A c \in SubCalls : TxOK(subCall[c], subs, orders, clock, overtaken)
      /\ \A c, d \in SubCalls : c # d => Apart(subCall[c], subCall[d])
  BY NoTxOK DEF SubsInit
<1>5. SoldOK(subs, orders)
  <2>1. \A o \in Orders : SoldFor(subs, o) = {} /\ orders[o] = "pending"
    BY <1>1, <1>2 DEF SubsInit, SoldFor
  <2> QED BY <2>1 DEF SoldOK
<1>6. LimitOK(subs)
  <2>1. \A p : BoughtOf(subs, p) = {}
    BY <1>1, <1>2 DEF BoughtOf
  <2>2. Cardinality({}) = 0
    BY FS_EmptySet
  <2>3. \A p \in Plans : 0 <= Plan[p].limit
    BY LimitNat
  <2> QED BY <2>1, <2>2, <2>3 DEF LimitOK
<1>7. RaisedOK(subs, clock, overtaken, userGroup)
  BY <1>1, <1>2 DEF RaisedOK
<1> QED BY <1>3, <1>4, <1>5, <1>6, <1>7 DEF SubsInv

\* Every step.
LEMMA SubsStepInv ==
  ASSUME SubsInv, [SubsNext]_subVars
  PROVE  SubsInv'
<1>1. ASSUME NEW c \in SubCalls, NEW o \in Orders, CompleteOrder(c, o) PROVE SubsInv'
  BY <1>1, GrantsBeginInv
<1>2. ASSUME NEW c \in SubCalls, NEW p \in Plans, BindSubscription(c, p) \/ PurchaseWithBalance(c, p)
      PROVE SubsInv'
  BY <1>2, GrantsBeginInv
<1>3. ASSUME NEW c \in SubCalls, NEW s \in Ids, NEW status \in {"cancelled", "deleted"},
             Withdraw(c, s, status)
      PROVE SubsInv'
  BY <1>3, WithdrawInv
<1>4. ASSUME NEW c \in SubCalls, GrantLock(c) \/ GrantCount(c) \/ GrantCommit(c) PROVE SubsInv'
  BY <1>4, GrantLockInv, GrantCountInv, GrantCommitInv
<1>5. ASSUME NEW c \in SubCalls, WithdrawLower(c) \/ WithdrawCommit(c) PROVE SubsInv'
  BY <1>5, WithdrawLowerInv, WithdrawCommitInv
<1>6. ASSUME NEW c \in SubCalls, ExpireStart(c) \/ ExpireMark(c) \/ ExpireCheck(c) \/ ExpireCommit(c)
      PROVE SubsInv'
  BY <1>6, ExpireStartInv, ExpireMarkInv, ExpireCheckInv, ExpireCommitInv
<1>7. ASSUME NEW c \in SubCalls, Rollback(c) PROVE SubsInv'
  BY <1>7, TxReturn DEF Rollback
<1>8. ASSUME NEW o \in Orders, ExpireOrder(o) PROVE SubsInv'
  BY <1>8, ExpireOrderInv
<1>9. CASE SubsTick
  BY <1>9, SubsTickInv
<1>10. CASE UNCHANGED subVars
  BY <1>10 DEF subVars, SubsInv, SubsShape
<1> QED BY <1>1, <1>2, <1>3, <1>4, <1>5, <1>6, <1>7, <1>8, <1>9, <1>10 DEF SubsNext

\* What the invariant says of the rows.
LEMMA SubsInvSays ==
  ASSUME SubsInv
  PROVE  GrantedAsSold /\ RaisedGroupKept
<1>1. ASSUME NEW o \in Orders
      PROVE  Cardinality({s \in Ids : Granted(s) /\ subs[s].source = o}) =
               IF orders[o] = "success" THEN 1 ELSE 0
  <2>1. {s \in Ids : Granted(s) /\ subs[s].source = o} = SoldFor(subs, o)
    BY DEF SoldFor, Granted, IsGranted
  <2>2. CASE orders[o] = "success"
    <3>1. PICK s \in Ids : SoldFor(subs, o) = {s}
      BY <2>2 DEF SubsInv, SoldOK
    <3>2. Cardinality({s}) = 1
      BY FS_Singleton
    <3> QED BY <2>1, <2>2, <3>1, <3>2
  <2>3. CASE orders[o] # "success"
    <3>1. SoldFor(subs, o) = {}
      BY <2>3 DEF SubsInv, SoldOK
    <3>2. Cardinality({}) = 0
      BY FS_EmptySet
    <3> QED BY <2>1, <2>3, <3>1, <3>2
  <2> QED BY <2>2, <2>3
<1>2. \A p : Purchases(p) = BoughtOf(subs, p)
  BY DEF Purchases, BoughtOf, Present, IsPresent
<1>3. \A p \in Plans : Plan[p].limit > 0 => Cardinality(Purchases(p)) <= Plan[p].limit
  BY <1>2 DEF SubsInv, LimitOK
<1>4. GrantedAsSold
  BY <1>1, <1>3 DEF GrantedAsSold
<1>5. RaisedGroupKept
  <2>1. RaisedOK(subs, clock, overtaken, userGroup)
    BY DEF SubsInv
  <2> SUFFICES ASSUME NEW s \in Ids \ overtaken, subs[s].status = "active", subs[s].end > clock,
                      Plan[subs[s].plan].upgrade # ""
               PROVE  \E t \in Ids : /\ t >= s /\ Granted(t)
                                     /\ Plan[subs[t].plan].upgrade # ""
                                     /\ userGroup = Plan[subs[t].plan].upgrade
    BY DEF RaisedGroupKept
  <2>2. Lifts(subs[s], clock)
    BY DEF Lifts
  <2>3. PICK t \in Ids : t >= s /\ Raises(subs[t]) /\ userGroup = Plan[subs[t].plan].upgrade
    BY <2>1, <2>2 DEF RaisedOK, HeldSince
  <2> QED BY <2>3 DEF Raises, Granted, IsGranted
<1> QED BY <1>4, <1>5

\* Every order that completes has granted one subscription and every other none,
\* and no plan is held beyond its limit, for any plans, orders and calls at once
\* (CompleteSubscriptionOrder, CreateUserSubscriptionFromPlanTx).
THEOREM GrantsMatchSales == SubsSpec => []GrantedAsSold
<1>1. SubsInit => SubsInv
  BY SubsInitInv
<1>2. SubsInv /\ [SubsNext]_subVars => SubsInv'
  BY SubsStepInv
<1>3. SubsInv => GrantedAsSold
  BY SubsInvSays
<1> QED BY <1>1, <1>2, <1>3, PTL DEF SubsSpec

\* While a subscription that raises the group runs, no withdrawal and no expiry of
\* another takes the group away: the user is in its group or in that of a later
\* purchase, for any plans, calls and clock readings
\* (downgradeUserGroupForSubscriptionTx, ExpireDueSubscriptions).  Only what was
\* granted between an expiry pass's question and its commit is excepted.
THEOREM GroupStaysRaised == SubsSpec => []RaisedGroupKept
<1>1. SubsInit => SubsInv
  BY SubsInitInv
<1>2. SubsInv /\ [SubsNext]_subVars => SubsInv'
  BY SubsStepInv
<1>3. SubsInv => RaisedGroupKept
  BY SubsInvSays
<1> QED BY <1>1, <1>2, <1>3, PTL DEF SubsSpec

=============================================================================
