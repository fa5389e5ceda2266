------------------------- MODULE LoginVerification -------------------------
(***************************************************************************)
(* The second factor of a login: the challenge an accepted password opens  *)
(* (StartLoginVerification), the submissions of a code (VerifyLoginCode,   *)
(* service/login_verification.go), the failure counter and backup codes of *)
(* model/twofa.go, and the transaction that consumes the challenge and     *)
(* creates the session (model/login_verification.go).  One user; one step  *)
(* per statement or transaction.                                           *)
(***************************************************************************)
EXTENDS Integers, FiniteSetsExt

CONSTANTS
  Trials,         \* requests that submit a code
  Flows,          \* challenges
  BackupCodes,
  MaxFailAttempts,
  MaxTries,       \* maxUpdateRetries of IncrementFailedAttempts
  LockTicks,      \* LockoutDuration
  FlowTicks,      \* LoginVerificationTTL
  SessionLimit,   \* UserSessionActiveLimit or UserSessionIssuanceLimit, whichever is smaller
  MaxTrials,      \* bound on the submissions of a behaviour
  MaxLoginErrors  \* bound on the errors and crashes of a behaviour

ASSUME LoginVerificationAssumption ==
  /\ IsFiniteSet(Trials) /\ Trials # {}
  /\ MaxFailAttempts \in Nat \ {0} /\ MaxTries \in Nat \ {0}
  /\ LockTicks \in Nat \ {0} /\ FlowTicks \in Nat \ {0} /\ SessionLimit \in Nat
  /\ MaxTrials \in Nat /\ MaxLoginErrors \in Nat
  /\ BackupCodes \cap {"right", "wrong"} = {}

\* A count is tried again as often as other submissions can be counted before
\* the lock.
ASSUME TriesAssumption == MaxTries >= MaxFailAttempts

VARIABLES
  userVersion,   \* users.auth_version
  factor,        \* the two_fas row: failures, ticks of the lock left
  spare,         \* backup codes not used yet
  flow,          \* the auth_flows rows
  trial,         \* the submissions
  tested,        \* history: wrong codes compared since the last reset or lock
  accepted,      \* history: how often each backup code was accepted
  trials,        \* submissions so far
  loginErrors    \* errors so far

loginVars == <<userVersion, factor, spare, flow, trial, tested, accepted, trials, loginErrors>>

Flow == [version: Nat, left: Nat, consumed: BOOLEAN, sessions: Nat]

\* seen: the failures an update compares with.
Trial == [pc: {"idle", "load", "check", "spend", "count", "countWrite", "reset", "complete"},
          flow: Flows, code: BackupCodes \cup {"right", "wrong"}, seen: Nat, tries: Nat]

LoginTypeOK ==
  /\ userVersion \in 1..2
  /\ factor \in [enabled: BOOLEAN, failed: Nat, lock: 0..LockTicks]
  /\ spare \subseteq BackupCodes
  /\ flow \in [Flows -> Flow]
  /\ trial \in [Trials -> Trial]
  /\ tested \in Nat /\ accepted \in [BackupCodes -> Nat]
  /\ trials \in 0..MaxTrials /\ loginErrors \in 0..MaxLoginErrors

NoFlow == [version |-> 0, left |-> 0, consumed |-> FALSE, sessions |-> 0]

NoTrial == [pc |-> "idle", flow |-> CHOOSE f \in Flows : TRUE, code |-> "wrong",
            seen |-> 0, tries |-> 0]

Submit(t, change) == trial' = [trial EXCEPT ![t] = change]

At(t, pc) == Submit(t, [trial[t] EXCEPT !.pc = pc])

\* The policy for logins: the factor is enabled and not locked.
Available == factor.enabled /\ factor.lock = 0

\* GetAuthFlow and the version bound to the challenge.
Open(f) == ~flow[f].consumed /\ flow[f].left > 0 /\ flow[f].version = userVersion

\* StartLoginVerification
OpenFlow(f) ==
  /\ flow[f] = NoFlow /\ Available
  /\ flow' = [flow EXCEPT ![f] = [NoFlow EXCEPT !.version = userVersion, !.left = FlowTicks]]
  /\ UNCHANGED <<userVersion, factor, spare, trial, tested, accepted, trials, loginErrors>>

\* RequireLoginVerification; its two reads are repeated when the flow is
\* consumed.
SubmitCode(t, f, code) ==
  /\ trial[t].pc = "idle" /\ trials < MaxTrials
  /\ Open(f) /\ Available
  /\ Submit(t, [NoTrial EXCEPT !.pc = "load", !.flow = f, !.code = code])
  /\ trials' = trials + 1
  /\ UNCHANGED <<userVersion, factor, spare, flow, tested, accepted, loginErrors>>

\* GetTwoFAByUserId, and the lock as this read has it.
LoadFactor(t) ==
  /\ trial[t].pc = "load"
  /\ \/ Available /\ At(t, "check")
     \/ ~Available /\ Submit(t, NoTrial)
  /\ UNCHANGED <<userVersion, factor, spare, flow, tested, accepted, trials, loginErrors>>

WrongCode(t) == At(t, "count") /\ tested' = tested + 1

\* VerifyTwoFactorCode: a TOTP code, or the unused backup codes are searched.
CheckCode(t) ==
  LET code == trial[t].code
  IN /\ trial[t].pc = "check"
     /\ \/ code = "right" /\ At(t, "reset") /\ UNCHANGED tested
        \/ code \in spare /\ At(t, "spend") /\ UNCHANGED tested
        \/ code # "right" /\ code \notin spare /\ WrongCode(t)
     /\ UNCHANGED <<userVersion, factor, spare, flow, accepted, trials, loginErrors>>

\* Mutant: the backup code's update does not compare is_used.
StillSpare_Unchecked(code) == TRUE

StillSpare(code) == code \in spare

\* ValidateBackupCode's update.
SpendCode(t) ==
  LET code == trial[t].code
  IN /\ trial[t].pc = "spend"
     /\ \/ /\ StillSpare(code)
           /\ spare' = spare \ {code}
           /\ accepted' = [accepted EXCEPT ![code] = @ + 1]
           /\ At(t, "reset") /\ UNCHANGED tested
        \/ ~StillSpare(code) /\ WrongCode(t) /\ UNCHANGED <<spare, accepted>>
     /\ UNCHANGED <<userVersion, factor, flow, trials, loginErrors>>

\* IncrementFailedAttempts reads the row; nothing is counted under a lock.
CountRead(t) ==
  /\ trial[t].pc = "count"
  /\ \/ Available /\ Submit(t, [trial[t] EXCEPT !.pc = "countWrite", !.seen = factor.failed])
     \/ ~Available /\ Submit(t, NoTrial)
  /\ UNCHANGED <<userVersion, factor, spare, flow, tested, accepted, trials, loginErrors>>

\* Mutant: the update does not compare failed_attempts.
Unraced_LockOnly(t) == Available

\* The update's condition.
Unraced(t) == Available /\ factor.failed = trial[t].seen

CountWrite(t) ==
  LET failed == trial[t].seen + 1
  IN /\ trial[t].pc = "countWrite"
     /\ \/ /\ Unraced(t)
           /\ factor' = [factor EXCEPT !.failed = failed,
                           !.lock = IF failed >= MaxFailAttempts THEN LockTicks ELSE @]
           /\ Submit(t, NoTrial)
        \/ /\ ~Unraced(t) /\ trial[t].tries + 1 < MaxTries
           /\ Submit(t, [trial[t] EXCEPT !.pc = "count", !.tries = @ + 1])
           /\ UNCHANGED factor
        \/ /\ ~Unraced(t) /\ trial[t].tries + 1 >= MaxTries
           /\ Submit(t, NoTrial) /\ UNCHANGED factor
     /\ UNCHANGED <<userVersion, spare, flow, tested, accepted, trials, loginErrors>>

\* updateUsageState writes no failures and no lock, whatever the row has now.
ResetCount(t) ==
  /\ trial[t].pc = "reset"
  /\ factor' = IF factor.enabled THEN [factor EXCEPT !.failed = 0, !.lock = 0] ELSE factor
  /\ tested' = IF factor.enabled THEN 0 ELSE tested
  /\ At(t, "complete")
  /\ UNCHANGED <<userVersion, spare, flow, accepted, trials, loginErrors>>

\* No session ends here, so those that are active are also those issued lately.
ActiveSessions == MapThenSumSet(LAMBDA f : flow[f].sessions, Flows)

\* Mutant: the claim does not ask whether the flow was consumed.
Claimable_Again(f) ==
  flow[f].left > 0 /\ flow[f].version = userVersion /\ Available /\ ActiveSessions < SessionLimit

\* What CreateUserSessionFromLoginFlow checks again in its transaction.
Claimable(f) == Open(f) /\ Available /\ ActiveSessions < SessionLimit

\* The flow is consumed and the session created, or neither.
CompleteLogin(t) ==
  LET f == trial[t].flow
  IN /\ trial[t].pc = "complete" /\ Submit(t, NoTrial)
     /\ flow' = IF Claimable(f)
                THEN [flow EXCEPT ![f] = [flow[f] EXCEPT !.consumed = TRUE, !.sessions = @ + 1]]
                ELSE flow
     /\ UNCHANGED <<userVersion, factor, spare, tested, accepted, trials, loginErrors>>

\* A statement fails or the node stops: the submission ends where it is.
BreakOff(t) ==
  /\ trial[t].pc # "idle" /\ loginErrors < MaxLoginErrors
  /\ loginErrors' = loginErrors + 1
  /\ Submit(t, NoTrial)
  /\ UNCHANGED <<userVersion, factor, spare, flow, tested, accepted, trials>>

\* DisableTwoFA removes the row and the codes under a new version.
DisableFactor ==
  /\ factor.enabled
  /\ factor' = [enabled |-> FALSE, failed |-> 0, lock |-> 0]
  /\ spare' = {}
  /\ userVersion' = userVersion + 1
  /\ UNCHANGED <<flow, trial, tested, accepted, trials, loginErrors>>

\* One tick of the lock and of the challenges.
LoginTick ==
  /\ factor.lock > 0 \/ \E f \in Flows : flow[f].left > 0
  /\ factor' = [factor EXCEPT !.lock = IF @ > 0 THEN @ - 1 ELSE 0]
  /\ flow' = [f \in Flows |-> [flow[f] EXCEPT !.left = IF @ > 0 THEN @ - 1 ELSE 0]]
  /\ tested' = IF factor.lock = 1 THEN 0 ELSE tested
  /\ UNCHANGED <<userVersion, spare, trial, accepted, trials, loginErrors>>

LoginInit ==
  /\ userVersion = 1
  /\ factor = [enabled |-> TRUE, failed |-> 0, lock |-> 0]
  /\ spare = BackupCodes
  /\ flow = [f \in Flows |-> NoFlow]
  /\ trial = [t \in Trials |-> NoTrial]
  /\ tested = 0 /\ accepted = [c \in BackupCodes |-> 0]
  /\ trials = 0 /\ loginErrors = 0

TrialStep(t) ==
  \/ \E f \in Flows, code \in BackupCodes \cup {"right", "wrong"} : SubmitCode(t, f, code)
  \/ LoadFactor(t) \/ CheckCode(t) \/ SpendCode(t) \/ CountRead(t) \/ CountWrite(t)
  \/ ResetCount(t) \/ CompleteLogin(t) \/ BreakOff(t)

LoginNext ==
  \/ \E f \in Flows : OpenFlow(f)
  \/ \E t \in Trials : TrialStep(t)
  \/ DisableFactor \/ LoginTick

LoginSpec == LoginInit /\ [][LoginNext]_loginVars

-----------------------------------------------------------------------------
(* Properties *)

\* A challenge gives one session and a backup code is accepted once, however
\* many submissions race ("a different request cannot reuse this
\* authorization").
UsedOnce ==
  /\ \A f \in Flows : flow[f].sessions <= 1
  /\ \A c \in BackupCodes : accepted[c] <= 1

\* The lock comes after MaxFailAttempts wrong codes: beside those, at most one more per
\* submission under way is compared before it holds, and one per failed count.
\* No concurrent count is lost.
LockComesInTime == tested <= MaxFailAttempts + Cardinality(Trials) - 1 + loginErrors

=============================================================================
