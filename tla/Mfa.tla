-------------------------------- MODULE Mfa --------------------------------
(***************************************************************************)
(* The second factor of one account: enrolling, the codes that are         *)
(* presented at a login, a change of the password, a removal or a renewal, *)
(* and the codes sent by mail.                                             *)
(*                                                                         *)
(* A challenge runs under the lock of the user's row, but every COMMIT on  *)
(* its way gives the lock up: that of the audit entry which records a TOTP *)
(* step, and that of the UPDATE which burns an attempt.  What follows is   *)
(* done without it.  A request that raises or dies is rolled back, and     *)
(* what it has committed stays.                                            *)
(***************************************************************************)
EXTENDS Naturals

CONSTANTS
  Requests,     \* requests that are handled at one time
  Secrets,      \* bound: TOTP secrets that may be minted
  MaxStep,      \* bound: TOTP time steps
  BackupCodes,  \* bound: recovery codes, one stands for a set of ten
  EmailCodes,   \* bound: codes that may be mailed
  PlainSteps,   \* bound: time steps whose codes somebody presents,
  WideSteps,    \*   and those whose codes come in other digits
  MaxAttempts,  \* _MFA_EMAIL_CODE_MAX_ATTEMPTS
  Wrong         \* a six-digit code that is none of them

Steps == 1..MaxStep

TotpCodes == [secret : Secrets, step : Steps]

Codes == TotpCodes \union BackupCodes \union EmailCodes

\* A TOTP code in digits of another script: pyotp normalises them, the service does not.
WideCodes == [wide : TotpCodes]

Presentable == Codes \union WideCodes \union {Wrong}

ASSUME MfaAssumption ==
  /\ Secrets \subseteq Nat \ {0}
  /\ MaxStep \in Nat \ {0}
  /\ MaxAttempts \in Nat
  /\ BackupCodes \intersect EmailCodes = {}
  /\ TotpCodes \intersect (BackupCodes \union EmailCodes) = {}
  /\ WideCodes \intersect Codes = {}
  /\ Wrong \notin Codes \union WideCodes

VARIABLES
  \* the database
  enabled,   \* users.mfa_enabled
  secret,    \* users.mfa_secret, 0 when there is none
  marker,    \* the last step recorded by _record_accepted_totp_step
  backup,    \* mfa_backup_codes
  email,     \* mfa_email_codes
  locker,    \* who holds the lock of the user's row: at most one request
  \* the requests being handled
  run,
  \* time and history
  now,       \* the current TOTP step
  minted,    \* secrets made so far
  accepts,   \* how often each code has been accepted, in plain digits
  spent      \* how often each step has been recorded

rowVars == <<enabled, secret, marker, backup, email>>
vars    == <<rowVars, locker, run, now, minted, accepts, spent>>

NoSecret == 0

Idle == [pc |-> "idle"]

\* What a presented code is for.  change_password presents it like login: what
\* they do with it once it is accepted is no part of this module.
Kinds == {"login", "disable", "regenerate", "verify"}

RunType ==
  {Idle, [pc |-> "retire"]}
    \union [pc : {"lock", "match", "email", "redeem", "backup", "claim"},
            kind : Kinds, code : Presentable]
    \union [pc : {"totp"}, kind : Kinds, code : Presentable, secret : Secrets]
    \union [pc : {"record"}, kind : Kinds, code : Codes \union WideCodes, step : Steps]
    \union [pc : {"burn"}, kind : Kinds, code : Presentable, rows : SUBSET EmailCodes]
    \union [pc : {"write"}, kind : Kinds \union {"setup"}]
    \union [pc : {"rewrite"}, kind : Kinds \union {"setup"}, rows : SUBSET BackupCodes]
    \union [pc : {"issue"}, rows : SUBSET EmailCodes]
    \union [pc : {"send"}, sent : EmailCodes]

TypeOK ==
  /\ enabled \in BOOLEAN
  /\ secret \in Secrets \union {NoSecret}
  /\ marker \in Steps \union {0}
  /\ backup \in [BackupCodes -> {"none", "live", "used", "deleted"}]
  /\ email \in [EmailCodes -> [state : {"none", "live", "used"}, attempts : Nat]]
  /\ locker \subseteq Requests
  /\ run \in [Requests -> RunType]
  /\ now \in Steps
  /\ minted \subseteq Secrets
  /\ accepts \in [Codes -> Nat]
  /\ spent \in [Steps -> Nat]

Init ==
  /\ enabled = FALSE
  /\ secret = NoSecret
  /\ marker = 0
  /\ backup = [c \in BackupCodes |-> "none"]
  /\ email = [c \in EmailCodes |-> [state |-> "none", attempts |-> 0]]
  /\ locker = {}
  /\ run = [q \in Requests |-> Idle]
  /\ now = 1
  /\ minted = {}
  /\ accepts = [c \in Codes |-> 0]
  /\ spent = [s \in Steps |-> 0]

At(q, pc) == run[q].pc = pc

Goto(q, r) == run' = [run EXCEPT ![q] = r]

\* q goes on at pc with the code it was given.
Present(q, pc) == Goto(q, [pc |-> pc, kind |-> run[q].kind, code |-> run[q].code])

\* The transaction of q ends, and with it the lock.
Release(q) == locker' = locker \ {q}

\* A write of the user's row, or of a row that refers to it, waits for the lock.
Unlocked(q) == locker \subseteq {q}

Existing == {c \in BackupCodes : backup[c] \in {"live", "used"}}

\* Mutant: one attempt more than the limit.
LiveEmailOneMore == {c \in EmailCodes : email[c].state = "live" /\ email[c].attempts <= MaxAttempts}

LiveEmail == {c \in EmailCodes : email[c].state = "live" /\ email[c].attempts < MaxAttempts}

Outside == <<now, minted, accepts, spent>>

-----------------------------------------------------------------------------
\* Requests come in.  Their checks are made on the user as the session has
\* loaded it, without a lock.

\* Codes somebody may have in hand; among them those of earlier steps and of
\* earlier secrets, and those that are used.
Known ==
  LET totp == {c \in TotpCodes : c.secret \in minted /\ c.step <= now + 1}
  IN  {c \in totp : c.step \in PlainSteps}
        \union [wide : {c \in totp : c.step \in WideSteps}]
        \union {c \in BackupCodes : backup[c] # "none"}
        \union {c \in EmailCodes : email[c].state # "none"}
        \union {Wrong}

\* login, change_password, disable_mfa, regenerate_backup_codes
PresentCode(q) ==
  /\ At(q, "idle")
  /\ enabled
  /\ \E kind \in Kinds \ {"verify"}, code \in Known :
       Goto(q, [pc |-> "lock", kind |-> kind, code |-> code])
  /\ UNCHANGED <<rowVars, locker, Outside>>

\* disable_mfa asks for no code when the factor is not enabled.
DisableUnenrolled(q) ==
  /\ At(q, "idle")
  /\ ~enabled
  /\ Goto(q, [pc |-> "write", kind |-> "disable"])
  /\ UNCHANGED <<rowVars, locker, Outside>>

SetupMfa(q) ==
  /\ At(q, "idle")
  /\ ~enabled
  /\ Goto(q, [pc |-> "write", kind |-> "setup"])
  /\ UNCHANGED <<rowVars, locker, Outside>>

VerifySetup(q) ==
  /\ At(q, "idle")
  /\ \E code \in Known : Goto(q, [pc |-> "lock", kind |-> "verify", code |-> code])
  /\ UNCHANGED <<rowVars, locker, Outside>>

RequestEmailCode(q) ==
  /\ At(q, "idle")
  /\ enabled
  /\ Goto(q, [pc |-> "retire"])
  /\ UNCHANGED <<rowVars, locker, Outside>>

-----------------------------------------------------------------------------
\* The challenge

\* For the other kinds of codes, six digits of the authenticator are a wrong code.
OtherKinds(q) ==
  [pc |-> "email", kind |-> run[q].kind,
   code |-> IF run[q].code \in BackupCodes \union EmailCodes THEN run[q].code ELSE Wrong]

\* The user as it is under the lock: a confirmation is refused if it is already
\* enabled or not set up, a challenge without a secret skips the TOTP.
AfterLock(q) ==
  LET r == run[q]
  IN IF r.kind = "verify" /\ (enabled \/ secret = NoSecret) THEN Idle
     ELSE IF secret = NoSecret THEN OtherKinds(q)
     ELSE [pc |-> "totp", kind |-> r.kind, code |-> r.code, secret |-> secret]

\* Mutant: the row is read without the lock.
LockNothing(q) ==
  /\ At(q, "lock")
  /\ Goto(q, AfterLock(q))
  /\ UNCHANGED <<rowVars, locker, Outside>>

\* _lock_user_row_for_mfa, and the checks made under the lock.
LockRow(q) ==
  /\ At(q, "lock")
  /\ locker = {}
  /\ Goto(q, AfterLock(q))
  /\ locker' = IF AfterLock(q) = Idle THEN {} ELSE {q}
  /\ UNCHANGED <<rowVars, Outside>>

\* Is a step within the window, which is one step to both sides?
InWindow(step) == step + 1 >= now /\ step <= now + 1

\* totp.verify, which reads the clock.
Valid(q) ==
  \E c \in TotpCodes :
    run[q].code \in {c, [wide |-> c]} /\ c.secret = run[q].secret /\ InWindow(c.step)

\* The code is not accepted as a TOTP: a challenge goes on with the other kinds.
Refuse(q) ==
  IF run[q].kind = "verify" THEN Goto(q, Idle) /\ Release(q)
  ELSE Goto(q, OtherKinds(q)) /\ UNCHANGED locker

VerifyTotp(q) ==
  /\ At(q, "totp")
  /\ IF Valid(q) THEN Present(q, "match") /\ UNCHANGED locker ELSE Refuse(q)
  /\ UNCHANGED <<rowVars, Outside>>

\* The step that a valid code stands for.  The clock is read again: a code whose
\* step has left the window since then, or that is not in plain digits, stands
\* for the present.
Matched(q) ==
  IF run[q].code \in TotpCodes /\ InWindow(run[q].code.step) THEN run[q].code.step ELSE now

\* Mutant: a step may be the last one that was accepted.
FreshOrLast(step) == step >= marker

Fresh(step) == step > marker

\* It is compared with the last one that was accepted.
MatchTotp(q) ==
  /\ At(q, "match")
  /\ IF Fresh(Matched(q))
     THEN /\ Goto(q, [pc |-> "record", kind |-> run[q].kind, code |-> run[q].code,
                      step |-> Matched(q)])
          /\ UNCHANGED locker
     ELSE Refuse(q)
  /\ UNCHANGED <<rowVars, Outside>>

\* The code of q is accepted.
Accept(q) ==
  /\ accepts' = [c \in Codes |-> IF c = run[q].code THEN accepts[c] + 1 ELSE accepts[c]]
  /\ Goto(q, IF run[q].kind = "login" THEN Idle ELSE [pc |-> "write", kind |-> run[q].kind])

\* Mutant: the step after the accepted one is recorded.
RecordNextStep(q) ==
  /\ At(q, "record")
  /\ marker' = run[q].step + 1
  /\ spent' = [spent EXCEPT ![run[q].step] = @ + 1]
  /\ Accept(q)
  /\ Release(q)
  /\ UNCHANGED <<enabled, secret, backup, email, now, minted>>

\* log_audit commits the step: the lock is free before anything is done with it.
RecordStep(q) ==
  /\ At(q, "record")
  /\ marker' = run[q].step
  /\ spent' = [spent EXCEPT ![run[q].step] = @ + 1]
  /\ Accept(q)
  /\ Release(q)
  /\ UNCHANGED <<enabled, secret, backup, email, now, minted>>

\* _consume_mfa_email_code reads the live codes.
CheckEmail(q) ==
  /\ At(q, "email")
  /\ IF run[q].code \in LiveEmail THEN Present(q, "redeem")
     ELSE IF run[q].code \notin BackupCodes /\ LiveEmail # {}
       THEN Goto(q, [pc |-> "burn", kind |-> run[q].kind, code |-> run[q].code,
                     rows |-> LiveEmail])
     ELSE Present(q, "backup")
  /\ UNCHANGED <<rowVars, locker, Outside>>

\* The guarded UPDATE; when no row is left for it, the code is refused.
RedeemEmail(q) ==
  /\ At(q, "redeem")
  /\ IF email[run[q].code].state = "live"
     THEN /\ email' = [email EXCEPT ![run[q].code].state = "used"]
          /\ Accept(q)
     ELSE Goto(q, Idle) /\ UNCHANGED <<email, accepts>>
  /\ Release(q)
  /\ UNCHANGED <<enabled, secret, marker, backup, now, minted, spent>>

\* A wrong six-digit code costs every live one an attempt; the COMMIT gives the
\* lock up.
BurnAttempt(q) ==
  /\ At(q, "burn")
  /\ email' = [c \in EmailCodes |->
                 IF c \in run[q].rows THEN [email[c] EXCEPT !.attempts = @ + 1] ELSE email[c]]
  /\ Present(q, "backup")
  /\ Release(q)
  /\ UNCHANGED <<enabled, secret, marker, backup, Outside>>

\* The unused recovery codes are read, without the lock if an attempt was burned.
CheckBackup(q) ==
  /\ At(q, "backup")
  /\ IF run[q].code \in BackupCodes /\ backup[run[q].code] = "live"
     THEN Present(q, "claim") /\ UNCHANGED locker
     ELSE Goto(q, Idle) /\ Release(q)
  /\ UNCHANGED <<rowVars, Outside>>

\* The guarded UPDATE.
ClaimBackup(q) ==
  /\ At(q, "claim")
  /\ IF backup[run[q].code] = "live"
     THEN /\ backup' = [backup EXCEPT ![run[q].code] = "used"]
          /\ Accept(q)
     ELSE Goto(q, Idle) /\ UNCHANGED <<backup, accepts>>
  /\ Release(q)
  /\ UNCHANGED <<enabled, secret, marker, email, now, minted, spent>>

-----------------------------------------------------------------------------
\* What the requests write, without the lock of the challenge

\* verify_mfa_setup: enabled, with a set of recovery codes.
Enable(q) ==
  /\ At(q, "write")
  /\ run[q].kind = "verify"
  /\ Unlocked(q)
  /\ enabled' = TRUE
  /\ \E c \in BackupCodes : backup[c] = "none" /\ backup' = [backup EXCEPT ![c] = "live"]
  /\ Goto(q, Idle)
  /\ UNCHANGED <<secret, marker, email, locker, Outside>>

\* The others first read the recovery codes there are.
LoadBackups(q) ==
  /\ At(q, "write")
  /\ run[q].kind # "verify"
  /\ Goto(q, [pc |-> "rewrite", kind |-> run[q].kind, rows |-> Existing])
  /\ UNCHANGED <<rowVars, locker, Outside>>

Deleted(q) == [c \in BackupCodes |-> IF c \in run[q].rows THEN "deleted" ELSE backup[c]]

MintSecret(q) ==
  /\ At(q, "rewrite")
  /\ run[q].kind = "setup"
  /\ Unlocked(q)
  /\ \E s \in Secrets \ minted : secret' = s /\ minted' = minted \union {s}
  /\ backup' = Deleted(q)
  /\ Goto(q, Idle)
  /\ UNCHANGED <<enabled, marker, email, locker, now, accepts, spent>>

Disable(q) ==
  /\ At(q, "rewrite")
  /\ run[q].kind = "disable"
  /\ Unlocked(q)
  /\ enabled' = FALSE
  /\ secret' = NoSecret
  /\ backup' = Deleted(q)
  /\ Goto(q, Idle)
  /\ UNCHANGED <<marker, email, locker, Outside>>

Regenerate(q) ==
  /\ At(q, "rewrite")
  /\ run[q].kind = "regenerate"
  /\ Unlocked(q)
  /\ \E c \in BackupCodes :
       backup[c] = "none" /\ backup' = [Deleted(q) EXCEPT ![c] = "live"]
  /\ Goto(q, Idle)
  /\ UNCHANGED <<enabled, secret, marker, email, locker, Outside>>

\* request_mfa_email_code: the UPDATE that retires the codes it finds ...
RetireEmail(q) ==
  /\ At(q, "retire")
  /\ Goto(q, [pc |-> "issue", rows |-> {c \in EmailCodes : email[c].state = "live"}])
  /\ UNCHANGED <<rowVars, locker, Outside>>

\* ... is committed with the new code.
IssueEmail(q) ==
  /\ At(q, "issue")
  /\ Unlocked(q)
  /\ \E new \in EmailCodes :
       /\ email[new].state = "none"
       /\ email' = [c \in EmailCodes |->
                      IF c = new THEN [state |-> "live", attempts |-> 0]
                      ELSE IF c \in run[q].rows THEN [email[c] EXCEPT !.state = "used"]
                      ELSE email[c]]
       /\ Goto(q, [pc |-> "send", sent |-> new])
  /\ UNCHANGED <<enabled, secret, marker, backup, locker, Outside>>

\* The mail goes out, or its code is retired.
SendEmail(q) ==
  /\ At(q, "send")
  /\ \/ UNCHANGED email
     \/ email' = [email EXCEPT ![run[q].sent].state = "used"]
  /\ Goto(q, Idle)
  /\ UNCHANGED <<enabled, secret, marker, backup, locker, Outside>>

-----------------------------------------------------------------------------
Tick ==
  /\ now < MaxStep
  /\ now' = now + 1
  /\ UNCHANGED <<rowVars, locker, run, minted, accepts, spent>>

\* A request raises, or its process is killed.
Dies(q) ==
  /\ ~At(q, "idle")
  /\ Goto(q, Idle)
  /\ Release(q)
  /\ UNCHANGED <<rowVars, Outside>>

Incoming(q) ==
  PresentCode(q) \/ DisableUnenrolled(q) \/ SetupMfa(q) \/ VerifySetup(q) \/ RequestEmailCode(q)

Challenge(q) ==
  \/ LockRow(q) \/ VerifyTotp(q) \/ MatchTotp(q) \/ RecordStep(q)
  \/ CheckEmail(q) \/ RedeemEmail(q) \/ BurnAttempt(q)
  \/ CheckBackup(q) \/ ClaimBackup(q)

Write(q) ==
  \/ Enable(q) \/ LoadBackups(q) \/ MintSecret(q) \/ Disable(q) \/ Regenerate(q)
  \/ RetireEmail(q) \/ IssueEmail(q) \/ SendEmail(q)

Next == Tick \/ \E q \in Requests : Incoming(q) \/ Challenge(q) \/ Write(q) \/ Dies(q)

Spec == Init /\ [][Next]_vars

-----------------------------------------------------------------------------
\* A recovery code and a mailed code are accepted once, and so is a time step,
\* whatever code it was recorded for: whatever requests present codes at the same
\* time, in whatever order their steps come, before and after the factor is removed
\* and enrolled again.  For the steps this rests on the lock, which is held from the
\* comparison with the marker to the COMMIT of the new one; for the others on their
\* guarded UPDATEs.
AcceptedOnce ==
  /\ \A c \in BackupCodes \union EmailCodes : accepts[c] <= 1
  /\ \A s \in Steps : spent[s] <= 1

\* A TOTP code in plain digits can be accepted twice: for its own step, and for the
\* present by a request that verified it before its step left the window.  It is not
\* accepted a third time: there is one such request, which has the lock.
ReplayedOnce == \A c \in TotpCodes : accepts[c] <= 2

\* A mailed code is not tried more often than _MFA_EMAIL_CODE_MAX_ATTEMPTS,
\* also when the guesses come at the same time: the count is read and raised
\* under the lock.
GuessesAreBounded == \A c \in EmailCodes : email[c].attempts <= MaxAttempts
=============================================================================
