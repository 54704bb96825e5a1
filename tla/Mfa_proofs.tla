----------------------------- MODULE Mfa_proofs -----------------------------
(***************************************************************************)
(* Time steps, recovery codes and mailed codes are accepted once, a TOTP   *)
(* code at most twice, and a mailed code is guessed at a bounded number of *)
(* times, for every number of requests, secrets, time steps and codes.     *)
(*                                                                         *)
(* The argument: whoever has verified a TOTP, or has counted the attempts  *)
(* of the mailed codes, holds the lock of the user's row, and only one     *)
(* request does.  So the marker it has seen is still the marker when it    *)
(* writes its own.  A TOTP code that is accepted for its own step takes    *)
(* the marker there.  One that is accepted for the present was verified    *)
(* before its step left the window, and by the only request that can do    *)
(* so: none verifies it after.  The other codes leave the state "live"     *)
(* with the UPDATE that accepts them, and never come back to it.           *)
(***************************************************************************)
EXTENDS Mfa, TLAPS

\* Where a request is between taking the lock and its first COMMIT.
UnderLock == {"totp", "match", "record", "email", "redeem", "burn"}

OneLocker == \A p, q \in Requests : p \in locker /\ q \in locker => p = q

\* How often a TOTP code was accepted for its own step at most ...
Own(c) == IF c.step <= marker THEN 1 ELSE 0

\* ... and for another one.
Late(c) == IF now > c.step + 1 THEN 1 ELSE 0

\* When a TOTP code is verified its window has begun, and it was not accepted for a
\* step after it.
Verified(c) == c \in TotpCodes => c.step <= now + 1 /\ accepts[c] <= Own(c)

\* What may be recorded for c.
MayRecord(c, step) ==
  /\ step \in Steps
  /\ step > marker
  /\ c \in TotpCodes => step = c.step \/ (step > c.step + 1 /\ step <= now /\ Verified(c))

\* What a request knows at its place.
RequestOK(q) ==
  /\ run[q].pc \in UnderLock => q \in locker
  /\ run[q].pc \in {"match", "record"} => run[q].code \in TotpCodes \union WideCodes
  /\ run[q].pc = "match" => Verified(run[q].code)
  /\ run[q].pc = "record" => MayRecord(run[q].code, run[q].step)
  /\ run[q].pc = "redeem" => run[q].code \in EmailCodes
  /\ run[q].pc = "claim" => run[q].code \in BackupCodes
  /\ run[q].pc = "burn" => \A c \in run[q].rows : email[c].attempts < MaxAttempts

\* What has been accepted cannot be accepted again.
SpentSteps ==
  \A s \in Steps : spent[s] <= 1 /\ (spent[s] > 0 => s <= marker)
SpentTotp ==
  \A c \in TotpCodes : accepts[c] <= Own(c) + Late(c)
SpentBackup ==
  \A c \in BackupCodes :
    accepts[c] <= 1 /\ (accepts[c] > 0 => backup[c] \in {"used", "deleted"})
SpentEmail ==
  \A c \in EmailCodes :
    accepts[c] <= 1 /\ (accepts[c] > 0 => email[c].state = "used")
Spent == SpentSteps /\ SpentTotp /\ SpentBackup /\ SpentEmail

IInv ==
  /\ TypeOK
  /\ OneLocker
  /\ \A q \in Requests : RequestOK(q)
  /\ Spent
  /\ GuessesAreBounded

\* What the record types say of a request.
LEMMA RunFields ==
  ASSUME TypeOK, NEW q \in Requests
  PROVE  /\ run[q].pc \in {"lock", "totp", "match", "record", "email", "redeem", "burn",
                          "backup", "claim"}
              => run[q].kind \in Kinds /\ run[q].code \in Presentable
         /\ run[q].pc = "record" => run[q].step \in Steps
         /\ run[q].pc = "totp" => run[q].secret \in Secrets
         /\ run[q].pc = "burn" => run[q].rows \subseteq EmailCodes
         /\ run[q].pc \in {"write", "rewrite"} => run[q].kind \in Kinds \union {"setup"}
         /\ run[q].pc = "rewrite" => run[q].rows \subseteq BackupCodes
         /\ run[q].pc = "issue" => run[q].rows \subseteq EmailCodes
         /\ run[q].pc = "send" => run[q].sent \in EmailCodes
<1>1. run[q] \in RunType
  BY DEF TypeOK
<1> QED
  BY <1>1 DEF RunType, Idle, Presentable

\* Records that describe a request.
LEMMA RunRecords ==
  /\ Idle \in RunType /\ [pc |-> "retire"] \in RunType
  /\ \A kind \in Kinds, code \in Codes \union WideCodes, s \in Steps :
       [pc |-> "record", kind |-> kind, code |-> code, step |-> s] \in RunType
  /\ \A kind \in Kinds, code \in Presentable :
       /\ \A pc \in {"lock", "match", "email", "redeem", "backup", "claim"} :
            [pc |-> pc, kind |-> kind, code |-> code] \in RunType
       /\ \A s \in Secrets : [pc |-> "totp", kind |-> kind, code |-> code, secret |-> s] \in RunType
       /\ \A S \in SUBSET EmailCodes :
            [pc |-> "burn", kind |-> kind, code |-> code, rows |-> S] \in RunType
  /\ \A kind \in Kinds \union {"setup"} :
       /\ [pc |-> "write", kind |-> kind] \in RunType
       /\ \A S \in SUBSET BackupCodes : [pc |-> "rewrite", kind |-> kind, rows |-> S] \in RunType
  /\ \A S \in SUBSET EmailCodes : [pc |-> "issue", rows |-> S] \in RunType
  /\ \A c \in EmailCodes : [pc |-> "send", sent |-> c] \in RunType
BY DEF RunType

\* The invariant holds at the start.
LEMMA InitIInv ==
  ASSUME MfaAssumption
  PROVE  Init => IInv
<1> SUFFICES ASSUME Init PROVE IInv
  OBVIOUS
<1>1. TypeOK
  <2>1. run \in [Requests -> RunType] /\ now \in Steps
    BY RunRecords DEF Init, MfaAssumption, Steps
  <2> QED
    BY <2>1 DEF Init, TypeOK
<1>2. OneLocker /\ \A q \in Requests : RequestOK(q)
  BY DEF Init, OneLocker, RequestOK, UnderLock, Idle
<1>3. Spent
  <2>1. \A c \in Codes : accepts[c] = 0
    BY DEF Init
  <2>2. \A c \in Codes : accepts[c] <= 1 /\ ~(accepts[c] > 0)
    BY <2>1
  <2>3. SpentTotp
    BY <2>1 DEF SpentTotp, Own, Late, Codes
  <2>4. SpentSteps
    BY DEF Init, SpentSteps
  <2> QED
    BY <2>2, <2>3, <2>4 DEF Spent, SpentBackup, SpentEmail, Codes
<1>4. GuessesAreBounded
  BY DEF Init, GuessesAreBounded, MfaAssumption
<1> QED
  BY <1>1, <1>2, <1>3, <1>4 DEF IInv

\* A step of q that keeps the lock of the others, and writes the marker, the attempts
\* and the acceptances of TOTP codes only with its own, disturbs no other request.
LEMMA OthersKept ==
  ASSUME IInv, TypeOK', NEW q \in Requests, NEW r, Goto(q, r),
         \A p \in Requests \ {q} : p \in locker => p \in locker',
         now' = now,
         \/ q \in locker
         \/ /\ marker' = marker
            /\ \A c \in TotpCodes : accepts'[c] = accepts[c]
            /\ \A c \in EmailCodes : email'[c].attempts <= email[c].attempts
  PROVE  \A p \in Requests \ {q} : RequestOK(p)'
<1> SUFFICES ASSUME NEW p \in Requests \ {q} PROVE RequestOK(p)'
  OBVIOUS
<1>1. run'[p] = run[p]
  BY DEF Goto, IInv, TypeOK
<1>2. RequestOK(p)
  BY DEF IInv
<1>3. CASE run[p].pc \in UnderLock
  <2>1. p \in locker /\ p \in locker'
    BY <1>2, <1>3 DEF RequestOK
  <2>2. q \notin locker
    BY <2>1 DEF IInv, OneLocker
  <2>3. run[p].pc = "burn" => \A c \in run[p].rows : email'[c].attempts < MaxAttempts
    <3> SUFFICES ASSUME run[p].pc = "burn", NEW c \in run[p].rows
                 PROVE  email'[c].attempts < MaxAttempts
      OBVIOUS
    <3>1. c \in EmailCodes
      BY RunFields DEF IInv
    <3>2. email[c].attempts \in Nat /\ email'[c].attempts \in Nat
      BY <3>1 DEF IInv, TypeOK
    <3>3. email[c].attempts < MaxAttempts /\ MaxAttempts \in Nat
      BY <1>2, MfaAssumption DEF RequestOK, MfaAssumption
    <3> QED
      BY <3>1, <3>2, <3>3, <2>2
  <2>4. marker' = marker /\ \A c \in TotpCodes : accepts'[c] = accepts[c]
    BY <2>2
  <2>5. run[p].pc = "match" => Verified(run[p].code)'
    BY <1>1, <1>2, <2>4 DEF RequestOK, Verified, Own
  <2>6. run[p].pc = "record" => MayRecord(run[p].code, run[p].step)'
    BY <1>1, <1>2, <2>4 DEF RequestOK, MayRecord, Verified, Own
  <2> QED
    BY <1>1, <1>2, <1>3, <2>1, <2>3, <2>5, <2>6 DEF RequestOK, UnderLock
<1>4. CASE run[p].pc \notin UnderLock
  BY <1>1, <1>2, <1>4 DEF RequestOK, UnderLock
<1> QED
  BY <1>3, <1>4

\* A step of q that writes none of the tables.
LEMMA MoveIInv ==
  ASSUME IInv, NEW q \in Requests, NEW r \in RunType, Goto(q, r),
         UNCHANGED <<rowVars, now, minted, accepts, spent>>,
         locker' = locker \/ locker' = locker \ {q} \/ (locker = {} /\ locker' = {q}),
         r.pc \in UnderLock => q \in locker',
         r.pc \in {"match", "record"} => r.code \in TotpCodes \union WideCodes,
         r.pc = "match" => Verified(r.code),
         r.pc = "record" => MayRecord(r.code, r.step),
         r.pc = "redeem" => r.code \in EmailCodes,
         r.pc = "claim" => r.code \in BackupCodes,
         r.pc = "burn" => \A c \in r.rows : email[c].attempts < MaxAttempts
  PROVE  IInv'
<1> USE DEF rowVars
<1>1. TypeOK'
  BY DEF IInv, TypeOK, Goto
<1>2. OneLocker'
  BY DEF IInv, OneLocker
<1>3. run'[q] = r
  BY DEF IInv, TypeOK, Goto
<1>4. RequestOK(q)'
  BY <1>3 DEF RequestOK, Verified, MayRecord, Own
<1>5. \A c \in EmailCodes : email[c].attempts <= email[c].attempts
  BY DEF IInv, TypeOK
<1>6. \A p \in Requests \ {q} : RequestOK(p)'
  <2>1. \A p \in Requests \ {q} : p \in locker => p \in locker'
    OBVIOUS
  <2> QED
    BY <1>1, <1>5, <2>1, OthersKept
<1>7. Spent' /\ GuessesAreBounded'
  BY DEF IInv, Spent, SpentSteps, SpentTotp, SpentBackup, SpentEmail, Own, Late,
         GuessesAreBounded
<1> QED
  BY <1>1, <1>2, <1>4, <1>6, <1>7 DEF IInv

\* A request comes in.
LEMMA IncomingIInv ==
  ASSUME MfaAssumption, IInv, NEW q \in Requests, Incoming(q)
  PROVE  IInv'
<1> USE DEF UnderLock
<1>1. CASE PresentCode(q)
  <2>1. PICK kind \in Kinds \ {"verify"}, code \in Known :
          Goto(q, [pc |-> "lock", kind |-> kind, code |-> code])
    BY <1>1 DEF PresentCode
  <2>2. [pc |-> "lock", kind |-> kind, code |-> code] \in RunType
    BY RunRecords DEF Known, Presentable, Codes, WideCodes
  <2> QED
    BY <1>1, <2>1, <2>2, MoveIInv DEF PresentCode, Outside
<1>2. CASE DisableUnenrolled(q)
  <2>1. [pc |-> "write", kind |-> "disable"] \in RunType
    BY RunRecords DEF Kinds
  <2> QED
    BY <1>2, <2>1, MoveIInv DEF DisableUnenrolled, Outside
<1>3. CASE SetupMfa(q)
  <2>1. [pc |-> "write", kind |-> "setup"] \in RunType
    BY RunRecords
  <2> QED
    BY <1>3, <2>1, MoveIInv DEF SetupMfa, Outside
<1>4. CASE VerifySetup(q)
  <2>1. PICK code \in Known : Goto(q, [pc |-> "lock", kind |-> "verify", code |-> code])
    BY <1>4 DEF VerifySetup
  <2>2. [pc |-> "lock", kind |-> "verify", code |-> code] \in RunType
    BY RunRecords DEF Known, Presentable, Codes, WideCodes, Kinds
  <2> QED
    BY <1>4, <2>1, <2>2, MoveIInv DEF VerifySetup, Outside
<1>5. CASE RequestEmailCode(q)
  BY <1>5, RunRecords, MoveIInv DEF RequestEmailCode, Outside
<1> QED
  BY <1>1, <1>2, <1>3, <1>4, <1>5 DEF Incoming

\* A TOTP that is refused is a wrong code for the other kinds.
LEMMA OtherKindsRecord ==
  ASSUME NEW q \in Requests, run[q].kind \in Kinds
  PROVE  OtherKinds(q) \in RunType /\ OtherKinds(q).pc = "email"
<1> DEFINE code == IF run[q].code \in BackupCodes \union EmailCodes THEN run[q].code ELSE Wrong
<1>1. code \in Presentable
  BY DEF Presentable, Codes
<1>2. [pc |-> "email", kind |-> run[q].kind, code |-> code] \in RunType
  BY <1>1, RunRecords
<1> QED
  BY <1>2 DEF OtherKinds

LEMMA RefuseIInv ==
  ASSUME IInv, NEW q \in Requests, q \in locker, run[q].kind \in Kinds, Refuse(q),
         UNCHANGED <<rowVars, Outside>>
  PROVE  IInv'
<1> USE DEF Outside
<1>1. CASE run[q].kind = "verify"
  BY <1>1, RunRecords, MoveIInv DEF Refuse, Idle, UnderLock, Release
<1>2. CASE run[q].kind # "verify"
  BY <1>2, OtherKindsRecord, MoveIInv DEF Refuse
<1> QED
  BY <1>1, <1>2

\* The clock at the verification: no code within the window has been accepted for a
\* step after it.
LEMMA ValidIsNotLate ==
  ASSUME MfaAssumption, IInv, NEW q \in Requests, Valid(q)
  PROVE  run[q].code \in TotpCodes \union WideCodes /\ Verified(run[q].code)
<1>1. PICK c \in TotpCodes : run[q].code \in {c, [wide |-> c]} /\ InWindow(c.step)
  BY DEF Valid
<1>2. CASE run[q].code = c
  <2>1. accepts[c] <= Own(c) + Late(c)
    BY DEF IInv, Spent, SpentTotp
  <2>2. c.step \in Nat /\ now \in Nat /\ accepts[c] \in Nat
    BY DEF IInv, TypeOK, TotpCodes, Steps, Codes
  <2>3. Late(c) = 0 /\ Own(c) \in Nat
    BY <1>1, <2>2 DEF Late, Own, InWindow
  <2> QED
    BY <1>1, <1>2, <2>1, <2>2, <2>3 DEF Verified, InWindow
<1>3. CASE run[q].code = [wide |-> c]
  <2>1. run[q].code \in WideCodes
    BY <1>3 DEF WideCodes
  <2>2. run[q].code \notin TotpCodes
    BY <2>1 DEF MfaAssumption, Codes
  <2> QED
    BY <2>1, <2>2 DEF Verified
<1> QED
  BY <1>1, <1>2, <1>3

\* The steps of a challenge that accept nothing.
LEMMA CheckIInv ==
  ASSUME MfaAssumption, IInv, NEW q \in Requests,
         LockRow(q) \/ VerifyTotp(q) \/ MatchTotp(q) \/ CheckEmail(q) \/ CheckBackup(q)
  PROVE  IInv'
<1> USE DEF Outside
<1>1. RequestOK(q)
  BY DEF IInv
<1>2. CASE LockRow(q)
  <2>1. run[q].kind \in Kinds /\ run[q].code \in Presentable
    BY <1>2, RunFields DEF LockRow, At, IInv
  <2>2. secret \in Secrets \/ secret = NoSecret
    BY DEF IInv, TypeOK
  <2>3. AfterLock(q) \in RunType /\ AfterLock(q).pc \in {"idle", "email", "totp"}
    <3>1. CASE AfterLock(q) = Idle
      <4>1. Idle \in RunType /\ Idle.pc = "idle"
        BY RunRecords DEF Idle
      <4> QED
        BY <3>1, <4>1
    <3>2. CASE AfterLock(q) = OtherKinds(q)
      BY <2>1, <3>2, OtherKindsRecord
    <3>3. CASE /\ secret # NoSecret
               /\ AfterLock(q) = [pc |-> "totp", kind |-> run[q].kind, code |-> run[q].code,
                                  secret |-> secret]
      <4>1. [pc |-> "totp", kind |-> run[q].kind, code |-> run[q].code, secret |-> secret]
              \in RunType
        BY <2>1, <2>2, <3>3, RunRecords
      <4> QED
        BY <3>3, <4>1
    <3> QED
      BY <3>1, <3>2, <3>3 DEF AfterLock
  <2>4. AfterLock(q).pc \in UnderLock => q \in locker'
    BY <1>2 DEF LockRow, UnderLock, Idle
  <2> QED
    BY <1>2, <2>3, <2>4, MoveIInv DEF LockRow
<1>3. CASE VerifyTotp(q)
  <2>1. run[q].kind \in Kinds /\ run[q].code \in Presentable
    BY <1>3, RunFields DEF VerifyTotp, At, IInv
  <2>2. q \in locker
    BY <1>1, <1>3 DEF RequestOK, VerifyTotp, At, UnderLock
  <2>3. CASE Valid(q)
    <3>1. [pc |-> "match", kind |-> run[q].kind, code |-> run[q].code] \in RunType
      BY <2>1, RunRecords
    <3>2. run[q].code \in TotpCodes \union WideCodes /\ Verified(run[q].code)
      BY <2>3, ValidIsNotLate
    <3> QED
      BY <1>3, <2>2, <2>3, <3>1, <3>2, MoveIInv DEF VerifyTotp, Present
  <2>4. CASE ~Valid(q)
    BY <1>3, <2>1, <2>2, <2>4, RefuseIInv DEF VerifyTotp
  <2> QED
    BY <2>3, <2>4
<1>4. CASE MatchTotp(q)
  <2>1. run[q].kind \in Kinds /\ run[q].code \in TotpCodes \union WideCodes
    BY <1>1, <1>4, RunFields DEF MatchTotp, At, IInv, RequestOK
  <2>2. q \in locker /\ Verified(run[q].code)
    BY <1>1, <1>4 DEF RequestOK, MatchTotp, At, UnderLock
  <2>3. CASE Fresh(Matched(q))
    <3> DEFINE step == Matched(q)
    <3>1. now \in Steps /\ Steps \subseteq Nat
          /\ (run[q].code \in TotpCodes => run[q].code.step \in Steps)
      BY DEF IInv, TypeOK, Steps, TotpCodes
    <3>2. step \in Steps /\ step > marker
      BY <2>3, <3>1 DEF Matched, Fresh
    <3>3. run[q].code \in TotpCodes =>
            step = run[q].code.step \/ (step > run[q].code.step + 1 /\ step <= now)
      <4> SUFFICES ASSUME run[q].code \in TotpCodes
                   PROVE  \/ step = run[q].code.step
                          \/ step > run[q].code.step + 1 /\ step <= now
        OBVIOUS
      <4>1. run[q].code.step \in Nat /\ now \in Nat /\ run[q].code.step <= now + 1
        BY <2>2, <3>1 DEF Verified
      <4> QED
        BY <4>1 DEF Matched, InWindow
    <3>4. MayRecord(run[q].code, step)
      BY <2>2, <3>2, <3>3 DEF MayRecord
    <3>5. [pc |-> "record", kind |-> run[q].kind, code |-> run[q].code, step |-> step] \in RunType
      BY <2>1, <3>2, RunRecords DEF Presentable, Codes
    <3> HIDE DEF step
    <3>6. Goto(q, [pc |-> "record", kind |-> run[q].kind, code |-> run[q].code, step |-> step])
          /\ UNCHANGED <<rowVars, locker, Outside>>
      BY <1>4, <2>3 DEF MatchTotp, step
    <3> QED
      BY <2>1, <2>2, <3>4, <3>5, <3>6, MoveIInv
  <2>4. CASE ~Fresh(Matched(q))
    BY <1>4, <2>1, <2>2, <2>4, RefuseIInv DEF MatchTotp
  <2> QED
    BY <2>3, <2>4
<1>5. CASE CheckEmail(q)
  <2>1. run[q].kind \in Kinds /\ run[q].code \in Presentable
    BY <1>5, RunFields DEF CheckEmail, At, IInv
  <2>2. q \in locker
    BY <1>1, <1>5 DEF RequestOK, CheckEmail, At, UnderLock
  <2>3. CASE run[q].code \in LiveEmail
    <3>1. [pc |-> "redeem", kind |-> run[q].kind, code |-> run[q].code] \in RunType
      BY <2>1, RunRecords
    <3> QED
      BY <1>5, <2>2, <2>3, <3>1, MoveIInv DEF CheckEmail, Present, LiveEmail
  <2>4. CASE run[q].code \notin LiveEmail /\ run[q].code \notin BackupCodes /\ LiveEmail # {}
    <3>1. LiveEmail \in SUBSET EmailCodes
      BY DEF LiveEmail
    <3>2. [pc |-> "burn", kind |-> run[q].kind, code |-> run[q].code, rows |-> LiveEmail] \in RunType
      BY <2>1, <3>1, RunRecords
    <3>3. \A c \in LiveEmail : email[c].attempts < MaxAttempts
      BY DEF LiveEmail
    <3> QED
      BY <1>5, <2>2, <2>4, <3>2, <3>3, MoveIInv DEF CheckEmail
  <2>5. CASE run[q].code \notin LiveEmail /\ ~(run[q].code \notin BackupCodes /\ LiveEmail # {})
    <3>1. [pc |-> "backup", kind |-> run[q].kind, code |-> run[q].code] \in RunType
      BY <2>1, RunRecords
    <3> QED
      BY <1>5, <2>5, <3>1, MoveIInv DEF CheckEmail, Present, UnderLock
  <2> QED
    BY <2>3, <2>4, <2>5
<1>6. CASE CheckBackup(q)
  <2>1. run[q].kind \in Kinds /\ run[q].code \in Presentable
    BY <1>6, RunFields DEF CheckBackup, At, IInv
  <2>2. CASE run[q].code \in BackupCodes /\ backup[run[q].code] = "live"
    <3>1. [pc |-> "claim", kind |-> run[q].kind, code |-> run[q].code] \in RunType
      BY <2>1, RunRecords
    <3> QED
      BY <1>6, <2>2, <3>1, MoveIInv DEF CheckBackup, Present, UnderLock
  <2>3. CASE ~(run[q].code \in BackupCodes /\ backup[run[q].code] = "live")
    BY <1>6, <2>3, RunRecords, MoveIInv DEF CheckBackup, Idle, UnderLock, Release
  <2> QED
    BY <2>2, <2>3
<1> QED
  BY <1>2, <1>3, <1>4, <1>5, <1>6

\* Where an accepted code leads is a place for a request.
LEMMA AcceptGoes ==
  ASSUME TypeOK, NEW q \in Requests, run[q].kind \in Kinds, Accept(q)
  PROVE  /\ \E r \in RunType : Goto(q, r) /\ r.pc \in {"idle", "write"}
         /\ accepts' \in [Codes -> Nat]
         /\ run[q].code \in Codes => accepts'[run[q].code] = accepts[run[q].code] + 1
         /\ \A c \in Codes \ {run[q].code} : accepts'[c] = accepts[c]
<1>1. Idle \in RunType /\ Idle.pc = "idle"
  BY RunRecords DEF Idle
<1>2. [pc |-> "write", kind |-> run[q].kind] \in RunType
  BY RunRecords
<1>3. \E r \in RunType : Goto(q, r) /\ r.pc \in {"idle", "write"}
  BY <1>1, <1>2 DEF Accept
<1> QED
  BY <1>3 DEF Accept, TypeOK

\* What is left to show of a step that writes tables: a request at a place where
\* it knows nothing, and the lock with who has it.
LEMMA WriteRequests ==
  ASSUME IInv, TypeOK', NEW q \in Requests, NEW r \in RunType, Goto(q, r),
         r.pc \in {"idle", "write", "backup", "send"},
         locker' = locker \/ locker' = locker \ {q},
         now' = now,
         \/ q \in locker
         \/ /\ marker' = marker
            /\ \A c \in TotpCodes : accepts'[c] = accepts[c]
            /\ \A c \in EmailCodes : email'[c].attempts <= email[c].attempts
  PROVE  OneLocker' /\ \A p \in Requests : RequestOK(p)'
<1>1. OneLocker'
  BY DEF IInv, OneLocker
<1>2. run'[q] = r
  BY DEF Goto, IInv, TypeOK
<1>3. RequestOK(q)'
  BY <1>2 DEF RequestOK, UnderLock
<1>4. \A p \in Requests \ {q} : RequestOK(p)'
  <2>1. \A p \in Requests \ {q} : p \in locker => p \in locker'
    OBVIOUS
  <2> QED
    BY <2>1, OthersKept
<1> QED
  BY <1>1, <1>3, <1>4

\* The steps that accept a code.
LEMMA AcceptIInv ==
  ASSUME MfaAssumption, IInv, NEW q \in Requests,
         RecordStep(q) \/ RedeemEmail(q) \/ ClaimBackup(q)
  PROVE  IInv'
<1> USE DEF Outside
<1>1. RequestOK(q) /\ TypeOK
  BY DEF IInv
<1>2. CASE RecordStep(q)
  <2> DEFINE c == run[q].code
             m == run[q].step
  <2>1. /\ q \in locker
        /\ c \in TotpCodes \union WideCodes
        /\ MayRecord(c, m)
        /\ run[q].kind \in Kinds
    BY <1>1, <1>2, RunFields DEF RecordStep, At, RequestOK, UnderLock
  <2>2. /\ m \in Steps /\ Steps \subseteq Nat /\ marker \in Nat /\ now \in Nat /\ m > marker
        /\ \A d \in TotpCodes : d.step \in Nat /\ d \in Codes /\ accepts[d] \in Nat
    BY <1>1, <2>1 DEF MayRecord, TotpCodes, Codes, Steps, TypeOK, MfaAssumption
  <2>3. PICK r \in RunType : Goto(q, r) /\ r.pc \in {"idle", "write"}
    BY <1>1, <1>2, <2>1, AcceptGoes DEF RecordStep
  <2>4. /\ accepts' \in [Codes -> Nat]
        /\ c \in Codes => accepts'[c] = accepts[c] + 1
        /\ \A d \in Codes \ {c} : accepts'[d] = accepts[d]
    BY <1>1, <1>2, <2>1, AcceptGoes DEF RecordStep
  <2>5. marker' = m /\ spent' = [spent EXCEPT ![m] = @ + 1]
        /\ UNCHANGED <<backup, email, now>>
    BY <1>2 DEF RecordStep
  <2>6. TypeOK'
    <3>1. spent' \in [Steps -> Nat]
      <4> HIDE DEF m, c
      <4>1. spent \in [Steps -> Nat]
        BY <1>1 DEF TypeOK
      <4>2. spent[m] \in Nat
        BY <2>2, <4>1
      <4>3. spent[m] + 1 \in Nat
        BY <4>2
      <4> QED
        BY <2>5, <4>1, <4>3
    <3> QED
      BY <1>1, <1>2, <2>2, <2>3, <2>4, <2>5, <3>1 DEF RecordStep, TypeOK, Goto, Release
  <2>7. OneLocker' /\ \A p \in Requests : RequestOK(p)'
    BY <1>2, <2>1, <2>3, <2>5, <2>6, WriteRequests DEF RecordStep, Release
  <2> HIDE DEF m, c
  <2>8. SpentSteps'
    <3> SUFFICES ASSUME NEW t \in Steps
                 PROVE  spent'[t] <= 1 /\ (spent'[t] > 0 => t <= marker')
      BY DEF SpentSteps
    <3>1. spent[t] \in Nat /\ t \in Nat /\ spent[t] <= 1 /\ (spent[t] > 0 => t <= marker)
      BY <1>1, <2>2 DEF TypeOK, IInv, Spent, SpentSteps
    <3>2. spent'[t] = IF t = m THEN spent[t] + 1 ELSE spent[t]
      BY <1>1, <2>2, <2>5 DEF TypeOK
    <3> QED
      BY <2>2, <2>5, <3>1, <3>2
  <2>9. SpentTotp'
    <3> SUFFICES ASSUME NEW d \in TotpCodes
                 PROVE  accepts'[d] <= Own(d)' + Late(d)'
      BY DEF SpentTotp
    <3>1. d.step \in Nat /\ d \in Codes /\ accepts[d] \in Nat
      BY <2>2
    <3>2. accepts[d] <= Own(d) + Late(d)
      BY DEF IInv, Spent, SpentTotp
    <3>3. Late(d)' = Late(d) /\ Late(d) \in {0, 1} /\ Own(d) \in {0, 1}
      BY <2>5 DEF Late, Own
    <3>4. Own(d)' = IF d.step <= m THEN 1 ELSE 0
      BY <2>5 DEF Own
    <3>5. CASE d # c
      BY <2>2, <2>4, <3>1, <3>2, <3>3, <3>4, <3>5 DEF Own
    <3>6. CASE d = c /\ m = d.step
      <4>1. Own(d) = 0 /\ Own(d)' = 1
        BY <2>2, <3>1, <3>4, <3>6 DEF Own
      <4> QED
        BY <2>4, <3>1, <3>2, <3>3, <3>6, <4>1
    <3>7. CASE d = c /\ m # d.step
      <4>1. m > d.step + 1 /\ m <= now /\ accepts[d] <= Own(d)
        BY <2>1, <3>7 DEF MayRecord, Verified
      <4>2. Late(d) = 1 /\ Own(d)' = 1
        BY <2>2, <3>1, <3>4, <4>1 DEF Late
      <4> QED
        BY <2>4, <3>1, <3>3, <3>7, <4>1, <4>2
    <3> QED
      BY <3>5, <3>6, <3>7
  <2>10. SpentBackup' /\ SpentEmail'
    <3>1. \A d \in BackupCodes \union EmailCodes : accepts'[d] = accepts[d]
      BY <2>1, <2>4 DEF Codes, MfaAssumption
    <3> QED
      BY <2>5, <3>1 DEF IInv, Spent, SpentBackup, SpentEmail
  <2> QED
    BY <2>5, <2>6, <2>7, <2>8, <2>9, <2>10 DEF IInv, Spent, GuessesAreBounded
<1>3. ASSUME RedeemEmail(q), email[run[q].code].state # "live"
      PROVE  IInv'
  BY <1>3, RunRecords, MoveIInv DEF RedeemEmail, Release, Idle, UnderLock, rowVars
<1>4. ASSUME RedeemEmail(q), email[run[q].code].state = "live"
      PROVE  IInv'
  <2> DEFINE c == run[q].code
  <2>1. q \in locker /\ c \in EmailCodes /\ run[q].kind \in Kinds
    BY <1>1, <1>4, RunFields DEF RedeemEmail, At, RequestOK, UnderLock
  <2>2. c \in Codes
    BY <2>1 DEF Codes
  <2>3. PICK r \in RunType : Goto(q, r) /\ r.pc \in {"idle", "write"}
    BY <1>1, <1>4, <2>1, AcceptGoes DEF RedeemEmail
  <2>4. /\ accepts' \in [Codes -> Nat]
        /\ accepts'[c] = accepts[c] + 1
        /\ \A d \in Codes \ {c} : accepts'[d] = accepts[d]
    BY <1>1, <1>4, <2>1, <2>2, AcceptGoes DEF RedeemEmail
  <2>5. /\ email' \in [EmailCodes -> [state : {"none", "live", "used"}, attempts : Nat]]
        /\ email'[c].state = "used"
        /\ \A d \in EmailCodes : email'[d].attempts = email[d].attempts
        /\ \A d \in EmailCodes \ {c} : email'[d] = email[d]
    BY <1>1, <1>4, <2>1 DEF RedeemEmail, TypeOK
  <2>6. TypeOK'
    BY <1>1, <1>4, <2>3, <2>4, <2>5 DEF RedeemEmail, TypeOK, Goto, Release
  <2>7. OneLocker' /\ \A p \in Requests : RequestOK(p)'
    BY <1>4, <2>1, <2>3, <2>6, WriteRequests DEF RedeemEmail, Release
  <2>8. SpentEmail'
    <3> SUFFICES ASSUME NEW d \in EmailCodes
                 PROVE  accepts'[d] <= 1 /\ (accepts'[d] > 0 => email'[d].state = "used")
      BY DEF SpentEmail
    <3>1. d \in Codes /\ accepts[d] \in Nat
      BY <1>1 DEF Codes, TypeOK
    <3>2. accepts[d] <= 1 /\ (accepts[d] > 0 => email[d].state = "used")
      BY DEF IInv, Spent, SpentEmail
    <3> QED
      BY <1>4, <2>4, <2>5, <3>1, <3>2
  <2>9. SpentSteps' /\ SpentTotp' /\ SpentBackup'
    <3>1. \A d \in BackupCodes \union TotpCodes : accepts'[d] = accepts[d]
      BY <2>1, <2>4 DEF Codes, MfaAssumption
    <3> QED
      BY <1>4, <3>1
      DEF RedeemEmail, IInv, Spent, SpentSteps, SpentTotp, Own, Late, SpentBackup
  <2>10. GuessesAreBounded'
    BY <2>5 DEF IInv, GuessesAreBounded
  <2> QED
    BY <2>6, <2>7, <2>8, <2>9, <2>10 DEF IInv, Spent
<1>5. ASSUME ClaimBackup(q), backup[run[q].code] # "live"
      PROVE  IInv'
  BY <1>5, RunRecords, MoveIInv DEF ClaimBackup, Release, Idle, UnderLock, rowVars
<1>6. ASSUME ClaimBackup(q), backup[run[q].code] = "live"
      PROVE  IInv'
  <2> DEFINE c == run[q].code
  <2>1. c \in BackupCodes /\ run[q].kind \in Kinds
    BY <1>1, <1>6, RunFields DEF ClaimBackup, At, RequestOK
  <2>2. c \in Codes
    BY <2>1 DEF Codes
  <2>3. PICK r \in RunType : Goto(q, r) /\ r.pc \in {"idle", "write"}
    BY <1>1, <1>6, <2>1, AcceptGoes DEF ClaimBackup
  <2>4. /\ accepts' \in [Codes -> Nat]
        /\ accepts'[c] = accepts[c] + 1
        /\ \A d \in Codes \ {c} : accepts'[d] = accepts[d]
    BY <1>1, <1>6, <2>1, <2>2, AcceptGoes DEF ClaimBackup
  <2>5. TypeOK'
    BY <1>1, <1>6, <2>1, <2>3, <2>4 DEF ClaimBackup, TypeOK, Goto, Release
  <2>6. \A d \in EmailCodes : email[d].attempts <= email[d].attempts
    BY <1>1 DEF TypeOK
  <2>7. OneLocker' /\ \A p \in Requests : RequestOK(p)'
    <3>1. \A d \in TotpCodes : accepts'[d] = accepts[d]
      BY <2>1, <2>4 DEF Codes, MfaAssumption
    <3> QED
      BY <1>6, <2>3, <2>5, <2>6, <3>1, WriteRequests DEF ClaimBackup, Release
  <2>8. SpentBackup'
    <3> SUFFICES ASSUME NEW d \in BackupCodes
                 PROVE  /\ accepts'[d] <= 1
                        /\ accepts'[d] > 0 => backup'[d] \in {"used", "deleted"}
      BY DEF SpentBackup
    <3>1. d \in Codes /\ accepts[d] \in Nat
      BY <1>1 DEF Codes, TypeOK
    <3>2. accepts[d] <= 1 /\ (accepts[d] > 0 => backup[d] \in {"used", "deleted"})
      BY DEF IInv, Spent, SpentBackup
    <3> QED
      BY <1>1, <1>6, <2>1, <2>4, <3>1, <3>2 DEF ClaimBackup, TypeOK
  <2>9. SpentSteps' /\ SpentTotp' /\ SpentEmail'
    <3>1. \A d \in EmailCodes \union TotpCodes : accepts'[d] = accepts[d]
      BY <2>1, <2>4 DEF Codes, MfaAssumption
    <3> QED
      BY <1>6, <3>1
      DEF ClaimBackup, IInv, Spent, SpentSteps, SpentTotp, Own, Late, SpentEmail
  <2> QED
    BY <1>6, <2>5, <2>7, <2>8, <2>9 DEF IInv, Spent, ClaimBackup, GuessesAreBounded
<1> QED
  BY <1>2, <1>3, <1>4, <1>5, <1>6

\* The writes that follow a challenge, and those of a request without one.
LEMMA WriteIInv ==
  ASSUME MfaAssumption, IInv, NEW q \in Requests, Write(q)
  PROVE  IInv'
<1> USE DEF Outside
<1>1. RequestOK(q) /\ TypeOK /\ Idle \in RunType /\ Idle.pc = "idle"
  BY RunRecords DEF IInv, Idle
<1>2. \A d \in EmailCodes : email[d].attempts <= email[d].attempts
  BY <1>1 DEF TypeOK
<1>3. ASSUME Enable(q) \/ MintSecret(q) \/ Disable(q) \/ Regenerate(q)
      PROVE  IInv'
  <2>1. At(q, "rewrite") => run[q].rows \subseteq BackupCodes
    BY <1>1, RunFields DEF At
  <2>2. /\ backup' \in [BackupCodes -> {"none", "live", "used", "deleted"}]
        /\ \A d \in BackupCodes :
             backup[d] \in {"used", "deleted"} => backup'[d] \in {"used", "deleted"}
    <3>1. CASE Enable(q)
      BY <1>1, <3>1 DEF Enable, TypeOK
    <3>2. CASE MintSecret(q) \/ Disable(q)
      BY <1>1, <3>2 DEF MintSecret, Disable, Deleted, TypeOK
    <3>3. CASE Regenerate(q)
      <4>1. PICK c \in BackupCodes :
              backup[c] = "none" /\ backup' = [Deleted(q) EXCEPT ![c] = "live"]
        BY <3>3 DEF Regenerate
      <4> QED
        BY <1>1, <4>1 DEF Deleted, TypeOK
    <3> QED
      BY <1>3, <3>1, <3>2, <3>3
  <2>3. TypeOK'
    <3>1. run' \in [Requests -> RunType]
      BY <1>1, <1>3 DEF Enable, MintSecret, Disable, Regenerate, TypeOK, Goto
    <3>2. UNCHANGED <<marker, email, locker, now, accepts, spent>>
      BY <1>3 DEF Enable, MintSecret, Disable, Regenerate
    <3>3. /\ enabled' \in BOOLEAN
          /\ secret' \in Secrets \union {NoSecret}
          /\ minted' \subseteq Secrets
      <4>1. CASE MintSecret(q)
        BY <1>1, <4>1 DEF MintSecret, TypeOK
      <4>2. CASE Enable(q) \/ Disable(q) \/ Regenerate(q)
        BY <1>1, <4>2 DEF Enable, Disable, Regenerate, TypeOK
      <4> QED
        BY <1>3, <4>1, <4>2
    <3> QED
      BY <1>1, <2>2, <3>1, <3>2, <3>3 DEF TypeOK
  <2>4. OneLocker' /\ \A p \in Requests : RequestOK(p)'
    BY <1>1, <1>2, <1>3, <2>3, WriteRequests DEF Enable, MintSecret, Disable, Regenerate
  <2>5. Spent' /\ GuessesAreBounded'
    <3>1. UNCHANGED <<accepts, spent, now, marker, email>>
      BY <1>3 DEF Enable, MintSecret, Disable, Regenerate
    <3> QED
      BY <2>2, <3>1
      DEF IInv, Spent, SpentSteps, SpentTotp, SpentBackup, SpentEmail, Own, Late,
         GuessesAreBounded
  <2> QED
    BY <2>3, <2>4, <2>5 DEF IInv
<1>4. CASE LoadBackups(q)
  <2>1. run[q].kind \in Kinds \union {"setup"} /\ Existing \in SUBSET BackupCodes
    BY <1>1, <1>4, RunFields DEF LoadBackups, At, Existing
  <2>2. [pc |-> "rewrite", kind |-> run[q].kind, rows |-> Existing] \in RunType
    BY <2>1, RunRecords
  <2> QED
    BY <1>4, <2>2, MoveIInv DEF LoadBackups, UnderLock
<1>5. CASE RetireEmail(q)
  <2> DEFINE S == {c \in EmailCodes : email[c].state = "live"}
  <2>1. [pc |-> "issue", rows |-> S] \in RunType
    BY RunRecords
  <2> QED
    BY <1>5, <2>1, MoveIInv DEF RetireEmail, UnderLock
<1>6. CASE IssueEmail(q)
  <2>1. PICK new \in EmailCodes :
          /\ email[new].state = "none"
          /\ email' = [c \in EmailCodes |->
                         IF c = new THEN [state |-> "live", attempts |-> 0]
                         ELSE IF c \in run[q].rows THEN [email[c] EXCEPT !.state = "used"]
                         ELSE email[c]]
          /\ Goto(q, [pc |-> "send", sent |-> new])
    BY <1>6 DEF IssueEmail
  <2>2. [pc |-> "send", sent |-> new] \in RunType
    BY RunRecords
  <2>3. /\ email' \in [EmailCodes -> [state : {"none", "live", "used"}, attempts : Nat]]
        /\ \A d \in EmailCodes : /\ email'[d].attempts <= email[d].attempts
                                 /\ email[d].state = "used" => email'[d].state = "used"
    BY <1>1, <2>1 DEF TypeOK
  <2>4. TypeOK'
    BY <1>1, <1>6, <2>1, <2>2, <2>3 DEF IssueEmail, TypeOK, Goto
  <2>5. OneLocker' /\ \A p \in Requests : RequestOK(p)'
    BY <1>6, <2>1, <2>2, <2>3, <2>4, WriteRequests DEF IssueEmail
  <2>6. GuessesAreBounded'
    BY <1>1, <2>3, <2>4 DEF IInv, GuessesAreBounded, TypeOK, MfaAssumption
  <2>7. Spent'
    BY <1>6, <2>3 DEF IssueEmail, IInv, Spent, SpentSteps, SpentTotp, SpentBackup, SpentEmail,
        Own, Late
  <2> QED
    BY <2>4, <2>5, <2>6, <2>7 DEF IInv
<1>7. CASE SendEmail(q)
  <2>1. run[q].sent \in EmailCodes
    BY <1>1, <1>7, RunFields DEF SendEmail, At
  <2>2. /\ email' \in [EmailCodes -> [state : {"none", "live", "used"}, attempts : Nat]]
        /\ \A d \in EmailCodes : /\ email'[d].attempts = email[d].attempts
                                 /\ email[d].state = "used" => email'[d].state = "used"
    BY <1>1, <1>7, <2>1 DEF SendEmail, TypeOK
  <2>3. TypeOK'
    BY <1>1, <1>7, <2>2 DEF SendEmail, TypeOK, Goto
  <2>4. OneLocker' /\ \A p \in Requests : RequestOK(p)'
    BY <1>1, <1>2, <1>7, <2>2, <2>3, WriteRequests DEF SendEmail
  <2>5. Spent' /\ GuessesAreBounded'
    BY <1>7, <2>2
    DEF SendEmail, IInv, Spent, SpentSteps, SpentTotp, SpentBackup, SpentEmail, Own, Late,
        GuessesAreBounded
  <2> QED
    BY <2>3, <2>4, <2>5 DEF IInv
<1> QED
  BY <1>3, <1>4, <1>5, <1>6, <1>7 DEF Write

\* Guesses at the mailed codes are counted.
LEMMA BurnIInv ==
  ASSUME MfaAssumption, IInv, NEW q \in Requests, BurnAttempt(q)
  PROVE  IInv'
<1> USE DEF Outside
<1>1. /\ q \in locker
      /\ run[q].rows \subseteq EmailCodes
      /\ \A c \in run[q].rows : email[c].attempts < MaxAttempts
      /\ run[q].kind \in Kinds /\ run[q].code \in Presentable
  BY RunFields DEF IInv, RequestOK, BurnAttempt, At, UnderLock
<1>2. [pc |-> "backup", kind |-> run[q].kind, code |-> run[q].code] \in RunType
  BY <1>1, RunRecords
<1>3. /\ email' \in [EmailCodes -> [state : {"none", "live", "used"}, attempts : Nat]]
      /\ \A d \in EmailCodes : email'[d].state = email[d].state
      /\ \A d \in run[q].rows : email'[d].attempts = email[d].attempts + 1
      /\ \A d \in EmailCodes \ run[q].rows : email'[d] = email[d]
  BY <1>1 DEF BurnAttempt, IInv, TypeOK
<1>4. TypeOK'
  BY <1>2, <1>3 DEF BurnAttempt, Present, IInv, TypeOK, Goto, Release
<1>5. OneLocker' /\ \A p \in Requests : RequestOK(p)'
  BY <1>1, <1>2, <1>4, WriteRequests DEF BurnAttempt, Present, Release
<1>6. GuessesAreBounded'
  <2> SUFFICES ASSUME NEW d \in EmailCodes PROVE email'[d].attempts <= MaxAttempts
    BY DEF GuessesAreBounded
  <2>1. email[d].attempts \in Nat /\ MaxAttempts \in Nat /\ email[d].attempts <= MaxAttempts
    BY DEF IInv, TypeOK, MfaAssumption, GuessesAreBounded
  <2> QED
    BY <1>1, <1>3, <2>1
<1>7. Spent'
  BY <1>3 DEF BurnAttempt, IInv, Spent, SpentSteps, SpentTotp, SpentBackup, SpentEmail,
        Own, Late
<1> QED
  BY <1>4, <1>5, <1>6, <1>7 DEF IInv

\* Every step keeps the invariant.
LEMMA StepIInv ==
  ASSUME MfaAssumption, IInv, [Next]_vars
  PROVE  IInv'
<1>1. CASE Tick
  <2>1. TypeOK'
    BY <1>1 DEF Tick, IInv, TypeOK, Steps, MfaAssumption, rowVars
  <2>2. now \in Nat /\ now' = now + 1 /\ UNCHANGED <<rowVars, locker, run, minted, accepts, spent>>
    BY <1>1 DEF Tick, IInv, TypeOK, Steps
  <2>3. \A c \in TotpCodes : /\ Verified(c) => Verified(c)'
                             /\ Own(c)' = Own(c) /\ Late(c) <= Late(c)'
    BY <2>2 DEF Verified, Own, Late, rowVars, TotpCodes, Steps
  <2>4. \A q \in Requests : RequestOK(q)'
    <3> SUFFICES ASSUME NEW q \in Requests PROVE RequestOK(q)'
      OBVIOUS
    <3>1. RequestOK(q)
      BY DEF IInv
    <3>2. run[q].pc = "match" => Verified(run[q].code)'
      BY <2>2, <3>1 DEF RequestOK, Verified, Own, rowVars, TotpCodes, Steps
    <3>3. run[q].pc = "record" => MayRecord(run[q].code, run[q].step)'
      BY <2>2, <3>1 DEF RequestOK, MayRecord, Verified, Own, rowVars, TotpCodes, Steps
    <3> QED
      BY <2>2, <3>1, <3>2, <3>3 DEF RequestOK, rowVars
  <2>5. SpentTotp'
    <3> SUFFICES ASSUME NEW c \in TotpCodes PROVE accepts[c] <= Own(c)' + Late(c)'
      BY <2>2 DEF SpentTotp
    <3>1. accepts[c] <= Own(c) + Late(c) /\ accepts[c] \in Nat
      BY DEF IInv, Spent, SpentTotp, TypeOK, Codes
    <3>2. Own(c) \in Nat /\ Late(c) \in Nat /\ Late(c)' \in Nat
      BY DEF Own, Late
    <3> QED
      BY <2>3, <3>1, <3>2
  <2> QED
    BY <2>1, <2>2, <2>4, <2>5
    DEF rowVars, IInv, OneLocker, Spent, SpentSteps, SpentBackup, SpentEmail, GuessesAreBounded
<1>2. ASSUME NEW q \in Requests, Dies(q)
      PROVE  IInv'
  BY <1>2, RunRecords, MoveIInv DEF Dies, Release, Idle, UnderLock, Outside
<1>3. ASSUME NEW q \in Requests, Challenge(q)
      PROVE  IInv'
  BY <1>3, CheckIInv, AcceptIInv, BurnIInv DEF Challenge
<1>4. CASE UNCHANGED vars
  BY <1>4 DEF vars, rowVars, IInv, TypeOK, OneLocker, RequestOK, Verified, MayRecord, Spent,
              SpentSteps, SpentTotp, SpentBackup, SpentEmail, Own, Late, GuessesAreBounded
<1> QED
  BY <1>1, <1>2, <1>3, <1>4, IncomingIInv, WriteIInv DEF Next

LEMMA AlwaysIInv ==
  ASSUME MfaAssumption
  PROVE  Spec => []IInv
BY InitIInv, StepIInv, PTL DEF Spec

\* Requests, rows and the lock are what the module says.
THEOREM MfaTypeCorrect == Spec => []TypeOK
<1>1. IInv => TypeOK
  BY DEF IInv
<1> QED
  BY <1>1, AlwaysIInv, MfaAssumption, PTL

\* No recovery code, mailed code or time step is accepted twice, however many requests
\* present codes at once.
THEOREM StepAcceptedOnce == Spec => []AcceptedOnce
<1>1. IInv => AcceptedOnce
  BY DEF IInv, Spent, SpentSteps, SpentBackup, SpentEmail, AcceptedOnce
<1> QED
  BY <1>1, AlwaysIInv, MfaAssumption, PTL

\* A TOTP code in plain digits is accepted at most twice, the second time by the one
\* request that had verified it when its step left the window.
THEOREM CodeAcceptedTwiceAtMost == Spec => []ReplayedOnce
<1>1. IInv => ReplayedOnce
  <2> SUFFICES ASSUME IInv, NEW c \in TotpCodes PROVE accepts[c] <= 2
    BY DEF ReplayedOnce
  <2>1. accepts[c] \in Nat /\ accepts[c] <= Own(c) + Late(c)
    BY DEF IInv, TypeOK, Codes, Spent, SpentTotp
  <2>2. Own(c) \in {0, 1} /\ Late(c) \in {0, 1}
    BY DEF Own, Late
  <2> QED
    BY <2>1, <2>2
<1> QED
  BY <1>1, AlwaysIInv, MfaAssumption, PTL

\* No mailed code is guessed at more often than the limit allows.
THEOREM GuessesBounded == Spec => []GuessesAreBounded
<1>1. IInv => GuessesAreBounded
  BY DEF IInv
<1> QED
  BY <1>1, AlwaysIInv, MfaAssumption, PTL
=============================================================================
