------------------------------- MODULE Login -------------------------------
(***************************************************************************)
(* One-time passwords of one phone number, app/auth.py: request_otp and    *)
(* verify_otp, the Redis keys they use, and the account a first login      *)
(* makes.                                                                  *)
(*                                                                         *)
(* Each Redis command is atomic and a handler is several of them, in any   *)
(* of the web processes; a handler whose process dies leaves what it has   *)
(* written so far.                                                         *)
(***************************************************************************)
EXTENDS Integers, FiniteSets

CONSTANTS
    Visitors,      \* requests of the login page that can be in progress
    MaxAttempts,   \* OTP_MAX_ATTEMPTS
    ReqLimit,      \* OTP_REQ_LIMIT
    MaxCodes       \* bound: codes made

ASSUME LoginAssumption ==
    /\ MaxAttempts \in Nat \ {0} /\ ReqLimit \in Nat /\ MaxCodes \in Nat

VARIABLES
    otp,        \* otp:{phone}: the code it holds (0: none), attempts, and its TTL
    window,     \* otp:rl:{phone}: requests counted, and whether the key has a TTL
    codes,      \* codes made so far; each is another number
    compared,   \* compared[i]: guesses that were compared with code i
    visit,      \* visit[v]: the step a request is at, and what it has read
    users       \* how many users have the phone

loginVars == <<otp, window, codes, compared, visit, users>>

NoOtp == [there |-> FALSE, code |-> 0, attempts |-> 0, ttl |-> FALSE]
NoVisit == [pc |-> "idle", code |-> 0, attempts |-> 0, right |-> FALSE]

LoginTypeOK ==
    /\ otp \in [there : BOOLEAN, code : 0 .. MaxCodes, attempts : 0 .. MaxAttempts,
                ttl : BOOLEAN]
    /\ window \in [count : Nat, ttl : BOOLEAN]
    /\ codes \in 0 .. MaxCodes
    /\ compared \in [1 .. MaxCodes -> Nat]
    /\ visit \in [Visitors -> [pc : {"idle", "asked", "count", "delete", "find", "create",
                                     "in"},
                               code : 0 .. MaxCodes, attempts : 0 .. MaxAttempts,
                               right : BOOLEAN]]
    /\ users \in Nat

LoginInit ==
    /\ otp = NoOtp
    /\ window = [count |-> 0, ttl |-> FALSE]
    /\ codes = 0
    /\ compared = [i \in 1 .. MaxCodes |-> 0]
    /\ visit = [v \in Visitors |-> NoVisit]
    /\ users = 0

GoOn(v, pc) == visit' = [visit EXCEPT ![v].pc = pc]
EndVisit(v, how) == visit' = [visit EXCEPT ![v] = [NoVisit EXCEPT !.pc = how]]
AtRest(v) == visit[v].pc \in {"idle", "in"}

-----------------------------------------------------------------------------
(* request_otp                                                             *)

\* INCR of the window's key, and EXPIRE by the request that made it; beyond the
\* limit the request is refused; the model counts no further than that.
Ask(v) ==
    /\ AtRest(v)
    /\ codes < MaxCodes
    /\ window' = [count |-> IF window.count > ReqLimit THEN window.count ELSE window.count + 1,
                 ttl |-> window.ttl \/ window.count = 0]
    /\ IF window.count >= ReqLimit THEN EndVisit(v, "idle") ELSE GoOn(v, "asked")
    /\ UNCHANGED <<otp, codes, compared, users>>

\* The process dies between INCR and EXPIRE.
AskDies(v) ==
    /\ AtRest(v)
    /\ codes < MaxCodes
    /\ window.count = 0
    /\ window' = [window EXCEPT !.count = 1]
    /\ EndVisit(v, "idle")
    /\ UNCHANGED <<otp, codes, compared, users>>

\* HSET of the hash and zero attempts, EXPIRE, unless the process dies before it,
\* and the SMS, which may fail.
StoreCode(v) ==
    /\ visit[v].pc = "asked"
    /\ codes < MaxCodes
    /\ codes' = codes + 1
    /\ \E expires \in BOOLEAN :
          otp' = [there |-> TRUE, code |-> codes + 1, attempts |-> 0,
                  ttl |-> expires \/ otp.ttl]
    /\ EndVisit(v, "idle")
    /\ UNCHANGED <<window, compared, users>>

-----------------------------------------------------------------------------
(* verify_otp                                                              *)

\* HGETALL; an attempt is one more than what it says.  right is whether the code
\* submitted is the one read.
Submit(v, right) ==
    /\ AtRest(v)
    /\ otp.there
    /\ right => otp.code > 0
    /\ visit' = [visit EXCEPT ![v] = [pc |-> "count", code |-> otp.code,
                                      attempts |-> otp.attempts + 1, right |-> right]]
    /\ UNCHANGED <<otp, window, codes, compared, users>>

LastAttempt(v) ==
    /\ visit[v].pc = "count"
    /\ visit[v].attempts >= MaxAttempts
    /\ otp' = NoOtp
    /\ EndVisit(v, "idle")
    /\ UNCHANGED <<window, codes, compared, users>>

\* A fault: only a wrong guess is written back.
CountWrongOnly(v) ==
    /\ visit[v].pc = "count"
    /\ visit[v].attempts < MaxAttempts
    /\ otp' = IF visit[v].right THEN otp ELSE [otp EXCEPT !.there = TRUE]
    /\ compared' = IF visit[v].code = 0 THEN compared
                   ELSE [compared EXCEPT ![visit[v].code] = @ + 1]
    /\ IF visit[v].right THEN GoOn(v, "delete") ELSE EndVisit(v, "idle")
    /\ UNCHANGED <<window, codes, users>>

\* HSET of attempts, which makes a key that is gone again, without a code and
\* without a TTL; then the comparison with the hash that was read.
CountAttempt(v) ==
    /\ visit[v].pc = "count"
    /\ visit[v].attempts < MaxAttempts
    /\ otp' = [otp EXCEPT !.there = TRUE, !.attempts = visit[v].attempts]
    /\ compared' = IF visit[v].code = 0 THEN compared
                   ELSE [compared EXCEPT ![visit[v].code] = @ + 1]
    /\ IF visit[v].right THEN GoOn(v, "delete") ELSE EndVisit(v, "idle")
    /\ UNCHANGED <<window, codes, users>>

\* DEL: whatever code the key holds by now.
UseUp(v) ==
    /\ visit[v].pc = "delete"
    /\ otp' = NoOtp
    /\ GoOn(v, "find")
    /\ UNCHANGED <<window, codes, compared, users>>

FindUser(v) ==
    /\ visit[v].pc = "find"
    /\ IF users > 0 THEN EndVisit(v, "in") ELSE GoOn(v, "create")
    /\ UNCHANGED <<otp, window, codes, compared, users>>

\* A fault: users.phone is not unique.
CreateAnyway(v) ==
    /\ visit[v].pc = "create"
    /\ users' = users + 1
    /\ EndVisit(v, "in")
    /\ UNCHANGED <<otp, window, codes, compared>>

\* INSERT; users.phone is unique, so the second of two first logins fails.
CreateUser(v) ==
    /\ visit[v].pc = "create"
    /\ IF users = 0 THEN users' = 1 /\ EndVisit(v, "in")
       ELSE users' = users /\ EndVisit(v, "idle")
    /\ UNCHANGED <<otp, window, codes, compared>>

-----------------------------------------------------------------------------

CodeExpires ==
    /\ otp.ttl
    /\ otp' = NoOtp
    /\ UNCHANGED <<window, codes, compared, visit, users>>

WindowOver ==
    /\ window.ttl
    /\ window' = [count |-> 0, ttl |-> FALSE]
    /\ UNCHANGED <<otp, codes, compared, visit, users>>

VisitDies(v) ==
    /\ ~AtRest(v)
    /\ EndVisit(v, "idle")
    /\ UNCHANGED <<otp, window, codes, compared, users>>

LoginNext ==
    \/ \E v \in Visitors :
          \/ Ask(v) \/ AskDies(v) \/ StoreCode(v)
          \/ \E right \in BOOLEAN : Submit(v, right)
          \/ LastAttempt(v) \/ CountAttempt(v) \/ UseUp(v) \/ FindUser(v) \/ CreateUser(v)
          \/ VisitDies(v)
    \/ CodeExpires \/ WindowOver

LoginSpec == LoginInit /\ [][LoginNext]_loginVars

-----------------------------------------------------------------------------
(* Correctness.                                                            *)

\* auth.py counts attempts to bound them: a code is compared with at most
\* L = MaxAttempts - 1 guesses that follow each other.  Requests that overlap write
\* older counts over newer ones; two at a time reach L(L+3)/2 and no more.
GuessesBounded ==
    LET L == MaxAttempts - 1
    IN  \A i \in 1 .. MaxCodes :
            compared[i] <= IF Cardinality(Visitors) = 1 THEN L ELSE (L * (L + 3)) \div 2

\* First logins that overlap leave one account, and nobody is logged in without it.
OneAccount ==
    /\ users <= 1
    /\ (\E v \in Visitors : visit[v].pc = "in") => users = 1
=============================================================================
