----------------------------- MODULE AuthSessions -----------------------------
(***************************************************************************)
(* The sessions of one account: its refresh tokens, and the codes with     *)
(* which a forgotten password is reset.  A request of AuthService awaits   *)
(* the database several times; what it read before is what it goes by.     *)
(* Accounts share nothing, except that synchronisations of personnel       *)
(* activate and deactivate them (Personnel).                               *)
(***************************************************************************)
EXTENDS Personnel, FiniteSets

CONSTANTS
    Me,             \* the account
    Requests,       \* calls of AuthService about it
    Tokens,         \* rows of refreshToken; one that is revoked and that no
                    \* request knows of may stand for a later one
    Codes,          \* rows of otpCode, in the order of createdAt
    MaxAttempts     \* 5

ASSUME MeAssumption == Me \in People
ASSUME RequestsAssumption == IsFiniteSet(Requests) /\ Requests # {}
ASSUME TokensAssumption == None \notin Tokens
ASSUME CodesAssumption ==
    Codes \subseteq Nat /\ None \notin Nat /\ MaxAttempts \in Nat \ {0}

VARIABLES
    live,       \* the refresh tokens that are not revoked
    stage,      \* what each request will do next
    match,      \* the row a refresh found
    otp,        \* the state of each code
    attempts,   \* OtpCode.attempts
    picked,     \* the code a request compares with
    alone,      \* history: the requests in flight that nobody else overlapped
    calm        \* history: whether no two requests ever overlapped

authVars == <<live, stage, match, otp, attempts, picked, alone, calm>>
vars == <<syncVars, authVars>>

Stages == {"idle", "revoke", "rotate", "session", "verify", "reset", "password"}

TypeOK ==
    /\ SyncTypeOK
    /\ live \subseteq Tokens
    /\ stage \in [Requests -> Stages]
    /\ match \in [Requests -> Tokens \cup {None}]
    /\ otp \in [Codes -> {"none", "open", "consumed", "expired"}]
    /\ attempts \in [Codes -> Nat]
    /\ picked \in [Requests -> Codes \cup {None}]
    /\ alone \subseteq Requests
    /\ calm \in BOOLEAN

Init ==
    /\ SyncInit
    /\ live = {}
    /\ stage = [r \in Requests |-> "idle"]
    /\ match = [r \in Requests |-> None]
    /\ otp = [c \in Codes |-> "none"]
    /\ attempts = [c \in Codes |-> 0]
    /\ picked = [r \in Requests |-> None]
    /\ alone = {}
    /\ calm = TRUE

-----------------------------------------------------------------------------
(* A request has read the database, and goes on to a stage; what overlaps  *)
(* it is no longer alone.                                                  *)
Begins(r, next) ==
    /\ stage[r] = "idle"
    /\ stage' = [stage EXCEPT ![r] = next]
    /\ alone' = IF \A q \in Requests : stage[q] = "idle" THEN {r} ELSE {}
    /\ calm' = (calm /\ alone' = {r})

(* A request ends and forgets what it read. *)
Over(r) ==
    /\ stage' = [stage EXCEPT ![r] = "idle"]
    /\ match' = [match EXCEPT ![r] = None]
    /\ picked' = [picked EXCEPT ![r] = None]
    /\ alone' = alone \ {r}
    /\ UNCHANGED calm

(* Any call of the database may fail. *)
Fails(r) ==
    /\ stage[r] # "idle"
    /\ Over(r)
    /\ UNCHANGED <<syncVars, live, otp, attempts>>

(* register creates the account with its session. *)
Register(r) ==
    /\ Enroll(Me)
    /\ Begins(r, "session")
    /\ UNCHANGED <<live, match, otp, attempts, picked>>

(* login: an active account, and the right password. *)
Login(r) ==
    /\ account[Me] = "active"
    /\ Begins(r, "revoke")
    /\ UNCHANGED <<syncVars, live, match, otp, attempts, picked>>

(* "Sesión única": the sessions there are, are revoked. *)
LoginRevokes(r) ==
    /\ stage[r] = "revoke"
    /\ stage' = [stage EXCEPT ![r] = "session"]
    /\ live' = {}
    /\ UNCHANGED <<syncVars, match, otp, attempts, picked, alone,
                   calm>>

(* buildSession creates the token of a new session. *)
SessionMade(r) ==
    /\ stage[r] = "session"
    /\ \E k \in Tokens \ live :
           /\ \A q \in Requests : match[q] # k
           /\ live' = live \cup {k}
    /\ Over(r)
    /\ UNCHANGED <<syncVars, otp, attempts>>

(* refresh has compared its token with the hashes of the live ones, and    *)
(* found its row.                                                          *)
Refresh(r) ==
    /\ \E k \in live : match' = [match EXCEPT ![r] = k]
    /\ Begins(r, "rotate")
    /\ UNCHANGED <<syncVars, live, otp, attempts, picked>>

(* Mutant of Rotate: the session is not revoked. *)
RotateKeeps(r) ==
    /\ stage[r] = "rotate"
    /\ stage' = [stage EXCEPT ![r] = "session"]
    /\ UNCHANGED <<syncVars, live, match, otp, attempts, picked, alone,
                   calm>>

(* It revokes the row it found, and goes on to buildSession. *)
Rotate(r) ==
    /\ stage[r] = "rotate"
    /\ stage' = [stage EXCEPT ![r] = "session"]
    /\ live' = live \ {match[r]}
    /\ UNCHANGED <<syncVars, match, otp, attempts, picked, alone,
                   calm>>

(* logout *)
Logout ==
    /\ live' = {}
    /\ UNCHANGED <<syncVars, stage, match, otp, attempts, picked, alone,
                   calm>>

-----------------------------------------------------------------------------
(* forgotPassword: codes are rows of their own; older ones stay. *)
IssueCode(c) ==
    /\ account[Me] # "none"
    /\ otp[c] = "none"
    /\ \A d \in Codes : d < c => otp[d] # "none"
    /\ otp' = [otp EXCEPT ![c] = "open"]
    /\ UNCHANGED <<syncVars, live, stage, match, attempts, picked, alone,
                   calm>>

Expire(c) ==
    /\ otp[c] = "open"
    /\ otp' = [otp EXCEPT ![c] = "expired"]
    /\ UNCHANGED <<syncVars, live, stage, match, attempts, picked, alone,
                   calm>>

(* The code consumeOtp goes by: the last one open. *)
Latest(c) == otp[c] = "open" /\ \A d \in Codes : otp[d] = "open" => d <= c

(* Mutant of Pick: one more attempt is allowed. *)
PickOneMore(r, c, next) ==
    /\ Latest(c)
    /\ attempts[c] <= MaxAttempts
    /\ picked' = [picked EXCEPT ![r] = c]
    /\ Begins(r, next)
    /\ UNCHANGED <<syncVars, live, match, otp, attempts>>

(* consumeOtp reads the code, of verifyOtp or of resetPassword. *)
Pick(r, c, next) ==
    /\ Latest(c)
    /\ attempts[c] < MaxAttempts
    /\ picked' = [picked EXCEPT ![r] = c]
    /\ Begins(r, next)
    /\ UNCHANGED <<syncVars, live, match, otp, attempts>>

(* It was another code: the attempt is counted. *)
WrongCode(r) ==
    /\ stage[r] \in {"verify", "reset"}
    /\ attempts' = [attempts EXCEPT ![picked[r]] = @ + 1]
    /\ Over(r)
    /\ UNCHANGED <<syncVars, live, otp>>

(* verifyOtp: it was the code. *)
Verified(r) ==
    /\ stage[r] = "verify"
    /\ Over(r)
    /\ UNCHANGED <<syncVars, live, otp, attempts>>

(* resetPassword: it was the code, which is consumed. *)
Consume(r) ==
    /\ stage[r] = "reset"
    /\ otp' = [otp EXCEPT ![picked[r]] = "consumed"]
    /\ stage' = [stage EXCEPT ![r] = "password"]
    /\ UNCHANGED <<syncVars, live, match, attempts, picked, alone,
                   calm>>

(* The password is set, and the sessions there are revoked. *)
ResetDone(r) ==
    /\ stage[r] = "password"
    /\ live' = {}
    /\ Over(r)
    /\ UNCHANGED <<syncVars, otp, attempts>>

-----------------------------------------------------------------------------
RequestStep(r) ==
    \/ Register(r)
    \/ Login(r)
    \/ LoginRevokes(r)
    \/ SessionMade(r)
    \/ Refresh(r)
    \/ Rotate(r)
    \/ \E c \in Codes, next \in {"verify", "reset"} : Pick(r, c, next)
    \/ WrongCode(r)
    \/ Verified(r)
    \/ Consume(r)
    \/ ResetDone(r)
    \/ Fails(r)

Next ==
    \/ SyncNext /\ UNCHANGED authVars
    \/ Logout
    \/ \E c \in Codes : IssueCode(c) \/ Expire(c)
    \/ \E r \in Requests : RequestStep(r)

Spec == Init /\ [][Next]_vars

-----------------------------------------------------------------------------
(* As long as the requests of an account do not overlap, it has one session*)
(* at most, whatever of them fails half-way.                               *)
CalmIsSingle == calm => \A j, k \in live : j = k

(* A login that nobody overlaps ends with its session for the only one,    *)
(* however many sessions overlapping requests had left.                    *)
LoginIsAlone ==
    \A r \in Requests :
        r \in alone /\ stage[r] = "session" /\ match[r] = None => live = {}

(* "Sesión única" *)
OneSession == CalmIsSingle /\ LoginIsAlone

(* A code resets the password once: what an unoverlapped request is about  *)
(* to consume, or compares with, was not consumed and is not worn out.     *)
CodeSpentOnce ==
    \A r \in alone :
        stage[r] = "reset" =>
            otp[picked[r]] # "consumed" /\ attempts[picked[r]] < MaxAttempts

(* The attempts at a code are read before the comparison and counted after *)
(* it: those made together may go beyond the limit, by one for each request*)
(* but the first and no further.                                           *)
AttemptsBounded ==
    \A c \in Codes : attempts[c] <= MaxAttempts + Cardinality(Requests) - 1

(* What protects a code: "Demasiados intentos", and that it is consumed.   *)
CodesProtect == CodeSpentOnce /\ AttemptsBounded
=============================================================================
