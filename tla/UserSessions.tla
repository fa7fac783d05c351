---------------------------- MODULE UserSessions ----------------------------
(***************************************************************************)
(* Login, logout, change of password and stream tickets of one user, from   *)
(* one address.  A handler is several calls to Redis and to the rate        *)
(* limiter, each atomic, with slow work (the hash comparison) in between,    *)
(* and handlers interleave.  Time is left out: an attempt leaves the         *)
(* limiter's window, a session and a ticket expire, at any moment.           *)
(*                                                                         *)
(* A token is named by the login that got it, a ticket by the request that   *)
(* asked for it.                                                            *)
(***************************************************************************)
EXTENDS Integers, FiniteSets

CONSTANTS
    Login,          \* connections that log in, one attempt after the other
    Change,         \* requests to change the password
    Ticket,         \* requests for a ticket
    Password,
    First,          \* the user's first password
    MaxAttempts,    \* loginMaxAttempts
    Nothing

ASSUME LoginFinite == IsFiniteSet(Login)
ASSUME RequestsDiffer == Login \cap Change = {} /\ Change \cap Ticket = {}
ASSUME FirstIsPassword == First \in Password /\ Nothing \notin Password
ASSUME MaxIsPositive == MaxAttempts \in Nat \ {0}

VARIABLES
    attempts,       \* failed attempts in the limiter's window
    password,       \* what the stored hash is of
    sessions,       \* tokens in Redis
    tickets,        \* tickets in Redis
    lp,             \* where each login is
    cp,             \* where each change of password is
    tp,             \* where each request for a ticket is
    given,          \* the (current) password that a login or a change states
    hash,           \* the password whose hash it has read
    token,          \* the token that a change or a request for a ticket shows
    current,        \* history: the passwords that were stored since it began
    gone            \* history: tokens that have left Redis

userVars == <<attempts, password, sessions, tickets, lp, cp, tp, given, hash, token, current, gone>>

UserInit ==
    /\ attempts = 0
    /\ password = First
    /\ sessions = {}
    /\ tickets = {}
    /\ lp = [q \in Login |-> "idle"]
    /\ cp = [c \in Change |-> "new"]
    /\ tp = [k \in Ticket |-> "new"]
    /\ given = [r \in Login \cup Change |-> Nothing]
    /\ hash = [r \in Login \cup Change |-> Nothing]
    /\ token = [r \in Change \cup Ticket |-> Nothing]
    /\ current = [r \in Login \cup Change |-> {}]
    /\ gone = {}

-----------------------------------------------------------------------------
(* loginHandler                                                            *)

checkLoginRate_Off(q, p) ==
    /\ lp[q] = "idle"
    /\ attempts <= MaxAttempts
    /\ lp' = [lp EXCEPT ![q] = "checked"]
    /\ given' = [given EXCEPT ![q] = p]
    /\ current' = [current EXCEPT ![q] = {password}]
    /\ UNCHANGED <<attempts, password, sessions, tickets, cp, tp, hash, token, gone>>

\* At the limit the request is refused and nothing changes.
checkLoginRate(q, p) ==
    /\ lp[q] = "idle"
    /\ attempts < MaxAttempts
    /\ lp' = [lp EXCEPT ![q] = "checked"]
    /\ given' = [given EXCEPT ![q] = p]
    /\ current' = [current EXCEPT ![q] = {password}]
    /\ UNCHANGED <<attempts, password, sessions, tickets, cp, tp, hash, token, gone>>

\* A body that cannot be read, or no Redis: an answer, and no attempt.
Malformed(q) ==
    /\ lp[q] = "checked"
    /\ lp' = [lp EXCEPT ![q] = "idle"]
    /\ UNCHANGED <<attempts, password, sessions, tickets, cp, tp, given, hash, token, current, gone>>

\* A password that is too long, or an unknown user name.
Unknown(q) ==
    /\ lp[q] = "checked"
    /\ lp' = [lp EXCEPT ![q] = "fail"]
    /\ UNCHANGED <<attempts, password, sessions, tickets, cp, tp, given, hash, token, current, gone>>

LoginGetUser_Cached(q) ==
    /\ lp[q] = "checked"
    /\ hash' = [hash EXCEPT ![q] = IF @ = Nothing THEN password ELSE @]
    /\ lp' = [lp EXCEPT ![q] = "compare"]
    /\ UNCHANGED <<attempts, password, sessions, tickets, cp, tp, given, token, current, gone>>

LoginGetUser(q) ==
    /\ lp[q] = "checked"
    /\ hash' = [hash EXCEPT ![q] = password]
    /\ lp' = [lp EXCEPT ![q] = "compare"]
    /\ UNCHANGED <<attempts, password, sessions, tickets, cp, tp, given, token, current, gone>>

LoginCompare(q) ==
    /\ lp[q] = "compare"
    /\ lp' = [lp EXCEPT ![q] = IF hash[q] = given[q] THEN "issue" ELSE "fail"]
    /\ UNCHANGED <<attempts, password, sessions, tickets, cp, tp, given, hash, token, current, gone>>

recordLoginAttempt(q) ==
    /\ lp[q] = "fail"
    /\ attempts' = attempts + 1
    /\ lp' = [lp EXCEPT ![q] = "idle"]
    /\ UNCHANGED <<password, sessions, tickets, cp, tp, given, hash, token, current, gone>>

\* The session is stored, and then the client gets the token.
SetUserSession(q) ==
    /\ lp[q] = "issue"
    /\ sessions' = sessions \cup {q}
    /\ lp' = [lp EXCEPT ![q] = "in"]
    /\ UNCHANGED <<attempts, password, tickets, cp, tp, given, hash, token, current, gone>>

\* The token cannot be made or the session not be stored.
SessionFails(q) ==
    /\ lp[q] = "issue"
    /\ lp' = [lp EXCEPT ![q] = "idle"]
    /\ UNCHANGED <<attempts, password, sessions, tickets, cp, tp, given, hash, token, current, gone>>

-----------------------------------------------------------------------------
(* logoutHandler, and what Redis and the limiter forget                     *)

\* A client that has the token logs out, or the session expires.
RemoveUserSession(q) ==
    /\ lp[q] = "in"
    /\ q \in sessions
    /\ sessions' = sessions \ {q}
    /\ gone' = gone \cup {q}
    /\ UNCHANGED <<attempts, password, tickets, lp, cp, tp, given, hash, token, current>>

\* An attempt leaves the window: checkLoginRate and cleanupRateLimiter drop it.
AttemptExpires ==
    /\ attempts > 0
    /\ attempts' = attempts - 1
    /\ UNCHANGED <<password, sessions, tickets, lp, cp, tp, given, hash, token, current, gone>>

-----------------------------------------------------------------------------
(* validateSessionFull: the token is a session in Redis.                    *)

ValidToken(q) == lp[q] = "in" /\ q \in sessions

-----------------------------------------------------------------------------
(* changePasswordHandler                                                   *)

ChangeValidate(c, q, p) ==
    /\ cp[c] = "new"
    /\ ValidToken(q)
    /\ token' = [token EXCEPT ![c] = q]
    /\ given' = [given EXCEPT ![c] = p]
    /\ current' = [current EXCEPT ![c] = {password}]
    /\ cp' = [cp EXCEPT ![c] = "valid"]
    /\ UNCHANGED <<attempts, password, sessions, tickets, lp, tp, hash, gone>>

ChangeGetUser(c) ==
    /\ cp[c] = "valid"
    /\ hash' = [hash EXCEPT ![c] = password]
    /\ cp' = [cp EXCEPT ![c] = "compare"]
    /\ UNCHANGED <<attempts, password, sessions, tickets, lp, tp, given, token, current, gone>>

ChangeCompare(c) ==
    /\ cp[c] = "compare"
    /\ cp' = [cp EXCEPT ![c] = IF hash[c] = given[c] THEN "set" ELSE "refused"]
    /\ UNCHANGED <<attempts, password, sessions, tickets, lp, tp, given, hash, token, current, gone>>

\* The user is stored as it was read, with the new hash, whatever Redis holds
\* by now.  Sessions stay.
SetUser(c, new) ==
    /\ cp[c] = "set"
    /\ password' = new
    /\ current' = [r \in Login \cup Change |-> current[r] \cup {new}]
    /\ cp' = [cp EXCEPT ![c] = "changed"]
    /\ UNCHANGED <<attempts, sessions, tickets, lp, tp, given, hash, token, gone>>

\* A new password of the wrong length, or Redis fails.
ChangeFails(c) ==
    /\ cp[c] \in {"valid", "set"}
    /\ cp' = [cp EXCEPT ![c] = "refused"]
    /\ UNCHANGED <<attempts, password, sessions, tickets, lp, tp, given, hash, token, current, gone>>

-----------------------------------------------------------------------------
(* issueTicketHandler and validateTicket                                    *)

TicketValidate(k, q) ==
    /\ tp[k] = "new"
    /\ ValidToken(q)
    /\ token' = [token EXCEPT ![k] = q]
    /\ tp' = [tp EXCEPT ![k] = "valid"]
    /\ UNCHANGED <<attempts, password, sessions, tickets, lp, cp, given, hash, current, gone>>

SetTicket(k) ==
    /\ tp[k] = "valid"
    /\ tickets' = tickets \cup {k}
    /\ tp' = [tp EXCEPT ![k] = "stored"]
    /\ UNCHANGED <<attempts, password, sessions, lp, cp, given, hash, token, current, gone>>

\* A stream is opened with the ticket, or the ticket expires.
ConsumeTicket(k) ==
    /\ k \in tickets
    /\ tickets' = tickets \ {k}
    /\ tp' = [tp EXCEPT ![k] = "used"]
    /\ UNCHANGED <<attempts, password, sessions, lp, cp, given, hash, token, current, gone>>

-----------------------------------------------------------------------------

LoginStep(q) ==
    \/ \E p \in Password : checkLoginRate(q, p)
    \/ Malformed(q) \/ Unknown(q) \/ LoginGetUser(q) \/ LoginCompare(q) \/ recordLoginAttempt(q)
    \/ SetUserSession(q) \/ SessionFails(q) \/ RemoveUserSession(q)

ChangeStep(c) ==
    \/ \E q \in Login, p \in Password : ChangeValidate(c, q, p)
    \/ ChangeGetUser(c) \/ ChangeCompare(c) \/ ChangeFails(c)
    \/ \E p \in Password : SetUser(c, p)

TicketStep(k) == SetTicket(k) \/ ConsumeTicket(k) \/ \E q \in Login : TicketValidate(k, q)

UserNext ==
    \/ \E q \in Login : LoginStep(q)
    \/ \E c \in Change : ChangeStep(c)
    \/ \E k \in Ticket : TicketStep(k)
    \/ AttemptExpires

UserSpec == UserInit /\ [][UserNext]_userVars

-----------------------------------------------------------------------------
(* Properties                                                              *)

\* Types.  A ticket is in Redis exactly while its request has stored it and
\* nobody has used it (SetTicket, ConsumeTicket).
UserTypeOK ==
    /\ attempts \in Nat
    /\ password \in Password
    /\ sessions \subseteq Login
    /\ lp \in [Login -> {"idle", "checked", "compare", "fail", "issue", "in"}]
    /\ cp \in [Change -> {"new", "valid", "compare", "set", "changed", "refused"}]
    /\ tp \in [Ticket -> {"new", "valid", "stored", "used"}]
    /\ tickets = {k \in Ticket : tp[k] = "stored"}
    /\ given \in [Login \cup Change -> Password \cup {Nothing}]
    /\ hash \in [Login \cup Change -> Password \cup {Nothing}]
    /\ token \in [Change \cup Ticket -> Login \cup {Nothing}]
    /\ current \in [Login \cup Change -> SUBSET Password]
    /\ gone \subseteq Login

\* How far the limiter lets racing logins go (checkLoginRate asks before an attempt,
\* recordLoginAttempt tells after it): every connection that passes the check below
\* the limit may add one attempt, and no other is added, so the limit is exceeded
\* by fewer attempts than there are connections.  LimitKept is what is documented.
AttemptsBound == attempts <= MaxAttempts - 1 + Cardinality(Login)

\* A token that has left Redis, by logout or expiry, never comes back, whatever
\* else goes on: no request stores a session that a client already has the
\* token of (loginHandler, logoutHandler).
LoggedOutStaysOut == gone \cap sessions = {}

\* Who logs in, or changes the password, gave a password that was the user's at
\* some moment of the request, but maybe not at its end (loginHandler,
\* changePasswordHandler: the hash is read, compared and then acted upon).
CredentialsWereCurrent ==
    /\ \A q \in Login : lp[q] \in {"issue", "in"} => given[q] \in current[q]
    /\ \A c \in Change : cp[c] \in {"set", "changed"} => given[c] \in current[c]

-----------------------------------------------------------------------------
(* What the documentation says, and the code does not do                   *)

\* "Rate limited: 5 attempts / 5 minutes per IP".
LimitKept == attempts <= MaxAttempts

\* "Tokens are invalid immediately after logout": nothing is done for a token that
\* has left Redis.
LogoutIsImmediate ==
    [][/\ \A c \in Change : cp[c] = "set" /\ cp'[c] = "changed" => token[c] \notin gone
       /\ \A k \in Ticket : tp[k] = "valid" /\ tp'[k] = "stored" => token[k] \notin gone]_userVars
=============================================================================
