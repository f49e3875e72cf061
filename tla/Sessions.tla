------------------------------ MODULE Sessions ------------------------------
(***************************************************************************)
(* Sign-in and refresh-token rotation: services/api/src/modules/           *)
(* auth.routes.ts, with the one-time claims it redeems (MFA challenges of  *)
(* mfa.routes.ts, OAuth tickets of lib/oauth-ticket.ts).                   *)
(*                                                                         *)
(* Tables and Redis keys are the shared state.  A request is a handler     *)
(* that runs one statement at a time: other handlers run between its       *)
(* awaits, and any handler may end early (a failed statement, a crash).    *)
(*                                                                         *)
(* A refresh token is named by the session row it is stored in.  The       *)
(* fields family, parent, stale and raced of the records, and contested,   *)
(* are history kept for the properties; no guard reads them.               *)
(***************************************************************************)
EXTENDS Integers, FiniteSets

CONSTANTS
    Users,          \* accounts that exist or may sign up, one per email
    MfaUsers,       \* those with a confirmed user_mfa row
    Registered,     \* those whose account exists from the start
    Sids,           \* identities of session rows: a bound on sign-ins
    Claims,         \* identities of MFA challenges and OAuth tickets
    Links,          \* identities of password-reset links
    Handlers,       \* requests in flight at once
    None

ASSUME UsersAssumption == MfaUsers \subseteq Users /\ Registered \subseteq Users

VARIABLES
    accounts,       \* users
    sessions,       \* sessions: row, or None before its INSERT
    claims,         \* Redis: mfa:challenge:* and oauth:ticket:*
    links,          \* email_tokens of purpose reset_password
    handlers,       \* the requests in flight
    contested       \* history: families two refreshes met in

vars == <<accounts, sessions, claims, links, handlers, contested>>

-----------------------------------------------------------------------------
\* family is the row of the sign-in a row descends from, parent the row it
\* replaced.  stale: its sign-in began before its user's last mass revocation;
\* raced: a request or a claim on its way here was open during one.
\* A row is revoked once revoked_at is set, else expired past expires_at.
Session == [user : Users, status : {"good", "expired", "revoked"},
            parent : Sids \cup {None}, family : Sids,
            stale : BOOLEAN, raced : BOOLEAN]

Claim == [user : Users, raced : BOOLEAN]

Link == [user : Users, consumed : BOOLEAN]

Handler == [at : {"idle", "create", "challenge", "ticket", "redeem", "issue",
                  "reuse", "rotate", "reset"},
            user : Users \cup {None},
            sid : Sids \cup {None},      \* the session row read by a refresh
            family : Sids \cup {None},
            key : Claims \cup Links \cup {None},
            stale : BOOLEAN, raced : BOOLEAN]

ASSUME NoneAssumption ==
    /\ None \notin Users \cup Sids \cup Claims \cup Links
    /\ None \notin Session /\ None \notin Claim /\ None \notin Link

NoHandler == [at |-> "idle", user |-> None, sid |-> None, family |-> None,
              key |-> None, stale |-> FALSE, raced |-> FALSE]
Serving(point, u, k) == [at |-> point, user |-> u, sid |-> None, family |-> None,
                         key |-> k, stale |-> FALSE, raced |-> FALSE]
Redeeming(c) == [at |-> "redeem", user |-> claims[c].user, sid |-> None,
                 family |-> None, key |-> c,
                 stale |-> claims[c].raced, raced |-> claims[c].raced]
Refreshing(point, s) == [at |-> point, user |-> sessions[s].user, sid |-> s,
                         family |-> sessions[s].family, key |-> None,
                         stale |-> sessions[s].stale, raced |-> sessions[s].raced]
Rows == {s \in Sids : sessions[s] # None}
Unrevoked(s) == s \in Rows /\ sessions[s].status # "revoked"

Go(h, point) == handlers' = [handlers EXCEPT ![h].at = point]
Start(h, now) == handlers[h].at = "idle" /\ handlers' = [handlers EXCEPT ![h] = now]
Finish(h) == handlers' = [handlers EXCEPT ![h] = NoHandler]

-----------------------------------------------------------------------------
Init ==
    /\ accounts = Registered
    /\ sessions = [s \in Sids |-> None]
    /\ claims = [c \in Claims |-> None]
    /\ links = [l \in Links |-> None]
    /\ handlers = [h \in Handlers |-> NoHandler]
    /\ contested = {}

\* POST /auth/signup: no account has this email yet.
SignupCheck(h, u) ==
    /\ u \notin accounts
    /\ Start(h, Serving("create", u, None))
    /\ UNCHANGED <<accounts, sessions, claims, links, contested>>

\* ... its transaction, which the UNIQUE email refuses to the slower of two.
SignupCreate(h) ==
    /\ handlers[h].at = "create"
    /\ \/ /\ handlers[h].user \notin accounts
          /\ accounts' = accounts \cup {handlers[h].user}
          /\ Go(h, "issue")
       \/ /\ handlers[h].user \in accounts
          /\ Finish(h)
          /\ UNCHANGED accounts
    /\ UNCHANGED <<sessions, claims, links, contested>>

\* POST /auth/login with the right password: MFA decides what comes next.
Login(h, u) ==
    /\ u \in accounts
    /\ Start(h, Serving(IF u \in MfaUsers THEN "challenge" ELSE "issue", u, None))
    /\ UNCHANGED <<accounts, sessions, claims, links, contested>>

\* Random keys are fresh: no request still holds this one either.
Unused(c) == claims[c] = None /\ \A h \in Handlers : handlers[h].key # c
Keep(c, u, late) == claims' = [claims EXCEPT ![c] = [user |-> u, raced |-> late]]

\* beginMfaChallenge: SETEX of a fresh random key; login answers with it.
BeginChallenge(h) ==
    /\ handlers[h].at = "challenge"
    /\ \E c \in Claims : Unused(c) /\ Keep(c, handlers[h].user, handlers[h].raced)
    /\ Finish(h)
    /\ UNCHANGED <<accounts, sessions, links, contested>>

\* The OAuth callback of somebody with an account: its transaction, which finds
\* the account.  For anyone else it fails: it inserts the organization without
\* the slug that migration 0001 declares NOT NULL, so no account comes of it.
OauthCallback(h, u) ==
    /\ u \in accounts
    /\ Start(h, Serving("ticket", u, None))
    /\ UNCHANGED <<accounts, sessions, claims, links, contested>>

\* ... and issueOauthTicket: SETEX of a fresh random key.
IssueTicket(h) ==
    /\ handlers[h].at = "ticket"
    /\ \E c \in Claims : Unused(c) /\ Keep(c, handlers[h].user, handlers[h].raced)
    /\ Finish(h)
    /\ UNCHANGED <<accounts, sessions, links, contested>>

\* consumeMfaChallenge and consumeOauthTicket: the GET of a key that exists ...
ClaimGet(h, c) ==
    /\ claims[c] # None
    /\ Start(h, Redeeming(c))
    /\ UNCHANGED <<accounts, sessions, claims, links, contested>>

\* ... and the DEL, whose failure is swallowed.  An MFA code is checked next;
\* a wrong one ends the request.
ClaimDel(h) ==
    /\ handlers[h].at = "redeem"
    /\ claims' \in {claims, [claims EXCEPT ![handlers[h].key] = None]}
    /\ Go(h, "issue")
    /\ UNCHANGED <<accounts, sessions, links, contested>>

\* The key's TTL passes.
ClaimExpires(c) ==
    /\ claims[c] # None
    /\ claims' = [claims EXCEPT ![c] = None]
    /\ UNCHANGED <<accounts, sessions, links, handlers, contested>>

\* The row issueSession INSERTs at the end of every way to sign in.
NewSession(s, h) ==
    [user |-> handlers[h].user, status |-> "good",
     parent |-> handlers[h].sid,
     family |-> IF handlers[h].family = None THEN s ELSE handlers[h].family,
     stale |-> handlers[h].stale, raced |-> handlers[h].raced]

IssueSession(h) ==
    /\ handlers[h].at = "issue"
    /\ \E s \in Sids \ Rows : sessions' = [sessions EXCEPT ![s] = NewSession(s, h)]
    /\ Finish(h)
    /\ UNCHANGED <<accounts, claims, links, contested>>

-----------------------------------------------------------------------------
(* A family is contested once a refresh finds its token unrevoked while      *)
(* another one is between that SELECT and its UPDATE.                        *)
Contested(s) ==
    IF Unrevoked(s) /\ \E k \in Handlers : handlers[k].at = "rotate" /\ handlers[k].sid = s
    THEN contested \cup {sessions[s].family} ELSE contested

\* Mutant of RefreshRead: revoked_at is not looked at.
RefreshReadUnchecked(h, s) ==
    /\ s \in Rows
    /\ sessions[s].status # "expired"
    /\ Start(h, Refreshing("rotate", s))
    /\ contested' = Contested(s)
    /\ UNCHANGED <<accounts, sessions, claims, links>>

\* POST /auth/refresh: the SELECT, and the two conditions on the row read.
RefreshRead(h, s) ==
    /\ s \in Rows
    /\ sessions[s].status # "expired"
    /\ Start(h, Refreshing(IF Unrevoked(s) THEN "rotate" ELSE "reuse", s))
    /\ contested' = Contested(s)
    /\ UNCHANGED <<accounts, sessions, claims, links>>

Revoked(s) == [sessions EXCEPT ![s].status = "revoked"]

\* The rotation: UPDATE by id alone, whoever revoked the row in the meantime.
Rotate(h) ==
    /\ handlers[h].at = "rotate"
    /\ sessions' = Revoked(handlers[h].sid)
    /\ Go(h, "issue")
    /\ UNCHANGED <<accounts, claims, links, contested>>

\* Mutant of RevokeAll: the WHERE picks the rows past their expiry.
RevokeExpired(u) ==
    [s \in Sids |-> IF s \in Rows /\ sessions[s].user = u
                    THEN [sessions[s] EXCEPT !.stale = TRUE,
                             !.status = IF @ = "expired" THEN "revoked" ELSE @]
                    ELSE sessions[s]]

(* A mass revocation, UPDATE ... WHERE user_id: every row of the user is     *)
(* revoked.  Requests and claims of that user still under way have raced it. *)
RevokeAll(u) ==
    [s \in Sids |-> IF s \in Rows /\ sessions[s].user = u
                    THEN [sessions[s] EXCEPT !.status = "revoked", !.stale = TRUE]
                    ELSE sessions[s]]
RaceClaims(u) ==
    [c \in Claims |-> IF claims[c] # None /\ claims[c].user = u
                      THEN [claims[c] EXCEPT !.raced = TRUE] ELSE claims[c]]
RaceHandlers(u, h) ==
    [k \in Handlers |-> IF k = h THEN NoHandler
                        ELSE IF handlers[k].user = u
                             THEN [handlers[k] EXCEPT !.stale = TRUE, !.raced = TRUE]
                             ELSE handlers[k]]

\* The token was already revoked: the user's live sessions go with it.
ReuseDetected(h) ==
    /\ handlers[h].at = "reuse"
    /\ sessions' = RevokeAll(handlers[h].user)
    /\ claims' = RaceClaims(handlers[h].user)
    /\ handlers' = RaceHandlers(handlers[h].user, h)
    /\ UNCHANGED <<accounts, links, contested>>

\* POST /auth/logout.  DELETE /auth/sessions/:id is the same UPDATE, of a row of
\* the caller's own.
Logout(s) ==
    /\ s \in Rows
    /\ sessions' = Revoked(s)
    /\ UNCHANGED <<accounts, claims, links, handlers, contested>>

\* expires_at passes.
SessionExpires(s) ==
    /\ Unrevoked(s)
    /\ sessions' = [sessions EXCEPT ![s].status = "expired"]
    /\ UNCHANGED <<accounts, claims, links, handlers, contested>>

-----------------------------------------------------------------------------
\* POST /auth/password/forgot: INSERT of a fresh link.
ForgotPassword(u) ==
    /\ u \in accounts
    /\ \E l \in Links : /\ links[l] = None
                        /\ links' = [links EXCEPT ![l] = [user |-> u, consumed |-> FALSE]]
    /\ UNCHANGED <<accounts, sessions, claims, handlers, contested>>

\* POST /auth/password/reset: the SELECT, outside the transaction.  A link past
\* its hour is one nobody presents.
ResetRead(h, l) ==
    /\ links[l] # None /\ ~links[l].consumed
    /\ Start(h, Serving("reset", links[l].user, l))
    /\ UNCHANGED <<accounts, sessions, claims, links, contested>>

\* ... and the transaction: new password, link consumed, sessions revoked.
ResetCommit(h) ==
    /\ handlers[h].at = "reset"
    /\ links' = [links EXCEPT ![handlers[h].key].consumed = TRUE]
    /\ sessions' = RevokeAll(handlers[h].user)
    /\ claims' = RaceClaims(handlers[h].user)
    /\ handlers' = RaceHandlers(handlers[h].user, h)
    /\ UNCHANGED <<accounts, contested>>

\* A statement fails, the MFA code is wrong, or the process goes down.
HandlerDies(h) ==
    /\ handlers[h].at # "idle"
    /\ Finish(h)
    /\ UNCHANGED <<accounts, sessions, claims, links, contested>>

Next ==
    \/ \E h \in Handlers, u \in Users :
           SignupCheck(h, u) \/ Login(h, u) \/ OauthCallback(h, u)
    \/ \E h \in Handlers : \/ SignupCreate(h) \/ BeginChallenge(h) \/ IssueTicket(h) \/ ClaimDel(h)
                           \/ IssueSession(h) \/ Rotate(h) \/ ReuseDetected(h)
                           \/ ResetCommit(h) \/ HandlerDies(h)
    \/ \E h \in Handlers, c \in Claims : ClaimGet(h, c)
    \/ \E h \in Handlers, s \in Sids : RefreshRead(h, s)
    \/ \E h \in Handlers, l \in Links : ResetRead(h, l)
    \/ \E s \in Sids : Logout(s) \/ SessionExpires(s)
    \/ \E c \in Claims : ClaimExpires(c)
    \/ \E u \in Users : ForgotPassword(u)

Spec == Init /\ [][Next]_vars

-----------------------------------------------------------------------------
\* Rows, Redis keys, links and requests keep their shape, and a request in
\* flight acts for a user and holds what its next statement needs.
TypeOK ==
    /\ accounts \subseteq Users
    /\ sessions \in [Sids -> Session \cup {None}]
    /\ claims \in [Claims -> Claim \cup {None}]
    /\ links \in [Links -> Link \cup {None}]
    /\ handlers \in [Handlers -> Handler]
    /\ contested \subseteq Sids

(* "The presented token is consumed and replaced" (lines 157-161): a token  *)
(* and the one that replaced it are never both good.                        *)
ReplacedTokenIsRevoked ==
    \A s \in Rows : sessions[s].parent # None => ~Unrevoked(sessions[s].parent)

(* Rotation keeps one good token per sign-in, whatever logouts, resets,     *)
(* reuse alarms and failed requests come in between, unless two refreshes    *)
(* of one token overlapped between SELECT and UPDATE (lines 169-194).       *)
OneTokenPerSignIn ==
    \A s, t \in Sids : /\ Unrevoked(s) /\ Unrevoked(t)
                       /\ sessions[s].family = sessions[t].family
                       /\ sessions[s].family \notin contested
                       => s = t

(* A password reset or a reuse alarm ends the user's sessions (lines 178    *)
(* and 325): a good token whose row is older than the last one of either,   *)
(* or descends from a sign-in that is, exists only if a request or an       *)
(* unredeemed claim was under way at that moment.                           *)
OnlyRacersSurvive ==
    \A s \in Sids : Unrevoked(s) /\ sessions[s].stale => sessions[s].raced
=============================================================================
