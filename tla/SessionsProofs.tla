--------------------------- MODULE SessionsProofs ---------------------------
(***************************************************************************)
(* Proofs about Sessions, for any number of users, sessions, claims, links *)
(* and concurrent requests.                                                *)
(***************************************************************************)
EXTENDS Sessions, TLAPS

-----------------------------------------------------------------------------
(***************************************************************************)
(* The inductive invariant.  A family's one good token is either an        *)
(* unrevoked row or a request that has taken the row's place: Pending.     *)
(* OneHolder says that an uncontested family has one of the two at most;   *)
(* OneTokenPerSignIn alone is not inductive, because IssueSession needs to *)
(* know that nothing else of the family is left when it inserts its row.   *)
(***************************************************************************)
Ready(h) ==
    /\ handlers[h].at # "idle" => handlers[h].user \in Users
    /\ handlers[h].at = "redeem" => handlers[h].key \in Claims
    /\ handlers[h].at = "reset" => handlers[h].key \in Links /\ links[handlers[h].key] # None
    /\ handlers[h].at \in {"rotate", "reuse"} =>
          /\ handlers[h].sid \in Rows
          /\ handlers[h].family = sessions[handlers[h].sid].family
    /\ handlers[h].at = "issue" /\ handlers[h].sid # None =>
          handlers[h].sid \in Rows /\ ~Unrevoked(handlers[h].sid)
    /\ handlers[h].at \notin {"rotate", "reuse", "issue"} =>
          handlers[h].sid = None /\ handlers[h].family = None
    /\ handlers[h].family # None => handlers[h].family \in Rows
    /\ handlers[h].at # "reuse" /\ handlers[h].stale => handlers[h].raced

Descent ==
    \A s \in Rows : /\ sessions[s].family \in Rows
                    /\ sessions[s].parent # None => sessions[s].parent \in Rows

Pending(h) ==
    /\ handlers[h].family # None
    /\ \/ handlers[h].at = "issue"
       \/ handlers[h].at = "rotate" /\ ~Unrevoked(handlers[h].sid)

HolderIsAlone ==
    \A s \in Sids, h \in Handlers :
        Unrevoked(s) /\ Pending(h) /\ sessions[s].family = handlers[h].family
            => handlers[h].family \in contested
OnePending ==
    \A h, k \in Handlers :
        Pending(h) /\ Pending(k) /\ handlers[h].family = handlers[k].family /\ h # k
            => handlers[h].family \in contested
RotatingContests ==
    \A h, k \in Handlers :
        /\ handlers[h].at = "rotate" /\ handlers[k].at = "rotate"
        /\ handlers[h].sid = handlers[k].sid /\ h # k
        => handlers[h].family \in contested

OneHolder == HolderIsAlone /\ OnePending /\ RotatingContests

IInv == /\ TypeOK /\ ReplacedTokenIsRevoked /\ OneTokenPerSignIn /\ OnlyRacersSurvive
        /\ \A h \in Handlers : Ready(h)
        /\ Descent /\ OneHolder

-----------------------------------------------------------------------------
LEMMA NoHandlerType == NoHandler \in Handler
BY DEF NoHandler, Handler

LEMMA InitInv == Init => IInv
<1> SUFFICES ASSUME Init PROVE IInv
  OBVIOUS
<1>1. \A h \in Handlers : /\ handlers[h] = NoHandler
                          /\ NoHandler.at = "idle" /\ NoHandler.stale = FALSE
                          /\ NoHandler.sid = None /\ NoHandler.family = None
  BY DEF Init, NoHandler
<1>2. TypeOK
  BY NoHandlerType, UsersAssumption DEF Init, TypeOK
<1>3. Rows = {}
  BY DEF Init, Rows
<1>4. /\ ReplacedTokenIsRevoked /\ OneTokenPerSignIn /\ OnlyRacersSurvive /\ Descent
  BY <1>3 DEF ReplacedTokenIsRevoked, OneTokenPerSignIn, OnlyRacersSurvive, Descent, Unrevoked
<1>5. \A h \in Handlers : Ready(h)
  BY <1>1 DEF Ready
<1>6. OneHolder
  <2>1. \A h \in Handlers : ~Pending(h) /\ handlers[h].at # "rotate"
    BY <1>1 DEF Pending
  <2>2. QED
    BY <2>1 DEF OneHolder, HolderIsAlone, OnePending, RotatingContests
<1>7. QED
  BY <1>2, <1>4, <1>5, <1>6 DEF IInv

(***************************************************************************)
(* Steps that touch no session row: a request that changes holds no family *)
(* afterwards.                                                             *)
(***************************************************************************)
LEMMA QuietStep ==
    ASSUME IInv, TypeOK', sessions' = sessions, contested' = contested,
           \A l \in Links : links[l] # None => links'[l] # None,
           \A h \in Handlers : \/ handlers'[h] = handlers[h]
                               \/ Ready(h)' /\ handlers'[h].family = None
    PROVE  IInv'
<1> USE DEF IInv
<1>1. Rows' = Rows /\ \A s : Unrevoked(s)' <=> Unrevoked(s)
  BY DEF Rows, Unrevoked
<1>2. /\ ReplacedTokenIsRevoked' /\ OneTokenPerSignIn' /\ OnlyRacersSurvive' /\ Descent'
  BY <1>1 DEF ReplacedTokenIsRevoked, OneTokenPerSignIn, OnlyRacersSurvive, Descent
<1>3. \A h \in Handlers : Ready(h)'
  BY <1>1 DEF Ready
<1>4. \A h \in Handlers : Pending(h)' => Pending(h) /\ handlers'[h] = handlers[h]
  BY <1>1 DEF Pending
<1>5. \A h \in Handlers : handlers'[h].at = "rotate" => handlers'[h] = handlers[h]
  <2>1. \A h \in Handlers : Ready(h)' /\ handlers'[h].family = None => handlers'[h].at # "rotate"
    <3> SUFFICES ASSUME NEW h \in Handlers, Ready(h)', handlers'[h].family = None,
                        handlers'[h].at = "rotate"
                 PROVE  FALSE
      OBVIOUS
    <3>1. handlers'[h].sid \in Rows /\ sessions[handlers'[h].sid].family = None
      BY <1>1 DEF Ready
    <3>2. QED
      BY <3>1, NoneAssumption DEF TypeOK, Rows, Session
  <2>2. QED
    BY <2>1
<1>6. HolderIsAlone'
  BY <1>1, <1>4 DEF OneHolder, HolderIsAlone
<1>8. OnePending'
  BY <1>4 DEF OneHolder, OnePending
<1>9. RotatingContests'
  BY <1>5 DEF OneHolder, RotatingContests
<1>7. QED
  BY <1>2, <1>3, <1>6, <1>8, <1>9 DEF OneHolder

(***************************************************************************)
(* Steps that only revoke or expire rows.  A refresh that had read a row   *)
(* revoked here becomes the family's holder: two of them would have        *)
(* contested the family, by the last part of OneHolder.                    *)
(***************************************************************************)
LEMMA RevokingStep ==
    ASSUME IInv, TypeOK', contested' = contested,
           \A l \in Links : links[l] # None => links'[l] # None,
           Rows' = Rows,
           \A s \in Rows : /\ sessions'[s].family = sessions[s].family
                           /\ sessions'[s].parent = sessions[s].parent
                           /\ Unrevoked(s)' => /\ Unrevoked(s)
                                               /\ sessions'[s].stale = sessions[s].stale
                                               /\ sessions'[s].raced = sessions[s].raced,
           \A h \in Handlers :
              \/ handlers'[h] = NoHandler
              \/ /\ handlers'[h].user = handlers[h].user
                 /\ handlers'[h].sid = handlers[h].sid
                 /\ handlers'[h].family = handlers[h].family
                 /\ handlers'[h].key = handlers[h].key
                 /\ \/ handlers'[h].at = handlers[h].at
                    \/ /\ handlers[h].at = "rotate" /\ handlers'[h].at = "issue"
                       /\ ~Unrevoked(handlers[h].sid)'
                 /\ \/ handlers'[h].raced
                    \/ /\ handlers'[h].raced = handlers[h].raced
                       /\ handlers'[h].stale = handlers[h].stale
    PROVE  IInv'
<1> USE DEF IInv
<1>0. /\ NoHandler.at = "idle" /\ NoHandler.sid = None /\ NoHandler.family = None
      /\ NoHandler.stale = FALSE
  BY DEF NoHandler
<1>1. \A s : Unrevoked(s)' => Unrevoked(s) /\ s \in Sids /\ s \in Rows
  BY DEF Unrevoked, Rows
<1>2. Descent'
  BY DEF Descent
<1>3. ReplacedTokenIsRevoked'
  BY <1>1 DEF ReplacedTokenIsRevoked
<1>4. OneTokenPerSignIn'
  BY <1>1 DEF OneTokenPerSignIn
<1>5. OnlyRacersSurvive'
  BY <1>1 DEF OnlyRacersSurvive
<1>6. ASSUME NEW h \in Handlers PROVE Ready(h)'
  <2>1. CASE handlers'[h] = NoHandler
    BY <1>0, <2>1 DEF Ready
  <2>2. CASE handlers'[h] # NoHandler
    BY <1>1, <2>2 DEF Ready
  <2>3. QED
    BY <2>1, <2>2
<1>7. \A h \in Handlers : handlers'[h].family # None => handlers'[h].family = handlers[h].family
  BY <1>0
<1>8. \A h \in Handlers :
         Pending(h)' => \/ Pending(h)
                        \/ /\ handlers[h].at = "rotate" /\ handlers[h].sid \in Rows
                           /\ Unrevoked(handlers[h].sid)
                           /\ sessions[handlers[h].sid].family = handlers[h].family
                           /\ handlers'[h].sid = handlers[h].sid
                           /\ ~Unrevoked(handlers[h].sid)'
  BY <1>0 DEF Pending, Ready
<1>9. \A s \in Sids, h \in Handlers :
         Unrevoked(s)' /\ Pending(h)' /\ sessions'[s].family = handlers'[h].family
             => handlers'[h].family \in contested
  <2> SUFFICES ASSUME NEW s \in Sids, NEW h \in Handlers, Unrevoked(s)', Pending(h)',
                      sessions'[s].family = handlers'[h].family
               PROVE  handlers'[h].family \in contested
    OBVIOUS
  <2>1. /\ Unrevoked(s) /\ s \in Rows /\ sessions[s].family = handlers[h].family
        /\ handlers'[h].family = handlers[h].family
    BY <1>1, <1>7 DEF Pending
  <2>2. CASE Pending(h)
    BY <2>1, <2>2 DEF OneHolder, HolderIsAlone
  <2>3. CASE ~Pending(h)
    <3>1. /\ handlers[h].sid \in Sids /\ Unrevoked(handlers[h].sid) /\ handlers[h].sid # s
          /\ sessions[handlers[h].sid].family = handlers[h].family
      <4>1. /\ handlers[h].sid \in Rows /\ Unrevoked(handlers[h].sid)
            /\ sessions[handlers[h].sid].family = handlers[h].family
            /\ handlers'[h].sid = handlers[h].sid
            /\ ~Unrevoked(handlers[h].sid)'
        BY <1>8, <2>3
      <4>2. handlers[h].sid # s
        BY <4>1
      <4>3. QED
        BY <4>1, <4>2 DEF Rows
    <3>2. QED
      BY <2>1, <3>1 DEF OneTokenPerSignIn
  <2>4. QED
    BY <2>2, <2>3
<1>10. \A h, k \in Handlers :
          Pending(h)' /\ Pending(k)' /\ handlers'[h].family = handlers'[k].family /\ h # k
              => handlers'[h].family \in contested
  <2> SUFFICES ASSUME NEW h \in Handlers, NEW k \in Handlers, Pending(h)', Pending(k)',
                      handlers'[h].family = handlers'[k].family, h # k
               PROVE  handlers'[h].family \in contested
    OBVIOUS
  <2>1. /\ handlers'[h].family = handlers[h].family
        /\ handlers[h].family = handlers[k].family
    BY <1>7 DEF Pending
  <2>2. CASE Pending(h) /\ Pending(k)
    BY <2>1, <2>2 DEF OneHolder, OnePending
  <2>3. CASE Pending(h) /\ ~Pending(k)
    BY <1>8, <2>1, <2>3 DEF OneHolder, HolderIsAlone, Rows
  <2>4. CASE ~Pending(h) /\ Pending(k)
    BY <1>8, <2>1, <2>4 DEF OneHolder, HolderIsAlone, Rows
  <2>5. CASE ~Pending(h) /\ ~Pending(k)
    <3>1. /\ handlers[h].at = "rotate" /\ handlers[k].at = "rotate"
          /\ handlers[h].sid \in Sids /\ Unrevoked(handlers[h].sid)
          /\ handlers[k].sid \in Sids /\ Unrevoked(handlers[k].sid)
          /\ sessions[handlers[h].sid].family = handlers[h].family
          /\ sessions[handlers[k].sid].family = handlers[k].family
      BY <1>8, <2>5 DEF Rows
    <3>2. CASE handlers[h].sid = handlers[k].sid
      BY <2>1, <3>1, <3>2 DEF OneHolder, RotatingContests
    <3>3. CASE handlers[h].sid # handlers[k].sid
      BY <2>1, <3>1, <3>3 DEF OneTokenPerSignIn
    <3>4. QED
      BY <3>2, <3>3
  <2>6. QED
    BY <2>2, <2>3, <2>4, <2>5
<1>11. \A h, k \in Handlers :
          /\ handlers'[h].at = "rotate" /\ handlers'[k].at = "rotate"
          /\ handlers'[h].sid = handlers'[k].sid /\ h # k
          => handlers'[h].family \in contested
  <2>1. \A h \in Handlers : handlers'[h].at = "rotate" =>
           /\ handlers[h].at = "rotate" /\ handlers'[h].sid = handlers[h].sid
           /\ handlers'[h].family = handlers[h].family
    BY <1>0
  <2>2. QED
    BY <2>1 DEF OneHolder, RotatingContests
<1>12. OneHolder'
  BY <1>9, <1>10, <1>11 DEF OneHolder, HolderIsAlone, OnePending, RotatingContests
<1>13. QED
  BY <1>2, <1>3, <1>4, <1>5, <1>6, <1>12

-----------------------------------------------------------------------------
Points == {"idle", "create", "challenge", "ticket", "redeem", "issue", "reuse", "rotate", "reset"}

\* A request that moves on to its next statement.
LEMMA GoStep ==
    ASSUME TypeOK, NEW h \in Handlers, NEW point \in Points, Go(h, point)
    PROVE  /\ handlers' \in [Handlers -> Handler]
           /\ \A k \in Handlers : k # h => handlers'[k] = handlers[k]
           /\ handlers'[h].at = point
           /\ handlers'[h].user = handlers[h].user
           /\ handlers'[h].sid = handlers[h].sid
           /\ handlers'[h].family = handlers[h].family
           /\ handlers'[h].key = handlers[h].key
           /\ handlers'[h].stale = handlers[h].stale
           /\ handlers'[h].raced = handlers[h].raced
<1> DEFINE now == [handlers[h] EXCEPT !.at = point]
<1>1. handlers[h] \in Handler
  BY DEF TypeOK
<1>2. /\ now \in Handler /\ now.at = point
      /\ now.user = handlers[h].user /\ now.sid = handlers[h].sid
      /\ now.family = handlers[h].family /\ now.key = handlers[h].key
      /\ now.stale = handlers[h].stale /\ now.raced = handlers[h].raced
  BY <1>1 DEF Handler, Points
<1>3. handlers' = [handlers EXCEPT ![h] = now]
  BY <1>1 DEF Go, Handler
<1> HIDE DEF now
<1>4. QED
  BY <1>2, <1>3 DEF TypeOK

\* A request that ends, having touched no session row.
LEMMA FinishStep ==
    ASSUME IInv, NEW h \in Handlers, Finish(h), UNCHANGED <<sessions, links, contested>>,
           accounts' = accounts, claims' \in [Claims -> Claim \cup {None}]
    PROVE  IInv'
<1>1. TypeOK
  BY DEF IInv
<1>2. TypeOK'
  BY <1>1, NoHandlerType DEF TypeOK, Finish
<1>3. handlers'[h] = NoHandler /\ \A k \in Handlers : k # h => handlers'[k] = handlers[k]
  BY <1>1 DEF TypeOK, Finish
<1>4. Ready(h)' /\ handlers'[h].family = None
  BY <1>3 DEF Ready, NoHandler
<1>5. QED
  BY <1>2, <1>3, <1>4, QuietStep

\* Statements that leave the session rows alone.
LEMMA QuietSteps ==
    ASSUME IInv, NEW h \in Handlers,
           \/ \E u \in Users : SignupCheck(h, u) \/ Login(h, u) \/ OauthCallback(h, u)
           \/ SignupCreate(h) \/ BeginChallenge(h) \/ IssueTicket(h)
           \/ ClaimDel(h) \/ HandlerDies(h)
           \/ \E c \in Claims : ClaimGet(h, c)
           \/ \E l \in Links : ResetRead(h, l)
    PROVE  IInv'
<1>1. /\ TypeOK /\ Ready(h) /\ handlers[h] \in Handler
      /\ sessions' = sessions /\ contested' = contested
  BY DEF IInv, TypeOK, SignupCheck, Login, OauthCallback, SignupCreate, BeginChallenge,
         IssueTicket, ClaimDel, HandlerDies, ClaimGet, ResetRead
<1>2. /\ NoHandler.at = "idle" /\ NoHandler.sid = None /\ NoHandler.family = None
      /\ NoHandler.stale = FALSE
  BY DEF NoHandler
<1>3. CASE \E u \in Users : SignupCheck(h, u) \/ Login(h, u) \/ OauthCallback(h, u)
  <2>1. PICK u \in Users, point \in {"create", "challenge", "ticket", "issue"} :
           /\ handlers' = [handlers EXCEPT ![h] = Serving(point, u, None)]
           /\ UNCHANGED <<accounts, claims, links>>
    BY <1>3 DEF SignupCheck, Login, OauthCallback, Start
  <2> DEFINE now == Serving(point, u, None)
  <2>2. /\ now \in Handler /\ now.at = point /\ now.user = u
        /\ now.sid = None /\ now.family = None /\ now.stale = FALSE
    BY DEF Serving, Handler
  <2> HIDE DEF now
  <2>3. handlers' = [handlers EXCEPT ![h] = now]
    BY <2>1 DEF now
  <2>4. TypeOK'
    BY <1>1, <2>1, <2>2, <2>3 DEF TypeOK
  <2>5. handlers'[h] = now /\ \A k \in Handlers : k # h => handlers'[k] = handlers[k]
    BY <1>1, <2>3 DEF TypeOK
  <2>6. Ready(h)' /\ handlers'[h].family = None
    BY <2>2, <2>5 DEF Ready
  <2>7. QED
    BY <1>1, <2>1, <2>4, <2>5, <2>6, QuietStep
<1>4. CASE SignupCreate(h)
  <2>1. CASE Finish(h) /\ UNCHANGED accounts
    <3>1. UNCHANGED <<sessions, links, contested>> /\ claims' \in [Claims -> Claim \cup {None}]
      BY <1>1, <1>4 DEF SignupCreate, TypeOK
    <3>2. QED
      BY <2>1, <3>1, FinishStep
  <2>2. CASE accounts' = accounts \cup {handlers[h].user} /\ Go(h, "issue")
    <3>1. handlers[h].at = "create" /\ UNCHANGED <<claims, links>>
      BY <1>4 DEF SignupCreate
    <3>2. handlers[h].user \in Users /\ handlers[h].sid = None /\ handlers[h].family = None
      BY <1>1, <3>1 DEF Ready
    <3>3. TypeOK'
      BY <1>1, <2>2, <3>1, <3>2, GoStep DEF TypeOK, Points
    <3>4. \A k \in Handlers : k # h => handlers'[k] = handlers[k]
      BY <1>1, <2>2, GoStep DEF Points
    <3>5. Ready(h)' /\ handlers'[h].family = None
      BY <1>1, <2>2, <3>1, <3>2, GoStep DEF Ready, Points
    <3>6. QED
      BY <1>1, <3>1, <3>3, <3>4, <3>5, QuietStep
  <2>3. QED
    BY <1>4, <2>1, <2>2 DEF SignupCreate
<1>5. CASE BeginChallenge(h) \/ IssueTicket(h)
  <2>1. claims' \in [Claims -> Claim \cup {None}]
    <3>1. PICK c \in Claims : Keep(c, handlers[h].user, handlers[h].raced)
      BY <1>5 DEF BeginChallenge, IssueTicket
    <3>2. handlers[h].user \in Users /\ handlers[h].raced \in BOOLEAN
      BY <1>1, <1>5 DEF BeginChallenge, IssueTicket, Ready, Handler
    <3>3. [user |-> handlers[h].user, raced |-> handlers[h].raced] \in Claim
      BY <3>2 DEF Claim
    <3>4. QED
      BY <1>1, <3>1, <3>3 DEF Keep, TypeOK
  <2>2. QED
    <3>1. Finish(h) /\ UNCHANGED <<sessions, links, contested>> /\ accounts' = accounts
      BY <1>1, <1>5 DEF BeginChallenge, IssueTicket
    <3>2. QED
      BY <2>1, <3>1, FinishStep
<1>6. CASE ClaimDel(h)
  <2>1. /\ handlers[h].at = "redeem" /\ Go(h, "issue") /\ UNCHANGED <<accounts, links>>
        /\ claims' \in [Claims -> Claim \cup {None}]
    BY <1>1, <1>6 DEF ClaimDel, TypeOK
  <2>2. handlers[h].user \in Users /\ handlers[h].sid = None /\ handlers[h].family = None
    BY <1>1, <2>1 DEF Ready
  <2>3. TypeOK'
    BY <1>1, <2>1, GoStep DEF TypeOK, Points
  <2>4. \A k \in Handlers : k # h => handlers'[k] = handlers[k]
    BY <1>1, <2>1, GoStep DEF Points
  <2>5. Ready(h)' /\ handlers'[h].family = None
    BY <1>1, <2>1, <2>2, GoStep DEF Ready, Points
  <2>6. QED
    BY <1>1, <2>1, <2>3, <2>4, <2>5, QuietStep
<1>7. CASE HandlerDies(h)
  BY <1>1, <1>7, FinishStep DEF HandlerDies, TypeOK
<1>8. CASE \E c \in Claims : ClaimGet(h, c)
  <2>1. PICK c \in Claims : ClaimGet(h, c)
    BY <1>8
  <2>2. claims[c] \in Claim
    BY <1>1, <2>1 DEF ClaimGet, TypeOK
  <2> DEFINE now == Redeeming(c)
  <2>3. /\ now \in Handler /\ now.at = "redeem" /\ now.user \in Users /\ now.key = c
        /\ now.sid = None /\ now.family = None /\ now.stale = now.raced
    BY <2>2 DEF Redeeming, Handler, Claim
  <2> HIDE DEF now
  <2>4. handlers' = [handlers EXCEPT ![h] = now] /\ UNCHANGED <<accounts, claims, links>>
    BY <2>1 DEF now, ClaimGet, Start
  <2>5. TypeOK'
    BY <1>1, <2>3, <2>4 DEF TypeOK
  <2>6. handlers'[h] = now /\ \A k \in Handlers : k # h => handlers'[k] = handlers[k]
    BY <1>1, <2>4 DEF TypeOK
  <2>7. Ready(h)' /\ handlers'[h].family = None
    BY <2>3, <2>6 DEF Ready
  <2>8. QED
    BY <1>1, <2>4, <2>5, <2>6, <2>7, QuietStep
<1>9. CASE \E l \in Links : ResetRead(h, l)
  <2>1. PICK l \in Links : ResetRead(h, l)
    BY <1>9
  <2>2. links[l] \in Link
    BY <1>1, <2>1 DEF ResetRead, TypeOK
  <2> DEFINE now == Serving("reset", links[l].user, l)
  <2>3. /\ now \in Handler /\ now.at = "reset" /\ now.user \in Users /\ now.key = l
        /\ now.sid = None /\ now.family = None /\ now.stale = FALSE
    BY <2>2 DEF Serving, Handler, Link
  <2> HIDE DEF now
  <2>4. handlers' = [handlers EXCEPT ![h] = now] /\ UNCHANGED <<accounts, claims, links>>
    BY <2>1 DEF now, ResetRead, Start
  <2>5. TypeOK'
    BY <1>1, <2>3, <2>4 DEF TypeOK
  <2>6. handlers'[h] = now /\ \A k \in Handlers : k # h => handlers'[k] = handlers[k]
    BY <1>1, <2>4 DEF TypeOK
  <2>7. Ready(h)' /\ handlers'[h].family = None
    BY <2>2, <2>1, <2>3, <2>4, <2>6, NoneAssumption DEF Ready, ResetRead
  <2>8. QED
    BY <1>1, <2>4, <2>5, <2>6, <2>7, QuietStep
<1>10. QED
  BY <1>3, <1>4, <1>5, <1>6, <1>7, <1>8, <1>9

\* Steps outside any request: expiry of a claim, a new link.
LEMMA OutsideSteps ==
    ASSUME IInv,
           \/ \E u \in Users : ForgotPassword(u)
           \/ \E c \in Claims : ClaimExpires(c)
    PROVE  IInv'
<1>1. /\ TypeOK /\ sessions' = sessions /\ contested' = contested /\ handlers' = handlers
  BY DEF IInv, ForgotPassword, ClaimExpires
<1>2. CASE \E u \in Users : ForgotPassword(u)
  <2>1. PICK u \in Users, l \in Links :
           /\ links' = [links EXCEPT ![l] = [user |-> u, consumed |-> FALSE]]
           /\ UNCHANGED <<accounts, claims>>
    BY <1>2 DEF ForgotPassword
  <2> DEFINE new == [user |-> u, consumed |-> FALSE]
  <2>2. new \in Link /\ new # None
    <3>1. new \in Link
      BY DEF Link
    <3>2. QED
      BY <3>1, NoneAssumption
  <2>3. links' = [links EXCEPT ![l] = new]
    BY <2>1
  <2> HIDE DEF new
  <2>4. TypeOK' /\ \A m \in Links : links[m] # None => links'[m] # None
    BY <1>1, <2>1, <2>2, <2>3 DEF TypeOK
  <2>5. QED
    BY <1>1, <2>4, QuietStep
<1>3. CASE \E c \in Claims : ClaimExpires(c)
  <2>1. TypeOK' /\ links' = links
    BY <1>1, <1>3 DEF ClaimExpires, TypeOK
  <2>2. QED
    BY <1>1, <2>1, QuietStep
<1>4. QED
  BY <1>2, <1>3

-----------------------------------------------------------------------------
\* One row's status is set to revoked or expired.
LEMMA StatusStep ==
    ASSUME TypeOK, NEW s \in Rows, NEW status \in {"expired", "revoked"},
           status = "expired" => Unrevoked(s),
           sessions' = [sessions EXCEPT ![s].status = status]
    PROVE  /\ sessions' \in [Sids -> Session \cup {None}] /\ Rows' = Rows
           /\ status = "revoked" => ~Unrevoked(s)'
           /\ \A t \in Rows : /\ sessions'[t].family = sessions[t].family
                              /\ sessions'[t].parent = sessions[t].parent
                              /\ sessions'[t].stale = sessions[t].stale
                              /\ sessions'[t].raced = sessions[t].raced
                              /\ Unrevoked(t)' => Unrevoked(t)
<1> DEFINE row == [sessions[s] EXCEPT !.status = status]
<1>1. sessions[s] \in Session /\ s \in Sids
  BY DEF Rows, TypeOK
<1>2. /\ row \in Session /\ row.status = status /\ row # None
      /\ row.family = sessions[s].family /\ row.parent = sessions[s].parent
      /\ row.stale = sessions[s].stale /\ row.raced = sessions[s].raced
  BY <1>1, NoneAssumption DEF Session
<1>3. sessions' = [sessions EXCEPT ![s] = row]
  OBVIOUS
<1> HIDE DEF row
<1>4. sessions'[s] = row /\ \A t \in Sids : t # s => sessions'[t] = sessions[t]
  BY <1>1, <1>3 DEF TypeOK
<1>5. sessions' \in [Sids -> Session \cup {None}] /\ Rows' = Rows
  BY <1>1, <1>2, <1>3, <1>4 DEF TypeOK, Rows
<1>6. \A t \in Rows : Unrevoked(t)' => Unrevoked(t)
  BY <1>1, <1>2, <1>4, <1>5 DEF Unrevoked, Rows
<1>7. status = "revoked" => ~Unrevoked(s)'
  BY <1>2, <1>4 DEF Unrevoked
<1>8. QED
  BY <1>1, <1>2, <1>4, <1>5, <1>6, <1>7 DEF Rows

LEMMA RowSteps ==
    ASSUME IInv, NEW s \in Sids, Logout(s) \/ SessionExpires(s)
    PROVE  IInv'
<1>1. /\ TypeOK /\ s \in Rows
      /\ UNCHANGED <<accounts, claims, links, handlers, contested>>
  BY DEF IInv, Logout, SessionExpires, Unrevoked
<1>2. PICK status \in {"expired", "revoked"} :
         /\ sessions' = [sessions EXCEPT ![s].status = status]
         /\ status = "expired" => Unrevoked(s)
  BY DEF Logout, SessionExpires, Revoked
<1>3. TypeOK'
  BY <1>1, <1>2, StatusStep DEF TypeOK
<1>4. /\ Rows' = Rows
      /\ \A t \in Rows : /\ sessions'[t].family = sessions[t].family
                         /\ sessions'[t].parent = sessions[t].parent
                         /\ sessions'[t].stale = sessions[t].stale
                         /\ sessions'[t].raced = sessions[t].raced
                         /\ Unrevoked(t)' => Unrevoked(t)
  BY <1>1, <1>2, StatusStep
<1>5. QED
  BY <1>1, <1>3, <1>4, RevokingStep

LEMMA RotateStep ==
    ASSUME IInv, NEW h \in Handlers, Rotate(h)
    PROVE  IInv'
<1>1. PICK s \in Rows : handlers[h].sid = s
  BY DEF IInv, Ready, Rotate
<1>a. /\ TypeOK /\ handlers[h].at = "rotate" /\ Go(h, "issue")
      /\ sessions' = [sessions EXCEPT ![s].status = "revoked"]
      /\ UNCHANGED <<accounts, claims, links, contested>>
  BY <1>1 DEF IInv, Rotate, Revoked
<1>2. /\ sessions' \in [Sids -> Session \cup {None}] /\ Rows' = Rows /\ ~Unrevoked(s)'
      /\ \A t \in Rows : /\ sessions'[t].family = sessions[t].family
                         /\ sessions'[t].parent = sessions[t].parent
                         /\ sessions'[t].stale = sessions[t].stale
                         /\ sessions'[t].raced = sessions[t].raced
                         /\ Unrevoked(t)' => Unrevoked(t)
  BY <1>a, StatusStep
<1>3. "issue" \in Points
  BY DEF Points
<1>4. TypeOK'
  BY <1>a, <1>2, <1>3, GoStep DEF TypeOK
<1>5. handlers'[h].sid = s /\ handlers'[h].at = "issue"
  BY <1>a, <1>1, <1>3, GoStep
<1>6. /\ \A k \in Handlers : k # h => handlers'[k] = handlers[k]
      /\ handlers'[h].user = handlers[h].user
      /\ handlers'[h].family = handlers[h].family
      /\ handlers'[h].key = handlers[h].key
      /\ handlers'[h].stale = handlers[h].stale
      /\ handlers'[h].raced = handlers[h].raced
  BY <1>a, <1>3, GoStep
<1>7. ~Unrevoked(handlers[h].sid)'
  BY <1>2, <1>5
<1>8. QED
  BY <1>a, <1>1, <1>2, <1>4, <1>5, <1>6, <1>7, RevokingStep

\* The two mass revocations, one request h of the user doing it.
LEMMA RevokeAllStep ==
    ASSUME IInv, NEW h \in Handlers, NEW u \in Users,
           sessions' = RevokeAll(u), claims' = RaceClaims(u),
           handlers' = RaceHandlers(u, h), accounts' = accounts, contested' = contested,
           links' \in [Links -> Link \cup {None}],
           \A l \in Links : links[l] # None => links'[l] # None
    PROVE  IInv'
<1>1. TypeOK
  BY DEF IInv
<1>2. \A s \in Rows : sessions[s] \in Session /\ s \in Sids
  BY <1>1 DEF Rows, TypeOK
<1>3. ASSUME NEW s \in Rows
      PROVE  /\ sessions'[s] \in Session
             /\ sessions'[s].family = sessions[s].family
             /\ sessions'[s].parent = sessions[s].parent
             /\ \/ sessions'[s].status = "revoked"
                \/ sessions'[s] = sessions[s]
  <2> DEFINE row == [sessions[s] EXCEPT !.status = "revoked", !.stale = TRUE]
  <2>1. /\ row \in Session /\ row.family = sessions[s].family
        /\ row.parent = sessions[s].parent /\ row.status = "revoked"
    BY <1>2 DEF Session
  <2>2. sessions'[s] = row \/ sessions'[s] = sessions[s]
    BY <1>2 DEF RevokeAll
  <2> HIDE DEF row
  <2>3. QED
    BY <1>2, <2>1, <2>2
<1>4. \A s \in Sids : s \notin Rows => sessions'[s] = None
  BY DEF RevokeAll, Rows
<1>5. sessions' \in [Sids -> Session \cup {None}] /\ Rows' = Rows
  <2>1. sessions' = [s \in Sids |-> sessions'[s]]
    BY DEF RevokeAll
  <2>2. \A s \in Sids : sessions'[s] \in Session \cup {None}
    BY <1>3, <1>4
  <2>3. \A s \in Rows : sessions'[s] # None
    BY <1>3, NoneAssumption
  <2>4. QED
    BY <1>4, <2>1, <2>2, <2>3 DEF Rows
<1>6. \A s \in Rows : Unrevoked(s)' => Unrevoked(s) /\ sessions'[s] = sessions[s]
  BY <1>3, <1>5 DEF Unrevoked
<1>7. claims' \in [Claims -> Claim \cup {None}]
  BY <1>1 DEF RaceClaims, TypeOK, Claim
<1>8. ASSUME NEW k \in Handlers
      PROVE  /\ handlers'[k] \in Handler
             /\ \/ handlers'[k] = NoHandler
                \/ /\ handlers'[k].at = handlers[k].at
                   /\ handlers'[k].user = handlers[k].user
                   /\ handlers'[k].sid = handlers[k].sid
                   /\ handlers'[k].family = handlers[k].family
                   /\ handlers'[k].key = handlers[k].key
                   /\ \/ handlers'[k].raced
                      \/ /\ handlers'[k].raced = handlers[k].raced
                         /\ handlers'[k].stale = handlers[k].stale
  <2> DEFINE late == [handlers[k] EXCEPT !.stale = TRUE, !.raced = TRUE]
  <2>1. handlers[k] \in Handler
    BY <1>1 DEF TypeOK
  <2>2. /\ late \in Handler /\ late.at = handlers[k].at /\ late.user = handlers[k].user
        /\ late.sid = handlers[k].sid /\ late.family = handlers[k].family
        /\ late.key = handlers[k].key /\ late.raced
    BY <2>1 DEF Handler
  <2>3. handlers'[k] \in {NoHandler, late, handlers[k]}
    BY DEF RaceHandlers
  <2> HIDE DEF late
  <2>4. QED
    BY <2>1, <2>2, <2>3, NoHandlerType
<1>9. handlers' \in [Handlers -> Handler]
  <2>1. handlers' = [k \in Handlers |-> handlers'[k]]
    BY DEF RaceHandlers
  <2>2. QED
    BY <1>8, <2>1
<1>10. TypeOK'
  BY <1>1, <1>5, <1>7, <1>9 DEF TypeOK
<1>11. QED
  BY <1>3, <1>5, <1>6, <1>8, <1>10, RevokingStep

LEMMA MassRevocations ==
    ASSUME IInv, NEW h \in Handlers, ReuseDetected(h) \/ ResetCommit(h)
    PROVE  IInv'
<1>1. /\ TypeOK /\ Ready(h) /\ handlers[h].user \in Users
  BY DEF IInv, Ready, ReuseDetected, ResetCommit
<1>2. CASE ReuseDetected(h)
  <2>1. links' \in [Links -> Link \cup {None}] /\ links' = links
    BY <1>1, <1>2 DEF ReuseDetected, TypeOK
  <2>2. QED
    BY <1>1, <1>2, <2>1, RevokeAllStep DEF ReuseDetected
<1>3. CASE ResetCommit(h)
  <2> DEFINE l == handlers[h].key
             row == [links[l] EXCEPT !.consumed = TRUE]
  <2>1. l \in Links /\ links[l] \in Link
    BY <1>1, <1>3 DEF ResetCommit, Ready, TypeOK
  <2>2. row \in Link /\ row # None
    <3>1. row \in Link
      BY <2>1 DEF Link
    <3>2. QED
      BY <3>1, NoneAssumption
  <2>3. links' = [links EXCEPT ![l] = row]
    BY <1>3 DEF ResetCommit
  <2> HIDE DEF l, row
  <2>4. /\ links' \in [Links -> Link \cup {None}]
        /\ \A m \in Links : links[m] # None => links'[m] # None
    BY <1>1, <2>1, <2>2, <2>3 DEF TypeOK
  <2>5. QED
    BY <1>1, <1>3, <2>4, RevokeAllStep DEF ResetCommit
<1>4. QED
  BY <1>2, <1>3

-----------------------------------------------------------------------------
\* A refresh reads a row.  If the row is good and another refresh is about to
\* rotate it, the family becomes contested.
LEMMA RefreshReadStep ==
    ASSUME IInv, NEW h \in Handlers, NEW s \in Sids, RefreshRead(h, s)
    PROVE  IInv'
<1> DEFINE point == IF Unrevoked(s) THEN "rotate" ELSE "reuse"
           now == Refreshing(point, s)
<1>1. /\ TypeOK /\ s \in Rows /\ sessions[s] \in Session /\ handlers[h].at = "idle"
      /\ UNCHANGED <<accounts, sessions, claims, links>>
      /\ contested \subseteq contested' /\ contested' \subseteq Sids
  BY DEF IInv, RefreshRead, Start, TypeOK, Rows, Contested, Session
<1>2. /\ now \in Handler /\ now.at = point /\ now.sid = s /\ now.user \in Users
      /\ now.family = sessions[s].family
      /\ now.stale = sessions[s].stale /\ now.raced = sessions[s].raced
  BY <1>1 DEF Refreshing, Handler, Session
<1>3. handlers' = [handlers EXCEPT ![h] = now]
  BY DEF RefreshRead, Start
<1>4. /\ point \in {"rotate", "reuse"} /\ (point = "rotate" <=> Unrevoked(s))
  OBVIOUS
<1> HIDE DEF now, point
<1>5. handlers'[h] = now /\ \A k \in Handlers : k # h => handlers'[k] = handlers[k]
  BY <1>1, <1>3 DEF TypeOK
<1>6. Rows' = Rows /\ \A t : Unrevoked(t)' <=> Unrevoked(t)
  BY <1>1 DEF Rows, Unrevoked
<1>7. TypeOK'
  BY <1>1, <1>2, <1>3 DEF TypeOK
<1>8. /\ ReplacedTokenIsRevoked' /\ OneTokenPerSignIn' /\ OnlyRacersSurvive' /\ Descent'
  BY <1>1, <1>6 DEF IInv, ReplacedTokenIsRevoked, OneTokenPerSignIn, OnlyRacersSurvive, Descent
<1>9. \A k \in Handlers : Ready(k)'
  <2>1. Ready(h)'
    <3>1. sessions[s].family \in Rows
      BY <1>1 DEF IInv, Descent
    <3>2. point = "rotate" /\ sessions[s].stale => sessions[s].raced
      BY <1>1, <1>4 DEF IInv, OnlyRacersSurvive
    <3>3. QED
      BY <1>1, <1>2, <1>4, <1>5, <1>6, <3>1, <3>2 DEF Ready
  <2>2. \A k \in Handlers : k # h => Ready(k)'
    BY <1>1, <1>5, <1>6 DEF IInv, Ready
  <2>3. QED
    BY <2>1, <2>2
<1>10. \A k \in Handlers : Pending(k)' => k # h /\ Pending(k)
  <2>1. ~Pending(h)'
    BY <1>2, <1>4, <1>5, <1>6 DEF Pending
  <2>2. \A k \in Handlers : k # h /\ Pending(k)' => Pending(k)
    BY <1>5, <1>6 DEF Pending
  <2>3. QED
    BY <2>1, <2>2
<1>11. HolderIsAlone' /\ OnePending'
  BY <1>1, <1>5, <1>6, <1>10 DEF IInv, OneHolder, HolderIsAlone, OnePending
<1>12. RotatingContests'
  <2> SUFFICES ASSUME NEW j \in Handlers, NEW k \in Handlers, j # k,
                      handlers'[j].at = "rotate", handlers'[k].at = "rotate",
                      handlers'[j].sid = handlers'[k].sid
               PROVE  handlers'[j].family \in contested'
    BY DEF RotatingContests
  <2>1. CASE j # h /\ k # h
    BY <1>1, <1>5, <2>1 DEF IInv, OneHolder, RotatingContests
  <2>2. CASE j = h \/ k = h
    <3>1. PICK i \in Handlers : i # h /\ (j = i \/ k = i)
      BY <2>2
    <3>2. /\ handlers[i].at = "rotate" /\ handlers[i].sid = s /\ Unrevoked(s)
      BY <1>2, <1>4, <1>5, <2>2, <3>1
    <3>3. sessions[s].family \in contested'
      BY <3>2 DEF RefreshRead, Contested
    <3>4. handlers[i].family = sessions[s].family
      BY <3>2 DEF IInv, Ready
    <3>5. QED
      BY <1>2, <1>5, <2>2, <3>1, <3>3, <3>4
  <2>3. QED
    BY <2>1, <2>2
<1>13. QED
  BY <1>7, <1>8, <1>9, <1>11, <1>12 DEF IInv, OneHolder

\* A row is inserted: its request held the family, and nothing else did.
LEMMA IssueStep ==
    ASSUME IInv, NEW h \in Handlers, IssueSession(h)
    PROVE  IInv'
<1>1. PICK s \in Sids \ Rows : sessions' = [sessions EXCEPT ![s] = NewSession(s, h)]
  BY DEF IssueSession
<1> DEFINE row == NewSession(s, h)
<1>2. /\ TypeOK /\ Ready(h) /\ handlers[h] \in Handler
      /\ handlers[h].at = "issue" /\ Finish(h)
      /\ UNCHANGED <<accounts, claims, links, contested>>
  BY DEF IInv, TypeOK, IssueSession
<1>3. /\ handlers[h].user \in Users
      /\ handlers[h].sid # None => handlers[h].sid \in Rows /\ ~Unrevoked(handlers[h].sid)
      /\ handlers[h].family # None => handlers[h].family \in Rows
      /\ handlers[h].stale => handlers[h].raced
  BY <1>2 DEF Ready
<1>4. /\ row \in Session /\ row.status = "good" /\ row.parent = handlers[h].sid
      /\ row.family = IF handlers[h].family = None THEN s ELSE handlers[h].family
      /\ row.stale = handlers[h].stale /\ row.raced = handlers[h].raced
  <2>1. /\ handlers[h].sid \in Sids \cup {None} /\ handlers[h].family \in Sids \cup {None}
        /\ handlers[h].stale \in BOOLEAN /\ handlers[h].raced \in BOOLEAN
    BY <1>2 DEF Handler
  <2>2. QED
    BY <1>1, <1>3, <2>1 DEF NewSession, Session
<1> HIDE DEF row
<1>5. sessions' = [sessions EXCEPT ![s] = row]
  BY <1>1 DEF row
<1>6. sessions'[s] = row /\ \A t \in Sids : t # s => sessions'[t] = sessions[t]
  BY <1>1, <1>2, <1>5 DEF TypeOK
<1>7. /\ Rows' = Rows \cup {s} /\ s \notin Rows
      /\ \A t \in Rows : sessions'[t] = sessions[t]
      /\ Unrevoked(s)' /\ \A t : t # s => (Unrevoked(t)' <=> Unrevoked(t))
  <2>1. row # None
    BY <1>4, NoneAssumption
  <2>2. Rows' = Rows \cup {s}
    BY <1>1, <1>6, <2>1 DEF Rows
  <2>3. QED
    BY <1>1, <1>4, <1>6, <2>2 DEF Rows, Unrevoked
<1>8. /\ handlers'[h] = NoHandler
      /\ \A k \in Handlers : k # h => handlers'[k] = handlers[k]
      /\ NoHandler.at = "idle" /\ NoHandler.sid = None /\ NoHandler.family = None
      /\ NoHandler.stale = FALSE
  BY <1>2 DEF TypeOK, Finish, NoHandler
<1>9. TypeOK'
  BY <1>1, <1>2, <1>4, <1>5, NoHandlerType DEF TypeOK, Finish
<1>10. s # None /\ \A k \in Handlers : handlers[k].sid # s /\ handlers[k].family # s
  <2>1. s # None
    BY NoneAssumption
  <2>2. ASSUME NEW k \in Handlers PROVE handlers[k].sid # s /\ handlers[k].family # s
    <3>1. Ready(k) /\ handlers[k] \in Handler
      BY <1>2 DEF IInv, TypeOK
    <3>2. handlers[k].at \in Points
      BY <3>1 DEF Handler, Points
    <3>3. QED
      BY <1>7, <2>1, <3>1, <3>2 DEF Ready, Points
  <2>3. QED
    BY <2>1, <2>2
<1>11. Descent'
  BY <1>3, <1>4, <1>6, <1>7 DEF IInv, Descent
<1>12. ReplacedTokenIsRevoked'
  <2> SUFFICES ASSUME NEW t \in Rows', sessions'[t].parent # None
               PROVE  \A p : p = sessions'[t].parent => ~Unrevoked(p)'
    BY DEF ReplacedTokenIsRevoked
  <2>1. CASE t = s
    <3>1. \A p : p = sessions'[t].parent => p # s /\ ~Unrevoked(p)
      BY <1>3, <1>4, <1>6, <1>10, <2>1
    <3>2. QED
      BY <1>7, <3>1
  <2>2. CASE t # s
    <3>1. t \in Rows /\ sessions'[t] = sessions[t]
      BY <1>7, <2>2
    <3>2. \A p : p = sessions'[t].parent => p # s /\ ~Unrevoked(p)
      BY <1>7, <3>1 DEF IInv, Descent, ReplacedTokenIsRevoked
    <3>3. QED
      BY <1>7, <3>2
  <2>3. QED
    BY <2>1, <2>2
<1>13. \A t \in Sids : Unrevoked(t) /\ sessions[t].family = row.family
                          => row.family \in contested
  <2>1. CASE handlers[h].family = None
    BY <1>4, <1>7, <2>1 DEF IInv, Descent, Unrevoked
  <2>2. CASE handlers[h].family # None
    <3>1. Pending(h) /\ row.family = handlers[h].family
      BY <1>2, <1>4, <2>2 DEF Pending
    <3>2. QED
      BY <3>1 DEF IInv, OneHolder, HolderIsAlone
  <2>3. QED
    BY <2>1, <2>2
<1>14. OneTokenPerSignIn'
  <2> SUFFICES ASSUME NEW t \in Sids, NEW w \in Sids, Unrevoked(t)', Unrevoked(w)', t # w,
                      sessions'[t].family = sessions'[w].family
               PROVE  sessions'[t].family \in contested
    BY <1>2 DEF OneTokenPerSignIn
  <2>1. CASE t # s /\ w # s
    BY <1>6, <1>7, <2>1 DEF IInv, OneTokenPerSignIn
  <2>2. CASE t = s \/ w = s
    BY <1>6, <1>7, <1>13, <2>2
  <2>3. QED
    BY <2>1, <2>2
<1>15. OnlyRacersSurvive'
  BY <1>3, <1>4, <1>6, <1>7 DEF IInv, OnlyRacersSurvive
<1>16. \A k \in Handlers : Ready(k)'
  <2>1. Ready(h)'
    BY <1>8 DEF Ready
  <2>2. ASSUME NEW k \in Handlers, k # h PROVE Ready(k)'
    <3>1. Ready(k) /\ handlers'[k] = handlers[k] /\ handlers[k].sid # s
      BY <1>8, <1>10, <2>2 DEF IInv
    <3>2. Unrevoked(handlers[k].sid)' <=> Unrevoked(handlers[k].sid)
      BY <1>7, <3>1
    <3>3. QED
      BY <1>2, <1>7, <3>1, <3>2 DEF Ready
  <2>3. QED
    BY <2>1, <2>2
<1>17. \A k \in Handlers : Pending(k)' => k # h /\ Pending(k)
  <2>1. ASSUME NEW k \in Handlers, k # h, Pending(k)' PROVE Pending(k)
    <3>1. handlers'[k] = handlers[k] /\ handlers[k].sid # s
      BY <1>8, <1>10, <2>1
    <3>2. Unrevoked(handlers[k].sid)' <=> Unrevoked(handlers[k].sid)
      BY <1>7, <3>1
    <3>3. QED
      BY <2>1, <3>1, <3>2 DEF Pending
  <2>2. QED
    BY <1>8, <2>1 DEF Pending
<1>18. HolderIsAlone'
  <2> SUFFICES ASSUME NEW t \in Sids, NEW k \in Handlers, Unrevoked(t)', Pending(k)',
                      sessions'[t].family = handlers'[k].family
               PROVE  handlers'[k].family \in contested
    BY <1>2 DEF HolderIsAlone
  <2>1. k # h /\ Pending(k) /\ handlers'[k] = handlers[k]
    BY <1>8, <1>17
  <2>2. CASE t # s
    BY <1>6, <1>7, <2>1, <2>2 DEF IInv, OneHolder, HolderIsAlone
  <2>3. CASE t = s
    <3>1. row.family = handlers[k].family /\ row.family # s
      BY <1>6, <1>10, <2>1, <2>3
    <3>2. Pending(h) /\ handlers[h].family = row.family
      BY <1>2, <1>4, <3>1 DEF Pending
    <3>3. QED
      BY <2>1, <3>1, <3>2 DEF IInv, OneHolder, OnePending
  <2>4. QED
    BY <2>2, <2>3
<1>19. OnePending' /\ RotatingContests'
  <2>1. \A k \in Handlers : handlers'[k].at = "rotate" => k # h /\ handlers'[k] = handlers[k]
    BY <1>8
  <2>2. QED
    BY <1>2, <1>8, <1>17, <2>1 DEF IInv, OneHolder, OnePending, RotatingContests
<1>20. QED
  BY <1>9, <1>11, <1>12, <1>14, <1>15, <1>16, <1>18, <1>19 DEF IInv, OneHolder

-----------------------------------------------------------------------------
LEMMA NextInv == ASSUME IInv, [Next]_vars PROVE IInv'
<1>1. CASE Next
  BY <1>1, QuietSteps, OutsideSteps, RowSteps, RotateStep, MassRevocations,
     RefreshReadStep, IssueStep DEF Next
<1>2. CASE UNCHANGED vars
  <2>1. TypeOK'
    BY <1>2 DEF IInv, TypeOK, vars
  <2>2. QED
    BY <1>2, <2>1, QuietStep DEF vars
<1>3. QED
  BY <1>1, <1>2

LEMMA Invariance == Spec => []IInv
BY InitInv, NextInv, PTL DEF Spec

(***************************************************************************)
(* Rows, claims, links and requests keep their types however the handlers  *)
(* of auth.routes.ts interleave; in particular no session is issued for a  *)
(* user nobody authenticated as.                                           *)
(***************************************************************************)
THEOREM TypeCorrect == Spec => []TypeOK
BY Invariance, PTL DEF IInv

(***************************************************************************)
(* A refresh token is revoked before the one that replaces it exists       *)
(* (POST /auth/refresh, lines 157-201).                                    *)
(***************************************************************************)
THEOREM ReplacedTokensRevoked == Spec => []ReplacedTokenIsRevoked
BY Invariance, PTL DEF IInv

(***************************************************************************)
(* A sign-in has at most one good refresh token at any time, unless two    *)
(* refreshes of the same token overlapped (lines 162-195).                 *)
(***************************************************************************)
THEOREM RotationKeepsOneToken == Spec => []OneTokenPerSignIn
BY Invariance, PTL DEF IInv

(***************************************************************************)
(* After a password reset or a reuse alarm (lines 178 and 309-327) the     *)
(* only good tokens that stem from before it passed, at that moment,       *)
(* through a request in flight or a claim not yet redeemed.                *)
(***************************************************************************)
THEOREM RevocationSparesOnlyRacers == Spec => []OnlyRacersSurvive
BY Invariance, PTL DEF IInv
=============================================================================
