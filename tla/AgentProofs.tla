---------------------------- MODULE AgentProofs ----------------------------
(***************************************************************************)
(* What the server agent admits, and what its terminals are opened by: the *)
(* memory of nonces for every window, drift and capacity, the terminals    *)
(* for any number of sockets and tickets and any timeouts.                 *)
(***************************************************************************)
EXTENDS AgentAuth, Terminal, TLAPS

-----------------------------------------------------------------------------
(***************************************************************************)
(* Nonces.  The map may drop an entry two windows after it was accepted    *)
(* because the timestamp is then more than one window old: it was at most  *)
(* one window ahead of the clock when the request was accepted.            *)
(***************************************************************************)

\* A request carried out lately is in the map, or its timestamp has lapsed.
Remembered ==
    \A n \in recent : /\ sent[n] # Never
                      /\ n \in Seen \/ now - sent[n] > Skew

\* What is in the map was within a window of the clock when it got there.
StampedInWindow ==
    \A n \in recent : n \in Seen => sent[n] - seenNonces[n] <= Skew

AuthInv ==
    /\ AuthTypeOK /\ Remembered /\ StampedInWindow
    /\ AcceptedOncePerRun /\ TakenOnlyByAcceptance

-----------------------------------------------------------------------------
\* Times and timestamps are numbers, unlike Never.
LEMMA TimesAreNumbers ==
    ASSUME AuthTypeOK, NEW n \in Nonces
    PROVE  /\ now \in Int /\ Skew \in Int
           /\ sent[n] # Never => sent[n] \in Int
           /\ n \in Seen => seenNonces[n] \in Int
  BY ClockAssumption DEF AuthTypeOK, Time, Seen

\* What pruning keeps is unchanged, and only what is two windows old goes.
LEMMA PrunedKeeps ==
    ASSUME AuthTypeOK
    PROVE  /\ Pruned \in [Nonces -> Time \cup {Never}]
           /\ \A n \in Nonces : Pruned[n] # Never => n \in Seen /\ Pruned[n] = seenNonces[n]
           /\ \A n \in Seen : Pruned[n] = Never => now - seenNonces[n] > 2 * Skew
  BY DEF Pruned, AuthTypeOK, Seen

LEMMA AuthInvInit == AuthInit => AuthInv
<1> SUFFICES ASSUME AuthInit PROVE AuthInv
  OBVIOUS
<1>1. AuthTypeOK
  BY ClockAssumption DEF AuthInit, AuthTypeOK, Time
<1>2. Seen = {}
  BY DEF AuthInit, Seen
<1> QED
  BY <1>1, <1>2
  DEF AuthInit, AuthInv, Remembered, StampedInWindow, AcceptedOncePerRun, TakenOnlyByAcceptance

LEMMA StepSign ==
    ASSUME AuthInv, NEW n \in Nonces, Sign(n)
    PROVE  AuthInv'
<1> USE DEF AuthInv
<1>1. PICK d \in -Drift..Drift : sent' = [sent EXCEPT ![n] = now + d]
  BY DEF Sign
<1>2. now + d \in -Drift..(MaxClock + Drift)
  BY <1>1, ClockAssumption DEF AuthTypeOK, Time
<1>3. AuthTypeOK'
  BY <1>1, <1>2 DEF Sign, AuthTypeOK
<1>4. n \notin recent
  BY DEF Sign, Remembered
<1>5. Seen' = Seen
  BY DEF Sign, Seen
<1>6. \A m \in recent : m \in Nonces /\ sent'[m] = sent[m]
  BY <1>1, <1>4 DEF AuthTypeOK
<1> QED
  BY <1>3, <1>5, <1>6
  DEF Sign, Remembered, StampedInWindow, AcceptedOncePerRun, TakenOnlyByAcceptance

\* Had it been carried out lately, it would be in the map or out of the window.
LEMMA AcceptIsFirst ==
    ASSUME AuthInv, NEW n \in Nonces, Accept(n)
    PROVE  n \notin recent
<1> USE DEF AuthInv
<1>1. sent[n] # Never /\ InWindow(n) /\ n \notin Seen
  BY DEF Accept
<1>2. ~(now - sent[n] > Skew)
  BY <1>1, TimesAreNumbers DEF InWindow
<1> QED
  BY <1>1, <1>2 DEF Remembered

LEMMA StepAccept ==
    ASSUME AuthInv, NEW n \in Nonces, Accept(n)
    PROVE  AuthInv'
<1> USE DEF AuthInv
<1>1. seenNonces' = [Pruned EXCEPT ![n] = now] /\ now' = now /\ sent' = sent
  BY DEF Accept
<1>2. now \in Time /\ sent[n] # Never /\ InWindow(n) /\ n \notin Seen
  BY DEF Accept, AuthTypeOK
<1>3. /\ seenNonces'[n] = now
      /\ \A m \in Nonces \ {n} : seenNonces'[m] = Pruned[m]
      /\ seenNonces' \in [Nonces -> Time \cup {Never}]
  BY <1>1, <1>2, PrunedKeeps
<1>4. now # Never
  BY <1>2, ClockAssumption DEF Time
<1>5. n \notin recent
  BY AcceptIsFirst
<1>6. AuthTypeOK'
  BY <1>3 DEF Accept, AuthTypeOK
<1>7. AcceptedOncePerRun'
  BY <1>5 DEF Accept, AcceptedOncePerRun
<1>8. Seen' \subseteq Seen \cup {n}
  BY <1>3, PrunedKeeps DEF Seen
<1>9. TakenOnlyByAcceptance'
  BY <1>8 DEF Accept, TakenOnlyByAcceptance
<1>10. n \in Seen'
  BY <1>3, <1>4 DEF Seen
<1>11. StampedInWindow'
  <2> SUFFICES ASSUME NEW m \in recent', m \in Seen'
               PROVE  sent[m] - seenNonces'[m] <= Skew
    BY <1>1 DEF StampedInWindow
  <2>1. CASE m = n
    BY <2>1, <1>2, <1>3 DEF InWindow
  <2>2. CASE m # n
    <3>1. m \in recent /\ m \in Nonces
      BY <2>2 DEF Accept, AuthTypeOK
    <3>2. m \in Seen /\ seenNonces'[m] = seenNonces[m]
      BY <2>2, <3>1, <1>3, PrunedKeeps DEF Seen
    <3> QED
      BY <3>1, <3>2 DEF StampedInWindow
  <2> QED
    BY <2>1, <2>2
<1>12. Remembered'
  <2> SUFFICES ASSUME NEW m \in recent'
               PROVE  sent[m] # Never /\ (m \in Seen' \/ now - sent[m] > Skew)
    BY <1>1 DEF Remembered
  <2>1. CASE m = n
    BY <2>1, <1>2, <1>10
  <2>2. CASE m # n
    <3>1. m \in recent /\ m \in Nonces
      BY <2>2 DEF Accept, AuthTypeOK
    <3>2. CASE m \notin Seen
      BY <3>1, <3>2 DEF Remembered
    <3>3. CASE m \in Seen /\ Pruned[m] # Never
      BY <3>1, <3>3, <2>2, <1>3, TimesAreNumbers DEF Seen, Remembered
    \* Two windows since it was accepted are one since its timestamp.
    <3>4. CASE m \in Seen /\ Pruned[m] = Never
      <4>1. now - seenNonces[m] > 2 * Skew
        BY <3>4, PrunedKeeps
      <4>2. sent[m] - seenNonces[m] <= Skew
        BY <3>1, <3>4 DEF StampedInWindow
      <4>3. sent[m] # Never
        BY <3>1 DEF Remembered
      <4>4. now - sent[m] > Skew
        BY <3>1, <3>4, <4>1, <4>2, <4>3, TimesAreNumbers
      <4> QED
        BY <4>3, <4>4
    <3> QED
      BY <3>2, <3>3, <3>4
  <2> QED
    BY <2>1, <2>2
<1> QED
  BY <1>6, <1>7, <1>9, <1>11, <1>12

LEMMA StepClockTicks ==
    ASSUME AuthInv, ClockTicks
    PROVE  AuthInv'
<1> USE DEF AuthInv
<1>1. AuthTypeOK'
  BY ClockAssumption DEF ClockTicks, AuthTypeOK, Time
<1>2. Seen' = Seen /\ sent' = sent /\ recent' = recent
  BY DEF ClockTicks, Seen
<1>3. \A n \in recent : n \in Nonces
  BY DEF AuthTypeOK
<1>4. Remembered'
  BY <1>2, <1>3, TimesAreNumbers DEF ClockTicks, Remembered
<1> QED
  BY <1>1, <1>2, <1>4
  DEF ClockTicks, StampedInWindow, AcceptedOncePerRun, TakenOnlyByAcceptance

\* After a restart or a setback of the clock nothing is recent.
LEMMA StepLosesTime ==
    ASSUME AuthInv, Restart \/ ClockSetBack
    PROVE  AuthInv'
<1> USE DEF AuthInv
<1>1. AuthTypeOK'
  BY ClockAssumption DEF Restart, ClockSetBack, LosesTime, AuthTypeOK, Time
<1>2. Seen' \subseteq Seen
  BY DEF Restart, ClockSetBack, Seen
<1> QED
  BY <1>1, <1>2
  DEF Restart, ClockSetBack, LosesTime, Remembered, StampedInWindow,
      AcceptedOncePerRun, TakenOnlyByAcceptance

LEMMA AuthInvStep == AuthInv /\ [AuthNext]_authVars => AuthInv'
<1> SUFFICES ASSUME AuthInv, [AuthNext]_authVars PROVE AuthInv'
  OBVIOUS
<1>1. CASE UNCHANGED authVars
  BY <1>1 DEF authVars, AuthInv, AuthTypeOK, Remembered, StampedInWindow, AcceptedOncePerRun,
              TakenOnlyByAcceptance, Seen
<1>2. CASE \E n \in Nonces : Reject(n)
  BY <1>1, <1>2 DEF Reject
<1>3. CASE \E n \in Nonces : RejectReplay(n)
  BY <1>3 DEF RejectReplay, AuthInv, AuthTypeOK, Remembered, StampedInWindow,
              AcceptedOncePerRun, TakenOnlyByAcceptance, Seen
<1> QED
  BY <1>1, <1>2, <1>3, StepSign, StepAccept, StepClockTicks, StepLosesTime DEF AuthNext

-----------------------------------------------------------------------------
(* Clock, timestamps and the map have the types the module states.          *)
THEOREM NoncesTypeCorrect == AuthSpec => []AuthTypeOK
<1>1. AuthInv => AuthTypeOK
  BY DEF AuthInv
<1> QED
  BY <1>1, AuthInvInit, AuthInvStep, PTL DEF AuthSpec

(* Two windows are long enough to remember a nonce, whatever the window,    *)
(* the clocks' drift and the capacity below which nothing is dropped.       *)
THEOREM CarriedOutOncePerRun == AuthSpec => []AcceptedOncePerRun
<1>1. AuthInv => AcceptedOncePerRun
  BY DEF AuthInv
<1> QED
  BY <1>1, AuthInvInit, AuthInvStep, PTL DEF AuthSpec

(* A nonce in the map belongs to a request that was carried out.            *)
THEOREM NoncesTakenOnlyByAcceptance == AuthSpec => []TakenOnlyByAcceptance
<1>1. AuthInv => TakenOnlyByAcceptance
  BY DEF AuthInv
<1> QED
  BY <1>1, AuthInvInit, AuthInvStep, PTL DEF AuthSpec

\* A step of the agent is one of AtMostOnce, or changes nothing it can see.
LEMMA StepRefines ==
    AuthInv /\ [AuthNext]_authVars
        => [Once!Next]_<<Carried, recent \cup earlier, refused>>
<1> SUFFICES ASSUME AuthInv, [AuthNext]_authVars
             PROVE  [Once!Next]_<<Carried, recent \cup earlier, refused>>
  OBVIOUS
<1>1. repeated = {}
  BY DEF AuthInv, AcceptedOncePerRun
<1>2. ASSUME NEW n \in Nonces, Accept(n) PROVE Once!CarryOut(n)
  <2>1. n \notin recent
    BY <1>2, AcceptIsFirst
  <2>2. /\ recent' = recent \cup {n} /\ repeated' = {}
        /\ earlier' = earlier /\ refused' = refused
    BY <1>1, <1>2, <2>1 DEF Accept
  <2>3. Carried[n] = 0
    BY <1>1, <2>1 DEF Carried
  <2>4. Carried' = [Carried EXCEPT ![n] = 1]
    BY <1>1, <2>2 DEF Carried
  <2> QED
    BY <2>2, <2>3, <2>4 DEF Once!CarryOut
\* What is called a replay is in the map, and so was carried out.
<1>3. ASSUME NEW n \in Nonces, RejectReplay(n) PROVE Once!Refuse(n)
  <2>1. n \in recent \cup earlier
    BY <1>3 DEF AuthInv, TakenOnlyByAcceptance, RejectReplay
  <2> QED
    BY <1>3, <2>1 DEF RejectReplay, Once!Refuse, Carried
<1>4. CASE Restart \/ ClockSetBack
  <2>1. /\ recent' = {} /\ repeated' = {} /\ earlier' = earlier \cup recent
        /\ refused' = refused
    BY <1>1, <1>4 DEF Restart, ClockSetBack, LosesTime
  <2> QED
    BY <2>1 DEF Carried, Once!Next, Once!Forget
<1>5. CASE UNCHANGED <<recent, earlier, repeated, refused>>
  BY <1>5 DEF Carried
<1>6. CASE ClockTicks \/ \E n \in Nonces : Sign(n) \/ Reject(n)
  BY <1>5, <1>6 DEF ClockTicks, Sign, Reject, authVars
<1> QED
  BY <1>2, <1>3, <1>4, <1>5, <1>6 DEF AuthNext, Once!Next, authVars

(***************************************************************************)
(* The agent implements AtMostOnce, whatever the transport delivers: a     *)
(* request is carried out once until the map or the clock loses time, and  *)
(* an intact copy in time is called a replay only after that.              *)
(***************************************************************************)
THEOREM Refinement == AuthSpec => ImplementsAtMostOnce
<1>1. AuthInit => Once!Init
  BY DEF AuthInit, Once!Init, Carried
<1> QED
  BY <1>1, AuthInvInit, AuthInvStep, StepRefines, PTL DEF AuthSpec, ImplementsAtMostOnce, Once!Spec

-----------------------------------------------------------------------------
(***************************************************************************)
(* Terminals.                                                              *)
(***************************************************************************)

\* What handlers and PTYs become keeps their type.
LEMMA RestingSocket == NoSocket \in Socket /\ [NoSocket EXCEPT !.at = "done"] \in Socket
  BY DEF NoSocket, Socket, Modes

LEMMA RestingPty ==
    NoPty \in Pty /\ \A at \in {"hungup", "dead"}, link \in {"open", "closed", "cut"} :
                          Ended(at, link) \in Pty
<1>1. 0 \in 0..(MaxLifetime + 1) /\ 0 \in 0..(IdleTimeout + 1)
  BY TimersAssumption
<1> QED
  BY <1>1 DEF NoPty, Ended, Pty

LEMMA MovedSocket ==
    ASSUME NEW r \in Socket, NEW to \in {"known", "operator", "cleared", "done"}
    PROVE  [r EXCEPT !.at = to] \in Socket
  BY DEF Socket

LEMMA ShutType ==
    \A r \in Socket : /\ Shut(r) \in Socket /\ Shut(r).at = r.at
                      /\ Shut(r).ticket = r.ticket /\ Shut(r).mode = r.mode
  BY DEF Shut, Socket

LEMMA HangupType == \A p \in Pty : Hangup(p) \in Pty
  BY DEF Hangup, Pty

LEMMA OlderType == \A p \in Pty : Older(p) \in Pty
<1> SUFFICES ASSUME NEW p \in Pty PROVE Older(p) \in Pty
  OBVIOUS
<1>1. p.age \in 0..(MaxLifetime + 1) /\ p.idle \in 0..(IdleTimeout + 1)
  BY DEF Pty
<1>2. /\ Least(p.age + 1, MaxLifetime + 1) \in 0..(MaxLifetime + 1)
      /\ Least(p.idle + 1, IdleTimeout + 1) \in 0..(IdleTimeout + 1)
  BY <1>1, TimersAssumption DEF Least
<1> QED
  BY <1>2 DEF Older, Pty

LEMMA TypeInit == Init => TypeOK
<1> SUFFICES ASSUME Init PROVE TypeOK
  OBVIOUS
<1>1. tickets \in [Tickets -> Ticket]
  BY DEF Init, Ticket, Modes
<1>2. sockets \in [Sockets -> Socket] /\ ptys \in [Sockets -> Pty]
  BY RestingSocket, RestingPty DEF Init
<1>3. \A s \in Sockets : sockets[s].at = "idle"
  BY DEF Init, NoSocket
<1> QED
  BY <1>1, <1>2, <1>3 DEF Init, TypeOK, Rights, Opened

LEMMA TypeStep == TypeOK /\ [Next]_vars => TypeOK'
<1> SUFFICES ASSUME TypeOK, [Next]_vars PROVE TypeOK'
  OBVIOUS
<1> USE DEF hostVars, historyVars
<1>1. CASE SetOperator
  BY <1>1 DEF SetOperator, Show, TypeOK, Rights
<1>2. CASE GrantCheck \/ CreateGrant
  <2>1. grant' \subseteq {"asked", "live"}
    BY <1>2 DEF GrantCheck, CreateGrant, TypeOK
  <2>2. seen' \in [Sockets -> SUBSET Rights]
    BY <1>2 DEF GrantCheck, CreateGrant, Show, TypeOK, Rights
  <2> QED
    BY <1>2, <2>1, <2>2 DEF GrantCheck, CreateGrant, TypeOK
<1>3. CASE EndGrant
  BY <1>3 DEF EndGrant, TypeOK
<1>4. CASE \E t \in Tickets, m \in Modes : TicketCheck(t, m)
  BY <1>4 DEF TicketCheck, TypeOK, Ticket
<1>5. CASE \E t \in Tickets : TicketKeep(t) \/ TicketExpires(t)
  <2>1. PICK t \in Tickets, to \in {"kept", "gone"} : tickets' = [tickets EXCEPT ![t].at = to]
    BY <1>5 DEF TicketKeep, TicketExpires, TicketMoves
  <2>2. tickets' \in [Tickets -> Ticket]
    BY <2>1 DEF TypeOK, Ticket
  <2>3. UNCHANGED <<operator, grant, sockets, rows, commands, ptys, seen, taken, crossed>>
    BY <1>5 DEF TicketKeep, TicketExpires, TicketMoves
  <2> QED
    BY <2>2, <2>3 DEF TypeOK
<1>6. CASE \E s \in Sockets, t \in Tickets : TicketGet(s, t)
  <2> PICK s \in Sockets, t \in Tickets : TicketGet(s, t)
    BY <1>6
  <2>1. [NoSocket EXCEPT !.at = "got", !.mode = tickets[t].mode, !.ticket = t, !.alive = TRUE]
           \in Socket
    BY RestingSocket DEF TypeOK, NoSocket, Socket, Ticket
  <2> QED
    BY <2>1, NoneAssumption DEF TicketGet, Put, TypeOK, Holding, Rights, Redeeming, Opened, NoSocket
<1>7. ASSUME NEW s \in Sockets, TicketDel(s) PROVE TypeOK'
  <2>1. sockets[s].ticket \in Tickets
    BY <1>7 DEF TicketDel, TypeOK, Socket
  <2>2. tickets' \in [Tickets -> Ticket] /\ crossed' \subseteq Tickets
    BY <1>7, <2>1 DEF TicketDel, Delete, TypeOK, Ticket
  <2>3. sockets' \in [Sockets -> Socket]
    BY <1>7, MovedSocket DEF TicketDel, Move, Put, TypeOK
  <2>4. sockets' = [sockets EXCEPT ![s] = [sockets[s] EXCEPT !.at = "known"]]
    BY <1>7 DEF TicketDel, Move, Put
  <2>5. \A u \in Sockets : sockets'[u] = sockets[u] \/ sockets'[u].at = "known"
    BY <2>4 DEF TypeOK, Socket
  <2>6. taken' \in [Tickets -> SUBSET Sockets]
    BY <1>7, <2>1 DEF TicketDel, TypeOK
  <2> QED
    BY <1>7, <2>2, <2>3, <2>5, <2>6 DEF TicketDel, TypeOK, Opened
<1>8. ASSUME NEW s \in Sockets, TokenKnown(s) PROVE TypeOK'
  <2>1. [NoSocket EXCEPT !.at = "known", !.alive = TRUE] \in Socket
    BY RestingSocket DEF NoSocket, Socket
  <2> QED
    BY <1>8, <2>1 DEF TokenKnown, Put, TypeOK, Holding, Rights, Opened, NoSocket
<1>9. ASSUME NEW s \in Sockets, CheckOperator(s) \/ CheckGrant(s) PROVE TypeOK'
  <2>1. PICK to \in {"operator", "cleared"} :
           sockets' = [sockets EXCEPT ![s] = [sockets[s] EXCEPT !.at = to]]
    BY <1>9 DEF CheckOperator, CheckGrant, Move, Put
  <2>2. sockets' \in [Sockets -> Socket]
    BY <2>1, MovedSocket DEF TypeOK
  <2>3. \A u \in Sockets : sockets'[u] = sockets[u] \/ sockets'[u].at = to
    BY <2>1 DEF TypeOK, Socket
  <2> QED
    BY <1>9, <2>2, <2>3 DEF CheckOperator, CheckGrant, TypeOK, Opened
<1>10. ASSUME NEW s \in Sockets, Refuse(s) PROVE TypeOK'
  BY <1>10, RestingSocket DEF Refuse, Put, TypeOK, Opened, NoSocket
<1>11. ASSUME NEW s \in Sockets, OpenSession(s) PROVE TypeOK'
  <2> DEFINE r == [sockets[s] EXCEPT
                      !.at = IF sockets[s].mode = "kairos_shell" THEN "shell" ELSE "recording",
                      !.beat = TRUE, !.heard = sockets[s].alive]
  <2>1. r \in Socket /\ r.at # "got"
    <3>1. sockets[s] \in Socket /\ sockets[s].alive \in BOOLEAN
      BY DEF TypeOK, Socket
    <3> QED
      BY <3>1 DEF Socket
  <2>2. sockets' = [sockets EXCEPT ![s] = r] /\ rows' = [rows EXCEPT ![s] = "open"]
    BY <1>11 DEF OpenSession, Put, OpenRow
  <2> HIDE DEF r
  <2> QED
    BY <1>11, <2>1, <2>2 DEF OpenSession, TypeOK
<1>12. ASSUME NEW s \in Sockets, OpenPty(s) PROVE TypeOK'
  <2>1. [NoPty EXCEPT !.at = "asked", !.link = "open"] \in Pty
    BY RestingPty DEF NoPty, Pty
  <2> DEFINE r == [sockets[s] EXCEPT !.at = "pty", !.wired = sockets[s].alive]
  <2>2. r \in Socket /\ r.at = "pty" /\ sockets[s].at \in Opened
    BY <1>12 DEF OpenPty, TypeOK, Socket, Opened
  <2>3. /\ sockets' = [sockets EXCEPT ![s] = r] /\ commands' = [commands EXCEPT ![s] = "running"]
        /\ ptys' = [ptys EXCEPT ![s] = [NoPty EXCEPT !.at = "asked", !.link = "open"]]
    BY <1>12 DEF OpenPty, Put, RecordCommand
  <2> HIDE DEF r
  <2> QED
    BY <1>12, <2>1, <2>2, <2>3 DEF OpenPty, historyVars, TypeOK
<1>13. ASSUME NEW s \in Sockets, SocketCloses(s) PROVE TypeOK'
  <2>1. CASE sockets[s].heard
    <3>1. sockets' \in [Sockets -> Socket] /\ rows' \in [Sockets -> {"none", "open", "closed", "expired"}]
      BY <1>13, <2>1, ShutType DEF SocketCloses, Put, CloseRow, TypeOK
    <3>2. ptys' \in [Sockets -> Pty]
      BY <1>13, <2>1, HangupType DEF SocketCloses, TypeOK
    <3>3. sockets' = [sockets EXCEPT ![s] = Shut(sockets[s])]
      BY <1>13, <2>1 DEF SocketCloses, Put
    <3>4. \A u \in Sockets : sockets'[u].at = sockets[u].at /\ sockets'[u].ticket = sockets[u].ticket
      BY <3>3, ShutType DEF TypeOK
    <3>5. CloseRow(s)
      BY <1>13, <2>1 DEF SocketCloses
    <3>6. \A u \in Sockets : rows'[u] = "none" => rows[u] = "none"
      BY <3>5 DEF CloseRow, TypeOK
    <3> QED
      BY <1>13, <3>1, <3>2, <3>4, <3>6 DEF SocketCloses, TypeOK
  <2>2. CASE ~sockets[s].heard
    <3>1. sockets' = [sockets EXCEPT ![s] = [sockets[s] EXCEPT !.alive = FALSE]]
      BY <1>13, <2>2 DEF SocketCloses, Put
    <3>2. \A r \in Socket : [r EXCEPT !.alive = FALSE] \in Socket
      BY DEF Socket
    <3>3. sockets' \in [Sockets -> Socket]
      BY <3>1, <3>2 DEF TypeOK
    <3>4. \A u \in Sockets : sockets'[u].at = sockets[u].at /\ sockets'[u].ticket = sockets[u].ticket
      BY <3>1 DEF TypeOK, Socket
    <3> QED
      BY <1>13, <2>2, <3>3, <3>4 DEF SocketCloses, TypeOK
  <2> QED
    BY <2>1, <2>2
<1>14. ASSUME NEW s \in Sockets, ExitHeard(s) PROVE TypeOK'
  <2>1. ptys' \in [Sockets -> Pty] /\ commands' \in [Sockets -> {"none", "running", "succeeded"}]
    BY <1>14, HangupType DEF ExitHeard, CompleteCommand, TypeOK
  <2>2. sockets' \in [Sockets -> Socket] /\ rows' \in [Sockets -> {"none", "open", "closed", "expired"}]
    BY <1>14, ShutType DEF ExitHeard, Put, CloseRow, TypeOK
  <2>3. sockets' = sockets \/ sockets' = [sockets EXCEPT ![s] = Shut(sockets[s])]
    BY <1>14 DEF ExitHeard, Put
  <2>4. \A u \in Sockets : sockets'[u].at = sockets[u].at /\ sockets'[u].ticket = sockets[u].ticket
    BY <2>3, ShutType DEF TypeOK
  <2>5. rows' = rows \/ CloseRow(s)
    BY <1>14 DEF ExitHeard
  <2>6. \A u \in Sockets : rows'[u] = "none" => rows[u] = "none"
    BY <2>5 DEF CloseRow, TypeOK
  <2> QED
    BY <1>14, <2>1, <2>2, <2>4, <2>6 DEF ExitHeard, TypeOK
<1>15. CASE ExpireStale
  BY <1>15 DEF ExpireStale, TypeOK
<1>16. CASE ApiDies
  <2>1. sockets' \in [Sockets -> Socket] /\ ptys' \in [Sockets -> Pty]
    BY <1>16, RestingSocket, HangupType DEF ApiDies, TypeOK
  <2>2. \A u \in Sockets : sockets'[u] = sockets[u] \/ sockets'[u].at = "done"
    BY <1>16 DEF ApiDies, NoSocket, TypeOK
  <2> QED
    BY <1>16, <2>1, <2>2 DEF ApiDies, TypeOK, Opened
<1>17. ASSUME NEW s \in Sockets, NEW p \in Pty, PtyMoves(s, p) PROVE TypeOK'
  BY <1>17 DEF PtyMoves, TypeOK
<1>18. ASSUME NEW s \in Sockets,
              \/ PtyStarts(s) \/ PtyRefused(s) \/ Supervise(s) \/ ShellExits(s)
              \/ PtyStops(s) \/ Touch(s)
       PROVE TypeOK'
  <2>1. ptys[s] \in Pty /\ ptys[s].link \in {"open", "closed", "cut"}
    BY DEF TypeOK, Pty
  <2>2. [ptys[s] EXCEPT !.at = "live", !.heard = ptys[s].link = "open"] \in Pty
    BY <2>1 DEF Pty
  <2>3. [ptys[s] EXCEPT !.idle = 0] \in Pty
    BY <2>1, TimersAssumption DEF Pty
  <2>4. \A at \in {"hungup", "dead"}, link \in {ptys[s].link, "cut"} : Ended(at, link) \in Pty
    BY <2>1, RestingPty
  <2>5. CASE PtyStarts(s)
    BY <1>17, <2>2, <2>5 DEF PtyStarts
  <2>6. CASE Touch(s)
    BY <1>17, <2>3, <2>6 DEF Touch
  <2>7. CASE PtyRefused(s)
    BY <1>17, <2>4, <2>7 DEF PtyRefused
  <2>8. CASE Supervise(s) \/ ShellExits(s) \/ PtyStops(s)
    BY <1>17, <2>4, <2>8 DEF Supervise, ShellExits, PtyStops, FinishPty
  <2> QED
    BY <1>18, <2>5, <2>6, <2>7, <2>8
<1>19. CASE AgentDies
  <2>1. \A s \in Sockets : ptys[s] \in Pty /\ ptys[s].link \in {"open", "closed", "cut"}
    BY DEF TypeOK, Pty
  <2>2. ptys' \in [Sockets -> Pty]
    BY <1>19, <2>1, RestingPty DEF AgentDies
  <2> QED
    BY <1>19, <2>2 DEF AgentDies, TypeOK
<1>20. CASE Tick
  BY <1>20, OlderType DEF Tick, TypeOK
<1>21. CASE UNCHANGED vars
  BY <1>21 DEF vars, TypeOK
<1> QED
  BY <1>1, <1>2, <1>3, <1>4, <1>5, <1>6, <1>7, <1>8, <1>9, <1>10, <1>11, <1>12, <1>13, <1>14,
     <1>15, <1>16, <1>18, <1>19, <1>20, <1>21 DEF Next

(* Tables, handlers and PTYs keep their shape, a handler that redeems holds *)
(* a ticket, and only a session with a row is open (the WebSocket handler   *)
(* of admin-server.routes.ts).                                              *)
THEOREM TerminalTypeCorrect == Spec => []TypeOK
  BY TypeInit, TypeStep, PTL DEF Spec

-----------------------------------------------------------------------------
(***************************************************************************)
(* PtyHadGrant is not inductive: OpenPty reads neither operator nor grant. *)
(* HeldIsSeen says that what holds now has been seen by every handler that *)
(* is under way, Cleared that the checks a handler has passed are among    *)
(* what it has seen, PtyFollows that a PTY is only asked for at the end of *)
(* them, so that a ticket that is redeemed starts with none.               *)
(***************************************************************************)
HeldIsSeen == \A s \in Sockets : Open(s) => Holding \subseteq seen[s]
Cleared ==
    \A s \in Sockets :
        /\ sockets[s].at = "operator" => "operator" \in seen[s]
        /\ sockets[s].at = "cleared" /\ sockets[s].mode # "kairos_shell" => seen[s] = Rights
        /\ sockets[s].at \in {"recording", "pty"} => seen[s] = Rights
BeforePty == {"idle", "shell", "recording"} \cup Early
PtyFollows == \A s \in Sockets : sockets[s].at \in BeforePty => ptys[s].at = "none"

GrantInv == HeldIsSeen /\ Cleared /\ PtyFollows /\ PtyHadGrant

LEMMA GrantInit == Init => GrantInv
  BY DEF Init, GrantInv, HeldIsSeen, Cleared, PtyFollows, PtyHadGrant, NoSocket, NoPty, Open, Early,
         Opened, BeforePty

\* A step of the agent's session neither starts one nor asks for one.
LEMMA PtyKeepsGrant ==
    ASSUME GrantInv, TypeOK, NEW s \in Sockets, NEW p, PtyMoves(s, p),
           p.at \in {"live", "hungup", "dead"},
           ptys[s].at \in {"asked", "live"} \/ (ptys[s].at = "hungup" /\ p.at # "live")
    PROVE  GrantInv'
<1>1. ptys' = [ptys EXCEPT ![s] = p]
  BY DEF PtyMoves
<1>2. sockets[s].at \notin BeforePty
  BY DEF GrantInv, PtyFollows
<1>3. ptys'[s].at = p.at /\ \A u \in Sockets : u # s => ptys'[u] = ptys[u]
  BY <1>1 DEF TypeOK
<1>4. UNCHANGED <<operator, grant, sockets, seen>> /\ Holding' = Holding
  BY DEF PtyMoves, historyVars, Holding, granted
<1>5. HeldIsSeen' /\ Cleared'
  BY <1>4 DEF GrantInv, HeldIsSeen, Cleared, Open
<1>6. seen[s] = Rights \/ (p.at # "live")
  BY DEF GrantInv, PtyHadGrant
<1>7. PtyFollows' /\ PtyHadGrant'
  BY <1>2, <1>3, <1>4, <1>6 DEF GrantInv, PtyFollows, PtyHadGrant
<1> QED
  BY <1>5, <1>7 DEF GrantInv

LEMMA GrantStep == TypeOK /\ GrantInv /\ [Next]_vars => GrantInv'
<1> SUFFICES ASSUME TypeOK, GrantInv, [Next]_vars PROVE GrantInv'
  OBVIOUS
<1> USE DEF granted, hostVars, historyVars, GrantInv, HeldIsSeen, Cleared, PtyFollows, PtyHadGrant, Open
<1>0. sockets \in [Sockets -> Socket] /\ ptys \in [Sockets -> Pty] /\ seen \in [Sockets -> SUBSET Rights]
  BY DEF TypeOK
<1>1. CASE SetOperator \/ GrantCheck \/ CreateGrant
  BY <1>0, <1>1 DEF SetOperator, GrantCheck, CreateGrant, Show, Holding, Rights, Early, Opened
<1>2. CASE EndGrant
  BY <1>2 DEF EndGrant, Holding
<1>3. CASE \/ \E t \in Tickets, m \in Modes : TicketCheck(t, m)
           \/ \E t \in Tickets : TicketKeep(t) \/ TicketExpires(t)
  BY <1>3 DEF TicketCheck, TicketKeep, TicketExpires, TicketMoves, Holding
<1>4. ASSUME NEW s \in Sockets, NEW at, at \in {"got", "known"}, sockets[s].at = "idle",
             NEW r, r.at = at, sockets' = [sockets EXCEPT ![s] = r],
             seen' = [seen EXCEPT ![s] = Holding],
             UNCHANGED <<operator, grant, ptys>>
      PROVE  GrantInv'
  BY <1>0, <1>4 DEF Holding, Early, Opened, BeforePty
<1>5. ASSUME NEW s \in Sockets, NEW t \in Tickets, TicketGet(s, t) PROVE GrantInv'
  <2> DEFINE r == [NoSocket EXCEPT !.at = "got", !.mode = tickets[t].mode,
                                   !.ticket = t, !.alive = TRUE]
  <2>1. r.at = "got"
    BY DEF NoSocket
  <2>2. /\ sockets' = [sockets EXCEPT ![s] = r] /\ sockets[s].at = "idle"
        /\ seen' = [seen EXCEPT ![s] = Holding] /\ UNCHANGED <<operator, grant, ptys>>
    BY <1>5 DEF TicketGet, Put
  <2> HIDE DEF r
  <2> QED
    BY <1>4, <2>1, <2>2
<1>6. ASSUME NEW s \in Sockets, TokenKnown(s) PROVE GrantInv'
  <2> DEFINE r == [NoSocket EXCEPT !.at = "known", !.alive = TRUE]
  <2>1. r.at = "known"
    BY DEF NoSocket
  <2>2. /\ sockets' = [sockets EXCEPT ![s] = r] /\ sockets[s].at = "idle"
        /\ seen' = [seen EXCEPT ![s] = Holding] /\ UNCHANGED <<operator, grant, ptys>>
    BY <1>6 DEF TokenKnown, Put
  <2> HIDE DEF r
  <2> QED
    BY <1>4, <2>1, <2>2
<1>7. ASSUME NEW s \in Sockets, TicketDel(s) PROVE GrantInv'
  BY <1>0, <1>7 DEF TicketDel, Move, Put, Holding, Socket, Early, Opened, BeforePty
<1>8. ASSUME NEW s \in Sockets, CheckOperator(s) PROVE GrantInv'
  <2>1. "operator" \in seen[s]
    BY <1>8 DEF CheckOperator, Holding, Rights, Early
  <2> QED
    BY <1>0, <1>8, <2>1
       DEF CheckOperator, Move, Put, Holding, Socket, Modes, Early, Opened, BeforePty
<1>9. ASSUME NEW s \in Sockets, CheckGrant(s) PROVE GrantInv'
  <2>1. seen[s] = Rights
    BY <1>0, <1>9 DEF CheckGrant, Holding, Rights, Early
  <2> QED
    BY <1>0, <1>9, <2>1 DEF CheckGrant, Move, Put, Holding, Socket, Early, Opened, BeforePty
<1>10. ASSUME NEW s \in Sockets, Refuse(s) PROVE GrantInv'
  BY <1>0, <1>10 DEF Refuse, Put, Holding, NoSocket, Early, Opened, BeforePty
<1>11. ASSUME NEW s \in Sockets, OpenSession(s) PROVE GrantInv'
  BY <1>0, <1>11 DEF OpenSession, Put, Holding, Socket, Early, Opened, BeforePty
<1>12. ASSUME NEW s \in Sockets, OpenPty(s) PROVE GrantInv'
  BY <1>0, <1>12 DEF OpenPty, Put, Holding, Socket, NoPty, Early, Opened, BeforePty
<1>13. ASSUME \A s \in Sockets : /\ sockets'[s].at = sockets[s].at
                                 /\ sockets'[s].mode = sockets[s].mode
                                 /\ ptys'[s].at = ptys[s].at,
              UNCHANGED <<operator, grant, seen>>
       PROVE  GrantInv'
  BY <1>13 DEF Holding
<1>14. ASSUME NEW s \in Sockets, SocketCloses(s) PROVE GrantInv'
  <2>1. \A u \in Sockets : sockets'[u].at = sockets[u].at /\ sockets'[u].mode = sockets[u].mode
    <3>1. \/ sockets' = [sockets EXCEPT ![s] = Shut(sockets[s])]
          \/ sockets' = [sockets EXCEPT ![s] = [sockets[s] EXCEPT !.alive = FALSE]]
      BY <1>14 DEF SocketCloses, Put
    <3> QED
      BY <1>0, <3>1, ShutType DEF Socket
  <2>2. \A u \in Sockets : ptys'[u].at = ptys[u].at
    <3>1. ptys' = ptys \/ ptys' = [ptys EXCEPT ![s] = Hangup(@)]
      BY <1>0, <1>14 DEF SocketCloses
    <3>2. Hangup(ptys[s]).at = ptys[s].at
      BY <1>0 DEF Hangup, Pty
    <3> QED
      BY <1>0, <3>1, <3>2
  <2> QED
    BY <1>13, <1>14, <2>1, <2>2 DEF SocketCloses
<1>15. ASSUME NEW s \in Sockets, ExitHeard(s) PROVE GrantInv'
  <2>1. \A u \in Sockets : sockets'[u].at = sockets[u].at /\ sockets'[u].mode = sockets[u].mode
    <3>1. sockets' = sockets \/ sockets' = [sockets EXCEPT ![s] = Shut(sockets[s])]
      BY <1>15 DEF ExitHeard, Put
    <3> QED
      BY <1>0, <3>1, ShutType
  <2>2. \A u \in Sockets : ptys'[u].at = ptys[u].at
    BY <1>0, <1>15 DEF ExitHeard, Hangup, Pty
  <2> QED
    BY <1>13, <1>15, <2>1, <2>2 DEF ExitHeard
<1>16. CASE ExpireStale
  BY <1>16 DEF ExpireStale, Holding
<1>17. CASE ApiDies
  <2>1. \A u \in Sockets : sockets'[u] = sockets[u] \/ sockets'[u].at = "done"
    BY <1>17 DEF ApiDies, NoSocket
  <2>2. \A u \in Sockets : ptys'[u].at = ptys[u].at
    BY <1>0, <1>17 DEF ApiDies, Hangup, Pty
  <2>3. granted' = granted /\ UNCHANGED <<operator, seen>>
    BY <1>17 DEF ApiDies
  <2>4. Holding' = Holding
    BY <2>3 DEF Holding
  <2> HIDE DEF granted
  <2> QED
    BY <2>1, <2>2, <2>3, <2>4 DEF Holding, Early, Opened, BeforePty
<1>18. ASSUME NEW s \in Sockets,
              \/ PtyStarts(s) \/ PtyRefused(s) \/ Supervise(s) \/ ShellExits(s)
              \/ PtyStops(s) \/ Touch(s)
       PROVE GrantInv'
  <2>1. PICK p : /\ PtyMoves(s, p) /\ p.at \in {"live", "hungup", "dead"}
                /\ \/ ptys[s].at \in {"asked", "live"}
                   \/ ptys[s].at = "hungup" /\ p.at # "live"
    <3>0. \A at, link : Ended(at, link).at = at
      BY DEF Ended, NoPty
    <3>1. CASE PtyStarts(s)
      BY <1>0, <3>1 DEF PtyStarts, Pty
    <3>2. CASE Touch(s)
      BY <1>0, <3>2 DEF Touch, Pty
    <3>3. CASE PtyRefused(s)
      BY <3>0, <3>3 DEF PtyRefused
    <3>4. CASE Supervise(s) \/ ShellExits(s) \/ PtyStops(s)
      BY <3>0, <3>4 DEF Supervise, ShellExits, PtyStops, FinishPty
    <3> QED
      BY <1>18, <3>1, <3>2, <3>3, <3>4
  <2> QED
    BY <2>1, PtyKeepsGrant
<1>19. CASE AgentDies
  <2>1. \A u \in Sockets : ptys'[u] = ptys[u] \/ (ptys[u].at = "live" /\ ptys'[u].at = "hungup")
    <3>1. \A link : Ended("hungup", link).at = "hungup"
      BY DEF Ended, NoPty
    <3>2. ASSUME NEW u \in Sockets
          PROVE  ptys'[u] = ptys[u] \/ (u \in Live /\ \E link : ptys'[u] = Ended("hungup", link))
      BY <1>19 DEF AgentDies
    <3> QED
      BY <3>1, <3>2 DEF Live
  <2> QED
    BY <1>19, <2>1 DEF AgentDies, Holding
<1>20. CASE Tick
  <2>1. \A u \in Sockets : ptys'[u].at = ptys[u].at
    BY <1>0, <1>20 DEF Tick, Older, Pty
  <2> QED
    BY <1>13, <1>20, <2>1 DEF Tick
<1>21. CASE UNCHANGED vars
  BY <1>21 DEF vars, Holding
<1> QED
  BY <1>1, <1>2, <1>3, <1>5, <1>6, <1>7, <1>8, <1>9, <1>10, <1>11, <1>12, <1>14, <1>15, <1>16,
     <1>17, <1>18, <1>19, <1>20, <1>21 DEF Next

(* No ticket opens a PTY unless its bearer was an operator and the grant    *)
(* was live since it was redeemed (admin-server.routes.ts:828-845).         *)
THEOREM PtyOpenedUnderGrant == Spec => []PtyHadGrant
<1>1. Init => TypeOK /\ GrantInv
  BY TypeInit, GrantInit
<1>2. TypeOK /\ GrantInv /\ [Next]_vars => (TypeOK /\ GrantInv)'
  BY TypeStep, GrantStep
<1>3. TypeOK /\ GrantInv => PtyHadGrant
  BY DEF GrantInv
<1> QED
  BY <1>1, <1>2, <1>3, PTL DEF Spec

-----------------------------------------------------------------------------
(***************************************************************************)
(* A ticket that no redemption has crossed: nobody redeems it before it is *)
(* kept (Unkept), one socket at a time does (OneRedeemer), and once it was *)
(* taken it is gone and nobody is between its GET and its DEL (TakenGone). *)
(***************************************************************************)
Unkept ==
    \A t \in Tickets :
        tickets[t].at \in {"none", "checked"} => Redeeming(t) = {} /\ taken[t] = {}
OneRedeemer ==
    \A t \in Tickets \ crossed : \A r, s \in Redeeming(t) : r = s
TakenGone ==
    \A t \in Tickets \ crossed :
        taken[t] # {} => tickets[t].at = "gone" /\ Redeeming(t) = {}

TicketInv == Unkept /\ OneRedeemer /\ TakenGone /\ RedeemedOnceUnlessCrossed

LEMMA TicketInit == Init => TicketInv
  BY DEF Init, TicketInv, Unkept, OneRedeemer, TakenGone, RedeemedOnceUnlessCrossed, Redeeming,
         NoSocket

\* Whoever redeems a ticket did so before, and tickets do not come back.
LEMMA FewerRedeem ==
    ASSUME TicketInv,
           \A t \in Tickets : /\ Redeeming(t)' \subseteq Redeeming(t)
                             /\ \/ tickets'[t].at = tickets[t].at
                                \/ tickets'[t].at = "gone"
                                \/ tickets[t].at \in {"none", "checked"},
           UNCHANGED <<taken, crossed>>
    PROVE  TicketInv'
<1> QED
  BY DEF TicketInv, Unkept, OneRedeemer, TakenGone, RedeemedOnceUnlessCrossed

LEMMA TicketStep == TypeOK /\ TicketInv /\ [Next]_vars => TicketInv'
<1> SUFFICES ASSUME TypeOK, TicketInv, [Next]_vars PROVE TicketInv'
  OBVIOUS
<1> USE DEF hostVars, historyVars
<1>0. sockets \in [Sockets -> Socket] /\ tickets \in [Tickets -> Ticket]
  BY DEF TypeOK
\* Steps that do not touch tickets, and leave every handler where it is or take
\* it away from "got".
<1>1. ASSUME UNCHANGED <<tickets, taken, crossed>>,
             \A u \in Sockets : \/ sockets'[u].at # "got"
                               \/ /\ sockets'[u].at = sockets[u].at
                                  /\ sockets'[u].ticket = sockets[u].ticket
      PROVE  TicketInv'
  BY <1>1, FewerRedeem DEF Redeeming
<1>2. CASE \/ SetOperator \/ GrantCheck \/ CreateGrant \/ EndGrant \/ ExpireStale \/ AgentDies \/ Tick
           \/ \E s \in Sockets : \/ PtyStarts(s) \/ PtyRefused(s) \/ Supervise(s)
                                 \/ ShellExits(s) \/ PtyStops(s) \/ Touch(s)
           \/ UNCHANGED vars
  BY <1>1, <1>2
     DEF SetOperator, GrantCheck, CreateGrant, EndGrant, Show, ExpireStale, AgentDies, Tick, PtyStarts,
         PtyRefused, Supervise, ShellExits, PtyStops, Touch, FinishPty, PtyMoves, vars
<1>3. CASE \E t \in Tickets, m \in Modes : TicketCheck(t, m)
  <2>1. UNCHANGED <<sockets, taken, crossed>>
    BY <1>3 DEF TicketCheck
  <2>2. \A t \in Tickets : tickets'[t].at = tickets[t].at \/ tickets[t].at = "none"
    BY <1>3, <1>0 DEF TicketCheck
  <2> QED
    BY <2>1, <2>2, FewerRedeem DEF Redeeming
<1>4. CASE \E t \in Tickets : TicketKeep(t) \/ TicketExpires(t)
  <2>1. UNCHANGED <<sockets, taken, crossed>>
    BY <1>4 DEF TicketKeep, TicketExpires, TicketMoves
  <2>2. \A t \in Tickets : \/ tickets'[t].at = tickets[t].at
                          \/ tickets'[t].at = "gone"
                          \/ tickets[t].at = "checked"
    BY <1>4, <1>0 DEF TicketKeep, TicketExpires, TicketMoves, Ticket
  <2> QED
    BY <2>1, <2>2, FewerRedeem DEF Redeeming
<1>5. ASSUME NEW s \in Sockets, NEW t \in Tickets, TicketGet(s, t) PROVE TicketInv'
  <2> DEFINE r == [NoSocket EXCEPT !.at = "got", !.mode = tickets[t].mode,
                                   !.ticket = t, !.alive = TRUE]
  <2>1. r.at = "got" /\ r.ticket = t
    BY DEF NoSocket
  <2>2. /\ sockets' = [sockets EXCEPT ![s] = r] /\ tickets[t].at = "kept"
        /\ crossed' = crossed \cup {x \in {t} : Redeeming(t) # {}}
        /\ UNCHANGED <<tickets, taken>>
    BY <1>5 DEF TicketGet, Put
  <2> HIDE DEF r
  <2>3. /\ Redeeming(t)' = Redeeming(t) \cup {s}
        /\ \A u \in Tickets \ {t} : Redeeming(u)' \subseteq Redeeming(u)
    BY <1>0, <2>1, <2>2 DEF Redeeming
  <2> QED
    BY <2>2, <2>3 DEF TicketInv, Unkept, OneRedeemer, TakenGone, RedeemedOnceUnlessCrossed
<1>6. ASSUME NEW s \in Sockets, TicketDel(s) PROVE TicketInv'
  <2> DEFINE t == sockets[s].ticket
  <2>1. t \in Tickets /\ s \in Redeeming(t)
    BY <1>6 DEF TicketDel, TypeOK, Socket, Redeeming
  <2>2. /\ sockets' = [sockets EXCEPT ![s] = [sockets[s] EXCEPT !.at = "known"]]
        /\ taken' = [taken EXCEPT ![t] = @ \cup {s}] /\ Delete(t)
    BY <1>6 DEF TicketDel, Move, Put
  <2>3. \A u \in Tickets : Redeeming(u)' = Redeeming(u) \ {s}
    BY <1>0, <2>2 DEF Redeeming, Socket
  <2>4. /\ crossed \subseteq crossed'
        /\ \A u \in Tickets : tickets'[u] = tickets[u] \/ (u = t /\ tickets'[u].at = "gone")
        /\ t \in crossed' \/ tickets'[t].at = "gone"
    <3>1. CASE tickets' = [tickets EXCEPT ![t].at = "gone"] /\ UNCHANGED crossed
      BY <1>0, <2>1, <3>1 DEF Ticket
    <3>2. CASE crossed' = crossed \cup {t} /\ UNCHANGED tickets
      BY <3>2
    <3> QED
      BY <2>2, <3>1, <3>2 DEF Delete
  <2>5. taken \in [Tickets -> SUBSET Sockets]
    BY DEF TypeOK
  <2>6. t \notin crossed => Redeeming(t) = {s} /\ taken[t] = {}
    BY <2>1 DEF TicketInv, OneRedeemer, TakenGone
  <2>7. tickets[t].at \notin {"none", "checked"}
    BY <2>1 DEF TicketInv, Unkept
  <2> HIDE DEF t
  <2>8. Unkept' /\ OneRedeemer'
    BY <2>1, <2>2, <2>3, <2>4, <2>5, <2>7 DEF TicketInv, Unkept, OneRedeemer
  <2>9. TakenGone' /\ RedeemedOnceUnlessCrossed'
    BY <2>1, <2>2, <2>3, <2>4, <2>5, <2>6 DEF TicketInv, TakenGone, RedeemedOnceUnlessCrossed
  <2> QED
    BY <2>8, <2>9 DEF TicketInv
<1>7. ASSUME NEW s \in Sockets, NEW r, r.at # "got", sockets' = [sockets EXCEPT ![s] = r],
             UNCHANGED <<tickets, taken, crossed>>
      PROVE  TicketInv'
  BY <1>0, <1>1, <1>7
<1>8. ASSUME NEW s \in Sockets, TokenKnown(s) PROVE TicketInv'
  BY <1>7, <1>8 DEF TokenKnown, Put, NoSocket
<1>9. ASSUME NEW s \in Sockets, CheckOperator(s) \/ CheckGrant(s) PROVE TicketInv'
  <2>1. \A to \in {"operator", "cleared"} : [sockets[s] EXCEPT !.at = to].at # "got"
    BY <1>0 DEF Socket
  <2> QED
    BY <1>7, <1>9, <2>1 DEF CheckOperator, CheckGrant, Move, Put
<1>10. ASSUME NEW s \in Sockets, Refuse(s) PROVE TicketInv'
  BY <1>7, <1>10 DEF Refuse, Put, NoSocket
<1>11. ASSUME NEW s \in Sockets, OpenSession(s) \/ OpenPty(s) PROVE TicketInv'
  <2>1. \A u \in Sockets : sockets'[u] = sockets[u] \/ sockets'[u].at # "got"
    BY <1>0, <1>11 DEF OpenSession, OpenPty, Put, Socket
  <2> QED
    BY <1>1, <1>11, <2>1 DEF OpenSession, OpenPty
<1>12. ASSUME NEW s \in Sockets, SocketCloses(s) PROVE TicketInv'
  <2>1. \/ sockets' = [sockets EXCEPT ![s] = Shut(sockets[s])]
        \/ sockets' = [sockets EXCEPT ![s] = [sockets[s] EXCEPT !.alive = FALSE]]
    BY <1>12 DEF SocketCloses, Put
  <2>2. \A u \in Sockets : sockets'[u].at = sockets[u].at /\ sockets'[u].ticket = sockets[u].ticket
    BY <1>0, <2>1, ShutType DEF Socket
  <2> QED
    BY <1>1, <1>12, <2>2 DEF SocketCloses
<1>13. ASSUME NEW s \in Sockets, ExitHeard(s) PROVE TicketInv'
  <2>1. sockets' = sockets \/ sockets' = [sockets EXCEPT ![s] = Shut(sockets[s])]
    BY <1>13 DEF ExitHeard, Put
  <2>2. \A u \in Sockets : sockets'[u].at = sockets[u].at /\ sockets'[u].ticket = sockets[u].ticket
    BY <1>0, <2>1, ShutType
  <2> QED
    BY <1>1, <1>13, <2>2 DEF ExitHeard
<1>14. CASE ApiDies
  <2>1. \A u \in Sockets : sockets'[u] = sockets[u] \/ sockets'[u].at = "done"
    BY <1>14 DEF ApiDies, NoSocket
  <2> QED
    BY <1>1, <1>14, <2>1 DEF ApiDies
<1> QED
  BY <1>2, <1>3, <1>4, <1>5, <1>6, <1>8, <1>9, <1>10, <1>11, <1>12, <1>13, <1>14 DEF Next

(* A ticket opens one socket, whatever the interleaving of the sockets that *)
(* present it, unless two met between GET and DEL or the DEL failed         *)
(* (consumeTerminalTicket).                                                 *)
THEOREM TicketRedeemedOnce == Spec => []RedeemedOnceUnlessCrossed
<1>1. Init => TypeOK /\ TicketInv
  BY TypeInit, TicketInit
<1>2. TypeOK /\ TicketInv /\ [Next]_vars => (TypeOK /\ TicketInv)'
  BY TypeStep, TicketStep
<1>3. TypeOK /\ TicketInv => RedeemedOnceUnlessCrossed
  BY DEF TicketInv
<1> QED
  BY <1>1, <1>2, <1>3, PTL DEF Spec
=============================================================================
