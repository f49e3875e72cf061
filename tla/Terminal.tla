------------------------------ MODULE Terminal ------------------------------
(***************************************************************************)
(* The terminals of one operator on the host: grants, one-time tickets,    *)
(* the WebSocket handler of modules/admin-server.routes.ts, its rows       *)
(* (lib/server-admin.ts), the request to the agent (lib/agent-client.ts)   *)
(* and the agent's PTY with its two timers (server-agent/src/pty.ts).      *)
(*                                                                         *)
(* A socket carries one handler, and the handler at most one PTY.  An      *)
(* event that comes before its listener is lost: heard and wired say which *)
(* listeners were there in time.                                           *)
(*                                                                         *)
(* seen, taken and crossed are history kept for the properties.            *)
(***************************************************************************)
EXTENDS Naturals

CONSTANTS
    Sockets,        \* WebSocket connections, one handler each
    Tickets,        \* identities of tickets
    IdleTimeout,    \* ptyIdleTimeoutMs, in ticks
    MaxLifetime,    \* ptyMaxLifetimeMs, in ticks
    None

ASSUME TimersAssumption == IdleTimeout \in Nat /\ MaxLifetime \in Nat
ASSUME NoneAssumption == None \notin Tickets

VARIABLES
    operator,       \* users.is_platform_admin
    grant,          \* server_console_grants: "live" if liveGrant() finds a row,
                    \* "asked" while a request for one has passed its checks
    tickets,        \* Redis: terminal:ticket:*
    sockets,        \* where each handler stands, and what it holds
    rows,           \* terminal_sessions.status
    commands,       \* terminal_commands.status of the interactive shell
    ptys,           \* the agent's sessions
    seen,           \* history: what held since the ticket was redeemed
    taken,          \* history: sockets that redeemed each ticket
    crossed         \* history: tickets whose redemptions overlapped or whose DEL failed

vars == <<operator, grant, tickets, sockets, rows, commands, ptys, seen, taken, crossed>>
hostVars == <<rows, commands, ptys>>
historyVars == <<seen, taken, crossed>>

-----------------------------------------------------------------------------
Modes == {"kairos_shell", "ubuntu_terminal"}
Rights == {"operator", "granted"}

Ticket == [at : {"none", "checked", "kept", "gone"}, mode : Modes]

\* beat is the interval that touches the row; heard says that the handler hears
\* the socket close, wired that the PTY does.
Socket == [at : {"idle", "got", "known", "operator", "cleared", "shell",
                 "recording", "pty", "done"},
           mode : Modes, ticket : Tickets \cup {None},
           alive : BOOLEAN, beat : BOOLEAN, heard : BOOLEAN, wired : BOOLEAN]

\* A session that is "hungup" is over, but its shell may live on: it was sent
\* SIGHUP, and may ignore it.  link is the HTTP request: "cut" when the agent went
\* without an exit frame.
Pty == [at : {"none", "asked", "live", "hungup", "dead"}, link : {"open", "closed", "cut"},
        heard : BOOLEAN, age : 0..(MaxLifetime + 1), idle : 0..(IdleTimeout + 1)]

NoSocket == [at |-> "idle", mode |-> "kairos_shell", ticket |-> None,
             alive |-> FALSE, beat |-> FALSE, heard |-> FALSE, wired |-> FALSE]
NoPty == [at |-> "none", link |-> "closed", heard |-> FALSE, age |-> 0, idle |-> 0]

Early == {"got", "known", "operator", "cleared"}
Opened == {"shell", "recording", "pty"}
Live == {s \in Sockets : ptys[s].at = "live"}
Open(s) == sockets[s].at \in Early \cup Opened

granted == "live" \in grant
Holding == {x \in Rights : IF x = "operator" THEN operator ELSE granted}
Put(s, r) == sockets' = [sockets EXCEPT ![s] = r]
Move(s, to) == Put(s, [sockets[s] EXCEPT !.at = to])
\* Something comes to hold while handlers are under way.
Show(x) == seen' = [s \in Sockets |-> IF Open(s) THEN seen[s] \cup {x} ELSE seen[s]]

-----------------------------------------------------------------------------
Init ==
    /\ operator = TRUE /\ grant = {}
    /\ tickets = [t \in Tickets |-> [at |-> "none", mode |-> "kairos_shell"]]
    /\ sockets = [s \in Sockets |-> NoSocket]
    /\ rows = [s \in Sockets |-> "none"]
    /\ commands = [s \in Sockets |-> "none"]
    /\ ptys = [s \in Sockets |-> NoPty]
    /\ seen = [s \in Sockets |-> {}]
    /\ taken = [t \in Tickets |-> {}]
    /\ crossed = {}

\* An administrator gives or takes the operator role.
SetOperator ==
    /\ operator' = ~operator
    /\ IF operator THEN UNCHANGED seen ELSE Show("operator")
    /\ UNCHANGED <<grant, tickets, sockets, hostVars, taken, crossed>>

\* POST /admin/server/terminal/grant: the operator role, a recent sign-in and the
\* second factor.  How recent it is, and whether there is a factor, is the
\* environment's choice.
GrantCheck ==
    /\ operator
    /\ grant' = grant \cup {"asked"}
    /\ UNCHANGED <<operator, tickets, sockets, hostVars, historyVars>>

\* createGrant: the INSERT of one more; other requests may be under way.
CreateGrant ==
    /\ "asked" \in grant
    /\ \E others \in SUBSET {"asked"} : grant' = {"live"} \cup others
    /\ Show("granted")
    /\ UNCHANGED <<operator, tickets, sockets, hostVars, taken, crossed>>

\* revokeGrants ends them all, or expires_at of the last one has passed.
EndGrant ==
    /\ granted
    /\ grant' = grant \ {"live"}
    /\ UNCHANGED <<operator, tickets, sockets, hostVars, historyVars>>

\* POST /admin/server/terminal/ticket: operator, and the grant for a PTY ...
TicketCheck(t, m) ==
    /\ operator
    /\ tickets[t].at = "none"
    /\ m = "ubuntu_terminal" => granted
    /\ tickets' = [tickets EXCEPT ![t] = [at |-> "checked", mode |-> m]]
    /\ UNCHANGED <<operator, grant, sockets, hostVars, historyVars>>

\* ... then SETEX; sixty seconds later it is gone.
TicketMoves(t, from, to) ==
    /\ tickets[t].at = from
    /\ tickets' = [tickets EXCEPT ![t].at = to]
    /\ UNCHANGED <<operator, grant, sockets, hostVars, historyVars>>
TicketKeep(t) == TicketMoves(t, "checked", "kept")
TicketExpires(t) == TicketMoves(t, "kept", "gone")

-----------------------------------------------------------------------------
\* Sockets between GET and DEL of a ticket.
Redeeming(t) == {s \in Sockets : sockets[s].at = "got" /\ sockets[s].ticket = t}

\* consumeTerminalTicket: GET ...
TicketGet(s, t) ==
    /\ sockets[s].at = "idle"
    /\ tickets[t].at = "kept"
    /\ Put(s, [NoSocket EXCEPT !.at = "got", !.mode = tickets[t].mode,
                               !.ticket = t, !.alive = TRUE])
    /\ seen' = [seen EXCEPT ![s] = Holding]
    /\ crossed' = crossed \cup {x \in {t} : Redeeming(t) # {}}
    /\ UNCHANGED <<operator, grant, tickets, hostVars, taken>>

\* Mutant of Delete: the ticket is left to expire.
DeleteNothing(t) == UNCHANGED <<tickets, crossed>>

\* The DEL, or its failure, which is swallowed.
Delete(t) ==
    \/ tickets' = [tickets EXCEPT ![t].at = "gone"] /\ UNCHANGED crossed
    \/ crossed' = crossed \cup {t} /\ UNCHANGED tickets

\* ... and DEL.
TicketDel(s) ==
    /\ sockets[s].at = "got"
    /\ Delete(sockets[s].ticket)
    /\ taken' = [taken EXCEPT ![sockets[s].ticket] = @ \cup {s}]
    /\ Move(s, "known")
    /\ UNCHANGED <<operator, grant, hostVars, seen>>

\* The CLI presents an access token instead, and gets the shell only.
TokenKnown(s) ==
    /\ sockets[s].at = "idle"
    /\ Put(s, [NoSocket EXCEPT !.at = "known", !.alive = TRUE])
    /\ seen' = [seen EXCEPT ![s] = Holding]
    /\ UNCHANGED <<operator, grant, tickets, hostVars, taken, crossed>>

\* Mutant of CheckOperator: the ticket is taken as proof of the grant.
CheckOperatorOnly(s) ==
    /\ sockets[s].at = "known" /\ operator
    /\ Move(s, "cleared")
    /\ UNCHANGED <<operator, grant, tickets, hostVars, historyVars>>

\* isPlatformOperator, whatever the ticket said.
CheckOperator(s) ==
    /\ sockets[s].at = "known" /\ operator
    /\ Move(s, IF sockets[s].mode = "ubuntu_terminal" THEN "operator" ELSE "cleared")
    /\ UNCHANGED <<operator, grant, tickets, hostVars, historyVars>>

\* liveGrant, for a PTY.
CheckGrant(s) ==
    /\ sockets[s].at = "operator" /\ granted
    /\ Move(s, "cleared")
    /\ UNCHANGED <<operator, grant, tickets, hostVars, historyVars>>

\* A check or a statement fails before the session is open: fail() or a throw.
Refuse(s) ==
    /\ sockets[s].at \in Early \ {"got"}
    /\ Put(s, [NoSocket EXCEPT !.at = "done"])
    /\ UNCHANGED <<operator, grant, tickets, hostVars, historyVars>>

\* openTerminalSession: a row of its own for every socket.
OpenRow(s) == rows' = [rows EXCEPT ![s] = "open"]

\* The row, the heartbeat and the listeners of the socket.
OpenSession(s) ==
    /\ sockets[s].at = "cleared"
    /\ Put(s, [sockets[s] EXCEPT
                  !.at = IF sockets[s].mode = "kairos_shell" THEN "shell" ELSE "recording",
                  !.beat = TRUE, !.heard = sockets[s].alive])
    /\ OpenRow(s)
    /\ UNCHANGED <<operator, grant, tickets, commands, ptys, historyVars>>

\* recordCommand and completeCommand.
RecordCommand(s) == commands' = [commands EXCEPT ![s] = "running"]
CompleteCommand(s) == commands' = [commands EXCEPT ![s] = "succeeded"]

\* recordCommand has returned: openPty of the client, and the last listener.
OpenPty(s) ==
    /\ sockets[s].at = "recording"
    /\ Put(s, [sockets[s] EXCEPT !.at = "pty", !.wired = sockets[s].alive])
    /\ RecordCommand(s)
    /\ ptys' = [ptys EXCEPT ![s] = [NoPty EXCEPT !.at = "asked", !.link = "open"]]
    /\ UNCHANGED <<operator, grant, tickets, rows, historyVars>>

-----------------------------------------------------------------------------
\* shutdown(): once; the interval is cleared and the socket closed.
Shut(r) == [r EXCEPT !.alive = FALSE, !.beat = FALSE]

\* closeTerminalSession: only an open row, and a failure is logged.
CloseRow(s) ==
    \/ rows' = [rows EXCEPT ![s] = IF @ = "open" THEN "closed" ELSE @]
    \/ UNCHANGED rows

\* pty.close(): the request ends.
Hangup(p) == [p EXCEPT !.link = IF @ = "open" THEN "closed" ELSE @]

\* The browser or the network closes the socket.
SocketCloses(s) ==
    /\ sockets[s].alive
    /\ IF sockets[s].heard
       THEN /\ Put(s, Shut(sockets[s])) /\ CloseRow(s)
            /\ ptys' = [ptys EXCEPT ![s] = IF sockets[s].wired THEN Hangup(@) ELSE @]
       ELSE /\ Put(s, [sockets[s] EXCEPT !.alive = FALSE])
            /\ UNCHANGED <<rows, ptys>>
    /\ UNCHANGED <<operator, grant, tickets, commands, historyVars>>

\* An exit frame, or an error before any response: the command is completed and
\* the terminal shut.
ExitHeard(s) ==
    /\ sockets[s].at = "pty"
    /\ ptys[s].at \in {"hungup", "dead"} /\ ptys[s].link = "open"
    /\ ptys' = [ptys EXCEPT ![s] = Hangup(@)]
    /\ CompleteCommand(s)
    /\ IF sockets[s].beat
       THEN Put(s, Shut(sockets[s])) /\ CloseRow(s)
       ELSE UNCHANGED <<sockets, rows>>
    /\ UNCHANGED <<operator, grant, tickets, historyVars>>

\* expireStaleSessions: a row that nothing touches any more.
ExpireStale ==
    LET stale == {s \in Sockets : rows[s] = "open" /\ ~sockets[s].beat}
    IN  /\ stale # {}
        /\ rows' = [s \in Sockets |-> IF s \in stale THEN "expired" ELSE rows[s]]
        /\ UNCHANGED <<operator, grant, tickets, sockets, commands, ptys, historyVars>>

\* The API stops: sockets and requests go with it, rows stay.
ApiDies ==
    /\ \E s \in Sockets : Open(s)
    /\ sockets' = [s \in Sockets |-> IF Open(s) THEN [NoSocket EXCEPT !.at = "done"]
                                     ELSE sockets[s]]
    /\ ptys' = [s \in Sockets |-> Hangup(ptys[s])]
    /\ grant' = grant \ {"asked"}
    /\ UNCHANGED <<operator, tickets, rows, commands, historyVars>>

-----------------------------------------------------------------------------
\* Its timers go with a session.
Ended(at, link) == [NoPty EXCEPT !.at = at, !.link = link]

PtyMoves(s, p) ==
    /\ ptys' = [ptys EXCEPT ![s] = p]
    /\ UNCHANGED <<operator, grant, tickets, sockets, rows, commands, historyVars>>

\* handlePty: the shell is there, and the listeners of the request; a request
\* that closed while the backend was loaded has closed unheard.
PtyStarts(s) ==
    /\ ptys[s].at = "asked"
    /\ PtyMoves(s, [ptys[s] EXCEPT !.at = "live", !.heard = ptys[s].link = "open"])

\* No backend, no agent, or no permission.
PtyRefused(s) ==
    /\ ptys[s].at = "asked"
    /\ \E link \in {ptys[s].link, "cut"} :
          PtyMoves(s, Ended("dead", link))

\* Mutant of Overdue: a session that is used may go on.
OverdueWhenIdle(p) == p.idle > IdleTimeout

\* superviseSession: idle for too long, or open for too long.
Overdue(p) == p.idle > IdleTimeout \/ p.age > MaxLifetime

\* finish(): once; the exit frame, and SIGHUP to the shell.
FinishPty(s) == PtyMoves(s, Ended("hungup", ptys[s].link))

Supervise(s) ==
    /\ ptys[s].at = "live" /\ Overdue(ptys[s])
    /\ FinishPty(s)

\* The agent hears the request close, or reads the close frame.
PtyStops(s) ==
    /\ ptys[s].at = "live" /\ ptys[s].heard /\ ptys[s].link = "closed"
    /\ FinishPty(s)

\* The shell exits by itself, or by a signal.
ShellExits(s) ==
    /\ ptys[s].at \in {"live", "hungup"}
    /\ PtyMoves(s, Ended("dead", ptys[s].link))

\* A frame of the operator arrives.
Touch(s) ==
    /\ ptys[s].at = "live" /\ ptys[s].link = "open" /\ sockets[s].alive
    /\ ptys[s].idle > 0
    /\ PtyMoves(s, [ptys[s] EXCEPT !.idle = 0])

\* The agent stops and sends no exit frame; the terminals of its shells hang up.
AgentDies ==
    /\ Live # {}
    /\ ptys' = [s \in Sockets |->
                  IF s \in Live
                  THEN Ended("hungup", IF ptys[s].link = "open" THEN "cut" ELSE ptys[s].link)
                  ELSE ptys[s]]
    /\ UNCHANGED <<operator, grant, tickets, sockets, rows, commands, historyVars>>

Least(a, b) == IF a < b THEN a ELSE b
Older(p) == [p EXCEPT !.age = Least(@ + 1, MaxLifetime + 1),
                      !.idle = Least(@ + 1, IdleTimeout + 1)]
Tick ==
    /\ ptys' = [s \in Sockets |-> IF s \in Live THEN Older(ptys[s]) ELSE ptys[s]]
    /\ UNCHANGED <<operator, grant, tickets, sockets, rows, commands, historyVars>>

Next ==
    \/ SetOperator \/ GrantCheck \/ CreateGrant \/ EndGrant
    \/ \E t \in Tickets, m \in Modes : TicketCheck(t, m)
    \/ \E t \in Tickets : TicketKeep(t) \/ TicketExpires(t)
    \/ \E s \in Sockets, t \in Tickets : TicketGet(s, t)
    \/ \E s \in Sockets :
          \/ TicketDel(s) \/ TokenKnown(s) \/ CheckOperator(s) \/ CheckGrant(s)
          \/ Refuse(s) \/ OpenSession(s) \/ OpenPty(s)
          \/ SocketCloses(s) \/ ExitHeard(s)
          \/ PtyStarts(s) \/ PtyRefused(s) \/ Supervise(s) \/ ShellExits(s)
          \/ PtyStops(s) \/ Touch(s)
    \/ ExpireStale \/ ApiDies \/ AgentDies \/ Tick

\* Time passes and setInterval fires; nobody is assumed to close anything.
Fairness == WF_vars(Tick) /\ \A s \in Sockets : WF_vars(Supervise(s))

Spec == Init /\ [][Next]_vars /\ Fairness

-----------------------------------------------------------------------------
\* The tables, handlers and PTYs keep their shape; a handler that holds a ticket
\* has one, and only an opened session has a row.
TypeOK ==
    /\ operator \in BOOLEAN /\ grant \subseteq {"asked", "live"}
    /\ tickets \in [Tickets -> Ticket]
    /\ sockets \in [Sockets -> Socket]
    /\ rows \in [Sockets -> {"none", "open", "closed", "expired"}]
    /\ commands \in [Sockets -> {"none", "running", "succeeded"}]
    /\ ptys \in [Sockets -> Pty]
    /\ seen \in [Sockets -> SUBSET Rights]
    /\ taken \in [Tickets -> SUBSET Sockets]
    /\ crossed \subseteq Tickets
    /\ \A s \in Sockets : sockets[s].at = "got" => sockets[s].ticket # None
    /\ \A s \in Sockets : sockets[s].at \in Opened => rows[s] # "none"

(* "Operator status is re-checked against the database, and for the PTY the *)
(* grant is re-checked too" (admin-server.routes.ts:779-782): no ticket     *)
(* opens a PTY unless its bearer was an operator, and the grant was live,   *)
(* at some moment since the ticket was redeemed.                            *)
PtyHadGrant ==
    \A s \in Sockets : ptys[s].at \in {"asked", "live"} => seen[s] = Rights

(* A ticket "is redeemed once" (lines 722-729), unless two redemptions met  *)
(* between GET and DEL or the DEL failed.                                   *)
RedeemedOnceUnlessCrossed ==
    \A t \in Tickets : t \in crossed \/ \A r, s \in taken[t] : r = s

(* "The session here expires on its own whatever the API believes"          *)
(* (pty.ts:6-8): the session of every PTY is ended, also one whose socket,  *)
(* request or API has gone unheard, and one that is used all the time.  A   *)
(* shell that ignores SIGHUP outlives its session.                          *)
PtyEnds == \A s \in Sockets : ptys[s].at = "live" ~> ptys[s].at \in {"hungup", "dead"}
=============================================================================
