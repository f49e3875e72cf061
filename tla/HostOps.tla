------------------------------ MODULE HostOps -------------------------------
(***************************************************************************)
(* Operations asked for through the API: runAudited and the setup wizard   *)
(* of modules/admin-server.routes.ts, the commands of the KAIROS Shell,    *)
(* their rows (lib/server-admin.ts), and the two clients of the agent      *)
(* (lib/agent-client.ts): executeOperation, which waits for one answer,    *)
(* and streamOperation, whose end says nothing about how it ended.         *)
(*                                                                         *)
(* The agent's side is Host: the call r of the API is the execution r.     *)
(*                                                                         *)
(* unwritten and cut are history: calls without a record, because they read *)
(* or because the INSERT failed, and streams that ended before the frame    *)
(* with the exit code.                                                      *)
(***************************************************************************)
EXTENDS Host

VARIABLES
    calls,          \* requests to the API: route, phrase, place, what was answered
    records,        \* server_operations or terminal_commands: status and exit code
    steps,          \* server_setup_steps: status, and the call that wrote it
    unwritten,      \* history
    cut             \* history

apiVars == <<calls, records, steps, unwritten, cut>>
vars == <<runs, hostVars, apiVars>>

-----------------------------------------------------------------------------
\* A route of its own, a step of the wizard, or a line in the shell.
Kinds == {"route", "setup", "shell"}
\* Which operations the wizard asks for: a check for each step, and an apply for
\* five of them.
SetupOps == CheckOps \cup ApplyOps \cup {"firewall_apply_baseline"}
StepOf(op) == IF op \in FirewallOps THEN "firewall"
              ELSE IF op \in CheckOps THEN CheckOf[op] ELSE ApplyOf[op]
SetupSteps == {CheckOf[op] : op \in CheckOps}

\* What a line of the shell can name, and what has a route of its own.
ShellOps == (ReadOps \ IdentityReads) \cup ServiceOps
            \cup {"nginx_reload", "backup_create"}
RouteOps == Operations \ (CheckOps \cup ApplyOps
                          \cup {"nginx_reload", "service_status", "storage_usage",
                                "server_sign_challenge", "backup_prune"})
\* Those that keep no record; the others go through guard() and runAudited.
Readings == RouteOps \cap ((ReadOps \ {"backup_verify"}) \cup {"logs_follow"})
Audited == RouteOps \ Readings
\* What only another client of the agent can ask for.
AgentOps == Operations \ (RouteOps \cup SetupOps \cup ShellOps)

Outcomes == {"none", "succeeded", "failed", "denied"}
\* 1 stands for every exit code but 0; an error has none.
Codes == {0, 1, None}
Call == [kind : Kinds, op : Operations \cup {None}, confirm : BOOLEAN,
         at : {"idle", "guard", "begin", "send", "wait", "finish", "throw", "step", "done"},
         outcome : Outcomes, code : Codes, ready : BOOLEAN]
NoCall == [kind |-> "route", op |-> None, confirm |-> FALSE, at |-> "idle",
           outcome |-> "none", code |-> None, ready |-> TRUE]
NoRecord == [status |-> "none", code |-> None]

Put(r, c) == calls' = [calls EXCEPT ![r] = c]
Go(r, to) == Put(r, [calls[r] EXCEPT !.at = to])
\* Of a call that is over nothing but its operation is kept.
Over(r) == [NoCall EXCEPT !.op = calls[r].op, !.at = "done"]

HostInit == Init
OpsInit ==
    /\ HostInit
    /\ calls = [r \in Requests |-> NoCall]
    /\ records = [r \in Requests |-> NoRecord]
    /\ steps = [s \in SetupSteps |-> [status |-> "none", by |-> None]]
    /\ unwritten = {} /\ cut = {}

\* A line is tokenised and matched against the rules of the shell.
Parses(op) == op \in ShellOps
Phrases(op) == IF op \in Dangerous THEN BOOLEAN ELSE {FALSE}

Arrives(r, op, kind, at) ==
    /\ calls[r].at = "idle"
    /\ \E confirm \in Phrases(op) :
          Put(r, [NoCall EXCEPT !.kind = kind, !.op = op, !.confirm = confirm, !.at = at])

\* A route that reads asks the agent at once, and keeps no record.
AskRead(r, op) ==
    /\ op \in Readings
    /\ Arrives(r, op, "route", "send")
    /\ unwritten' = unwritten \cup {r}
    /\ UNCHANGED <<runs, hostVars, records, steps, cut>>

AskRoute(r, op) ==
    /\ op \in Audited
    /\ Arrives(r, op, "route", "guard")
    /\ UNCHANGED <<runs, hostVars, records, steps, unwritten, cut>>

\* The wizard marks its step first, and a failure is ignored.
AskSetup(r, op) ==
    /\ op \in SetupOps
    /\ Arrives(r, op, "setup", "guard")
    /\ \/ steps' = [steps EXCEPT ![StepOf(op)] = [status |-> "running", by |-> r]]
       \/ UNCHANGED steps
    /\ UNCHANGED <<runs, hostVars, records, unwritten, cut>>

\* A line of the KAIROS Shell, which runs one at a time.
AskShell(r, op) ==
    /\ Parses(op)
    /\ Arrives(r, op, "shell", "begin")
    /\ UNCHANGED <<runs, hostVars, records, steps, unwritten, cut>>

\* Another holder of the agent's credential asks it without the API.
AskAgent(r, op) ==
    /\ op \in AgentOps
    /\ Arrives(r, op, "route", "done")
    /\ Accept(r, op)
    /\ UNCHANGED <<hostVars, records, steps, unwritten, cut>>

\* guard(): the allowlist, cached or from the agent, has the operation, and the
\* phrase is right.
Guard(r) ==
    /\ calls[r].at = "guard"
    /\ calls[r].op \in Dangerous => calls[r].confirm
    /\ Go(r, "begin")
    /\ UNCHANGED <<runs, hostVars, records, steps, unwritten, cut>>

\* It is not, or the agent does not answer: the request is refused, and a step
\* of the wizard that was marked stays marked.
GuardRefuses(r) ==
    /\ calls[r].at = "guard"
    /\ Put(r, Over(r))
    /\ UNCHANGED <<runs, hostVars, records, steps, unwritten, cut>>

\* beginOperation, recordCommand: a failed INSERT is logged and the call goes on.
Begin(r) ==
    /\ calls[r].at = "begin"
    /\ Go(r, "send")
    /\ \/ /\ records' = [records EXCEPT ![r] = [status |-> "running", code |-> None]]
          /\ UNCHANGED unwritten
       \/ unwritten' = unwritten \cup {r} /\ UNCHANGED records
    /\ UNCHANGED <<runs, hostVars, steps, cut>>

\* The request reaches the agent, which checks the phrase again.
Send(r) ==
    /\ calls[r].at = "send"
    /\ calls[r].op \in Dangerous => calls[r].confirm
    /\ Go(r, "wait")
    /\ Accept(r, calls[r].op)
    /\ UNCHANGED <<hostVars, records, steps, unwritten, cut>>

\* Arguments that do not parse, or the wrong phrase: exit code 126 in the shell, an
\* answer that is not ok elsewhere.
Refused(r) ==
    /\ calls[r].at = "send"
    /\ Put(r, IF calls[r].kind = "shell"
              THEN [calls[r] EXCEPT !.at = "finish", !.outcome = "denied", !.code = 1]
              ELSE [calls[r] EXCEPT !.at = "finish", !.outcome = "failed"])
    /\ UNCHANGED <<runs, hostVars, records, steps, unwritten, cut>>

\* The agent is not there: an error frame in the shell, a throw elsewhere.
Unreachable(r) ==
    /\ calls[r].at = "send"
    /\ Put(r, IF calls[r].kind = "shell"
              THEN [calls[r] EXCEPT !.at = "finish", !.outcome = "failed", !.code = 1]
              ELSE [calls[r] EXCEPT !.at = "throw", !.outcome = "failed"])
    /\ UNCHANGED <<runs, hostVars, records, steps, unwritten, cut>>

\* What the API makes of an answer: response.ok, whatever the exit code beside it, or in
\* the shell the exit code, which is 1 for an operation that threw.
Judged(r) ==
    IF runs[r].ok /\ (calls[r].kind = "shell" => runs[r].code = 0)
    THEN "succeeded" ELSE "failed"
CodeOf(r) == IF runs[r].ok THEN runs[r].code ELSE IF calls[r].kind = "shell" THEN 1 ELSE None

Answered(r) ==
    /\ calls[r].at = "wait" /\ runs[r].at = "done"
    /\ Put(r, [calls[r] EXCEPT !.at = "finish", !.outcome = Judged(r), !.code = CodeOf(r),
                               !.ready = runs[r].ready])
    /\ UNCHANGED <<runs, hostVars, records, steps, unwritten, cut>>

\* Mutant of NoAnswer: what was not answered is taken to have worked.
NoAnswerIsGood(r) ==
    /\ calls[r].at = "wait" /\ calls[r].kind # "shell"
    /\ runs[r].at # "done"
    /\ Put(r, [calls[r] EXCEPT !.at = "throw", !.outcome = "succeeded", !.code = 0])
    /\ UNCHANGED <<runs, hostVars, records, steps, unwritten, cut>>

\* send() times out or loses the connection: the agent goes on regardless.
NoAnswer(r) ==
    /\ calls[r].at = "wait" /\ calls[r].kind # "shell" /\ calls[r].op # "logs_follow"
    /\ runs[r].at # "done"
    /\ Put(r, [calls[r] EXCEPT !.at = "throw", !.outcome = "failed"])
    /\ UNCHANGED <<runs, hostVars, records, steps, unwritten, cut>>

\* streamOperation resolves when the response ends or breaks; exitCode is what
\* it was at the start, 0, unless a frame said otherwise.
StreamCut(r) ==
    /\ calls[r].at = "wait" /\ calls[r].kind = "shell"
    /\ runs[r].at # "done"
    /\ Put(r, [calls[r] EXCEPT !.at = "finish", !.outcome = "succeeded", !.code = 0])
    /\ cut' = cut \cup {r}
    /\ UNCHANGED <<runs, hostVars, records, steps, unwritten>>

\* The browser leaves a log it follows; the agent hears of it later.
Unfollow(r) ==
    /\ calls[r].at = "wait" /\ calls[r].op = "logs_follow"
    /\ Go(r, "finish")
    /\ UNCHANGED <<runs, hostVars, records, steps, unwritten, cut>>

\* finishOperation, completeCommand: nothing if there is no id, and a failed
\* UPDATE is logged.  What was not answered throws, and its step stays marked.
Finish(r) ==
    /\ calls[r].at \in {"finish", "throw"}
    /\ IF calls[r].kind = "setup" /\ calls[r].at = "finish"
       THEN Go(r, "step") ELSE Put(r, Over(r))
    /\ \/ /\ r \notin unwritten
          /\ records' = [records EXCEPT ![r] = [status |-> calls[r].outcome, code |-> calls[r].code]]
       \/ UNCHANGED records
    /\ UNCHANGED <<runs, hostVars, steps, unwritten, cut>>

\* Mutant of Status: the call succeeded, so the step is completed.
StatusOfCall(r) == IF calls[r].outcome = "succeeded" THEN "completed" ELSE "failed"

\* "Deriving the status from what the host said": a check that says not ready
\* leaves the step pending.
Status(r) ==
    IF calls[r].outcome # "succeeded" THEN "failed"
    ELSE IF calls[r].op \in CheckOps /\ ~calls[r].ready THEN "pending" ELSE "completed"

\* The wizard's second UPDATE; its failure is ignored.
StepWrite(r) ==
    /\ calls[r].at = "step"
    /\ Put(r, Over(r))
    /\ \/ steps' = [steps EXCEPT ![StepOf(calls[r].op)] = [status |-> Status(r), by |-> r]]
       \/ UNCHANGED steps
    /\ UNCHANGED <<runs, hostVars, records, unwritten, cut>>

\* The API stops, or is stopped by the operation it asked for.
ApiStops ==
    /\ \E r \in Requests : calls[r].at \notin {"idle", "done"}
    /\ calls' = [r \in Requests |-> IF calls[r].at \in {"idle", "done"} THEN calls[r]
                                    ELSE Over(r)]
    /\ UNCHANGED <<runs, hostVars, records, steps, unwritten, cut>>

CallStep(r) ==
    \/ /\ calls[r].at = "idle"
       /\ \E op \in Ops : \/ AskRead(r, op) \/ AskRoute(r, op) \/ AskSetup(r, op)
                          \/ AskShell(r, op) \/ AskAgent(r, op)
    \/ Guard(r) \/ GuardRefuses(r) \/ Begin(r) \/ Send(r) \/ Refused(r) \/ Unreachable(r)
    \/ Answered(r) \/ NoAnswer(r) \/ StreamCut(r) \/ Unfollow(r) \/ Finish(r) \/ StepWrite(r)

Next ==
    \/ \E r \in Requests : CallStep(r) \/ (RunStep(r) /\ UNCHANGED apiVars)
    \/ (Around \/ AgentStops) /\ UNCHANGED apiVars
    \/ ApiStops

Spec == OpsInit /\ [][Next]_vars

-----------------------------------------------------------------------------
\* Calls, records and steps keep their shape, as the host does.
TypeOK ==
    /\ HostTypeOK
    /\ calls \in [Requests -> Call]
    /\ records \in [Requests -> [status : Outcomes \cup {"running"}, code : Codes]]
    /\ \A s \in SetupSteps : steps[s].status \in {"none", "running", "completed", "pending", "failed"}
    /\ unwritten \subseteq Requests /\ cut \subseteq Requests

(* A record that says "succeeded" is of an operation that returned on the   *)
(* host, with the exit code the record tells, whoever gave up or went down  *)
(* in between; a line of the shell whose stream was cut is the exception.   *)
(* "Succeeded" alone is not that it ended well: a backup that could not be  *)
(* verified and a restore with errors return, with exit code 1.             *)
SucceededIsTrue ==
    \A r \in Requests :
        records[r].status = "succeeded" =>
            \/ runs[r].at = "done" /\ runs[r].ok /\ runs[r].code = records[r].code
            \/ r \in cut

(* "A check that runs successfully but reports not ready is not a completed *)
(* step" (admin-server.routes.ts:461-463): the call that completed a step   *)
(* ended well on the host, and if it was a check did not find it unready,   *)
(* whatever was applied or undone in between and in whichever order two     *)
(* calls write; a check that says "exists" or "active" instead has no say,  *)
(* nor has the check an apply ends with.                                    *)
CompletedStepWasReady ==
    \A s \in SetupSteps :
        steps[s].status = "completed" =>
            LET run == runs[steps[s].by]
            IN  run.at = "done" /\ run.ok /\ (run.op \in CheckOps => run.ready)
=============================================================================
