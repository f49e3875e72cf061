-------------------------------- MODULE Mfa --------------------------------
(***************************************************************************)
(* The second factor of one user: services/api/src/modules/mfa.routes.ts   *)
(* with verifyTotp of lib/totp.ts.  Users do not interact, so one is       *)
(* enough.                                                                 *)
(*                                                                         *)
(* A handler runs one statement at a time.  The transactions that write    *)
(* backup codes run at READ COMMITTED: their DELETE takes the rows that    *)
(* are committed when it starts, and the UPDATE of confirm locks the row   *)
(* of user_mfa until the commit.                                           *)
(*                                                                         *)
(* A code of the authenticator is a pair of secret and step, and codes of  *)
(* different pairs are different.  The ten backup codes of a batch behave  *)
(* alike, and a batch is represented by one of them.                       *)
(*                                                                         *)
(* accepted, again and crossed are history kept for the properties.        *)
(***************************************************************************)
EXTENDS Integers

CONSTANTS
    Secrets,        \* identities of secrets: a bound on enrolments
    Codes,          \* identities of backup codes: a bound on batches
    Handlers,       \* requests in flight at once
    WINDOW,         \* steps of clock drift that verifyTotp allows
    MaxStep,        \* bound of the model on the clock
    None

ASSUME StepsAssumption == WINDOW \in Nat /\ MaxStep \in Nat

VARIABLES
    now,            \* currentStep()
    mfa,            \* the row of user_mfa, or None
    backup,         \* mfa_backup_codes: what became of each code
    issued,         \* secrets that generateSecret has returned
    handlers,       \* the requests in flight
    accepted,       \* history: codes of the authenticator that were accepted
    again,          \* history: those accepted more than once
    crossed         \* history: what requests overlapped in

vars == <<now, mfa, backup, issued, handlers, accepted, again, crossed>>

-----------------------------------------------------------------------------
Steps == -WINDOW..(MaxStep + WINDOW)

\* confirmed_at is set together with last_step.
Row == [secret : Secrets, confirmed : {FALSE}, lastStep : Steps \cup {None}]
         \cup [secret : Secrets, confirmed : {TRUE}, lastStep : Steps]

\* old is what the DELETE of an open transaction has taken; locks says that its
\* UPDATE found the row of user_mfa.
Handler == [at : {"idle", "enroll", "confirm", "confirming", "verify",
                  "backup", "regenerate", "regenerating", "disable"},
            secret : Secrets \cup {None}, step : Steps \cup {None},
            code : Codes \cup {None}, old : SUBSET Codes, locks : BOOLEAN]

ASSUME NoneAssumption ==
    None \notin Secrets \cup Codes \cup Int /\ None \notin Row

NoHandler == [at |-> "idle", secret |-> None, step |-> None, code |-> None,
              old |-> {}, locks |-> FALSE]
Doing(point) == [at |-> point, secret |-> None, step |-> None, code |-> None,
                 old |-> {}, locks |-> FALSE]
Burning(c) == [at |-> "backup", secret |-> None, step |-> None, code |-> c,
               old |-> {}, locks |-> FALSE]
Presenting(point, s) == [at |-> point, secret |-> mfa.secret, step |-> s,
                         code |-> None, old |-> {}, locks |-> FALSE]

Good == {c \in Codes : backup[c] = "good"}
Enabled == mfa # None /\ mfa.confirmed
Pending == mfa # None /\ ~mfa.confirmed

At(point) == {h \in Handlers : handlers[h].at \in point}
\* Requests whose code was found right and whose last_step is not written.
Checked == At({"confirm", "confirming", "verify"})
\* Transactions that have deleted the old codes and not committed the new ones.
Writing == At({"confirming", "regenerating"})
\* confirm's transaction holds the row lock: statements that write the row wait.
Locked == \E h \in At({"confirming"}) : handlers[h].locks

Start(h, to) == handlers[h].at = "idle" /\ handlers' = [handlers EXCEPT ![h] = to]
Finish(h) == handlers' = [handlers EXCEPT ![h] = NoHandler]
Cross(what, others) == crossed' = IF others = {} THEN crossed ELSE crossed \cup {what}

\* verifyTotp: the code of step s is within the window of the clock.
InWindow(s) == s \in (now - WINDOW)..(now + WINDOW)

\* Mutant of Unused: the comparison with lastStep is left out.
UnusedUnchecked(s) == s \in Steps

\* ... and it is later than the last one that was accepted.
Unused(s) == mfa.lastStep = None \/ s > mfa.lastStep

-----------------------------------------------------------------------------
Init ==
    /\ now = 0
    /\ mfa = None
    /\ backup = [c \in Codes |-> "none"]
    /\ issued = {}
    /\ handlers = [h \in Handlers |-> NoHandler]
    /\ accepted = {} /\ again = {} /\ crossed = {}

\* Mutant of EnrollRead: an enrolment may replace a confirmed one.
EnrollReadUnchecked(h) ==
    /\ Start(h, Doing("enroll"))
    /\ Cross("enrolment", At({"confirm", "confirming"}))
    /\ UNCHANGED <<now, mfa, backup, issued, accepted, again>>

\* POST /auth/mfa/enroll: refused once the second factor is confirmed.
EnrollRead(h) ==
    /\ ~Enabled
    /\ Start(h, Doing("enroll"))
    /\ Cross("enrolment", At({"confirm", "confirming"}))
    /\ UNCHANGED <<now, mfa, backup, issued, accepted, again>>

\* Mutant of EnrollWrite: the new secret is enforced at once.
EnrollWriteEnforced(h) ==
    /\ handlers[h].at = "enroll"
    /\ ~Locked
    /\ \E k \in Secrets \ issued :
          /\ mfa' = [secret |-> k, confirmed |-> TRUE, lastStep |-> now]
          /\ issued' = issued \cup {k}
    /\ Finish(h)
    /\ UNCHANGED <<now, backup, accepted, again, crossed>>

\* ... the upsert, which replaces whatever row is there by now.
EnrollWrite(h) ==
    /\ handlers[h].at = "enroll"
    /\ ~Locked
    /\ \E k \in Secrets \ issued :
          /\ mfa' = [secret |-> k, confirmed |-> FALSE, lastStep |-> None]
          /\ issued' = issued \cup {k}
    /\ Finish(h)
    /\ UNCHANGED <<now, backup, accepted, again, crossed>>

\* POST /auth/mfa/confirm: the pending secret is read and a code checked against
\* it, without lastStep.
ConfirmRead(h, s) ==
    /\ Pending /\ InWindow(s)
    /\ Start(h, Presenting("confirm", s))
    /\ crossed' = crossed
          \cup {x \in {"code"} : Checked # {}}
          \cup {x \in {"enrolment"} : At({"enroll"}) # {}}
    /\ UNCHANGED <<now, mfa, backup, issued, accepted, again>>

\* Mutant of Taken: the codes that are there already stay.
TakenNothing == {}

\* The rows that a DELETE of the user's backup codes takes.
Taken == Good

Deleting(h, point, locks) ==
    [at |-> point, secret |-> handlers[h].secret, step |-> handlers[h].step,
     code |-> None, old |-> Taken, locks |-> locks]

\* ... the transaction: UPDATE by user_id, whatever the secret is by now, and
\* the DELETE.
ConfirmWrite(h) ==
    /\ handlers[h].at = "confirm"
    /\ ~Locked
    /\ handlers' = [handlers EXCEPT ![h] = Deleting(h, "confirming", mfa # None)]
    /\ Cross("batch", Writing)
    /\ UNCHANGED <<now, mfa, backup, issued, accepted, again>>

\* The old codes are gone and a new one is good.
NewBatch(h) ==
    \E c \in Codes :
        /\ backup[c] = "none"
        /\ backup' = [d \in Codes |-> IF d = c THEN "good"
                                      ELSE IF d \in handlers[h].old THEN "gone"
                                      ELSE backup[d]]

\* A code of the authenticator has done its work.
Accept(h) ==
    LET code == <<handlers[h].secret, handlers[h].step>>
    IN  /\ accepted' = accepted \cup {code}
        /\ again' = again \cup (accepted \cap {code})

ConfirmCommit(h) ==
    /\ handlers[h].at = "confirming"
    /\ mfa' = IF handlers[h].locks
              THEN [secret |-> mfa.secret, confirmed |-> TRUE,
                    lastStep |-> handlers[h].step]
              ELSE mfa
    /\ NewBatch(h) /\ Accept(h) /\ Finish(h)
    /\ UNCHANGED <<now, issued, crossed>>

-----------------------------------------------------------------------------
\* verifyMfaCode: the row is read and a code of its secret found right.
VerifyRead(h, s) ==
    /\ Enabled /\ InWindow(s) /\ Unused(s)
    /\ Start(h, Presenting("verify", s))
    /\ Cross("code", Checked)
    /\ UNCHANGED <<now, mfa, backup, issued, accepted, again>>

\* The two routes that verify: a sign-in ends, a regeneration goes on.
Verified(h) ==
    \/ Finish(h)
    \/ handlers' = [handlers EXCEPT ![h] = Doing("regenerate")]

\* ... the UPDATE of last_step by user_id, whatever it is by now.
VerifyWrite(h) ==
    /\ handlers[h].at = "verify"
    /\ ~Locked
    /\ mfa' = IF mfa = None THEN None
              ELSE [secret |-> mfa.secret, confirmed |-> mfa.confirmed,
                    lastStep |-> handlers[h].step]
    /\ Accept(h) /\ Verified(h)
    /\ UNCHANGED <<now, backup, issued, crossed>>

\* verifyMfaCode with a backup code: the row is read, no code of it matches ...
BackupRead(h, c) ==
    /\ Enabled /\ backup[c] # "none"
    /\ Start(h, Burning(c))
    /\ UNCHANGED <<now, mfa, backup, issued, accepted, again, crossed>>

\* ... and UPDATE ... RETURNING burns the code; a row that an open transaction
\* has deleted is waited for.
BackupUse(h) ==
    /\ handlers[h].at = "backup"
    /\ backup[handlers[h].code] = "good"
    /\ \A k \in Writing : handlers[h].code \notin handlers[k].old
    /\ backup' = [backup EXCEPT ![handlers[h].code] = "used"]
    /\ Verified(h)
    /\ UNCHANGED <<now, mfa, issued, accepted, again, crossed>>

\* POST /auth/mfa/backup-codes, its transaction: the DELETE and the commit.
RegenerateWrite(h) ==
    /\ handlers[h].at = "regenerate"
    /\ handlers' = [handlers EXCEPT ![h] = Deleting(h, "regenerating", FALSE)]
    /\ Cross("batch", Writing)
    /\ UNCHANGED <<now, mfa, backup, issued, accepted, again>>

RegenerateCommit(h) ==
    /\ handlers[h].at = "regenerating"
    /\ NewBatch(h) /\ Finish(h)
    /\ UNCHANGED <<now, mfa, issued, accepted, again, crossed>>

\* POST /auth/mfa/disable with the right password: one DELETE, and another.
DisableMfa(h) ==
    /\ ~Locked
    /\ mfa' = None
    /\ Start(h, Doing("disable"))
    /\ UNCHANGED <<now, backup, issued, accepted, again, crossed>>

DisableCodes(h) ==
    /\ handlers[h].at = "disable"
    /\ backup' = [c \in Codes |-> IF c \in Good THEN "gone" ELSE backup[c]]
    /\ Finish(h)
    /\ UNCHANGED <<now, mfa, issued, accepted, again, crossed>>

\* A check refuses, a statement fails and its transaction rolls back, or the
\* process goes down.
HandlerDies(h) ==
    /\ handlers[h].at # "idle"
    /\ Finish(h)
    /\ UNCHANGED <<now, mfa, backup, issued, accepted, again, crossed>>

Tick ==
    /\ now < MaxStep
    /\ now' = now + 1
    /\ UNCHANGED <<mfa, backup, issued, handlers, accepted, again, crossed>>

Next ==
    \/ \E h \in Handlers :
          \/ EnrollRead(h) \/ EnrollWrite(h) \/ ConfirmWrite(h) \/ ConfirmCommit(h)
          \/ VerifyWrite(h) \/ BackupUse(h) \/ RegenerateWrite(h)
          \/ RegenerateCommit(h) \/ DisableMfa(h) \/ DisableCodes(h) \/ HandlerDies(h)
    \/ \E h \in Handlers, s \in Steps : ConfirmRead(h, s) \/ VerifyRead(h, s)
    \/ \E h \in Handlers, c \in Codes : BackupRead(h, c)
    \/ Tick

Spec == Init /\ [][Next]_vars

-----------------------------------------------------------------------------
\* The tables and requests keep their shape; a confirmed row has a last step.
TypeOK ==
    /\ now \in 0..MaxStep
    /\ mfa \in Row \cup {None}
    /\ backup \in [Codes -> {"none", "good", "used", "gone"}]
    /\ issued \subseteq Secrets
    /\ handlers \in [Handlers -> Handler]
    /\ accepted \subseteq Secrets \X Steps /\ again \subseteq accepted
    /\ crossed \subseteq {"code", "enrolment", "batch"}

(* "The same code cannot be replayed" (lines 73-76): a code is accepted     *)
(* once, through any sequence of sign-ins, confirmations, re-enrolments and *)
(* regenerations, unless one was found right while another request was      *)
(* between its check and its write of last_step.                            *)
AcceptedOnceUnlessCrossed == again = {} \/ "code" \in crossed

(* "Invalidates every previous code" (line 230): two batches of backup      *)
(* codes are never good at once, unless the transactions that wrote them    *)
(* overlapped.                                                              *)
OneBatchUnlessCrossed ==
    (\A c, d \in Good : c = d) \/ "batch" \in crossed

(* A second factor that is enforced is one its owner has shown to work      *)
(* (lines 4-8), unless an enrolment and a confirmation overlapped.          *)
ProvedUnlessCrossed ==
    Enabled => \/ \E s \in Steps : <<mfa.secret, s>> \in accepted
               \/ "enrolment" \in crossed

(* A confirmed second factor goes by disable, which asks for the password,  *)
(* and by nothing else (lines 138-140, 208-213), unless an enrolment and a  *)
(* confirmation overlapped.                                                 *)
OnUntilDisabled ==
    [][Enabled /\ ~Enabled' =>
          \/ \E h \in Handlers : DisableMfa(h)
          \/ "enrolment" \in crossed]_vars
=============================================================================
