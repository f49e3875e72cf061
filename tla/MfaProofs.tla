----------------------------- MODULE MfaProofs -----------------------------
(***************************************************************************)
(* Theorems about Mfa, for every set of secrets, backup codes and handlers *)
(* and every window.                                                       *)
(***************************************************************************)
EXTENDS Mfa, TLAPS

\* What a request holds depends on where it is; accepted codes are of secrets
\* that were issued.
Held(h) ==
    /\ handlers[h].at \in {"confirm", "confirming", "verify"} =>
          handlers[h].secret \in issued /\ handlers[h].step \in Steps
    /\ handlers[h].at = "backup" => handlers[h].code \in Codes
    /\ handlers[h].locks => handlers[h].at = "confirming" /\ mfa # None

Shape ==
    /\ TypeOK
    /\ \A h \in Handlers : Held(h)
    /\ mfa # None => mfa.secret \in issued
    /\ accepted \subseteq issued \X Steps

\* Every accepted code of secret k is of an earlier step than s.
Later(k, s) == \A t \in Steps : <<k, t>> \in accepted => t < s

\* While no check and write have crossed, one request at most has its code
\* checked and not recorded, and that code is later than all accepted ones, those
\* of the secret it was checked against and those of the secret in the row.
CodeSafe ==
    "code" \notin crossed =>
        /\ again = {}
        /\ \A h, k \in Checked : h = k
        /\ \A h \in Checked :
              /\ Later(handlers[h].secret, handlers[h].step)
              /\ mfa # None => Later(mfa.secret, handlers[h].step)
              /\ handlers[h].at = "verify" /\ mfa # None /\ mfa.secret = handlers[h].secret
                    => mfa.confirmed
              /\ handlers[h].at = "confirming" /\ ~handlers[h].locks
                    => mfa = None \/ mfa.secret # handlers[h].secret
        /\ mfa # None => \A t \in Steps : <<mfa.secret, t>> \in accepted =>
                            mfa.confirmed /\ t <= mfa.lastStep

\* While no enrolment and confirmation have crossed, a confirmation is about the
\* secret in the row, and an enrolment replaces none that is enforced.
EnrolSafe ==
    "enrolment" \notin crossed =>
        /\ \A h \in At({"confirm", "confirming"}) :
              /\ At({"enroll"}) = {}
              /\ mfa = None \/ mfa.secret = handlers[h].secret
        /\ At({"enroll"}) # {} => ~Enabled
        /\ Enabled => \E s \in Steps : <<mfa.secret, s>> \in accepted

\* While no transactions have crossed, the one that is open has taken every code.
BatchSafe ==
    "batch" \notin crossed =>
        /\ \A h, k \in Writing : h = k
        /\ \A h \in Writing : Good \subseteq handlers[h].old
        /\ \A c, d \in Good : c = d

-----------------------------------------------------------------------------
\* Where a request may stand, and that None is no number.
LEMMA Records ==
    /\ NoHandler \in Handler /\ NoHandler.at = "idle" /\ ~NoHandler.locks
    /\ \A p \in {"enroll", "regenerate", "disable"} :
          Doing(p) \in Handler /\ Doing(p).at = p /\ ~Doing(p).locks
    /\ \A c \in Codes : /\ Burning(c) \in Handler /\ Burning(c).at = "backup"
                        /\ Burning(c).code = c /\ ~Burning(c).locks
  BY DEF NoHandler, Doing, Burning, Handler

LEMMA PresentingRecord ==
    ASSUME Shape, mfa # None, NEW p \in {"confirm", "verify"}, NEW s \in Steps
    PROVE  /\ Presenting(p, s) \in Handler /\ Presenting(p, s).at = p
           /\ Presenting(p, s).secret = mfa.secret /\ Presenting(p, s).step = s
           /\ ~Presenting(p, s).locks
  BY DEF Presenting, Handler, Shape, TypeOK, Row

LEMMA DeletingRecord ==
    ASSUME Shape, NEW h \in Handlers, NEW p \in {"confirming", "regenerating"}, NEW b \in BOOLEAN
    PROVE  /\ Deleting(h, p, b) \in Handler /\ Deleting(h, p, b).at = p
           /\ Deleting(h, p, b).secret = handlers[h].secret
           /\ Deleting(h, p, b).step = handlers[h].step
           /\ Deleting(h, p, b).old = Good /\ Deleting(h, p, b).locks = b
  BY DEF Deleting, Handler, Shape, TypeOK, Taken, Good

LEMMA Numbers == Steps \subseteq Int /\ None \notin Steps
  BY StepsAssumption, NoneAssumption DEF Steps

-----------------------------------------------------------------------------
LEMMA InitShape == Init => Shape /\ CodeSafe /\ EnrolSafe /\ BatchSafe
<1> SUFFICES ASSUME Init PROVE Shape /\ CodeSafe /\ EnrolSafe /\ BatchSafe
  OBVIOUS
<1>1. \A h \in Handlers : handlers[h] = NoHandler
  BY DEF Init
<1>2. Shape
  BY <1>1, Records, StepsAssumption DEF Init, Shape, TypeOK, Held
<1>3. \A p : "idle" \notin p => At(p) = {}
  BY <1>1, Records DEF At
<1>4. /\ Checked = {} /\ Writing = {} /\ At({"enroll"}) = {} /\ Good = {}
      /\ At({"confirm", "confirming"}) = {}
  BY <1>3 DEF Checked, Writing, Good, Init
<1>5. QED
  BY <1>2, <1>4 DEF CodeSafe, EnrolSafe, BatchSafe, Enabled, Init

-----------------------------------------------------------------------------
\* One request moves and the others stay where they are.
Moves(h, r) == /\ handlers' = [handlers EXCEPT ![h] = r]
               /\ r \in Handler

LEMMA MovesTo ==
    ASSUME Shape, NEW h \in Handlers, NEW r, Moves(h, r)
    PROVE  /\ handlers' \in [Handlers -> Handler]
           /\ handlers'[h] = r
           /\ \A k \in Handlers : k # h => handlers'[k] = handlers[k]
  BY DEF Moves, Shape, TypeOK

\* Where the requests stand after one of them moved.
LEMMA MovesAt ==
    ASSUME Shape, NEW h \in Handlers, NEW r, Moves(h, r), NEW p
    PROVE  /\ r.at \in p => At(p)' = At(p) \cup {h}
           /\ r.at \notin p => At(p)' = At(p) \ {h}
  BY MovesTo DEF At

\* The record a request moves to, for every action of a request.
Target(h, r) ==
    \/ r = Doing("enroll") /\ EnrollRead(h)
    \/ r = NoHandler /\ (EnrollWrite(h) \/ ConfirmCommit(h) \/ RegenerateCommit(h)
                           \/ DisableCodes(h) \/ HandlerDies(h))
    \/ r = Deleting(h, "confirming", mfa # None) /\ ConfirmWrite(h)
    \/ r = Deleting(h, "regenerating", FALSE) /\ RegenerateWrite(h)
    \/ r \in {NoHandler, Doing("regenerate")} /\ (VerifyWrite(h) \/ BackupUse(h))
    \/ r = Doing("disable") /\ DisableMfa(h)
    \/ \E s \in Steps :
          \/ r = Presenting("confirm", s) /\ ConfirmRead(h, s)
          \/ r = Presenting("verify", s) /\ VerifyRead(h, s)
    \/ \E c \in Codes : r = Burning(c) /\ BackupRead(h, c)

LEMMA NextMoves ==
    ASSUME Shape, Next
    PROVE  Tick \/ \E h \in Handlers, r \in Handler : Moves(h, r) /\ Target(h, r)
<1>1. CASE Tick
  BY <1>1
<1>2. ASSUME NEW h \in Handlers,
             \/ EnrollWrite(h) \/ ConfirmCommit(h) \/ RegenerateCommit(h)
             \/ DisableCodes(h) \/ HandlerDies(h)
      PROVE  Moves(h, NoHandler) /\ Target(h, NoHandler)
  BY <1>2, Records DEF Target, Moves, EnrollWrite, ConfirmCommit, RegenerateCommit,
                       DisableCodes, HandlerDies, Finish
<1>3. ASSUME NEW h \in Handlers, EnrollRead(h)
      PROVE  Moves(h, Doing("enroll")) /\ Target(h, Doing("enroll"))
  BY <1>3, Records DEF Target, Moves, EnrollRead, Start
<1>4. ASSUME NEW h \in Handlers, ConfirmWrite(h)
      PROVE  \E r \in Handler : Moves(h, r) /\ Target(h, r)
  BY <1>4, DeletingRecord DEF Target, Moves, ConfirmWrite
<1>5. ASSUME NEW h \in Handlers, RegenerateWrite(h)
      PROVE  \E r \in Handler : Moves(h, r) /\ Target(h, r)
  BY <1>5, DeletingRecord DEF Target, Moves, RegenerateWrite
<1>6. ASSUME NEW h \in Handlers, VerifyWrite(h) \/ BackupUse(h)
      PROVE  \E r \in Handler : Moves(h, r) /\ Target(h, r)
  <2>1. Verified(h)
    BY <1>6 DEF VerifyWrite, BackupUse
  <2>2. CASE Finish(h)
    BY <1>6, <2>2, Records DEF Target, Moves, Finish
  <2>3. CASE handlers' = [handlers EXCEPT ![h] = Doing("regenerate")]
    BY <1>6, <2>3, Records DEF Target, Moves
  <2>4. QED
    BY <2>1, <2>2, <2>3 DEF Verified
<1>7. ASSUME NEW h \in Handlers, DisableMfa(h)
      PROVE  Moves(h, Doing("disable")) /\ Target(h, Doing("disable"))
  BY <1>7, Records DEF Target, Moves, DisableMfa, Start
<1>8. ASSUME NEW h \in Handlers, NEW s \in Steps, ConfirmRead(h, s)
      PROVE  \E r \in Handler : Moves(h, r) /\ Target(h, r)
  BY <1>8, PresentingRecord DEF Target, Moves, ConfirmRead, Start, Pending
<1>9. ASSUME NEW h \in Handlers, NEW s \in Steps, VerifyRead(h, s)
      PROVE  \E r \in Handler : Moves(h, r) /\ Target(h, r)
  BY <1>9, PresentingRecord DEF Target, Moves, VerifyRead, Start, Enabled
<1>10. ASSUME NEW h \in Handlers, NEW c \in Codes, BackupRead(h, c)
       PROVE  \E r \in Handler : Moves(h, r) /\ Target(h, r)
  BY <1>10, Records DEF Target, Moves, BackupRead, Start
<1>11. QED
  BY <1>1, <1>2, <1>3, <1>4, <1>5, <1>6, <1>7, <1>8, <1>9, <1>10, Records DEF Next

-----------------------------------------------------------------------------
\* Shape is kept by a request that moves to a record it may hold.
LEMMA ShapeMoves ==
    ASSUME Shape, NEW h \in Handlers, NEW r \in Handler, Moves(h, r),
           r.at \in {"confirm", "confirming", "verify"} => r.secret \in issued /\ r.step \in Steps,
           r.at = "backup" => r.code \in Codes,
           r.locks => r.at = "confirming" /\ mfa' # None,
           mfa' = None => mfa = None \/ ~Locked,
           now' = now, mfa' \in Row \cup {None}, mfa' # None => mfa'.secret \in issued',
           backup' \in [Codes -> {"none", "good", "used", "gone"}],
           issued \subseteq issued', issued' \subseteq Secrets,
           accepted' \subseteq issued \X Steps, again' \subseteq accepted',
           crossed' \subseteq {"code", "enrolment", "batch"}
    PROVE  Shape'
<1>1. /\ handlers' \in [Handlers -> Handler] /\ handlers'[h] = r
      /\ \A k \in Handlers : k # h => handlers'[k] = handlers[k]
  BY MovesTo
<1>2. TypeOK'
  BY <1>1 DEF Shape, TypeOK
<1>3. ASSUME NEW k \in Handlers PROVE Held(k)'
  <2>1. CASE k = h
    BY <1>1, <2>1 DEF Held
  <2>2. CASE k # h
    <3>1. handlers'[k] = handlers[k] /\ Held(k)
      BY <1>1, <2>2 DEF Shape
    <3>2. handlers[k].locks => Locked /\ mfa # None
      BY <3>1 DEF Locked, At, Held
    <3>3. QED
      BY <3>1, <3>2 DEF Held
  <2>3. QED
    BY <2>1, <2>2
<1>4. QED
  BY <1>2, <1>3 DEF Shape

\* What a request passes on when its code is accepted.
LEMMA AcceptType ==
    ASSUME Shape, NEW h \in Handlers, Accept(h), handlers[h].at \in {"confirming", "verify"}
    PROVE  accepted' \subseteq issued \X Steps /\ again' \subseteq accepted'
<1>1. <<handlers[h].secret, handlers[h].step>> \in issued \X Steps
  BY DEF Shape, Held
<1>2. QED
  BY <1>1 DEF Accept, Shape, TypeOK

LEMMA NewBatchType ==
    ASSUME Shape, NEW h \in Handlers, NewBatch(h)
    PROVE  backup' \in [Codes -> {"none", "good", "used", "gone"}]
  BY DEF NewBatch, Shape, TypeOK

LEMMA RowKinds ==
    ASSUME mfa \in Row, NEW s \in Steps
    PROVE  /\ mfa.secret \in Secrets /\ mfa.confirmed \in BOOLEAN
           /\ [secret |-> mfa.secret, confirmed |-> TRUE, lastStep |-> s] \in Row
           /\ [secret |-> mfa.secret, confirmed |-> mfa.confirmed, lastStep |-> s] \in Row
<1>1. mfa.secret \in Secrets /\ (mfa.confirmed = TRUE \/ mfa.confirmed = FALSE)
  BY DEF Row
<1>2. CASE mfa.confirmed = TRUE
  BY <1>1, <1>2 DEF Row
<1>3. CASE mfa.confirmed = FALSE
  BY <1>1, <1>3 DEF Row
<1>4. QED
  BY <1>1, <1>2, <1>3

LEMMA FreshRow ==
    ASSUME NEW k \in Secrets
    PROVE  [secret |-> k, confirmed |-> FALSE, lastStep |-> None] \in Row
  BY DEF Row

LEMMA StepShape ==
    ASSUME Shape, NEW h \in Handlers, NEW r \in Handler, Moves(h, r), Target(h, r)
    PROVE  Shape'
<1>0. /\ TypeOK /\ Held(h) /\ (mfa # None => mfa.secret \in issued)
      /\ accepted \subseteq issued \X Steps
  BY DEF Shape
<1>1. CASE r = Doing("enroll") /\ EnrollRead(h)
  BY <1>0, <1>1, Records, ShapeMoves DEF EnrollRead, TypeOK, Cross
<1>2. CASE r = NoHandler /\ EnrollWrite(h)
  <2>1. PICK k \in Secrets \ issued :
           /\ mfa' = [secret |-> k, confirmed |-> FALSE, lastStep |-> None]
           /\ issued' = issued \cup {k}
    BY <1>2 DEF EnrollWrite
  <2>2. mfa' \in Row /\ mfa'.secret = k /\ mfa' # None
    BY <2>1, FreshRow, NoneAssumption
  <2>3. UNCHANGED <<now, backup, accepted, again, crossed>> /\ ~Locked
    BY <1>2 DEF EnrollWrite
  <2>4. issued \subseteq issued' /\ issued' \subseteq Secrets /\ k \in issued'
    BY <1>0, <2>1 DEF TypeOK
  <2>5. QED
    BY <1>0, <1>2, <2>2, <2>3, <2>4, Records, ShapeMoves DEF TypeOK
<1>3. CASE r = NoHandler /\ ConfirmCommit(h)
  <2>1. handlers[h].step \in Steps /\ (handlers[h].locks => mfa # None)
    BY <1>0, <1>3 DEF ConfirmCommit, Held
  <2>2. /\ mfa' \in Row \cup {None} /\ (mfa' # None => mfa # None /\ mfa'.secret = mfa.secret)
        /\ (mfa' = None => mfa = None)
    BY <1>0, <1>3, <2>1, RowKinds, NoneAssumption DEF ConfirmCommit, TypeOK
  <2>3. QED
    BY <1>0, <1>3, <2>2, Records, AcceptType, NewBatchType, ShapeMoves
       DEF ConfirmCommit, TypeOK
<1>4. CASE r = NoHandler /\ (RegenerateCommit(h) \/ DisableCodes(h) \/ HandlerDies(h))
  <2>1. backup' \in [Codes -> {"none", "good", "used", "gone"}]
    BY <1>0, <1>4, NewBatchType DEF RegenerateCommit, DisableCodes, HandlerDies, TypeOK
  <2>2. UNCHANGED <<now, mfa, issued, accepted, again, crossed>>
    BY <1>4 DEF RegenerateCommit, DisableCodes, HandlerDies
  <2>3. QED
    BY <1>0, <1>4, <2>1, <2>2, Records, ShapeMoves DEF TypeOK
<1>5. CASE r = Deleting(h, "confirming", mfa # None) /\ ConfirmWrite(h)
  BY <1>0, <1>5, DeletingRecord, ShapeMoves DEF ConfirmWrite, TypeOK, Cross, Held
<1>6. CASE r = Deleting(h, "regenerating", FALSE) /\ RegenerateWrite(h)
  BY <1>0, <1>6, DeletingRecord, ShapeMoves DEF RegenerateWrite, TypeOK, Cross
<1>7. CASE r \in {NoHandler, Doing("regenerate")} /\ VerifyWrite(h)
  <2>1. handlers[h].step \in Steps
    BY <1>0, <1>7 DEF VerifyWrite, Held
  <2>2. /\ mfa' \in Row \cup {None} /\ (mfa' # None => mfa # None /\ mfa'.secret = mfa.secret)
        /\ (mfa' = None => mfa = None)
    BY <1>0, <1>7, <2>1, RowKinds, NoneAssumption DEF VerifyWrite, TypeOK
  <2>3. QED
    BY <1>0, <1>7, <2>2, Records, AcceptType, ShapeMoves DEF VerifyWrite, TypeOK
<1>8. CASE r \in {NoHandler, Doing("regenerate")} /\ BackupUse(h)
  <2>1. backup' \in [Codes -> {"none", "good", "used", "gone"}]
    BY <1>0, <1>8 DEF BackupUse, TypeOK
  <2>2. UNCHANGED <<now, mfa, issued, accepted, again, crossed>>
    BY <1>8 DEF BackupUse
  <2>3. r.at # "backup" /\ r.at \notin {"confirm", "confirming", "verify"} /\ ~r.locks
    BY <1>8, Records
  <2>4. QED
    BY <1>0, <2>1, <2>2, <2>3, ShapeMoves DEF TypeOK
<1>9. CASE r = Doing("disable") /\ DisableMfa(h)
  BY <1>0, <1>9, Records, ShapeMoves DEF DisableMfa, TypeOK
<1>10. ASSUME NEW s \in Steps, r = Presenting("confirm", s), ConfirmRead(h, s) PROVE Shape'
  <2>1. mfa # None
    BY <1>10 DEF ConfirmRead, Pending
  <2>2. crossed' \subseteq {"code", "enrolment", "batch"}
    BY <1>0, <1>10 DEF ConfirmRead, TypeOK
  <2>3. UNCHANGED <<now, mfa, backup, issued, accepted, again>>
    BY <1>10 DEF ConfirmRead
  <2>4. QED
    BY <1>0, <1>10, <2>1, <2>2, <2>3, PresentingRecord, ShapeMoves DEF TypeOK
<1>11. ASSUME NEW s \in Steps, r = Presenting("verify", s), VerifyRead(h, s) PROVE Shape'
  <2>1. mfa # None
    BY <1>11 DEF VerifyRead, Enabled
  <2>2. QED
    BY <1>0, <1>11, <2>1, PresentingRecord, ShapeMoves DEF VerifyRead, TypeOK, Cross
<1>12. ASSUME NEW c \in Codes, r = Burning(c), BackupRead(h, c) PROVE Shape'
  BY <1>0, <1>12, Records, ShapeMoves DEF BackupRead, TypeOK
<1>13. QED
  BY <1>1, <1>2, <1>3, <1>4, <1>5, <1>6, <1>7, <1>8, <1>9, <1>10, <1>11, <1>12 DEF Target

-----------------------------------------------------------------------------
(* CodeSafe.  Actions that accept no code and check none keep it.           *)
LEMMA CodeIfQuiet ==
    ASSUME Shape, CodeSafe, NEW h \in Handlers, NEW r \in Handler, Moves(h, r),
           r.at \notin {"confirm", "confirming", "verify"},
           mfa' = mfa \/ mfa' = None, UNCHANGED <<accepted, again>>,
           crossed \subseteq crossed'
    PROVE  CodeSafe'
<1>1. Checked' \subseteq Checked /\ \A k \in Checked' : handlers'[k] = handlers[k]
  <2>1. Checked' = Checked \ {h}
    BY MovesAt DEF Checked
  <2>2. QED
    BY <2>1, MovesTo DEF Checked, At
<1>2. \A k, s : Later(k, s)' <=> Later(k, s)
  BY DEF Later
<1>3. QED
  BY <1>1, <1>2 DEF CodeSafe

\* A code that is found right is the only one checked, and later than all others.
LEMMA CodeIfChecked ==
    ASSUME Shape, CodeSafe, NEW h \in Handlers, NEW s \in Steps, NEW p \in {"confirm", "verify"},
           Moves(h, Presenting(p, s)), mfa # None, UNCHANGED <<mfa, accepted, again>>,
           crossed \subseteq crossed', Checked # {} => "code" \in crossed',
           IF p = "confirm" THEN ~mfa.confirmed ELSE mfa.confirmed /\ Unused(s)
    PROVE  CodeSafe'
<1> SUFFICES ASSUME "code" \notin crossed' PROVE CodeSafe'
  BY DEF CodeSafe
<1> DEFINE r == Presenting(p, s)
<1>1. /\ r \in Handler /\ r.at = p /\ r.secret = mfa.secret /\ r.step = s /\ ~r.locks
  BY PresentingRecord
<1> HIDE DEF r
<1>2. Checked' = {h} /\ handlers'[h] = r
  BY <1>1, MovesAt, MovesTo DEF Checked, r
<1>3. Later(mfa.secret, s)
  <2>1. SUFFICES ASSUME NEW t \in Steps, <<mfa.secret, t>> \in accepted PROVE t < s
    BY DEF Later
  <2>2. mfa.confirmed /\ t <= mfa.lastStep /\ "code" \notin crossed
    BY <2>1 DEF CodeSafe
  <2>3. p = "verify" /\ Unused(s)
    BY <2>2
  <2>4. mfa.lastStep \in Steps
    BY <2>2 DEF Shape, TypeOK, Row
  <2>5. s > mfa.lastStep
    BY <2>3, <2>4, Numbers DEF Unused
  <2>6. t \in Int /\ s \in Int /\ mfa.lastStep \in Int
    BY <2>4, Numbers
  <2>7. \A x, y, z \in Int : x <= y /\ z > y => x < z
    OBVIOUS
  <2>8. QED
    BY <2>2, <2>5, <2>6, <2>7
<1>4. Later(mfa.secret, s)'
  BY <1>3 DEF Later
<1>5. QED
  BY <1>1, <1>2, <1>4 DEF CodeSafe

\* The code of a checked request is new, and once it is accepted it is the latest
\* of every secret it could be compared with.
LEMMA CodeIfAccepted ==
    ASSUME Shape, CodeSafe, NEW h \in Checked, NEW r \in Handler, Moves(h, r), Accept(h),
           r.at \notin {"confirm", "confirming", "verify"}, crossed' = crossed,
           mfa' # None =>
              /\ mfa # None /\ mfa'.secret = mfa.secret
              /\ mfa.confirmed => mfa'.confirmed
              /\ \/ mfa'.lastStep = handlers[h].step
                 \/ mfa'.lastStep = mfa.lastStep /\ mfa.secret # handlers[h].secret
              /\ mfa.secret = handlers[h].secret => mfa'.confirmed
    PROVE  CodeSafe'
<1> SUFFICES ASSUME "code" \notin crossed PROVE CodeSafe'
  BY DEF CodeSafe
<1> DEFINE k == handlers[h].secret
           s == handlers[h].step
<1>1. /\ \A g \in Checked : g = h
      /\ Later(k, s) /\ (mfa # None => Later(mfa.secret, s)) /\ again = {}
      /\ mfa # None => \A t \in Steps : <<mfa.secret, t>> \in accepted =>
                          mfa.confirmed /\ t <= mfa.lastStep
  BY DEF CodeSafe
<1>2. h \in Handlers /\ s \in Steps /\ k \in issued
  BY DEF Checked, At, Shape, Held
<1>3. accepted' = accepted \cup {<<k, s>>} /\ again' = again \cup (accepted \cap {<<k, s>>})
  BY DEF Accept
<1> HIDE DEF k, s
<1>4. <<k, s>> \notin accepted
  BY <1>1, <1>2, Numbers DEF Later
<1>5. Checked' = {}
  BY <1>1, <1>2, MovesAt DEF Checked
<1>6. ASSUME mfa' # None, NEW t \in Steps, <<mfa'.secret, t>> \in accepted'
      PROVE  mfa'.confirmed /\ t <= mfa'.lastStep
  <2>1. CASE <<mfa.secret, t>> \in accepted
    <3>1. mfa.confirmed /\ t <= mfa.lastStep /\ t < s
      BY <1>1, <1>6, <2>1 DEF Later
    <3>2. QED
      BY <1>2, <1>6, <3>1, Numbers DEF s
  <2>2. CASE mfa.secret = k /\ t = s
    BY <1>2, <1>6, <2>2, Numbers DEF s, k
  <2>3. QED
    BY <1>3, <1>6, <2>1, <2>2
<1>7. QED
  BY <1>1, <1>3, <1>4, <1>5, <1>6 DEF CodeSafe

LEMMA StepCodeSafe ==
    ASSUME Shape, CodeSafe, NEW h \in Handlers, NEW r \in Handler, Moves(h, r), Target(h, r)
    PROVE  CodeSafe'
<1>0. TypeOK /\ Held(h) /\ (mfa # None => mfa.secret \in issued)
  BY DEF Shape
<1>1. CASE r = Doing("enroll") /\ EnrollRead(h)
  BY <1>1, Records, CodeIfQuiet DEF EnrollRead, Cross
<1>2. CASE r = NoHandler /\ EnrollWrite(h)
  <2>1. PICK k \in Secrets \ issued :
           mfa' = [secret |-> k, confirmed |-> FALSE, lastStep |-> None]
    BY <1>2 DEF EnrollWrite
  <2>2. mfa'.secret = k /\ UNCHANGED <<accepted, again, crossed>>
    BY <1>2, <2>1 DEF EnrollWrite
  <2>3. \A s \in Steps : <<k, s>> \notin accepted
    BY <2>1 DEF Shape
  <2>4. \A g \in Checked : handlers[g].secret \in issued
    BY DEF Shape, Held, Checked, At
  <2>5. Checked' \subseteq Checked /\ \A g \in Checked' : handlers'[g] = handlers[g]
    <3>1. Checked' = Checked \ {h}
      BY <1>2, Records, MovesAt DEF Checked
    <3>2. QED
      BY <3>1, MovesTo DEF Checked, At
  <2>6. \A j, s : Later(j, s)' <=> Later(j, s)
    BY <2>2 DEF Later
  <2>7. \A s \in Steps : Later(k, s)
    BY <2>3 DEF Later
  <2>8. \A g \in Checked : handlers[g].step \in Steps /\ k # handlers[g].secret
    BY <2>1, <2>4 DEF Shape, Held, Checked, At
  <2>9. QED
    BY <2>2, <2>3, <2>5, <2>6, <2>7, <2>8 DEF CodeSafe
<1>3. CASE r = NoHandler /\ ConfirmCommit(h)
  <2>1. h \in Checked
    BY <1>3 DEF ConfirmCommit, Checked, At
  <2>2. CASE "code" \in crossed
    BY <1>3, <2>2 DEF CodeSafe, ConfirmCommit
  <2>3. CASE "code" \notin crossed
    <3>1. handlers[h].at = "confirming" /\ ~handlers[h].locks
             => mfa = None \/ mfa.secret # handlers[h].secret
      BY <2>1, <2>3 DEF CodeSafe
    <3>2. handlers[h].at = "confirming" /\ (handlers[h].locks => mfa # None)
          /\ Accept(h) /\ crossed' = crossed
      BY <1>0, <1>3 DEF ConfirmCommit, Held
    <3>3. CASE handlers[h].locks
      <4>1. mfa' = [secret |-> mfa.secret, confirmed |-> TRUE, lastStep |-> handlers[h].step]
        BY <1>3, <3>3 DEF ConfirmCommit
      <4>2. QED
        BY <1>3, <2>1, <3>2, <3>3, <4>1, Records, CodeIfAccepted
    <3>4. CASE ~handlers[h].locks
      <4>1. mfa' = mfa
        BY <1>3, <3>4 DEF ConfirmCommit
      <4>2. QED
        BY <1>3, <2>1, <3>1, <3>2, <3>4, <4>1, Records, CodeIfAccepted
    <3>5. QED
      BY <3>3, <3>4
  <2>4. QED
    BY <2>2, <2>3
<1>4. CASE r = NoHandler /\ (RegenerateCommit(h) \/ DisableCodes(h) \/ HandlerDies(h))
  BY <1>4, Records, CodeIfQuiet DEF RegenerateCommit, DisableCodes, HandlerDies
<1>5. CASE r = Deleting(h, "confirming", mfa # None) /\ ConfirmWrite(h)
  <2>1. /\ handlers[h].at = "confirm" /\ h \in Checked /\ crossed \subseteq crossed'
        /\ UNCHANGED <<mfa, accepted, again>>
        /\ "code" \in crossed' <=> "code" \in crossed
    BY <1>5 DEF ConfirmWrite, Checked, At, Cross
  <2>2. /\ r.at = "confirming" /\ r.secret = handlers[h].secret /\ r.step = handlers[h].step
        /\ r.locks <=> mfa # None
    BY <1>5, DeletingRecord
  <2>3. Checked' = Checked
    BY <2>1, <2>2, MovesAt DEF Checked
  <2>4. \A g \in Checked : /\ handlers'[g].secret = handlers[g].secret
                           /\ handlers'[g].step = handlers[g].step
                           /\ g # h => handlers'[g] = handlers[g]
    BY <2>2, MovesTo DEF Checked, At
  <2>5. \A j, s : Later(j, s)' <=> Later(j, s)
    BY <2>1 DEF Later
  <2>6. handlers'[h] = r
    BY MovesTo
  <2>7. QED
    BY <2>1, <2>2, <2>3, <2>4, <2>5, <2>6 DEF CodeSafe
<1>6. CASE r = Deleting(h, "regenerating", FALSE) /\ RegenerateWrite(h)
  BY <1>6, DeletingRecord, CodeIfQuiet DEF RegenerateWrite, Cross
<1>7. CASE r \in {NoHandler, Doing("regenerate")} /\ VerifyWrite(h)
  <2>1. h \in Checked /\ handlers[h].at = "verify" /\ Accept(h) /\ crossed' = crossed
    BY <1>7 DEF VerifyWrite, Checked, At
  <2>2. CASE "code" \in crossed
    BY <2>1, <2>2 DEF CodeSafe
  <2>3. CASE "code" \notin crossed
    <3>1. mfa # None /\ mfa.secret = handlers[h].secret => mfa.confirmed
      BY <2>1, <2>3 DEF CodeSafe
    <3>2. mfa # None => mfa' = [secret |-> mfa.secret, confirmed |-> mfa.confirmed,
                                lastStep |-> handlers[h].step]
      BY <1>7 DEF VerifyWrite
    <3>3. mfa = None => mfa' = None
      BY <1>7 DEF VerifyWrite
    <3>4. r.at \notin {"confirm", "confirming", "verify"}
      BY <1>7, Records
    <3>5. QED
      BY <2>1, <3>1, <3>2, <3>3, <3>4, CodeIfAccepted
  <2>4. QED
    BY <2>2, <2>3
<1>8. CASE r \in {NoHandler, Doing("regenerate")} /\ BackupUse(h)
  <2>1. r.at \notin {"confirm", "confirming", "verify"}
    BY <1>8, Records
  <2>2. UNCHANGED <<mfa, accepted, again, crossed>>
    BY <1>8 DEF BackupUse
  <2>3. QED
    BY <2>1, <2>2, CodeIfQuiet
<1>9. CASE r = Doing("disable") /\ DisableMfa(h)
  BY <1>9, Records, CodeIfQuiet DEF DisableMfa
<1>10. ASSUME NEW s \in Steps, r = Presenting("confirm", s), ConfirmRead(h, s) PROVE CodeSafe'
  <2>1. mfa # None /\ ~mfa.confirmed /\ UNCHANGED <<mfa, accepted, again>>
    BY <1>10 DEF ConfirmRead, Pending
  <2>2. crossed \subseteq crossed' /\ (Checked # {} => "code" \in crossed')
    BY <1>10 DEF ConfirmRead
  <2>3. QED
    BY <1>10, <2>1, <2>2, CodeIfChecked
<1>11. ASSUME NEW s \in Steps, r = Presenting("verify", s), VerifyRead(h, s) PROVE CodeSafe'
  <2>1. mfa # None /\ mfa.confirmed /\ Unused(s) /\ UNCHANGED <<mfa, accepted, again>>
    BY <1>11 DEF VerifyRead, Enabled
  <2>2. crossed \subseteq crossed' /\ (Checked # {} => "code" \in crossed')
    BY <1>11 DEF VerifyRead, Cross
  <2>3. QED
    BY <1>11, <2>1, <2>2, CodeIfChecked
<1>12. ASSUME NEW c \in Codes, r = Burning(c), BackupRead(h, c) PROVE CodeSafe'
  BY <1>12, Records, CodeIfQuiet DEF BackupRead
<1>13. QED
  BY <1>1, <1>2, <1>3, <1>4, <1>5, <1>6, <1>7, <1>8, <1>9, <1>10, <1>11, <1>12 DEF Target

-----------------------------------------------------------------------------
(* EnrolSafe.  Actions that start neither an enrolment nor a confirmation,   *)
(* and neither replace nor confirm a secret, keep it.                        *)
LEMMA EnrolIfQuiet ==
    ASSUME Shape, EnrolSafe, NEW h \in Handlers, NEW r \in Handler, Moves(h, r),
           r.at \notin {"enroll", "confirm"},
           r.at = "confirming" => handlers[h].at = "confirm" /\ r.secret = handlers[h].secret,
           mfa' # None => /\ mfa # None /\ mfa'.secret = mfa.secret
                          /\ mfa'.confirmed = mfa.confirmed,
           accepted \subseteq accepted', crossed \subseteq crossed'
    PROVE  EnrolSafe'
<1>1. At({"enroll"})' \subseteq At({"enroll"})
  BY MovesAt
<1>2. /\ At({"confirm", "confirming"})' \subseteq At({"confirm", "confirming"})
      /\ \A g \in At({"confirm", "confirming"})' : handlers'[g].secret = handlers[g].secret
  BY MovesTo DEF At
<1>3. QED
  BY <1>1, <1>2 DEF EnrolSafe, Enabled

LEMMA StepEnrolSafe ==
    ASSUME Shape, EnrolSafe, NEW h \in Handlers, NEW r \in Handler, Moves(h, r), Target(h, r)
    PROVE  EnrolSafe'
<1>1. CASE r = Doing("enroll") /\ EnrollRead(h)
  <2>1. /\ ~Enabled /\ UNCHANGED <<mfa, accepted>> /\ crossed \subseteq crossed'
        /\ At({"confirm", "confirming"}) # {} => "enrolment" \in crossed'
    BY <1>1 DEF EnrollRead, Cross
  <2>2. At({"confirm", "confirming"})' \subseteq At({"confirm", "confirming"})
    BY <1>1, Records, MovesAt
  <2>3. QED
    BY <2>1, <2>2 DEF EnrolSafe, Enabled
<1>2. CASE r = NoHandler /\ EnrollWrite(h)
  <2>1. PICK k \in Secrets : mfa' = [secret |-> k, confirmed |-> FALSE, lastStep |-> None]
    BY <1>2 DEF EnrollWrite
  <2>2. h \in At({"enroll"}) /\ UNCHANGED <<accepted, crossed>>
    BY <1>2 DEF EnrollWrite, At
  <2>3. At({"confirm", "confirming"})' \subseteq At({"confirm", "confirming"})
    BY <1>2, Records, MovesAt
  <2>4. QED
    BY <2>1, <2>2, <2>3 DEF EnrolSafe, Enabled
<1>3. CASE r = NoHandler /\ ConfirmCommit(h)
  <2>1. h \in At({"confirm", "confirming"}) /\ UNCHANGED crossed
    BY <1>3 DEF ConfirmCommit, At
  <2>2. /\ <<handlers[h].secret, handlers[h].step>> \in accepted' /\ accepted \subseteq accepted'
        /\ handlers[h].step \in Steps
    BY <1>3 DEF ConfirmCommit, Accept, Shape, Held
  <2>3. /\ At({"confirm", "confirming"})' \subseteq At({"confirm", "confirming"})
        /\ At({"enroll"})' \subseteq At({"enroll"})
        /\ \A g \in At({"confirm", "confirming"})' : handlers'[g] = handlers[g]
    BY <1>3, Records, MovesAt, MovesTo DEF At
  <2>4. /\ mfa' # None => mfa # None /\ mfa'.secret = mfa.secret
        /\ Enabled' => Enabled \/ mfa # None
    BY <1>3 DEF ConfirmCommit, Enabled, Shape, Held
  <2>5. QED
    BY <2>1, <2>2, <2>3, <2>4 DEF EnrolSafe, Enabled
<1>4. CASE r = NoHandler /\ (RegenerateCommit(h) \/ DisableCodes(h) \/ HandlerDies(h))
  BY <1>4, Records, EnrolIfQuiet DEF RegenerateCommit, DisableCodes, HandlerDies
<1>5. CASE r = Deleting(h, "confirming", mfa # None) /\ ConfirmWrite(h)
  BY <1>5, DeletingRecord, EnrolIfQuiet DEF ConfirmWrite, Cross
<1>6. CASE r = Deleting(h, "regenerating", FALSE) /\ RegenerateWrite(h)
  BY <1>6, DeletingRecord, EnrolIfQuiet DEF RegenerateWrite, Cross
<1>7. CASE r \in {NoHandler, Doing("regenerate")} /\ VerifyWrite(h)
  <2>1. r.at \notin {"enroll", "confirm", "confirming"}
    BY <1>7, Records
  <2>2. mfa' # None => /\ mfa # None /\ mfa'.secret = mfa.secret
                       /\ mfa'.confirmed = mfa.confirmed
    BY <1>7 DEF VerifyWrite
  <2>3. accepted \subseteq accepted' /\ crossed' = crossed
    BY <1>7 DEF VerifyWrite, Accept
  <2>4. QED
    BY <2>1, <2>2, <2>3, EnrolIfQuiet
<1>8. CASE r \in {NoHandler, Doing("regenerate")} /\ BackupUse(h)
  <2>1. r.at \notin {"enroll", "confirm", "confirming"}
    BY <1>8, Records
  <2>2. UNCHANGED <<mfa, accepted, crossed>>
    BY <1>8 DEF BackupUse
  <2>3. QED
    BY <2>1, <2>2, EnrolIfQuiet
<1>9. CASE r = Doing("disable") /\ DisableMfa(h)
  BY <1>9, Records, EnrolIfQuiet DEF DisableMfa
<1>10. ASSUME NEW s \in Steps, r = Presenting("confirm", s), ConfirmRead(h, s) PROVE EnrolSafe'
  <2>1. /\ mfa # None /\ ~Enabled /\ UNCHANGED <<mfa, accepted>> /\ crossed \subseteq crossed'
        /\ At({"enroll"}) # {} => "enrolment" \in crossed'
    BY <1>10 DEF ConfirmRead, Pending, Enabled
  <2>2. r.at = "confirm" /\ r.secret = mfa.secret
    BY <1>10, <2>1, PresentingRecord
  <2>3. /\ At({"enroll"})' \subseteq At({"enroll"})
        /\ At({"confirm", "confirming"})' = At({"confirm", "confirming"}) \cup {h}
        /\ handlers'[h] = r
        /\ \A g \in Handlers : g # h => handlers'[g] = handlers[g]
    BY <2>2, MovesAt, MovesTo
  <2>4. QED
    BY <2>1, <2>2, <2>3 DEF EnrolSafe, Enabled, At
<1>11. ASSUME NEW s \in Steps, r = Presenting("verify", s), VerifyRead(h, s) PROVE EnrolSafe'
  BY <1>11, PresentingRecord, EnrolIfQuiet DEF VerifyRead, Enabled, Cross
<1>12. ASSUME NEW c \in Codes, r = Burning(c), BackupRead(h, c) PROVE EnrolSafe'
  BY <1>12, Records, EnrolIfQuiet DEF BackupRead
<1>13. QED
  BY <1>1, <1>2, <1>3, <1>4, <1>5, <1>6, <1>7, <1>8, <1>9, <1>10, <1>11, <1>12 DEF Target

-----------------------------------------------------------------------------
(* BatchSafe.  Actions that open no transaction and make no code good keep   *)
(* it.                                                                       *)
LEMMA BatchIfQuiet ==
    ASSUME Shape, BatchSafe, NEW h \in Handlers, NEW r \in Handler, Moves(h, r),
           r.at \notin {"confirming", "regenerating"},
           Good' \subseteq Good, crossed \subseteq crossed'
    PROVE  BatchSafe'
<1>1. /\ Writing' \subseteq Writing
      /\ \A g \in Writing' : handlers'[g] = handlers[g]
  <2>1. Writing' = Writing \ {h}
    BY MovesAt DEF Writing
  <2>2. QED
    BY <2>1, MovesTo DEF Writing, At
<1>2. QED
  BY <1>1 DEF BatchSafe

\* A transaction that opens takes every code there is.
LEMMA BatchIfOpened ==
    ASSUME Shape, BatchSafe, NEW h \in Handlers, NEW p \in {"confirming", "regenerating"},
           NEW b \in BOOLEAN, Moves(h, Deleting(h, p, b)), UNCHANGED backup,
           crossed \subseteq crossed', Writing # {} => "batch" \in crossed'
    PROVE  BatchSafe'
<1>1. Writing' = Writing \cup {h} /\ handlers'[h].old = Good
  BY DeletingRecord, MovesAt, MovesTo DEF Writing
<1>2. Good' = Good
  BY DEF Good
<1>3. QED
  BY <1>1, <1>2 DEF BatchSafe

\* The transaction that commits leaves the new code alone.
LEMMA BatchIfCommitted ==
    ASSUME Shape, BatchSafe, NEW h \in Writing, Moves(h, NoHandler), NewBatch(h),
           crossed' = crossed
    PROVE  BatchSafe'
<1> SUFFICES ASSUME "batch" \notin crossed PROVE BatchSafe'
  BY DEF BatchSafe
<1>1. (\A g \in Writing : g = h) /\ Good \subseteq handlers[h].old /\ h \in Handlers
  BY DEF BatchSafe, Writing, At
<1>2. Writing' = {}
  <2>1. Writing' = Writing \ {h}
    BY <1>1, Records, MovesAt DEF Writing
  <2>2. QED
    BY <1>1, <2>1
<1>3. PICK c \in Codes : \A d \in Codes : backup'[d] = "good" => d = c
  BY <1>1 DEF NewBatch, Good
<1>4. \A d, e \in Good' : d = e
  BY <1>3 DEF Good
<1>5. QED
  BY <1>2, <1>4 DEF BatchSafe

LEMMA StepBatchSafe ==
    ASSUME Shape, BatchSafe, NEW h \in Handlers, NEW r \in Handler, Moves(h, r), Target(h, r)
    PROVE  BatchSafe'
<1>1. CASE r = Doing("enroll") /\ EnrollRead(h)
  BY <1>1, Records, BatchIfQuiet DEF EnrollRead, Cross, Good
<1>2. CASE r = NoHandler /\ (EnrollWrite(h) \/ HandlerDies(h))
  BY <1>2, Records, BatchIfQuiet DEF EnrollWrite, HandlerDies, Good
<1>3. CASE r = NoHandler /\ (ConfirmCommit(h) \/ RegenerateCommit(h))
  <2>1. h \in Writing /\ NewBatch(h) /\ crossed' = crossed
    BY <1>3 DEF ConfirmCommit, RegenerateCommit, Writing, At
  <2>2. QED
    BY <1>3, <2>1, BatchIfCommitted
<1>4. CASE r = NoHandler /\ DisableCodes(h)
  BY <1>4, Records, BatchIfQuiet DEF DisableCodes, Good
<1>5. CASE r = Deleting(h, "confirming", mfa # None) /\ ConfirmWrite(h)
  BY <1>5, BatchIfOpened DEF ConfirmWrite, Cross
<1>6. CASE r = Deleting(h, "regenerating", FALSE) /\ RegenerateWrite(h)
  BY <1>6, BatchIfOpened DEF RegenerateWrite, Cross
<1>7. CASE r \in {NoHandler, Doing("regenerate")} /\ (VerifyWrite(h) \/ BackupUse(h))
  <2>1. r.at \notin {"confirming", "regenerating"}
    BY <1>7, Records
  <2>2. Good' \subseteq Good /\ crossed' = crossed
    BY <1>7 DEF VerifyWrite, BackupUse, Good, Shape, TypeOK
  <2>3. QED
    BY <2>1, <2>2, BatchIfQuiet
<1>8. CASE r = Doing("disable") /\ DisableMfa(h)
  BY <1>8, Records, BatchIfQuiet DEF DisableMfa, Good
<1>9. ASSUME NEW s \in Steps, r = Presenting("confirm", s), ConfirmRead(h, s) PROVE BatchSafe'
  <2>1. mfa # None /\ backup' = backup /\ crossed \subseteq crossed'
    BY <1>9 DEF ConfirmRead, Pending
  <2>2. QED
    BY <1>9, <2>1, PresentingRecord, BatchIfQuiet DEF Good
<1>10. ASSUME NEW s \in Steps, r = Presenting("verify", s), VerifyRead(h, s) PROVE BatchSafe'
  <2>1. mfa # None /\ backup' = backup /\ crossed \subseteq crossed'
    BY <1>10 DEF VerifyRead, Enabled, Cross
  <2>2. QED
    BY <1>10, <2>1, PresentingRecord, BatchIfQuiet DEF Good
<1>11. ASSUME NEW c \in Codes, r = Burning(c), BackupRead(h, c) PROVE BatchSafe'
  BY <1>11, Records, BatchIfQuiet DEF BackupRead, Good
<1>12. QED
  BY <1>1, <1>2, <1>3, <1>4, <1>5, <1>6, <1>7, <1>8, <1>9, <1>10, <1>11 DEF Target

-----------------------------------------------------------------------------
IInv == Shape /\ CodeSafe /\ EnrolSafe /\ BatchSafe

\* Time passing, and steps that change nothing.
LEMMA StepTick ==
    ASSUME IInv, Tick \/ UNCHANGED vars PROVE IInv'
<1>1. UNCHANGED <<mfa, backup, issued, handlers, accepted, again, crossed>>
  BY DEF Tick, vars
<1>2. now' \in 0..MaxStep
  BY StepsAssumption DEF IInv, Shape, TypeOK, Tick, vars
<1>3. Shape'
  BY <1>1, <1>2 DEF IInv, Shape, TypeOK, Held
<1>4. /\ \A p : At(p)' = At(p)
      /\ Good' = Good /\ Enabled' = Enabled /\ \A k, s : Later(k, s)' <=> Later(k, s)
  BY <1>1 DEF At, Good, Enabled, Later
<1>5. Checked' = Checked /\ Writing' = Writing /\ At({"enroll"})' = At({"enroll"})
      /\ At({"confirm", "confirming"})' = At({"confirm", "confirming"})
  BY <1>4 DEF Checked, Writing
<1>6. CodeSafe' /\ EnrolSafe' /\ BatchSafe'
  BY <1>1, <1>4, <1>5 DEF IInv, CodeSafe, EnrolSafe, BatchSafe
<1>7. QED
  BY <1>3, <1>6 DEF IInv

LEMMA StepIInv == IInv /\ [Next]_vars => IInv'
<1> SUFFICES ASSUME IInv, [Next]_vars PROVE IInv'
  OBVIOUS
<1>1. CASE Tick \/ UNCHANGED vars
  BY <1>1, StepTick
<1>2. ASSUME NEW h \in Handlers, NEW r \in Handler, Moves(h, r), Target(h, r)
      PROVE  IInv'
  BY <1>2, StepShape, StepCodeSafe, StepEnrolSafe, StepBatchSafe DEF IInv
<1>3. QED
  BY <1>1, <1>2, NextMoves DEF IInv

LEMMA Invariance == Spec => []IInv
<1>1. Init => IInv
  BY InitShape DEF IInv
<1>2. QED
  BY <1>1, StepIInv, PTL DEF Spec

\* The tables and requests keep their shape.
THEOREM TypeCorrect == Spec => []TypeOK
<1>1. IInv => TypeOK
  BY DEF IInv, Shape
<1>2. QED
  BY <1>1, Invariance, PTL

\* verifyMfaCode and confirm: while no check and write of two requests crossed,
\* no code of the authenticator was accepted twice.
THEOREM CodesSingleUse == Spec => []AcceptedOnceUnlessCrossed
<1>1. IInv => AcceptedOnceUnlessCrossed
  BY DEF IInv, CodeSafe, AcceptedOnceUnlessCrossed
<1>2. QED
  BY <1>1, Invariance, PTL

\* confirm and backup-codes: while no two of their transactions overlapped, one
\* batch of backup codes is good at most.
THEOREM OneBatch == Spec => []OneBatchUnlessCrossed
<1>1. IInv => OneBatchUnlessCrossed
  BY DEF IInv, BatchSafe, OneBatchUnlessCrossed
<1>2. QED
  BY <1>1, Invariance, PTL

\* enroll and confirm: while they did not overlap, a second factor is enforced
\* only after a code of it was accepted.
THEOREM EnforcedWhenProved == Spec => []ProvedUnlessCrossed
<1>1. IInv => ProvedUnlessCrossed
  BY DEF IInv, EnrolSafe, ProvedUnlessCrossed
<1>2. QED
  BY <1>1, Invariance, PTL

\* A step that switches a confirmed second factor off is disable's DELETE.
LEMMA StepStaysOn ==
    ASSUME IInv, [Next]_vars, Enabled, ~Enabled', "enrolment" \notin crossed
    PROVE  \E h \in Handlers : DisableMfa(h)
<1>1. mfa' # mfa
  BY DEF Enabled
<1>2. PICK h \in Handlers, r \in Handler : Moves(h, r) /\ Target(h, r)
  BY <1>1, NextMoves DEF IInv, vars, Tick
<1>3. ~EnrollWrite(h)
  <2>1. At({"enroll"}) = {}
    BY DEF IInv, EnrolSafe
  <2>2. QED
    BY <2>1 DEF EnrollWrite, At
<1>4. ~ConfirmCommit(h) /\ ~VerifyWrite(h)
  <2>1. mfa # None /\ mfa.confirmed = TRUE /\ (handlers[h].locks <=> handlers[h].locks = TRUE)
    BY DEF Enabled, IInv, Shape, TypeOK, Row, Handler
  <2>2. mfa \in Row
    BY <2>1 DEF IInv, Shape, TypeOK
  <2>3. SUFFICES ASSUME ConfirmCommit(h) \/ VerifyWrite(h) PROVE FALSE
    OBVIOUS
  <2>4. handlers[h].step \in Steps
    BY <2>3 DEF ConfirmCommit, VerifyWrite, IInv, Shape, Held
  <2>5. mfa' = [secret |-> mfa.secret, confirmed |-> TRUE, lastStep |-> handlers[h].step]
    BY <1>1, <2>1, <2>3 DEF ConfirmCommit, VerifyWrite
  <2>6. mfa' \in Row /\ mfa'.confirmed
    BY <2>2, <2>4, <2>5, RowKinds
  <2>7. QED
    BY <2>6, NoneAssumption DEF Enabled
<1>5. CASE DisableMfa(h)
  BY <1>5
<1>6. ASSUME ~DisableMfa(h) PROVE UNCHANGED mfa
  BY <1>2, <1>3, <1>4, <1>6
     DEF Target, EnrollRead, RegenerateCommit, DisableCodes, HandlerDies, ConfirmWrite,
         RegenerateWrite, BackupUse, ConfirmRead, VerifyRead, BackupRead
<1>7. QED
  BY <1>1, <1>5, <1>6

\* Only disable, which asks for the password, switches a second factor off, while
\* enrolments and confirmations did not overlap.
THEOREM OnlyDisableSwitchesOff == Spec => OnUntilDisabled
<1>1. IInv /\ [Next]_vars =>
        [Enabled /\ ~Enabled' =>
            \/ \E h \in Handlers : DisableMfa(h)
            \/ "enrolment" \in crossed]_vars
  BY StepStaysOn
<1>2. QED
  BY <1>1, Invariance, PTL DEF Spec, OnUntilDisabled

=============================================================================
