----------------------------- MODULE AgentAuth -----------------------------
(***************************************************************************)
(* The server agent's memory of nonces: services/server-agent/src/auth.ts. *)
(* Every request of the API carries a timestamp, a nonce and a signature   *)
(* over both.  verify is one synchronous function, hence one action.       *)
(*                                                                         *)
(* The transport may deliver a request late, again, or damaged so that its *)
(* signature no longer matches.  Nonces are 16 random bytes, taken to be   *)
(* unique.  Date.now() is the wall clock: it may be set back.              *)
(*                                                                         *)
(* recent, earlier, repeated and refused are history kept for properties.  *)
(***************************************************************************)
EXTENDS Integers, FiniteSets

CONSTANTS
    Nonces,         \* the requests of the API, one nonce each
    Skew,           \* maxClockSkewMs
    Drift,          \* how far the clocks of API and agent may differ
    Capacity,       \* 512: below it pruneNonces does nothing
    SetBacks,       \* amounts by which the clock may be set back
    MaxClock,       \* bound of the model on the clock
    Never           \* the value of what has not happened

VARIABLES
    now,            \* the agent's Date.now()
    sent,           \* timestamp of the request, Never before it is signed
    seenNonces,     \* nonce -> when it was accepted, Never if not in the map
    recent,         \* history: accepted since the map or the clock last lost time
    earlier,        \* history: accepted before that
    repeated,       \* history: accepted while recent
    refused         \* history: refused as replays though intact and in time

authVars == <<now, sent, seenNonces, recent, earlier, repeated, refused>>

ASSUME ClockAssumption ==
    /\ Skew \in Nat /\ Drift \in Nat /\ Capacity \in Nat /\ MaxClock \in Nat
    /\ SetBacks \subseteq Nat /\ Never \notin Int

Time == 0..MaxClock
Seen == {n \in Nonces : seenNonces[n] # Never}

-----------------------------------------------------------------------------
AuthInit ==
    /\ now = 0
    /\ sent = [n \in Nonces |-> Never]
    /\ seenNonces = [n \in Nonces |-> Never]
    /\ recent = {} /\ earlier = {} /\ repeated = {} /\ refused = {}

\* signHeaders in the API: its own clock, and a fresh nonce.
Sign(n) ==
    /\ sent[n] = Never
    /\ \E d \in -Drift..Drift : sent' = [sent EXCEPT ![n] = now + d]
    /\ UNCHANGED <<now, seenNonces, recent, earlier, repeated, refused>>

\* Mutant of Pruned: entries are dropped one window after they were accepted.
PrunedAfterOneWindow ==
    [n \in Nonces |-> IF n \in Seen /\ now - seenNonces[n] > Skew
                      THEN Never ELSE seenNonces[n]]

\* pruneNonces: a full map drops what is older than two windows.
Pruned ==
    [n \in Nonces |->
        IF /\ Cardinality(Seen) >= Capacity
           /\ n \in Seen /\ now - seenNonces[n] > 2 * Skew
        THEN Never ELSE seenNonces[n]]

InWindow(n) == now - sent[n] <= Skew /\ sent[n] - now <= Skew

\* Mutant of Reject: the nonce is recorded before the signature is compared.
RecordsFirst(n) ==
    /\ sent[n] # Never /\ InWindow(n) /\ n \notin Seen
    /\ seenNonces' = [Pruned EXCEPT ![n] = now]
    /\ UNCHANGED <<now, sent, recent, earlier, repeated, refused>>

\* A damaged copy, or one that is late, gets 401 and leaves no trace.
Reject(n) ==
    /\ sent[n] # Never
    /\ UNCHANGED authVars

\* An intact copy within the window whose nonce is in the map: 'nonce replayed'.
RejectReplay(n) ==
    /\ sent[n] # Never /\ InWindow(n) /\ n \in Seen
    /\ refused' = refused \cup {n}
    /\ UNCHANGED <<now, sent, seenNonces, recent, earlier, repeated>>

\* An intact copy within the window whose nonce is not in the map: the request
\* is carried out.
Accept(n) ==
    /\ sent[n] # Never /\ InWindow(n) /\ n \notin Seen
    /\ seenNonces' = [Pruned EXCEPT ![n] = now]
    /\ recent' = recent \cup {n}
    /\ repeated' = repeated \cup (recent \cap {n})
    /\ UNCHANGED <<now, sent, earlier, refused>>

ClockTicks ==
    /\ now < MaxClock
    /\ now' = now + 1
    /\ UNCHANGED <<sent, seenNonces, recent, earlier, repeated, refused>>

\* What was accepted so far is no longer covered by the map and the clock.
LosesTime == recent' = {} /\ earlier' = earlier \cup recent

\* The agent process starts again with an empty map.
Restart ==
    /\ seenNonces' = [n \in Nonces |-> Never]
    /\ LosesTime
    /\ UNCHANGED <<now, sent, repeated, refused>>

ClockSetBack ==
    /\ \E b \in SetBacks : b <= now /\ now' = now - b
    /\ LosesTime
    /\ UNCHANGED <<sent, seenNonces, repeated, refused>>

AuthNext ==
    \/ \E n \in Nonces : Sign(n) \/ Accept(n) \/ Reject(n) \/ RejectReplay(n)
    \/ ClockTicks \/ Restart \/ ClockSetBack

AuthSpec == AuthInit /\ [][AuthNext]_authVars

-----------------------------------------------------------------------------
\* Clock, timestamps and histories keep their shape.
AuthTypeOK ==
    /\ now \in Time
    /\ sent \in [Nonces -> (-Drift..(MaxClock + Drift)) \cup {Never}]
    /\ seenNonces \in [Nonces -> Time \cup {Never}]
    /\ recent \subseteq Nonces /\ earlier \subseteq Nonces /\ repeated \subseteq Nonces
    /\ refused \subseteq Nonces

(* "A signature that is still inside the clock-skew window cannot be used   *)
(* twice" (lines 30-35): however late and however often the transport       *)
(* delivers a request, one run of the agent carries it out once, although   *)
(* a full map drops entries and the sender's clock may be ahead.            *)
AcceptedOncePerRun == repeated = {}

(* A nonce is taken by carrying a request out and by nothing else: a        *)
(* damaged copy that arrives first does not keep the intact one out.        *)
TakenOnlyByAcceptance == Seen \subseteq recent \cup earlier

\* How often a request was carried out, as far as it matters: twice is too often.
Carried == [n \in Nonces |-> IF n \in repeated THEN 2 ELSE IF n \in recent THEN 1 ELSE 0]

Once == INSTANCE AtMostOnce
            WITH Ids <- Nonces, count <- Carried, ever <- recent \cup earlier

(* The agent implements AtMostOnce: nobody whose copy is intact and in time *)
(* is told that it is a replay unless the request was carried out - copies  *)
(* that come first damaged, pruning and drift notwithstanding - and only a  *)
(* restart or a setback of the clock lets a request in again.               *)
ImplementsAtMostOnce == Once!Spec
=============================================================================
