----------------------------- MODULE TokenCache -----------------------------
(***************************************************************************)
(* The access token of one process: ZoomClient.token, filled by Authorize, *)
(* handed out by GetToken and read again when a request is sent.  Zoom     *)
(* accepts the token it issued last and no other.  Goroutines (the two     *)
(* jobs, a request for the status page) call GetToken at the same time:    *)
(* its mutex is a variable of the call and excludes nobody.  Durations are *)
(* multiples of some unit.                                                 *)
(***************************************************************************)
EXTENDS Integers, FiniteSets, Failures

CONSTANTS
    Callers,            \* goroutines that send requests to Zoom
    Life,               \* expires_in, the life of a token
    Margin,             \* ExpiresAt is this much before the end of it
    MaxDelay,           \* longest answer of Authorize, longest wait before use
    SharedCredentials   \* another process uses the same credentials

ASSUME TokenCacheAssumption ==
    /\ Life \in Nat /\ Margin \in Nat /\ MaxDelay \in Nat
    /\ MaxDelay + MaxDelay <= Margin
    /\ Margin < Life
    /\ SharedCredentials \in BOOLEAN

VARIABLES
    token,      \* z.token: "none", or whether Zoom accepts it ("good", "bad")
    ttl,        \* time until ExpiresAt, 0 once it has passed
    pc,         \* where each caller is
    reply,      \* the token in the answer that a caller has yet to store
    delay,      \* time a caller has spent in its present step
    zoomTtl,    \* life left of the token that Zoom issued last
    crossed     \* history: that token was issued beside another caller

vars == <<token, ttl, pc, reply, delay, zoomTtl, crossed>>

Authorizing == {"asking", "answered", "stored"}

\* Between an answer of Zoom and its storage, or between GetToken and the use.
Holding == {"answered", "stored", "ready"}

TokenTypeOK ==
    /\ token \in {"none", "good", "bad"}
    /\ ttl \in 0..(Life - Margin)
    /\ pc \in [Callers -> Authorizing \cup {"idle", "ready"}]
    /\ reply \in [Callers -> {"good", "bad"}]
    /\ delay \in [Callers -> 0..MaxDelay]
    /\ zoomTtl \in 0..Life
    /\ crossed \in BOOLEAN

Init ==
    /\ token = "none"
    /\ ttl = 0
    /\ pc = [c \in Callers |-> "idle"]
    /\ reply = [c \in Callers |-> "bad"]
    /\ delay = [c \in Callers |-> 0]
    /\ zoomTtl = 0
    /\ crossed = FALSE

\* Caller c enters a step.
Enter(c, step) ==
    /\ pc' = [pc EXCEPT ![c] = step]
    /\ delay' = [delay EXCEPT ![c] = 0]

-----------------------------------------------------------------------------
\* GetToken.

\* Faulty variant: a token is renewed only if there is none.
BeginUnchecked(c) ==
    /\ pc[c] = "idle"
    /\ Enter(c, IF token = "none" THEN "asking" ELSE "ready")
    /\ UNCHANGED <<token, ttl, reply, zoomTtl, crossed>>

Begin(c) ==
    /\ pc[c] = "idle"
    /\ Enter(c, IF token = "none" \/ ttl = 0 THEN "asking" ELSE "ready")
    /\ UNCHANGED <<token, ttl, reply, zoomTtl, crossed>>

-----------------------------------------------------------------------------
\* Authorize.

Spoiled(t) == IF t = "good" THEN "bad" ELSE t

\* Zoom issues a token, which ends the one before.
Issue(c) ==
    /\ pc[c] = "asking"
    /\ Enter(c, "answered")
    /\ token' = Spoiled(token)
    /\ reply' = [d \in Callers |-> IF d = c THEN "good" ELSE "bad"]
    /\ zoomTtl' = Life
    /\ crossed' = (ttl > 0 \/ \E d \in Callers \ {c} : pc[d] \in Holding)
    /\ UNCHANGED ttl

AuthorizeFails(c) ==
    /\ \/ MayFail("api") /\ pc[c] = "asking"
       \/ MayFail("net") /\ pc[c] = "answered"
    /\ Enter(c, "idle")
    /\ UNCHANGED <<token, ttl, reply, zoomTtl, crossed>>

\* The answer is decoded into the shared structure, ExpiresAt left as it was.
Store(c) ==
    /\ pc[c] = "answered"
    /\ token' = reply[c]
    /\ pc' = [pc EXCEPT ![c] = "stored"]
    /\ UNCHANGED <<ttl, reply, delay, zoomTtl, crossed>>

\* Faulty variant: ExpiresAt is the end of the token's life.
SetExpiryWithoutMargin(c) ==
    /\ pc[c] = "stored"
    /\ ttl' = Life
    /\ Enter(c, "ready")
    /\ UNCHANGED <<token, reply, zoomTtl, crossed>>

SetExpiry(c) ==
    /\ pc[c] = "stored"
    /\ ttl' = Life - Margin
    /\ Enter(c, "ready")
    /\ UNCHANGED <<token, reply, zoomTtl, crossed>>

\* The request carries z.token of this moment; a refusal renews nothing.
Use(c) ==
    /\ pc[c] = "ready"
    /\ Enter(c, "idle")
    /\ UNCHANGED <<token, ttl, reply, zoomTtl, crossed>>

-----------------------------------------------------------------------------
\* The environment.

Less(n) == IF n = 0 THEN 0 ELSE n - 1

\* Time passes.  No caller stays longer than MaxDelay in a step that counts.
Tick ==
    /\ \A c \in Callers : pc[c] \in Holding => delay[c] < MaxDelay
    /\ delay' = [c \in Callers |->
                   IF pc[c] \in Holding THEN delay[c] + 1 ELSE delay[c]]
    /\ ttl' = Less(ttl)
    /\ zoomTtl' = Less(zoomTtl)
    /\ token' = IF zoomTtl' = 0 THEN Spoiled(token) ELSE token
    /\ reply' = [c \in Callers |->
                   IF zoomTtl' = 0 THEN "bad" ELSE reply[c]]
    /\ UNCHANGED <<pc, crossed>>

\* Another process authorizes with the same credentials.
Spoil ==
    /\ SharedCredentials
    /\ token' = Spoiled(token)
    /\ reply' = [c \in Callers |-> "bad"]
    /\ zoomTtl' = Life
    /\ crossed' = TRUE
    /\ UNCHANGED <<ttl, pc, delay>>

Step(c) ==
    \/ Begin(c)
    \/ Issue(c)
    \/ AuthorizeFails(c)
    \/ Store(c)
    \/ SetExpiry(c)
    \/ Use(c)

Next ==
    \/ \E c \in Callers : Step(c)
    \/ Tick
    \/ Spoil

Spec == Init /\ [][Next]_vars

\* Time passes, the goroutines run, and Zoom does not refuse for ever.
Fairness ==
    /\ WF_vars(Tick)
    /\ WF_vars(\E c \in Callers : Begin(c))
    /\ \A c \in Callers :
        /\ WF_vars(Step(c) /\ pc[c] # "idle")
        /\ SF_vars(Issue(c))
        /\ SF_vars(Store(c))

FairSpec == Spec /\ Fairness

-----------------------------------------------------------------------------
\* A token in the cache is given up before Zoom gives it up.  Two callers
\* that authorize at once write ExpiresAt for each other's token; even then it
\* is no later than the end of the one that Zoom accepts.
ExpiryBounded == token = "good" => ttl <= zoomTtl

\* A caller that got a token sends a request Zoom accepts, unless the last
\* token was issued while another caller was about to store or to use one, or
\* while the cached one was still valid.
RequestsAccepted ==
    ~crossed => \A c \in Callers : pc[c] = "ready" => token = "good"

OneAuthorizes ==
    \A c, d \in Callers :
        pc[c] \in Authorizing /\ pc[d] \in Authorizing => c = d

\* A token that was replaced behind the cache's back is used until ExpiresAt
\* and no longer: once callers authorize one at a time and other processes
\* leave the credentials alone, an accepted token comes back again and again.
StaleEnds ==
    <>[]OneAuthorizes /\ <>[][~Spoil]_vars => []<>(token = "good")

-----------------------------------------------------------------------------
\* The inductive invariant behind the two safety properties.

\* The newest token is hardly older than the answer a caller holds.
AnswersAreRecent ==
    \A c \in Callers :
        pc[c] \in {"answered", "stored"} => zoomTtl >= Life - delay[c]

\* Without crossing, a caller that authorizes is alone and has the last token.
AloneUncrossed ==
    ~crossed =>
        \A c \in Callers : pc[c] \in {"answered", "stored"} =>
            /\ ttl = 0
            /\ \A d \in Callers \ {c} : pc[d] \notin Holding
            /\ IF pc[c] = "answered" THEN reply[c] = "good" ELSE token = "good"

\* Without crossing, a token that was handed out lasts until it is used.
FreshUncrossed ==
    ~crossed =>
        /\ ttl > 0 => token = "good" /\ zoomTtl >= ttl + Margin - MaxDelay
        /\ \A c \in Callers : pc[c] = "ready" =>
            token = "good" /\ zoomTtl > MaxDelay - delay[c]

TokenInv ==
    /\ TokenTypeOK
    /\ ExpiryBounded
    /\ AnswersAreRecent
    /\ AloneUncrossed
    /\ FreshUncrossed

=============================================================================
