-------------------------- MODULE TokenCacheProofs --------------------------
(***************************************************************************)
(* Theorems about the token cache, for any number of callers and any life, *)
(* margin and delay that the assumption allows.                            *)
(***************************************************************************)
EXTENDS TokenCache, TLAPS

USE TokenCacheAssumption
USE DEF Authorizing, Holding, TokenTypeOK

LEMMA InitTokenInv == Init => TokenInv
<1>1. ASSUME Init PROVE TokenTypeOK
    <2>1. 0 \in 0..(Life - Margin) /\ 0 \in 0..MaxDelay /\ 0 \in 0..Life
        OBVIOUS
    <2>2. crossed \in BOOLEAN
        BY <1>1 DEF Init
    <2>3. QED
        BY <1>1, <2>1, <2>2 DEF Init
<1>2. Init => ExpiryBounded /\ AnswersAreRecent /\ AloneUncrossed /\ FreshUncrossed
    BY DEF Init, ExpiryBounded, AnswersAreRecent, AloneUncrossed, FreshUncrossed
<1>3. QED
    BY <1>1, <1>2 DEF TokenInv

LEMMA NextTokenInv == TokenInv /\ [Next]_vars => TokenInv'
<1> SUFFICES ASSUME TokenInv, [Next]_vars
             PROVE  TokenInv'
    OBVIOUS
<1> USE DEF TokenInv, ExpiryBounded, AnswersAreRecent, AloneUncrossed,
            FreshUncrossed, Enter
<1>1. ASSUME NEW c \in Callers, Begin(c) PROVE TokenInv'
    BY <1>1 DEF Begin
<1>2. ASSUME NEW c \in Callers, Issue(c) PROVE TokenInv'
    <2>1. TokenTypeOK'
        BY <1>2 DEF Issue, Spoiled
    <2>2. ExpiryBounded'
        BY <1>2 DEF Issue, Spoiled
    <2>3. AnswersAreRecent'
        <3>1. ASSUME NEW d \in Callers PROVE zoomTtl' >= Life - delay'[d]
            <4>1. delay'[d] \in 0..MaxDelay /\ zoomTtl' = Life
                BY <1>2, <2>1 DEF Issue
            <4>2. QED
                BY <4>1
        <3>2. QED
            BY <3>1
    <2>4. ASSUME ~crossed'
          PROVE  /\ ttl' = 0
                 /\ \A d \in Callers \ {c} : pc'[d] \notin Holding
                 /\ pc'[c] = "answered" /\ reply'[c] = "good"
        <3>1. ~(ttl > 0) /\ ~\E d \in Callers \ {c} : pc[d] \in Holding
            BY <1>2, <2>4, Zenon DEF Issue
        <3>2. QED
            BY <1>2, <3>1 DEF Issue
    <2>5. AloneUncrossed'
        BY <2>4
    <2>6. FreshUncrossed'
        BY <2>4
    <2>7. QED
        BY <2>1, <2>2, <2>3, <2>5, <2>6
<1>3. ASSUME NEW c \in Callers, AuthorizeFails(c) PROVE TokenInv'
    BY <1>3 DEF AuthorizeFails
<1>4. ASSUME NEW c \in Callers, Store(c) PROVE TokenInv'
    <2>1. TokenTypeOK' /\ AnswersAreRecent'
        BY <1>4 DEF Store
    <2>2. ExpiryBounded'
        BY <1>4 DEF Store
    <2>3. AloneUncrossed' /\ FreshUncrossed'
        BY <1>4 DEF Store
    <2>4. QED
        BY <2>1, <2>2, <2>3
<1>5. ASSUME NEW c \in Callers, SetExpiry(c) PROVE TokenInv'
    BY <1>5 DEF SetExpiry
<1>6. ASSUME NEW c \in Callers, Use(c) PROVE TokenInv'
    BY <1>6 DEF Use
<1>7. CASE Tick
    <2>1. TokenTypeOK'
        BY <1>7 DEF Tick, Less, Spoiled
    <2>2. AnswersAreRecent'
        BY <1>7 DEF Tick, Less
    <2>3. ExpiryBounded'
        BY <1>7 DEF Tick, Less, Spoiled
    <2>4. AloneUncrossed'
        BY <1>7 DEF Tick, Less, Spoiled
    <2>5. FreshUncrossed'
        BY <1>7 DEF Tick, Less, Spoiled
    <2>6. QED
        BY <2>1, <2>2, <2>3, <2>4, <2>5
<1>8. CASE Spoil
    BY <1>8 DEF Spoil, Spoiled
<1>9. CASE UNCHANGED vars
    BY <1>9 DEF vars
<1>10. QED
    BY <1>1, <1>2, <1>3, <1>4, <1>5, <1>6, <1>7, <1>8, <1>9 DEF Next, Step

\* The inductive invariant: what the cache holds, what Zoom still accepts and
\* what each caller carries stay in step.
THEOREM TokenInvCorrect == Spec => []TokenInv
BY InitTokenInv, NextTokenInv, PTL DEF Spec

\* The cache, the tokens of the callers and the clock keep their types: the
\* expiry that SetExpiry stores never leaves its range.
THEOREM TokenTypeCorrect == Spec => []TokenTypeOK
<1>1. TokenInv => TokenTypeOK
    BY DEF TokenInv
<1>2. QED
    BY TokenInvCorrect, <1>1, PTL

\* The cache gives a token up before Zoom does, whatever callers overlap.
THEOREM ExpiryBoundedCorrect == Spec => []ExpiryBounded
<1>1. TokenInv => ExpiryBounded
    BY DEF TokenInv
<1>2. QED
    BY TokenInvCorrect, <1>1, PTL

\* A caller whose token was issued while nobody else held one, and nothing
\* valid was replaced, sends a request that Zoom accepts.
THEOREM RequestsAcceptedCorrect == Spec => []RequestsAccepted
<1>1. TokenInv => RequestsAccepted
    BY DEF TokenInv, FreshUncrossed, RequestsAccepted
<1>2. QED
    BY TokenInvCorrect, <1>1, PTL

=============================================================================
