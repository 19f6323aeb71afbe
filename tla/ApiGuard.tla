------------------------------- MODULE ApiGuard -----------------------------
(***************************************************************************)
(* SignatureAuth (pkg/middleware/signature.go) in front of the API for the *)
(* business systems, and the nonces it remembers in memory                 *)
(* (NonceManager in pkg/security/access_control.go).                       *)
(*                                                                         *)
(* A request is one delivery of a signed message to the server: deliveries *)
(* of one message, as a client's network stack may make, carry the same    *)
(* nonce and timestamp.  The middleware reads the clock twice, once for    *)
(* the timestamp and once for the nonce, and a request may be held between *)
(* the two.                                                                *)
(***************************************************************************)
EXTENDS Integers

CONSTANTS
  Requests,  \* the deliveries of a behaviour
  Nonces,    \* values of X-Nonce
  NonceOf,   \* the nonce a delivery carries
  Stamp,     \* its X-Timestamp
  Window,    \* how long a timestamp is valid and a nonce is kept, 300 s
  MaxTime    \* bound: the clock of a behaviour

ASSUME NonceAssumption == NonceOf \in [Requests -> Nonces]
ASSUME StampAssumption == Stamp \in [Requests -> Int]
ASSUME WindowAssumption == Window \in Nat

Never == -1

VARIABLES
  clock,   \* the server's clock
  seen,    \* NonceManager.cache: when a nonce was recorded, or Never
  gate,    \* how far a request has come
  timed,   \* now of SignatureAuth, until the nonce is checked
  used     \* history: when this process has last recorded a nonce

guardVars == <<clock, seen, gate, timed, used>>

GuardTypeOK ==
  /\ clock \in Nat
  /\ seen \in [Nonces -> Nat \cup {Never}]
  /\ gate \in [Requests -> {"sent", "timed", "open", "closed"}]
  /\ timed \in [Requests -> Nat \cup {Never}]
  /\ used \in [Nonces -> Nat \cup {Never}]

GuardInit ==
  /\ clock = 0
  /\ seen = [n \in Nonces |-> Never]
  /\ gate = [r \in Requests |-> "sent"]
  /\ timed = [r \in Requests |-> Never]
  /\ used = [n \in Nonces |-> Never]

Tick ==
  /\ clock < MaxTime
  /\ clock' = clock + 1
  /\ UNCHANGED <<seen, gate, timed, used>>

-----------------------------------------------------------------------------
(* NonceManager.                                                           *)

\* CheckNonce finds the nonce unused and records it, under one lock.
CheckNonce(r) ==
  /\ seen[NonceOf[r]] = Never
  /\ seen' = [seen EXCEPT ![NonceOf[r]] = clock]

\* Mutant: a nonce is forgotten one tick too early.
ExpiresEarly(n) == seen[n] # Never /\ clock - seen[n] >= Window

Expired(n) == seen[n] # Never /\ clock - seen[n] > Window

\* cleanupExpired, once a minute.
CleanupExpired ==
  /\ \E n \in Nonces : Expired(n)
  /\ seen' = [n \in Nonces |-> IF Expired(n) THEN Never ELSE seen[n]]
  /\ UNCHANGED <<clock, gate, timed, used>>

-----------------------------------------------------------------------------
(* SignatureAuth.                                                          *)

\* abs(now - timestamp) <= 300
Fresh(r) == clock - Stamp[r] <= Window /\ Stamp[r] - clock <= Window

CheckTimestamp(r) ==
  /\ gate[r] = "sent"
  /\ \/ /\ Fresh(r)
        /\ gate' = [gate EXCEPT ![r] = "timed"]
        /\ timed' = [timed EXCEPT ![r] = clock]
     \/ /\ ~Fresh(r)
        /\ gate' = [gate EXCEPT ![r] = "closed"]
        /\ UNCHANGED timed
  /\ UNCHANGED <<clock, seen, used>>

\* The nonce, and then the app and the signature, which share nothing with other
\* requests: an unknown or disabled app, a failing query or a wrong signature closes
\* the gate, and the nonce stays used.
CheckReplay(r) ==
  /\ gate[r] = "timed"
  /\ \/ /\ CheckNonce(r)
        /\ used' = [used EXCEPT ![NonceOf[r]] = clock]
        /\ \E verdict \in {"open", "closed"} : gate' = [gate EXCEPT ![r] = verdict]
     \/ /\ seen[NonceOf[r]] # Never
        /\ gate' = [gate EXCEPT ![r] = "closed"]
        /\ UNCHANGED <<seen, used>>
  /\ timed' = [timed EXCEPT ![r] = Never]
  /\ UNCHANGED clock

\* The process dies: the nonces are in its memory, and the requests in it are lost.
GuardCrash ==
  /\ seen' = [n \in Nonces |-> Never]
  /\ gate' = [r \in Requests |-> IF gate[r] = "timed" THEN "closed" ELSE gate[r]]
  /\ timed' = [r \in Requests |-> Never]
  /\ used' = [n \in Nonces |-> Never]
  /\ UNCHANGED clock

-----------------------------------------------------------------------------
\* A nonce is let through a second time by one process only in a request that was
\* held between its two checks for longer than its message was old at the first
\* time: so a message whose timestamp is not ahead of the server's clock is let
\* through once, unless a second delivery of it is held (SignatureAuth drops stale
\* timestamps, and NonceManager keeps a nonce for as long).
NonceOnce ==
  [][\A r \in Requests :
       /\ gate[r] = "timed" /\ gate'[r] = "open"
       /\ used[NonceOf[r]] # Never
       => clock - timed[r] > used[NonceOf[r]] - Stamp[r]]_guardVars
=============================================================================
