----------------------------- MODULE RateLimiter -----------------------------
(***************************************************************************)
(* The sliding window that IntegrationsService keeps in memory for each     *)
(* sender of webhooks: a hit is counted while it is younger than the        *)
(* window, and refused, without being counted, when the window is full.     *)
(***************************************************************************)
EXTENDS Integers, FiniteSets

CONSTANTS
  Key,      \* provider and sender
  Hit,      \* identities of hits, each of which happens at most once
  Window,   \* webhookRateLimitWindowMs
  Limit       \* webhookRateLimitMax

ASSUME RateLimiterAssumption == Window \in Nat \ {0} /\ Limit \in Nat \ {0}

VARIABLES
  now,      \* Date.now(), which is taken never to go back
  hits,     \* webhookHits: for each key the hits it remembers
  accepted  \* history: for each key all hits that were let through

limiterVars == <<now, hits, accepted>>

Stamped == [hit : Hit, at : Nat]

LimiterInit ==
  /\ now = 0
  /\ hits = [k \in Key |-> {}]
  /\ accepted = [k \in Key |-> {}]

\* recentHits: what is as old as the window, to the millisecond, is forgotten.
Recent(k) == {h \in hits[k] : now - h.at < Window}

\* A slip: one hit too many.
FullLate(k) == Cardinality(Recent(k)) > Limit

Full(k) == Cardinality(Recent(k)) >= Limit

Accept(k, x) ==
  /\ ~Full(k)
  /\ \A l \in Key : \A h \in accepted[l] : h.hit # x
  /\ hits' = [hits EXCEPT ![k] = Recent(k) \cup {[hit |-> x, at |-> now]}]
  /\ accepted' = [accepted EXCEPT ![k] = @ \cup {[hit |-> x, at |-> now]}]
  /\ UNCHANGED now

Refuse(k) ==
  /\ Full(k)
  /\ hits' = [hits EXCEPT ![k] = Recent(k)]
  /\ UNCHANGED <<now, accepted>>

Tick == now' = now + 1 /\ UNCHANGED <<hits, accepted>>

LimiterNext == Tick \/ \E k \in Key : Refuse(k) \/ \E x \in Hit : Accept(k, x)

LimiterSpec == LimiterInit /\ [][LimiterNext]_limiterVars

-----------------------------------------------------------------------------
LimiterTypeOK ==
  /\ now \in Nat
  /\ hits \in [Key -> SUBSET Stamped]
  /\ accepted \in [Key -> SUBSET Stamped]

Within(k, t) == {h \in accepted[k] : t - Window < h.at /\ h.at <= t}

\* enforceWebhookRateLimit: whatever span of one window is looked at, wherever
\* it begins, no sender has had more than the limit let through in it.
Bounded ==
  \A k \in Key, t \in 0 .. now : IsFiniteSet(Within(k, t)) /\ Cardinality(Within(k, t)) <= Limit
=============================================================================
