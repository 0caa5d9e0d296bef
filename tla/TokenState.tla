----------------------------- MODULE TokenState -----------------------------
(***************************************************************************)
(* The unified token state of core/token_state.go and the lifetime rules of *)
(* core/state_lifetime.go, as operators on records.  A record carries at    *)
(* least the fields kind, subject, status and expiresAt; a user of this     *)
(* module adds the fields its properties tell apart.                        *)
(*                                                                         *)
(* Instants are natural numbers.  Never stands for a nil *time.Time: no     *)
(* deadline at all.                                                        *)
(***************************************************************************)
EXTENDS Integers

Never == -1

Deadline == Nat \cup {Never}

TokenKind == {"access", "refresh", "nonce"}

\* "expired" is never stored: it is computed from the deadline.
TokenStatus == {"active", "revoked", "consumed"}

\* A deadline has passed at the very instant it names (!now.Before(deadline)).
Passed(deadline, t) == deadline # Never /\ t >= deadline

\* now.Add(ttl) for a positive ttl; a ttl <= 0 sets no deadline.
DeadlineAfter(t, ttl) == IF ttl > 0 THEN t + ttl ELSE Never

Earlier(d, e) ==
  IF d = Never \/ (e # Never /\ e < d) THEN e ELSE d

IsExpired(state, t) == Passed(state.expiresAt, t)

IsActive(state, t) == ~IsExpired(state, t) /\ state.status = "active"

\* The physical deadline of an entry: the earlier of now+ttl and ExpiresAt.
EffectiveExpiresAt(state, t, ttl) ==
  Earlier(DeadlineAfter(t, ttl), state.expiresAt)

\* Mutant: a computed status is stored.
MarkExpired(state) == [state EXCEPT !.status = "expired"]

MarkConsumed(state) == [state EXCEPT !.status = "consumed"]

MarkRevoked(state) == [state EXCEPT !.status = "revoked"]

\* Manager.remainingTTL: 0 for no deadline, and also for a deadline just passed.
RemainingTTL(state, t) ==
  IF state.expiresAt = Never \/ state.expiresAt <= t THEN 0
                                                    ELSE state.expiresAt - t

\* An empty filter matches every kind.
MatchKind(kind, kinds) == kinds = {} \/ kind \in kinds
=============================================================================
