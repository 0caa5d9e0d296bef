------------------------------ MODULE StoreOps ------------------------------
(***************************************************************************)
(* What the operations of a token store do to the map from token keys to    *)
(* stored entries, with no index, lock or transport: the common vocabulary  *)
(* of the abstract store, of the memory store and of the Manager.           *)
(*                                                                         *)
(* The map is a total function; NoEntry marks a key that is absent.  An     *)
(* entry holds the saved state and the physical deadline the store gave it. *)
(***************************************************************************)
EXTENDS TokenState

CONSTANTS Token,      \* storage keys (hashes of the tokens callers hold)
          NoEntry     \* the value of an absent key

\* The physical or the logical deadline, whichever comes first.
EntryExpired(entry, t) == Passed(entry.expiresAt, t) \/ IsExpired(entry.state, t)

Stored(tokens) == {k \in Token : tokens[k] # NoEntry}

Live(tokens, t) == {k \in Stored(tokens) : ~EntryExpired(tokens[k], t)}

\* Insert or overwrite.
Put(tokens, k, state, deadline) ==
  [tokens EXCEPT ![k] = [state |-> state, expiresAt |-> deadline]]

Drop(tokens, K) == [k \in Token |-> IF k \in K THEN NoEntry ELSE tokens[k]]

\* Replace the state and leave the physical deadline alone (in-place mutation).
Rewrite(tokens, k, state) == [tokens EXCEPT ![k] = [@ EXCEPT !.state = state]]

\* Mutant: a compare-and-swap that inserts what is missing.
MatchesOrMissing(tokens, k, expected, t) ==
  IF k \in Live(tokens, t) THEN tokens[k].state = expected ELSE tokens[k] = NoEntry

\* CompareAndSwapTokenState succeeds only on an unexpired, unchanged entry.
Matches(tokens, k, expected, t) ==
  k \in Live(tokens, t) /\ tokens[k].state = expected

\* An active state of the wanted kind.
Consumable(state, kinds, t) == IsActive(state, t) /\ MatchKind(state.kind, kinds)

\* Mutant: a consumption that only reads.
ConsumeNothing(tokens, k, kinds, t) == tokens

\* What can be consumed becomes consumed; anything else is left.
Consume(tokens, k, kinds, t) ==
  IF Consumable(tokens[k].state, kinds, t)
    THEN Rewrite(tokens, k, MarkConsumed(tokens[k].state))
    ELSE tokens

\* The keys of one subject, by scanning the whole map.
OfSubject(tokens, subject, kinds) ==
  {k \in Stored(tokens) : /\ tokens[k].state.subject = subject
                          /\ MatchKind(tokens[k].state.kind, kinds)}
=============================================================================
