------------------------------ MODULE Manager ------------------------------
(***************************************************************************)
(* core.Manager (core/manager.go, refresh.go, nonce.go, online.go): the     *)
(* flows that issue, renew, refresh and revoke tokens over a store that      *)
(* implements core.AtomicStore.                                             *)
(*                                                                         *)
(* Every store call is one atomic step (AtomicStore, which MemoryStore is    *)
(* shown to implement; a setup may also have a store without the calls of    *)
(* core.AtomicStore).  Between two calls of a flow anything may happen: a     *)
(* step of another request, time passing, the request's context being done,  *)
(* a failing call, the process of the request dying.  pc names the store     *)
(* call a request makes next; loc holds the locals of its flow.             *)
(***************************************************************************)
EXTENDS TokenState, FiniteSets

CONSTANTS Client,      \* requests served at the same time
          TokenValue,  \* plaintext tokens, in the hands of callers only
          Subject, Device, NoToken, NoSubject, NoDevice, NoEntry,
          Setups       \* configurations and workloads; a behaviour has one

VARIABLE setup  \* the one of this behaviour

\* core.Config and RefreshConfig; a lifetime of 0 outlasts the clock of the model.
Concurrent == setup.concurrent
RequireNonce == setup.requireNonce
AutoRenew == setup.autoRenew
RotateRefreshToken == setup.rotateRefreshToken
RevokeAccessTokenOnRefresh == setup.revokeAccessTokenOnRefresh
RevokeRefreshOnLogout == setup.revokeRefreshOnLogout
Timeout == setup.timeout
ActiveTimeout == setup.activeTimeout
RefreshTimeout == setup.refreshTimeout
NonceTimeout == setup.nonceTimeout

\* Manager.atomicStore: the store has the calls of core.AtomicStore.
Atomic == setup.atomicStore

\* What is asked of it: the operations, the devices they name, the ttl arguments of
\* Renew, and the old tokens that callers may pass as new ones: none, those that
\* Refresh looks out for, or any they have.
Ops == setup.ops
Devices == setup.devices
RenewTTL == setup.renewTTL
AliasArgs == setup.aliasArgs # "none"
ReuseArgs == setup.aliasArgs = "any"

\* Bounds: requests at once and in all, tokens chosen by callers, instants,
\* failing calls, contexts that end, processes that die.
MaxClients == setup.maxClients
MaxOps == setup.maxOps
MaxTokens == setup.maxTokens
MaxTime == setup.maxTime
MaxFaults == setup.maxFaults
MaxCancels == setup.maxCancels
MaxCrashes == setup.maxCrashes

Setup ==
  [concurrent : BOOLEAN, requireNonce : BOOLEAN, autoRenew : BOOLEAN,
   rotateRefreshToken : BOOLEAN, revokeAccessTokenOnRefresh : BOOLEAN,
   revokeRefreshOnLogout : BOOLEAN, timeout : Nat, activeTimeout : Nat,
   refreshTimeout : Nat, nonceTimeout : Nat \ {0}, atomicStore : BOOLEAN,
   ops : SUBSET STRING, devices : SUBSET Device, renewTTL : SUBSET Nat,
   aliasArgs : {"none", "refused", "any"},
   maxClients : Nat, maxOps : Nat, maxTokens : Nat, maxTime : Nat,
   maxFaults : Nat, maxCancels : Nat, maxCrashes : Nat]

ASSUME ManagerAssumption ==
  /\ Setups \subseteq Setup
  \* withDefaults: a RefreshConfig with every flag off becomes the default one.
  /\ \A s \in Setups : \/ s.rotateRefreshToken
                        \/ s.revokeAccessTokenOnRefresh
                        \/ s.revokeRefreshOnLogout
  /\ IsFiniteSet(TokenValue)
  /\ \A s \in Setups : s.maxTokens <= Cardinality(TokenValue)
  /\ NoToken \notin TokenValue
  /\ NoSubject \notin Subject
  /\ NoDevice \notin Device

\* storeKey: the store sees a hash of a token, never the token.
StoreKey(t) == <<"sha256", t>>

Token == {StoreKey(t) : t \in TokenValue}
NoKey == StoreKey(NoToken)

INSTANCE StoreOps

VARIABLES now,        \* the runtime's clock, shared with the store
          tokens,     \* the store's tokens
          sessions,   \* [Subject -> deadline of the session, or NoEntry]
          pc, loc,    \* per request: the next store call, the locals
          ctx,        \* "live" or "done", per request
          issued,     \* tokens that successful calls handed to callers
          used,       \* tokens ever offered as new
          recycled,   \* tokens offered as new when callers had them already
          dead,       \* keys that a returned call promised unusable
          redeemed,   \* how often a one-time token was redeemed (at most 2)
          started, faults, cancels, crashes  \* what the bounds count

store  == <<tokens, sessions>>
ghost  == <<issued, dead, redeemed>>
budget == <<used, recycled, started, faults, cancels, crashes>>
vars   == <<setup, now, store, pc, loc, ctx, ghost, budget>>

-----------------------------------------------------------------------------
(* Token states the Manager builds.                                        *)

NewState(kind, subject, device, deadline) ==
  [kind |-> kind, subject |-> subject, device |-> device, status |-> "active",
   expiresAt |-> deadline, lastActive |-> now, access |-> NoKey,
   rotatedFrom |-> NoKey, online |-> {}]

AccessState(subject, device, at) ==
  [NewState("access", subject, device, DeadlineAfter(at, Timeout))
     EXCEPT !.lastActive = at]

NewRefreshState(subject, device, access, from) ==
  [NewState("refresh", subject, device, DeadlineAfter(now, RefreshTimeout))
     EXCEPT !.access = access, !.rotatedFrom = from]

NonceState == NewState("nonce", NoSubject, NoDevice, DeadlineAfter(now, NonceTimeout))

Touch(state) == [state EXCEPT !.lastActive = now]

\* MarkOnline also sets the status: only the compare-and-swap that stores the
\* result keeps it from reviving a token.
MarkOnline(state) ==
  [Touch(state) EXCEPT !.online = @ \cup {"online"}, !.status = "active"]

MarkOffline(state) == [Touch(state) EXCEPT !.online = @ \cup {"offline"}]

-----------------------------------------------------------------------------
(* The frame of a request.                                                 *)

Blank == [op |-> "none", acc |-> NoToken, ref |-> NoToken, next |-> NoToken,
          nonce |-> NoToken, subject |-> NoSubject, device |-> NoDevice, ttl |-> 0,
          dropSession |-> FALSE, at |-> 0, snap |-> NoEntry, cur |-> NoKey,
          todo |-> {}, targets |-> {}, covered |-> {}]

LoginOps == {"Login", "LoginWithRefresh"}
LookupOps == {"Logout", "Renew", "GetTokenState", "MarkOnline", "MarkOffline"}

\* A store call that gets through.  The release of a refresh claim runs under
\* context.WithoutCancel; every other call under the context of the request.
Calls(c, label) == pc[c] = label /\ (ctx[c] = "live" \/ label = "restore")

Go(c, label, locals) ==
  /\ pc' = [pc EXCEPT ![c] = label]
  /\ loc' = [loc EXCEPT ![c] = locals]
  /\ UNCHANGED <<now, ctx, ghost, budget>>

Leave(c) ==
  /\ pc' = [pc EXCEPT ![c] = "idle"]
  /\ loc' = [loc EXCEPT ![c] = Blank]
  /\ ctx' = [ctx EXCEPT ![c] = "live"]
  /\ UNCHANGED now

\* The call returns an error: the caller learns nothing and is promised nothing.
Fail(c) == Leave(c) /\ UNCHANGED <<ghost, budget>>

\* The call returns: new tokens are handed out, old ones promised dead.
Succeed(c, new, gone) ==
  /\ Leave(c)
  /\ issued' = issued \cup new
  /\ dead' = dead \cup gone
  /\ UNCHANGED <<redeemed, budget>>

Redeem(t) == redeemed' = [redeemed EXCEPT ![t] = IF @ < 2 THEN @ + 1 ELSE @]

\* The keys handed out before this request that it is to make unusable.
IssuedTo(subject, kinds) ==
  {k \in OfSubject(tokens, subject, kinds) : \E t \in issued : k = StoreKey(t)}

SubjectLogout(subject) ==
  IssuedTo(subject, IF RevokeRefreshOnLogout THEN {"access", "refresh"} ELSE {"access"})

-----------------------------------------------------------------------------
(* Entry points: argument checks, then the first store call of the flow.    *)

Fresh1 == CHOOSE t \in TokenValue \ used : TRUE
Fresh2 == CHOOSE t \in TokenValue \ (used \cup {Fresh1}) : TRUE
Unused(n) == Cardinality(used) + n <= MaxTokens

\* The old tokens a careless caller may offer as new ones: the token presented and
\* the access token it names, which Refresh looks out for, or any other as well.
Aliases(ref) ==
  {t \in issued :
     /\ AliasArgs
     /\ \/ ReuseArgs
        \/ t = ref
        \/ /\ tokens[StoreKey(ref)] # NoEntry
           /\ tokens[StoreKey(ref)].state.access = StoreKey(t)}

\* The other flows compare what they are given with nothing they issued before.
NewToken(fresh) == {fresh} \cup (IF ReuseArgs THEN issued ELSE {})

NonceEntry == IF Atomic THEN "nonce" ELSE "peekNonce"
LoginEntry == IF Concurrent THEN "saveAccess" ELSE "replace"

Begin(c, label, new, locals) ==
  /\ pc[c] = "idle"
  /\ locals.op \in Ops
  /\ started < MaxOps
  /\ Cardinality({d \in Client : pc[d] # "idle"}) < MaxClients
  /\ started' = started + 1
  /\ used' = used \cup new
  /\ recycled' = recycled \cup (IF ReuseArgs THEN new \cap issued ELSE {})
  /\ pc' = [pc EXCEPT ![c] = label]
  /\ loc' = [loc EXCEPT ![c] = locals]
  /\ UNCHANGED <<now, store, ctx, ghost, faults, cancels, crashes>>

Nonces == IF RequireNonce THEN issued ELSE {NoToken}

Login(c) ==
  /\ Unused(1)
  /\ \E s \in Subject, d \in Devices \cup {NoDevice}, n \in Nonces, acc \in NewToken(Fresh1) :
       Begin(c, IF RequireNonce THEN NonceEntry ELSE LoginEntry, {acc},
             [Blank EXCEPT !.op = "Login", !.acc = acc, !.nonce = n,
                           !.subject = s, !.device = d,
                           !.covered = IF Concurrent THEN {} ELSE SubjectLogout(s)])

LoginWithRefresh(c) ==
  /\ Unused(2)
  /\ \E s \in Subject, d \in Devices \cup {NoDevice}, n \in Nonces,
       acc \in NewToken(Fresh1), r \in NewToken(Fresh2) \cup (IF AliasArgs THEN {Fresh1} ELSE {}) :
    /\ StoreKey(acc) # StoreKey(r)
    /\ Begin(c, IF RequireNonce THEN NonceEntry ELSE LoginEntry, {acc, r},
             [Blank EXCEPT !.op = "LoginWithRefresh", !.acc = acc, !.ref = r,
                           !.nonce = n, !.subject = s, !.device = d,
                           !.covered = IF Concurrent THEN {} ELSE SubjectLogout(s)])

\* Mutant: the next refresh token may be the one presented.
DistinctAccess(ref, acc, next) == acc # ref /\ acc # next

\* The argument checks of Refresh; only rotation needs a next refresh token.
DistinctArgs(ref, acc, next) ==
  /\ acc # ref
  /\ RotateRefreshToken => next # ref /\ acc # next

Refresh(c) ==
  \E ref \in issued, d \in Devices \cup {NoDevice} :
    /\ Unused(IF RotateRefreshToken THEN 2 ELSE 1)
    /\ \E acc \in {Fresh1} \cup Aliases(ref),
          next \in IF RotateRefreshToken THEN {Fresh2} \cup Aliases(ref) ELSE {NoToken} :
         /\ DistinctArgs(ref, acc, next)
         /\ Begin(c, "load", {acc, next} \ {NoToken},
                  [Blank EXCEPT !.op = "Refresh", !.ref = ref, !.acc = acc,
                                !.next = next, !.device = d])

\* Operations that start by looking an access token up (getTokenState).
Lookup(c) ==
  \E op \in LookupOps, t \in issued, ttl \in RenewTTL :
    /\ op # "Renew" => \A u \in RenewTTL : ttl <= u
    /\ Begin(c, "get", {},
             [Blank EXCEPT !.op = op, !.acc = t, !.cur = StoreKey(t), !.ttl = ttl])

LogoutByLoginID(c) ==
  \E s \in Subject, drop \in BOOLEAN :
    Begin(c, "logoutAccess", {},
          [Blank EXCEPT !.op = "LogoutByLoginID", !.subject = s, !.dropSession = drop,
                        !.covered = SubjectLogout(s)])

LogoutByDevice(c) ==
  \E s \in Subject, d \in Devices :
    Begin(c, "findDevice", {},
          [Blank EXCEPT !.op = "LogoutByDevice", !.subject = s, !.device = d,
             !.covered = {k \in IssuedTo(s, {"access"}) : tokens[k].state.device = d}])

RevokeRefreshToken(c) ==
  \E t \in issued :
    Begin(c, "getRefresh", {}, [Blank EXCEPT !.op = "RevokeRefreshToken", !.ref = t])

RevokeRefreshByLoginID(c) ==
  \E s \in Subject :
    Begin(c, "revokeAll", {},
          [Blank EXCEPT !.op = "RevokeRefreshByLoginID", !.subject = s,
                        !.covered = IssuedTo(s, {"refresh"})])

GenerateNonce(c) ==
  /\ Unused(1)
  /\ \E t \in NewToken(Fresh1) :
       Begin(c, "saveNonce", {t}, [Blank EXCEPT !.op = "GenerateNonce", !.nonce = t])

ConsumeNonce(c) ==
  \E t \in issued :
    Begin(c, NonceEntry, {}, [Blank EXCEPT !.op = "ConsumeNonce", !.nonce = t])

-----------------------------------------------------------------------------
(* Nonces.                                                                 *)

SaveNonce(c) ==
  /\ Calls(c, "saveNonce")
  /\ tokens' = Put(tokens, StoreKey(loc[c].nonce), NonceState,
                   EffectiveExpiresAt(NonceState, now, NonceTimeout))
  /\ Succeed(c, {loc[c].nonce}, {})
  /\ UNCHANGED sessions

\* Without AtomicStore the kind is looked at before the consumption, in a call of
\* its own: what may not be consumed is answered as it is.
PeekNonce(c) ==
  /\ Calls(c, "peekNonce")
  /\ LET entry == tokens[StoreKey(loc[c].nonce)] IN
       IF entry = NoEntry THEN Fail(c)
       ELSE IF Consumable(entry.state, {"nonce"}, now) THEN Go(c, "nonce", loc[c])
       ELSE Go(c, "judgeNonce", [loc[c] EXCEPT !.snap = entry.state])
  /\ UNCHANGED store

\* The kinds consumeTokenState tells the store to consume.
ConsumedKinds(kind) == IF Atomic THEN {kind} ELSE TokenKind

\* The store's atomic consumption; the answer is judged in the next step.
ConsumeNonceState(c) ==
  /\ Calls(c, "nonce")
  /\ LET k == StoreKey(loc[c].nonce) IN
       IF tokens[k] = NoEntry
         THEN Fail(c) /\ UNCHANGED tokens
         ELSE /\ tokens' = Consume(tokens, k, ConsumedKinds("nonce"), now)
              /\ Go(c, "judgeNonce", [loc[c] EXCEPT !.snap = tokens[k].state])
  /\ UNCHANGED sessions

\* Wrong kind, replayed, not active or expired meanwhile: an error.
JudgeNonce(c) ==
  /\ pc[c] = "judgeNonce"
  /\ LET s == loc[c].snap IN
       IF s.kind # "nonce" \/ ~IsActive(s, now)
         THEN Fail(c)
         ELSE /\ Redeem(loc[c].nonce)
              /\ IF loc[c].op \in LoginOps
                   THEN /\ pc' = [pc EXCEPT ![c] = LoginEntry]
                        /\ loc' = [loc EXCEPT ![c].snap = NoEntry]
                        /\ UNCHANGED <<now, ctx, issued, dead, budget>>
                   ELSE /\ Leave(c)
                        /\ dead' = dead \cup {StoreKey(loc[c].nonce)}
                        /\ UNCHANGED <<issued, budget>>
  /\ UNCHANGED store

-----------------------------------------------------------------------------
(* login: shared by Login, LoginWithRefresh and Refresh.                    *)

KeepsRefresh(c) == loc[c].op = "Refresh" /\ ~RotateRefreshToken

\* Mutant: only the tokens of the device that logs in are replaced.
ReplaceOnDevice(c) ==
  /\ Calls(c, "replace")
  /\ tokens' = Drop(tokens, {k \in OfSubject(tokens, loc[c].subject, {"access"}) :
                               tokens[k].state.device = loc[c].device})
  /\ Go(c, IF ~RevokeRefreshOnLogout THEN "saveAccess"
           ELSE IF KeepsRefresh(c) THEN "findOthers" ELSE "replaceRefresh",
        [loc[c] EXCEPT !.at = now])
  /\ UNCHANGED sessions

\* Concurrent=false: the subject's access tokens go first...
Replace(c) ==
  /\ Calls(c, "replace")
  /\ tokens' = Drop(tokens, OfSubject(tokens, loc[c].subject, {"access"}))
  /\ Go(c, IF ~RevokeRefreshOnLogout THEN "saveAccess"
           ELSE IF KeepsRefresh(c) THEN "findOthers" ELSE "replaceRefresh",
        [loc[c] EXCEPT !.at = now])
  /\ UNCHANGED sessions

\* ...then its refresh tokens, all of them...
ReplaceRefresh(c) ==
  /\ Calls(c, "replaceRefresh")
  /\ tokens' = Drop(tokens, OfSubject(tokens, loc[c].subject, {"refresh"}))
  /\ Go(c, "saveAccess", loc[c])
  /\ UNCHANGED sessions

\* ...or all but the one a non-rotating refresh works with, one by one.
FindOthers(c) ==
  /\ Calls(c, "findOthers")
  /\ LET others == OfSubject(tokens, loc[c].subject, {"refresh"}) \ {StoreKey(loc[c].ref)}
     IN  Go(c, IF others = {} THEN "saveAccess" ELSE "deleteOthers",
            [loc[c] EXCEPT !.todo = others])
  /\ UNCHANGED store

DeleteOthers(c) ==
  /\ Calls(c, "deleteOthers")
  /\ \E k \in loc[c].todo :
       /\ tokens' = Drop(tokens, {k})
       /\ Go(c, IF loc[c].todo = {k} THEN "saveAccess" ELSE "deleteOthers",
             [loc[c] EXCEPT !.todo = @ \ {k}])
  /\ UNCHANGED sessions

LoginDevice(c) ==
  IF loc[c].op = "Refresh" /\ loc[c].device = NoDevice THEN loc[c].snap.device
                                                        ELSE loc[c].device

SaveAccess(c) ==
  /\ Calls(c, "saveAccess")
  /\ LET state == AccessState(loc[c].subject, LoginDevice(c),
                              IF Concurrent THEN now ELSE loc[c].at)
     IN  tokens' = Put(tokens, StoreKey(loc[c].acc), state,
                       EffectiveExpiresAt(state, now, Timeout))
  /\ Go(c, "session", [loc[c] EXCEPT !.ttl = Timeout])
  /\ UNCHANGED sessions

\* syncSessionTTL: EnsureSession on the subject, which must not be empty, or a read
\* and a save, of which the last call is the step (sessions here are deadlines only).
SyncSession(c) ==
  /\ Calls(c, "session")
  /\ UNCHANGED tokens
  /\ IF loc[c].subject = NoSubject
       THEN Fail(c) /\ UNCHANGED sessions
       ELSE /\ sessions' = [sessions EXCEPT ![loc[c].subject] =
                              DeadlineAfter(now, loc[c].ttl)]
            /\ CASE loc[c].op = "LoginWithRefresh" -> Go(c, "saveRefresh", loc[c])
                 [] loc[c].op = "Refresh" -> Go(c, "saveNext", loc[c])
                 [] loc[c].op = "Login" -> Succeed(c, {loc[c].acc}, loc[c].covered)
                 [] OTHER -> Succeed(c, {}, {})

\* LoginWithRefresh: the refresh token is stored last.
SaveRefresh(c) ==
  /\ Calls(c, "saveRefresh")
  /\ LET state == NewRefreshState(loc[c].subject, loc[c].device,
                                  StoreKey(loc[c].acc), NoKey)
     IN  tokens' = Put(tokens, StoreKey(loc[c].ref), state,
                       EffectiveExpiresAt(state, now, RemainingTTL(state, now)))
  /\ Succeed(c, {loc[c].acc, loc[c].ref}, loc[c].covered)
  /\ UNCHANGED sessions

-----------------------------------------------------------------------------
(* Refresh.                                                                *)

UsableRefresh(state) == state.kind = "refresh" /\ state.status = "active"

\* validateNextAccessToken, against the access token the refresh token names.
ValidNext(c, state) ==
  /\ ~(RotateRefreshToken /\ StoreKey(loc[c].next) = state.access)
  /\ ~(RevokeAccessTokenOnRefresh /\ StoreKey(loc[c].acc) = state.access)

ClaimEntry == IF Atomic THEN "claim" ELSE "peekClaim"

LoadRefresh(c) ==
  /\ Calls(c, "load")
  /\ LET entry == tokens[StoreKey(loc[c].ref)] IN
       IF entry # NoEntry /\ UsableRefresh(entry.state) /\ ValidNext(c, entry.state)
         THEN Go(c, ClaimEntry, [loc[c] EXCEPT !.snap = entry.state,
                                               !.cur = StoreKey(loc[c].ref)])
         ELSE Fail(c)
  /\ UNCHANGED store

\* The look at the token that precedes its consumption without AtomicStore.
PeekRefresh(c) ==
  /\ Calls(c, "peekClaim")
  /\ LET entry == tokens[StoreKey(loc[c].ref)] IN
       IF entry # NoEntry /\ Consumable(entry.state, {"refresh"}, now)
         THEN Go(c, "claim", loc[c])
         ELSE Fail(c)
  /\ UNCHANGED store

AfterClaim == IF RevokeAccessTokenOnRefresh THEN "revokeOld" ELSE LoginEntry

\* Mutant: the claim is judged by the state that was loaded before it.
ClaimFromSnapshot(c) ==
  /\ Calls(c, "claim")
  /\ tokens[StoreKey(loc[c].ref)] # NoEntry
  /\ tokens' = Consume(tokens, StoreKey(loc[c].ref), {"refresh"}, now)
  /\ Go(c, AfterClaim, [loc[c] EXCEPT !.subject = loc[c].snap.subject])
  /\ UNCHANGED sessions

\* The claim: of all refreshes of a token at most one gets the active state.
ClaimRefresh(c) ==
  /\ Calls(c, "claim")
  /\ LET k     == StoreKey(loc[c].ref)
         entry == tokens[k]
     IN  IF entry = NoEntry
           THEN Fail(c) /\ UNCHANGED tokens
           ELSE /\ tokens' = Consume(tokens, k, ConsumedKinds("refresh"), now)
                /\ IF ~UsableRefresh(entry.state) THEN Fail(c)
                   ELSE LET claimed == [loc[c] EXCEPT !.snap = entry.state,
                                                      !.subject = entry.state.subject]
                        IN  IF ValidNext(c, entry.state) THEN Go(c, AfterClaim, claimed)
                            ELSE IF RotateRefreshToken THEN Fail(c)
                            ELSE Go(c, "restore", claimed)
  /\ UNCHANGED sessions

\* The snapshot had expired when the Manager looked at it: no release is due.
ClaimExpired(c) ==
  /\ loc[c].op = "Refresh"
  /\ pc[c] = AfterClaim
  /\ IsExpired(loc[c].snap, now)
  /\ Fail(c)
  /\ UNCHANGED store

\* Mutant: the key of the refresh token is deleted instead.
RevokeOldRefresh(c) ==
  /\ Calls(c, "revokeOld")
  /\ tokens' = Drop(tokens, {loc[c].cur})
  /\ Go(c, LoginEntry, loc[c])
  /\ UNCHANGED sessions

RevokeOldAccess(c) ==
  /\ Calls(c, "revokeOld")
  /\ tokens' = Drop(tokens, {loc[c].snap.access})
  /\ Go(c, LoginEntry, loc[c])
  /\ UNCHANGED sessions

Replaced(c) ==
  IF RevokeAccessTokenOnRefresh THEN {loc[c].snap.access} ELSE {}

\* Rotation: a new refresh token, linked to the new access token.
SaveRotated(c) ==
  /\ RotateRefreshToken
  /\ Calls(c, "saveNext")
  /\ LET state == NewRefreshState(loc[c].subject, LoginDevice(c),
                                  StoreKey(loc[c].acc), StoreKey(loc[c].ref))
     IN  tokens' = Put(tokens, StoreKey(loc[c].next), state,
                       EffectiveExpiresAt(state, now, RemainingTTL(state, now)))
  /\ Leave(c)
  /\ issued' = issued \cup {loc[c].acc, loc[c].next}
  /\ dead' = dead \cup {StoreKey(loc[c].ref)} \cup Replaced(c)
  /\ Redeem(loc[c].ref)
  /\ UNCHANGED <<sessions, budget>>

\* The claimed state as the store holds it while nobody has changed it.
ClaimedState(c) == MarkConsumed(loc[c].snap)

\* updateTokenState: a compare-and-swap, or a plain save that finds out nothing.
MayUpdate(k, expected) == Atomic => Matches(tokens, k, expected, now)

\* Mutant: a plain save.
SwapBlind(c, state) ==
  tokens' = Put(tokens, StoreKey(loc[c].ref), state,
                EffectiveExpiresAt(state, now, RemainingTTL(state, now)))

SwapRefresh(c, state) ==
  IF MayUpdate(StoreKey(loc[c].ref), ClaimedState(c))
    THEN tokens' = Put(tokens, StoreKey(loc[c].ref), state,
                       EffectiveExpiresAt(state, now, RemainingTTL(state, now)))
    ELSE UNCHANGED tokens

\* Mutant: the refresh token goes on naming the old access token.
SaveReusedUnlinked(c) ==
  /\ ~RotateRefreshToken
  /\ Calls(c, "saveNext")
  /\ SwapRefresh(c, Touch(loc[c].snap))
  /\ IF MayUpdate(StoreKey(loc[c].ref), ClaimedState(c))
       THEN Succeed(c, {loc[c].acc}, Replaced(c) \ {StoreKey(loc[c].acc)})
       ELSE Go(c, "rollback", loc[c])
  /\ UNCHANGED sessions

\* No rotation: the claim ends by swapping the refresh token back to active,
\* naming the new access token, unless it was revoked or deleted meanwhile.
SaveReused(c) ==
  /\ ~RotateRefreshToken
  /\ Calls(c, "saveNext")
  /\ SwapRefresh(c, [Touch(loc[c].snap) EXCEPT !.access = StoreKey(loc[c].acc),
                                               !.device = LoginDevice(c)])
  /\ IF MayUpdate(StoreKey(loc[c].ref), ClaimedState(c))
       THEN Succeed(c, {loc[c].acc}, Replaced(c) \ {StoreKey(loc[c].acc)})
       ELSE Go(c, "rollback", loc[c])
  /\ UNCHANGED sessions

-----------------------------------------------------------------------------
(* Failure.                                                                *)

\* Mutant: the release is called off before the last save, not after it.
OwesReleaseEarly(c) ==
  /\ loc[c].op = "Refresh"
  /\ ~RotateRefreshToken
  /\ pc[c] \notin {"idle", "load", "peekClaim", "claim", "restore", "saveNext", "rollback"}

\* The deferred release is installed once a reusable refresh token is claimed.
OwesRelease(c) ==
  /\ loc[c].op = "Refresh"
  /\ ~RotateRefreshToken
  /\ pc[c] \notin {"idle", "load", "peekClaim", "claim", "restore"}

GiveUp(c) == IF OwesRelease(c) THEN Go(c, "restore", loc[c]) ELSE Fail(c)

\* Mutant: the new access token stays.
RollbackNothing(c) == Calls(c, "rollback") /\ GiveUp(c) /\ UNCHANGED store

\* The new access token is deleted; whether that works is not looked at.
Rollback(c) ==
  /\ Calls(c, "rollback")
  /\ tokens' = Drop(tokens, {StoreKey(loc[c].acc)})
  /\ GiveUp(c)
  /\ UNCHANGED sessions

\* Mutant: the snapshot is saved over whatever is there.
RestoreBlind(c) ==
  /\ Calls(c, "restore")
  /\ tokens' = Put(tokens, StoreKey(loc[c].ref), loc[c].snap,
                   EffectiveExpiresAt(loc[c].snap, now, RemainingTTL(loc[c].snap, now)))
  /\ Fail(c)
  /\ UNCHANGED sessions

RestoreRefresh(c) ==
  /\ Calls(c, "restore")
  /\ SwapRefresh(c, loc[c].snap)
  /\ Fail(c)
  /\ UNCHANGED sessions

\* A call answers with an error and no effect: because the context is done, or
\* because the store failed it.
CallError(c) ==
  /\ pc[c] \notin {"idle", "judgeNonce"}
  /\ IF pc[c] \in {"saveRefresh", "saveNext"}
       THEN pc' = [pc EXCEPT ![c] = "rollback"] /\ UNCHANGED <<loc, ctx>>
       ELSE IF OwesRelease(c)
       THEN pc' = [pc EXCEPT ![c] = "restore"] /\ UNCHANGED <<loc, ctx>>
       ELSE Leave(c)
  /\ \/ ctx[c] = "done" /\ pc[c] # "restore" /\ UNCHANGED faults
     \/ faults < MaxFaults /\ faults' = faults + 1
  /\ UNCHANGED <<now, store, ghost, used, recycled, started, cancels, crashes>>

-----------------------------------------------------------------------------
(* Lookup, renewal, online marks and logout.                                *)

Get(c) ==
  /\ Calls(c, "get")
  /\ LET entry == tokens[loc[c].cur]
         op    == loc[c].op
         found == [loc[c] EXCEPT !.snap = entry.state, !.subject = entry.state.subject]
     IN  IF entry = NoEntry THEN Fail(c)
         ELSE IF entry.state.status # "active" THEN Fail(c)
         ELSE IF op \in {"MarkOnline", "MarkOffline"} /\ entry.state.kind # "access"
                THEN Fail(c)
         ELSE IF op = "Logout" THEN Go(c, "deleteAccess", found)
         ELSE IF op = "GetTokenState" /\ ~(AutoRenew /\ entry.state.kind = "access")
                THEN Succeed(c, {}, {})
         ELSE Go(c, "update", found)
  /\ UNCHANGED store

\* The token expired after it was read: it is deleted and reported missing.
EvictExpired(c) ==
  /\ pc[c] \in {"deleteAccess", "update", ClaimEntry}
  /\ loc[c].op # "LogoutByDevice"
  /\ ctx[c] = "live"
  /\ IsExpired(loc[c].snap, now)
  /\ tokens' = Drop(tokens, {loc[c].cur})
  /\ Fail(c)
  /\ UNCHANGED sessions

\* What Renew, AutoRenew, MarkOnline and MarkOffline write.
Updated(c) ==
  LET s == loc[c].snap IN
  CASE loc[c].op = "Renew" ->
         [Touch(s) EXCEPT !.expiresAt = DeadlineAfter(now, loc[c].ttl)]
    [] loc[c].op = "GetTokenState" ->
         [Touch(s) EXCEPT !.expiresAt = IF ActiveTimeout > 0 THEN now + ActiveTimeout ELSE @]
    [] loc[c].op = "MarkOnline" -> MarkOnline(s)
    [] OTHER -> MarkOffline(s)

\* Mutant: a plain save of the state that was read.
UpdateBlind(c) ==
  /\ Calls(c, "update")
  /\ tokens' = Put(tokens, loc[c].cur, Updated(c),
                   EffectiveExpiresAt(Updated(c), now, RemainingTTL(Updated(c), now)))
  /\ Succeed(c, {}, {})
  /\ UNCHANGED sessions

\* updateTokenState: a compare-and-swap against the state that was read.
Update(c) ==
  /\ Calls(c, "update")
  /\ LET next == Updated(c)
         ttl  == IF loc[c].op = "Renew" THEN loc[c].ttl ELSE RemainingTTL(next, now)
     IN  IF MayUpdate(loc[c].cur, loc[c].snap)
           THEN /\ tokens' = Put(tokens, loc[c].cur, next,
                                 EffectiveExpiresAt(next, now, ttl))
                /\ IF loc[c].op \in {"Renew", "GetTokenState"}
                     THEN Go(c, "session", [loc[c] EXCEPT !.ttl = ttl])
                     ELSE Succeed(c, {}, {})
           ELSE UNCHANGED tokens /\ Fail(c)
  /\ UNCHANGED sessions

DeleteAccess(c) ==
  /\ Calls(c, "deleteAccess")
  /\ loc[c].op = "Logout"
  /\ tokens' = Drop(tokens, {loc[c].cur})
  /\ IF RevokeRefreshOnLogout THEN Go(c, "findLinked", loc[c])
                              ELSE Succeed(c, {}, {loc[c].cur})
  /\ UNCHANGED sessions

\* The next device session to log out, or the end of the flow.
LinkedDone(c, todo) ==
  IF todo # {} THEN Go(c, "deleteLinked", [loc[c] EXCEPT !.todo = todo])
  ELSE IF loc[c].targets # {} THEN Go(c, "deleteAccess", [loc[c] EXCEPT !.todo = {}])
  ELSE Succeed(c, {}, loc[c].covered \cup
                      (IF loc[c].op = "Logout" THEN {loc[c].cur} ELSE {}))

\* Mutant: the links are looked for in the wrong field.
FindRotated(c) ==
  /\ Calls(c, "findLinked")
  /\ LinkedDone(c, {k \in OfSubject(tokens, loc[c].subject, {"refresh"}) :
                      tokens[k].state.rotatedFrom = loc[c].cur})
  /\ UNCHANGED store

\* revokeRefreshForAccessToken works on a snapshot of the links.
FindLinked(c) ==
  /\ Calls(c, "findLinked")
  /\ LinkedDone(c, {k \in OfSubject(tokens, loc[c].subject, {"refresh"}) :
                      tokens[k].state.access = loc[c].cur})
  /\ UNCHANGED store

DeleteLinked(c) ==
  /\ Calls(c, "deleteLinked")
  /\ \E k \in loc[c].todo :
       /\ tokens' = Drop(tokens, {k})
       /\ LinkedDone(c, loc[c].todo \ {k})
  /\ UNCHANGED sessions

FindDevice(c) ==
  /\ Calls(c, "findDevice")
  /\ LET found == {k \in OfSubject(tokens, loc[c].subject, {"access"}) :
                     tokens[k].state.device = loc[c].device}
     IN  IF found = {} THEN Succeed(c, {}, loc[c].covered)
         ELSE Go(c, "deleteAccess", [loc[c] EXCEPT !.targets = found])
  /\ UNCHANGED store

DeleteOnDevice(c) ==
  /\ Calls(c, "deleteAccess")
  /\ loc[c].op = "LogoutByDevice"
  /\ \E k \in loc[c].targets :
       LET rest == loc[c].targets \ {k} IN
       /\ tokens' = Drop(tokens, {k})
       /\ IF RevokeRefreshOnLogout
            THEN Go(c, "findLinked", [loc[c] EXCEPT !.targets = rest, !.cur = k])
            ELSE IF rest # {} THEN Go(c, "deleteAccess", [loc[c] EXCEPT !.targets = rest])
            ELSE Succeed(c, {}, loc[c].covered)
  /\ UNCHANGED sessions

LogoutAccess(c) ==
  /\ Calls(c, "logoutAccess")
  /\ tokens' = Drop(tokens, OfSubject(tokens, loc[c].subject, {"access"}))
  /\ IF RevokeRefreshOnLogout THEN Go(c, "logoutRefresh", loc[c])
     ELSE IF loc[c].dropSession THEN Go(c, "dropSession", loc[c])
     ELSE Succeed(c, {}, loc[c].covered)
  /\ UNCHANGED sessions

LogoutRefresh(c) ==
  /\ Calls(c, "logoutRefresh")
  /\ tokens' = Drop(tokens, OfSubject(tokens, loc[c].subject, {"refresh"}))
  /\ IF loc[c].dropSession THEN Go(c, "dropSession", loc[c])
                           ELSE Succeed(c, {}, loc[c].covered)
  /\ UNCHANGED sessions

DropSession(c) ==
  /\ Calls(c, "dropSession")
  /\ sessions' = [sessions EXCEPT ![loc[c].subject] = NoEntry]
  /\ Succeed(c, {}, loc[c].covered)
  /\ UNCHANGED tokens

RevokeAll(c) ==
  /\ Calls(c, "revokeAll")
  /\ tokens' = Drop(tokens, OfSubject(tokens, loc[c].subject, {"refresh"}))
  /\ Succeed(c, {}, loc[c].covered)
  /\ UNCHANGED sessions

\* RevokeRefreshToken reads any refresh token, claimed ones included...
GetRefresh(c) ==
  /\ Calls(c, "getRefresh")
  /\ LET entry == tokens[StoreKey(loc[c].ref)] IN
       IF entry = NoEntry THEN Fail(c)
       ELSE IF entry.state.kind # "refresh" THEN Fail(c)
       ELSE Go(c, "revoke", [loc[c] EXCEPT !.snap = entry.state])
  /\ UNCHANGED store

\* ...and swaps what it read for the revoked state, or reports an error.
Revoke(c) ==
  /\ Calls(c, "revoke")
  /\ LET k    == StoreKey(loc[c].ref)
         next == MarkRevoked(loc[c].snap)
     IN  IF MayUpdate(k, loc[c].snap)
           THEN /\ tokens' = Put(tokens, k, next,
                                 EffectiveExpiresAt(next, now, RemainingTTL(next, now)))
                /\ Succeed(c, {}, {k})
           ELSE UNCHANGED tokens /\ Fail(c)
  /\ UNCHANGED sessions

-----------------------------------------------------------------------------
(* The environment.                                                        *)

\* Time passes.  The contract lets an expired entry vanish at any moment, and
\* every flow judges what it read by its own clock: it vanishes here.
Tick ==
  /\ now < MaxTime
  /\ now' = now + 1
  /\ tokens' = Drop(tokens, Stored(tokens) \ Live(tokens, now + 1))
  /\ sessions' = [s \in Subject |->
                    IF sessions[s] # NoEntry /\ Passed(sessions[s], now + 1)
                      THEN NoEntry ELSE sessions[s]]
  /\ UNCHANGED <<pc, loc, ctx, ghost, budget>>

\* The context of a request is done: deadline, disconnect.
Cancel(c) ==
  /\ pc[c] # "idle"
  /\ ctx[c] = "live"
  /\ cancels < MaxCancels
  /\ ctx' = [ctx EXCEPT ![c] = "done"]
  /\ cancels' = cancels + 1
  /\ UNCHANGED <<now, store, pc, loc, ghost, used, recycled, started, faults, crashes>>

\* The process serving a request dies; what it wrote to the store stays.
Crash(c) ==
  /\ pc[c] # "idle"
  /\ crashes < MaxCrashes
  /\ crashes' = crashes + 1
  /\ Leave(c)
  /\ UNCHANGED <<store, ghost, used, recycled, started, faults, cancels>>

Start(c) ==
  \/ Login(c) \/ LoginWithRefresh(c) \/ Refresh(c) \/ Lookup(c)
  \/ LogoutByLoginID(c) \/ LogoutByDevice(c)
  \/ RevokeRefreshToken(c) \/ RevokeRefreshByLoginID(c)
  \/ GenerateNonce(c) \/ ConsumeNonce(c)

LoginStep(c) ==
  \/ SaveNonce(c) \/ PeekNonce(c) \/ ConsumeNonceState(c) \/ JudgeNonce(c)
  \/ Replace(c) \/ ReplaceRefresh(c) \/ FindOthers(c) \/ DeleteOthers(c)
  \/ SaveAccess(c) \/ SyncSession(c) \/ SaveRefresh(c)

RefreshStep(c) ==
  \/ LoadRefresh(c) \/ PeekRefresh(c) \/ ClaimRefresh(c) \/ ClaimExpired(c) \/ RevokeOldAccess(c)
  \/ SaveRotated(c) \/ SaveReused(c) \/ Rollback(c) \/ RestoreRefresh(c)

AccessStep(c) ==
  \/ Get(c) \/ EvictExpired(c) \/ Update(c)
  \/ DeleteAccess(c) \/ FindLinked(c) \/ DeleteLinked(c)
  \/ FindDevice(c) \/ DeleteOnDevice(c)
  \/ LogoutAccess(c) \/ LogoutRefresh(c) \/ DropSession(c)
  \/ RevokeAll(c) \/ GetRefresh(c) \/ Revoke(c)

Step(c) == LoginStep(c) \/ RefreshStep(c) \/ AccessStep(c) \/ CallError(c)

Init ==
  /\ setup \in Setups
  /\ now = 0
  /\ tokens = [k \in Token |-> NoEntry]
  /\ sessions = [s \in Subject |-> NoEntry]
  /\ pc = [c \in Client |-> "idle"]
  /\ loc = [c \in Client |-> Blank]
  /\ ctx = [c \in Client |-> "live"]
  /\ issued = {} /\ used = {} /\ recycled = {} /\ dead = {}
  /\ redeemed = [t \in TokenValue |-> 0]
  /\ started = 0 /\ faults = 0 /\ cancels = 0 /\ crashes = 0

Next ==
  /\ UNCHANGED setup
  /\ \/ Tick
     \/ \E c \in Client : Start(c) \/ Step(c) \/ Cancel(c) \/ Crash(c)

Spec == Init /\ [][Next]_vars

\* The scheduler runs every goroutine; it need not start requests.
FairSpec == Spec /\ \A c \in Client : WF_vars(Step(c) /\ UNCHANGED setup)

-----------------------------------------------------------------------------
TokenState == [kind : TokenKind, subject : Subject \cup {NoSubject},
               device : Device \cup {NoDevice}, status : TokenStatus,
               expiresAt : Deadline, lastActive : Nat,
               access : Token \cup {NoKey}, rotatedFrom : Token \cup {NoKey},
               online : SUBSET {"online", "offline"}]

Entry == [state : TokenState, expiresAt : Deadline]

\* What stands for a token that is not stored is no entry of the store.
ASSUME AbsentIsNoEntry == NoEntry \notin Entry

Labels == {"idle", "peekNonce", "peekClaim", "nonce", "judgeNonce", "saveNonce", "replace", "replaceRefresh",
           "findOthers", "deleteOthers", "saveAccess", "session", "saveRefresh",
           "load", "claim", "revokeOld", "saveNext", "rollback", "restore",
           "get", "update", "deleteAccess", "findLinked", "deleteLinked",
           "findDevice", "logoutAccess", "logoutRefresh", "dropSession",
           "revokeAll", "getRefresh", "revoke"}

AnyToken == TokenValue \cup {NoToken}

Locals == [op : Ops \cup {"none"}, acc : AnyToken, ref : AnyToken,
           next : AnyToken, nonce : AnyToken, subject : Subject \cup {NoSubject},
           device : Device \cup {NoDevice}, ttl : Nat, dropSession : BOOLEAN,
           at : Nat, snap : TokenState \cup {NoEntry}, cur : Token \cup {NoKey},
           todo : SUBSET Token, targets : SUBSET Token, covered : SUBSET Token]

\* Every variable has its type: what the store holds, what a request remembers
\* between two store calls of its flow, and what the history records.  Only one-time
\* tokens are ever marked consumed, whatever kind a caller presents.
TypeOK ==
  /\ setup \in Setups
  /\ now \in Nat
  /\ tokens \in [Token -> Entry \cup {NoEntry}]
  /\ \A k \in Stored(tokens) : tokens[k].state.status = "consumed"
                                => tokens[k].state.kind \in {"refresh", "nonce"}
  /\ sessions \in [Subject -> Deadline \cup {NoEntry}]
  /\ pc \in [Client -> Labels]
  /\ loc \in [Client -> Locals]
  /\ ctx \in [Client -> {"live", "done"}]
  /\ issued \subseteq TokenValue
  /\ used \subseteq TokenValue
  /\ recycled \subseteq issued
  /\ dead \subseteq Token
  /\ redeemed \in [TokenValue -> 0 .. 2]
  /\ {started, faults, cancels, crashes} \subseteq Nat

Usable(k) == tokens[k] # NoEntry /\ tokens[k].state.status = "active"

AllIdle == \A c \in Client : pc[c] = "idle"

\* No call failed, no context was done and no process died so far.
Undisturbed == faults = 0 /\ cancels = 0 /\ crashes = 0

\* Nothing compares a new token with those of the past, so whoever offers an old one
\* as new, and is not refused, brings it back (core/refresh.go: Refresh saves over it).
\* What the properties below say of a token, they say of one that no caller did this to.
Recycled == {StoreKey(t) : t \in recycled}

\* What a returned call promised dead stays dead: the tokens a logout covered, a
\* revoked or rotated refresh token, the access token a refresh replaced, a
\* consumed nonce.  Renewals, online marks, the release of a claim and the end
\* of a reusable refresh all write tokens back from older snapshots.
DeadStaysDead == \A k \in dead \ Recycled : ~Usable(k)

\* Once an access token is logged out or replaced, no usable refresh token is
\* linked to it: the session it belonged to cannot be continued
\* (revokeRefreshForAccessToken, revokeRefreshExcept).
LogoutSeversRefresh ==
  RevokeRefreshOnLogout =>
    \A k \in Stored(tokens) :
      Usable(k) /\ tokens[k].state.kind = "refresh" =>
        tokens[k].state.access \notin dead \ Recycled

\* The same for a logout by device once all is quiet and no call failed: while
\* one runs, another that finds the access token gone already may return first.
QuietLogoutSevers == AllIdle /\ Undisturbed => LogoutSeversRefresh

\* A nonce, and under rotation a refresh token, is redeemed at most once,
\* whatever is presented at the same time and however often it is retried.
RedeemedOnce == \A t \in TokenValue \ recycled : redeemed[t] <= 1

\* Rotation is a chain: the predecessor of a stored refresh token is unusable,
\* and no two refresh tokens descend from the same one.  A refresh that is given an
\* earlier token of the chain as the next one makes that one usable again, the
\* successor of its own successor; of other tokens the chain stays one.
RotationIsLinear ==
  \A j \in Stored(tokens) :
    LET from == tokens[j].state.rotatedFrom IN
    from \notin Recycled \cup {NoKey} =>
      /\ ~Usable(from)
      /\ \A k \in Stored(tokens) : tokens[k].state.rotatedFrom = from => k = j

Claimed(c, r) ==
  /\ loc[c].op = "Refresh"
  /\ loc[c].ref = r
  /\ pc[c] \notin {"idle", "load", "peekClaim", "claim"}

\* While a refresh holds the claim on a token nobody else holds it, and nobody
\* can use the token: the losers touch neither access token nor session.
ClaimExclusive ==
  \A r \in issued \ recycled : \A c \in Client :
    Claimed(c, r) => /\ ~Usable(StoreKey(r))
                     /\ \A d \in Client : Claimed(d, r) => d = c

\* When nothing failed, a request that ended without success left no access
\* token behind: whatever is stored once all is quiet was handed to a caller.
NoOrphanAccess ==
  AllIdle /\ Undisturbed =>
    \A t \in TokenValue : tokens[StoreKey(t)] # NoEntry => t \in issued

\* Flows that delete what a subject has by then, tokens of a login in flight included.
Sweeping == ~Concurrent \/ Ops \cap {"LogoutByLoginID", "LogoutByDevice"} # {}

\* When nothing failed and nothing sweeps a subject, a usable refresh token names an
\* access token that is still there, unless that one was logged out: the loser of a
\* concurrent refresh does not invalidate the access token of the winner.
RefreshHasAccess ==
  AllIdle /\ Undisturbed /\ Timeout = 0 /\ ~Sweeping =>
    \A k \in Stored(tokens) :
      Usable(k) /\ tokens[k].state.kind = "refresh" =>
        \/ tokens[tokens[k].state.access] # NoEntry
        \/ tokens[k].state.access \in dead \cup Recycled

\* A token that was handed out and is gone is never stored again: no flow
\* writes a token back after a logout or an expiry removed it.
NeverResurrected ==
  [][\A t \in issued \ recycled :
       tokens[StoreKey(t)] = NoEntry => tokens'[StoreKey(t)] = NoEntry]_vars

\* A revoked token stays revoked until it is gone, and a consumed one is only
\* made active by the refresh that claimed it: revocation beats a refresh in
\* flight, and nobody undoes the consumption of a nonce.
RevocationFinal ==
  [][\A k \in Stored(tokens) \ Recycled :
       tokens[k].state.status # "active" /\ tokens'[k] # NoEntry
         /\ tokens'[k].state.status # tokens[k].state.status =>
           \/ tokens'[k].state.status = "revoked"
           \/ /\ tokens[k].state.status = "consumed"
              /\ ~RotateRefreshToken
              /\ \E c \in Client : /\ pc[c] \in {"saveNext", "restore"}
                                   /\ StoreKey(loc[c].ref) = k]_vars

\* An operation that could not store the refresh token leaves no access token,
\* however it failed: the rollback of LoginWithRefresh and Refresh.
RollbackCompletes ==
  [][\A c \in Client :
       pc[c] = "rollback" /\ pc'[c] # "rollback"
         => tokens'[StoreKey(loc[c].acc)] = NoEntry]_vars

\* A refresh succeeds only while the token it claimed is still stored: a logout
\* that removed the token meanwhile wins, and the session does not go on.
LogoutBeatsRefresh ==
  [][\A c \in Client :
       loc[c].op = "Refresh" /\ pc[c] = "saveNext" /\ pc'[c] = "idle" /\ issued' # issued
         => tokens[StoreKey(loc[c].ref)] # NoEntry]_vars

\* A logout by device that found nothing to delete, and returned success, left no
\* usable refresh token of that device (with no login running beside it): a
\* caller whose first attempt failed half-way relies on it when it tries again.
DeviceLogoutRevokes ==
  [][\A c \in Client :
       FindDevice(c) /\ pc'[c] = "idle" /\ RevokeRefreshOnLogout =>
         \A k \in OfSubject(tokens, loc[c].subject, {"refresh"}) :
           Usable(k) => tokens[k].state.device # loc[c].device]_vars

\* The claim on a reusable refresh token is released, even when the context of
\* the request that holds it is done.
ClaimReleased ==
  \A t \in TokenValue :
    (tokens[StoreKey(t)] # NoEntry /\ tokens[StoreKey(t)].state.status = "consumed")
      ~> (tokens[StoreKey(t)] = NoEntry \/ tokens[StoreKey(t)].state.status # "consumed")
=============================================================================
