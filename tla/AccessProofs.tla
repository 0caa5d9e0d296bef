---------------------------- MODULE AccessProofs ----------------------------
(***************************************************************************)
(* What holds of Access for every set of users, tokens, requests and set-ups *)
(* and every bound on the clock: nobody is let through as somebody who did   *)
(* not hold the token while the request was on its way; the authorizers      *)
(* grant what they list; a token this library wrote is the token it reads;   *)
(* and what a check answers was so while it ran.                            *)
(***************************************************************************)
EXTENDS Access, SequenceTheorems, TLAPS

Carried == {"snap", "auth", "token"}

StoreTyped ==
  /\ now \in Nat
  /\ tokens \in [Token -> [state : States, expiresAt : Deadline] \cup {NoEntry}]

\* The parts of a request that say who is asking are there, and a snapshot is a
\* state that was in the store.
Shaped(q) ==
  /\ Carried \subseteq DOMAIN req[q]
  /\ pc[q] \in {"judge", "renew", "sync"} => req[q].snap \in States

\* What a request read about its token was true at some moment since it arrived.
\* Before the judgement that holds of what has not expired since it was read: the
\* clock only advances, so it had not expired then either.
Vouched(q) ==
  LET held_by(s) == <<Head(req[q].token), s>> \in valid[q] IN
  /\ pc[q] = "judge" /\ req[q].snap.kind = "access" /\ ~IsExpired(req[q].snap, now)
       => held_by(req[q].snap.subject)
  /\ pc[q] \in {"renew", "sync"} => held_by(req[q].snap.subject)
  /\ pc[q] = "handler" /\ req[q].auth # NoAuth => held_by(req[q].auth.subject)

Inv ==
  /\ StoreTyped
  /\ DOMAIN pc = Request
  /\ DOMAIN req = Request
  /\ \A q \in Request : Shaped(q) /\ Vouched(q)

-----------------------------------------------------------------------------
\* The operators on the store keep its type.
LEMMA StoreOpsTyped ==
  ASSUME StoreTyped
  PROVE  /\ \A K : Drop(tokens, K) \in [Token -> [state : States, expiresAt : Deadline] \cup {NoEntry}]
         /\ \A k \in Token, s \in States, d \in Deadline :
              Put(tokens, k, s, d) \in [Token -> [state : States, expiresAt : Deadline] \cup {NoEntry}]
         /\ \A k \in Token, s \in States :
              tokens[k] # NoEntry =>
                Rewrite(tokens, k, s) \in [Token -> [state : States, expiresAt : Deadline] \cup {NoEntry}]
  BY DEF StoreTyped, Drop, Put, Rewrite

\* A step of a request leaves a well-typed store: automatic renewal writes back
\* the state it read with another deadline, an expired token is deleted.
LEMMA StepKeepsStore ==
  ASSUME Inv, NEW q \in Request, Step(q)
  PROVE  StoreTyped' /\ now' = now
<1>1. CASE Judge(q)
  BY <1>1, StoreOpsTyped DEF Inv, StoreTyped, Judge
<1>2. CASE Renew(q)
  <2>1. CASE tokens' = tokens
    BY <1>2, <2>1 DEF Renew, Inv, StoreTyped
  <2>2. CASE tokens' # tokens
    <3> DEFINE next == Renewed(req[q].snap)
               until == EffectiveExpiresAt(next, now, RemainingTTL(next, now))
    <3>1. req[q].snap \in States
      BY <1>2 DEF Renew, Inv, Shaped
    <3>2. now \in Nat /\ ActiveTimeout \in Nat
      BY AccessAssumption DEF Inv, StoreTyped
    <3>3. next \in States
      BY <3>1, <3>2 DEF Renewed, States, Deadline
    <3>4. until \in Deadline
      BY <3>2, <3>3 DEF EffectiveExpiresAt, Earlier, DeadlineAfter, RemainingTTL,
                        Deadline, Never, States
    <3>5. /\ Key(q) \in Token
          /\ tokens' = Put(tokens, Key(q), next, until)
      BY <1>2, <2>2 DEF Renew, Matches, Live, Stored
    <3>6. StoreTyped
      BY DEF Inv
    <3> HIDE DEF next, until
    <3> QED
      BY <1>2, <3>2, <3>3, <3>4, <3>5, <3>6, StoreOpsTyped DEF StoreTyped, Renew
  <2> QED
    BY <2>1, <2>2
<1>3. CASE ~Judge(q) /\ ~Renew(q)
  BY <1>3 DEF Step, ArriveHTTP, ArriveBrowser, ArriveGRPC, ArriveUnguarded, Arrive,
              Extract, Get, Sync, Ask, Check, Forward, Fail, End, World, Inv, StoreTyped
<1> QED
  BY <1>1, <1>2, <1>3

\* The flows of other users leave a well-typed store, requests where they are, and
\* the clock no earlier.
LEMMA WorldKeepsStore ==
  ASSUME Inv, Issue \/ Delete \/ Retire \/ Tick \/ Administer
  PROVE  StoreTyped' /\ now' >= now /\ UNCHANGED <<pc, req>>
<1> USE DEF Inv
<1>1. CASE Issue
  <2>1. PICK t \in TokenValue, s \in Issues : tokens' = Put(tokens, StoreKey(t), s, s.expiresAt)
    BY <1>1 DEF Issue
  <2>2. StoreKey(t) \in Token /\ s \in States /\ s.expiresAt \in Deadline
    BY IssueAssumption DEF Token, States
  <2> QED
    BY <1>1, <2>1, <2>2, StoreOpsTyped DEF Issue, StoreTyped
<1>2. CASE Delete
  BY <1>2, StoreOpsTyped DEF Delete, StoreTyped
<1>3. CASE Retire
  <2>1. PICK k \in Stored(tokens) :
          \/ tokens' = Consume(tokens, k, {"refresh"}, now)
          \/ tokens' = Rewrite(tokens, k, MarkRevoked(tokens[k].state))
    BY <1>3 DEF Retire
  <2>2. k \in Token /\ tokens[k] # NoEntry /\ tokens[k].state \in States
    BY DEF Stored, StoreTyped
  <2>3. MarkConsumed(tokens[k].state) \in States /\ MarkRevoked(tokens[k].state) \in States
    BY <2>2 DEF States, MarkConsumed, MarkRevoked, TokenStatus
  <2> QED
    BY <1>3, <2>1, <2>2, <2>3, StoreOpsTyped DEF Retire, Consume, StoreTyped
<1>4. CASE Tick
  BY <1>4, StoreOpsTyped DEF Tick, StoreTyped
<1>5. CASE Administer
  BY <1>5 DEF Administer, StoreTyped
<1> QED
  BY <1>1, <1>2, <1>3, <1>4, <1>5

-----------------------------------------------------------------------------
\* A request that does not move keeps what it is vouched for: what was valid stays
\* noted while it authenticates, and what has not expired had not expired before.
LEMMA Unmoved ==
  ASSUME Inv, StoreTyped', now' >= now, Track, NEW q \in Request,
         pc'[q] = pc[q], req'[q] = req[q]
  PROVE  Shaped(q)' /\ Vouched(q)'
<1>1. Shaped(q)'
  BY DEF Inv, Shaped
<1>2. pc[q] \in Authenticating => valid[q] \subseteq valid'[q]
  BY DEF Track, Authenticating
<1>3. pc[q] = "handler" => valid'[q] = valid[q]
  BY DEF Track, Authenticating
<1>4. ASSUME pc[q] = "judge", IsExpired(req[q].snap, now)
      PROVE  IsExpired(req[q].snap, now')
  <2>1. req[q].snap.expiresAt \in Deadline
    BY <1>4 DEF Inv, Shaped, States
  <2>2. now \in Nat /\ now' \in Nat
    BY DEF Inv, StoreTyped
  <2> QED
    BY <1>4, <2>1, <2>2 DEF IsExpired, Passed, Deadline, Never
<1>5. Vouched(q)
  BY DEF Inv
<1> QED
  BY <1>1, <1>2, <1>3, <1>4, <1>5 DEF Vouched, Authenticating

\* Only the request that takes a step moves.
LEMMA OthersUnmoved ==
  ASSUME Inv, NEW q \in Request, Step(q)
  PROVE  /\ DOMAIN pc' = Request /\ DOMAIN req' = Request
         /\ \A r \in Request \ {q} : pc'[r] = pc[r] /\ req'[r] = req[r]
<1>1. PICK label, known : Go(q, label, known)
  <2>1. CASE ArriveHTTP(q) \/ ArriveBrowser(q) \/ ArriveGRPC(q) \/ ArriveUnguarded(q)
    BY <2>1 DEF ArriveHTTP, ArriveBrowser, ArriveGRPC, ArriveUnguarded, Arrive, Send
  <2>2. CASE Extract(q) \/ Get(q) \/ Judge(q) \/ Renew(q) \/ Sync(q)
    BY <2>2 DEF Extract, Get, Judge, Renew, Sync, Authenticate, Unauthorized, Answer
  <2>3. CASE Ask(q) \/ Check(q) \/ Forward(q) \/ Fail(q) \/ End(q)
    BY <2>3 DEF Ask, Check, Forward, Fail, End, Send, Unauthorized, Answer
  <2> QED
    BY <2>1, <2>2, <2>3 DEF Step
<1> QED
  BY <1>1 DEF Go, Inv

\* The request that moves is where it went, knowing what it was given.
LEMMA Gone ==
  ASSUME Inv, NEW q \in Request, NEW label, NEW known, Go(q, label, known)
  PROVE  pc'[q] = label /\ req'[q] = known
BY DEF Go, Inv

\* Where nothing has been established yet, or any more, there is nothing to vouch for.
LEMMA Elsewhere ==
  ASSUME Inv, NEW q \in Request, NEW label, NEW known, Go(q, label, known),
         label \notin {"judge", "renew", "sync", "handler"},
         Carried \subseteq DOMAIN known
  PROVE  Shaped(q)' /\ Vouched(q)'
BY Gone DEF Shaped, Vouched

\* Get: an active entry was usable by its holder at the moment it was read, if it
\* had not expired.
LEMMA GetVouched ==
  ASSUME Inv, NEW q \in Request, Get(q), Track
  PROVE  Shaped(q)' /\ Vouched(q)'
<1> USE DEF Inv
<1>1. CASE Unauthorized(q)
  BY <1>1 DEF Unauthorized, Answer, Go, Shaped, Vouched, Carried
<1>2. CASE ~Unauthorized(q)
  <2> DEFINE entry == tokens[Key(q)]
  <2>1. /\ pc[q] = "get" /\ Known(q) /\ entry # NoEntry /\ entry.state.status = "active"
        /\ Go(q, "judge", [req[q] EXCEPT !.snap = entry.state])
        /\ UNCHANGED World
    BY <1>2 DEF Get
  <2>2. PICK t \in TokenValue : Key(q) = StoreKey(t)
    BY <2>1 DEF Known, Token
  <2>3. Head(req[q].token) = t
    BY <2>2 DEF Key, StoreKey
  <2>4. entry.state \in States /\ Key(q) \in Token
    BY <2>1, <2>2 DEF StoreTyped, Token
  <2>5. /\ pc'[q] = "judge" /\ req'[q].snap = entry.state /\ req'[q].token = req[q].token
        /\ Carried \subseteq DOMAIN req'[q]
        /\ tokens' = tokens /\ now' = now
    <3>1. pc'[q] = "judge" /\ req'[q] = [req[q] EXCEPT !.snap = entry.state]
      BY <2>1, Gone
    <3>2. Carried \subseteq DOMAIN req[q]
      BY DEF Shaped
    <3> HIDE DEF entry
    <3> QED
      BY <2>1, <3>1, <3>2 DEF World, Carried
  <2>6. Shaped(q)'
    BY <2>4, <2>5 DEF Shaped
  <2>7. ASSUME entry.state.kind = "access", ~IsExpired(entry.state, now)
        PROVE  <<t, entry.state.subject>> \in Usable'
    <3>1. entry.state.subject \in {i.subject : i \in Issues}
      BY <2>4 DEF States
    <3> QED
      BY <2>1, <2>2, <2>5, <2>7, <3>1 DEF Usable, IsActive
  <2>8. Usable' \subseteq valid'[q]
    BY <2>1, <2>5 DEF Track, Authenticating
  <2> QED
    BY <2>3, <2>5, <2>6, <2>7, <2>8 DEF Vouched
<1> QED
  BY <1>1, <1>2

\* Authenticate: the holder the request was vouched for becomes its user.
LEMMA AuthenticateVouched ==
  ASSUME Inv, NEW q \in Request, Authenticate(q), Track, pc[q] \in {"judge", "sync"},
         <<Head(req[q].token), req[q].snap.subject>> \in valid[q]
           \/ req[q].snap.kind # "access"
  PROVE  Shaped(q)' /\ Vouched(q)'
<1> USE DEF Inv
<1>1. CASE Unauthorized(q)
  BY <1>1 DEF Unauthorized, Answer, Go, Shaped, Vouched, Carried
<1>2. CASE ~Unauthorized(q)
  <2>1. /\ pc'[q] = "handler" /\ req'[q].auth.subject = req[q].snap.subject
        /\ req'[q].token = req[q].token
        /\ Carried \subseteq DOMAIN req'[q]
    <3> DEFINE auth == [token |-> Head(req[q].token), subject |-> req[q].snap.subject]
    <3>1. Go(q, "handler", [req[q] EXCEPT !.auth = auth, !.snap = NoEntry])
      BY <1>2 DEF Authenticate
    <3>2. pc'[q] = "handler" /\ req'[q] = [req[q] EXCEPT !.auth = auth, !.snap = NoEntry]
      BY <3>1, Gone
    <3>3. Carried \subseteq DOMAIN req[q] /\ auth.subject = req[q].snap.subject
      BY DEF Shaped
    <3> HIDE DEF auth
    <3> QED
      BY <3>2, <3>3 DEF Carried
  <2>2. valid'[q] = valid[q]
    BY <2>1 DEF Track, Authenticating
  <2>3. req[q].snap.kind = "access"
    BY <1>2 DEF Authenticate
  <2> QED
    BY <2>1, <2>2, <2>3 DEF Shaped, Vouched
<1> QED
  BY <1>1, <1>2

\* The request that takes a step is vouched for afterwards.
LEMMA StepVouched ==
  ASSUME Inv, NEW q \in Request, Step(q), Track
  PROVE  Shaped(q)' /\ Vouched(q)'
<1> USE DEF Inv
<1>0. Carried \subseteq DOMAIN req[q] /\ Carried \subseteq DOMAIN Idle
  BY DEF Shaped, Carried, Idle
<1>sent. ASSUME NEW via, NEW message, NEW token, Send(q, via, message, token)
         PROVE  Shaped(q)' /\ Vouched(q)'
  <2> DEFINE known == [Idle EXCEPT !.via = via, !.message = message, !.sent = token]
  <2>1. Go(q, "arrived", known) /\ DOMAIN known = DOMAIN Idle
    BY <1>sent DEF Send
  <2> HIDE DEF known
  <2> QED
    BY <1>0, <2>1, Elsewhere
<1>1. CASE ArriveHTTP(q) \/ ArriveBrowser(q) \/ ArriveGRPC(q)
  <2>1. CASE ArriveHTTP(q)
    BY <2>1, <1>sent DEF ArriveHTTP, Arrive
  <2>2. CASE ArriveBrowser(q)
    <3>1. PICK t, message : Arrive(q, "http", message, t)
      BY <2>2 DEF ArriveBrowser
    <3> QED
      BY <3>1, <1>sent DEF Arrive
  <2>3. CASE ArriveGRPC(q)
    <3>1. PICK message, token : Arrive(q, "grpc", message, token)
      BY <2>3 DEF ArriveGRPC
    <3> QED
      BY <3>1, <1>sent DEF Arrive
  <2> QED
    BY <1>1, <2>1, <2>2, <2>3
<1>2. CASE ArriveUnguarded(q) \/ End(q)
  BY <1>2 DEF ArriveUnguarded, End, Go, Idle, Shaped, Vouched, Carried
<1>3. CASE Extract(q)
  BY <1>3 DEF Extract, Go, Shaped, Vouched, Carried
<1>4. CASE Get(q)
  BY <1>4, GetVouched
<1>5. CASE Judge(q)
  <2>1. CASE Unauthorized(q)
    BY <2>1 DEF Unauthorized, Answer, Go, Shaped, Vouched, Carried
  <2>2. CASE ~Unauthorized(q)
    <3>1. pc[q] = "judge" /\ ~IsExpired(req[q].snap, now) /\ Vouched(q) /\ Shaped(q)
      BY <1>5, <2>2 DEF Judge
    <3>2. CASE Authenticate(q)
      BY <3>1, <3>2, AuthenticateVouched DEF Vouched
    <3>3. CASE Go(q, "renew", req[q]) /\ req[q].snap.kind = "access"
      <4>1. pc'[q] = "renew" /\ req'[q] = req[q]
        BY <3>3 DEF Go
      <4>2. valid[q] \subseteq valid'[q]
        BY <3>1, <4>1 DEF Track, Authenticating
      <4> QED
        BY <3>1, <3>3, <4>1, <4>2 DEF Shaped, Vouched
    <3> QED
      BY <1>5, <2>2, <3>2, <3>3 DEF Judge
  <2> QED
    BY <2>1, <2>2
<1>6. CASE Renew(q)
  <2>1. CASE Unauthorized(q)
    BY <2>1 DEF Unauthorized, Answer, Go, Shaped, Vouched, Carried
  <2>2. CASE ~Unauthorized(q)
    <3>1. pc[q] = "renew" /\ pc'[q] = "sync" /\ req'[q] = req[q]
      BY <1>6, <2>2 DEF Renew, Go
    <3>2. valid[q] \subseteq valid'[q]
      BY <3>1 DEF Track, Authenticating
    <3> QED
      BY <3>1, <3>2 DEF Shaped, Vouched
  <2> QED
    BY <2>1, <2>2
<1>7. CASE Sync(q)
  BY <1>7, AuthenticateVouched DEF Sync, Vouched
<1>8. CASE Ask(q) \/ Check(q)
  <2>1. CASE Ask(q)
    <3>1. PICK op, list :
            Go(q, "check", [Idle EXCEPT !.auth = req[q].auth, !.op = op,
                                        !.asked = list, !.left = list])
      BY <2>1 DEF Ask
    <3> DEFINE known == [Idle EXCEPT !.auth = req[q].auth, !.op = op,
                                     !.asked = list, !.left = list]
    <3>2. Go(q, "check", known) /\ DOMAIN known = DOMAIN Idle
      BY <3>1
    <3> HIDE DEF known
    <3> QED
      BY <1>0, <3>2, Elsewhere
  <2>2. CASE Check(q)
    <3>1. PICK label, known : /\ label \in {"check", "done"}
                               /\ Go(q, label, known)
                               /\ DOMAIN known = DOMAIN req[q]
      BY <2>2 DEF Check, Answer
    <3> QED
      BY <1>0, <3>1, Elsewhere
  <2> QED
    BY <1>8, <2>1, <2>2
<1>9. CASE Forward(q)
  BY <1>9, <1>sent DEF Forward
<1>10. CASE Fail(q)
  BY <1>10 DEF Fail, Unauthorized, Answer, Go, Shaped, Vouched, Carried
<1> QED
  BY <1>1, <1>2, <1>3, <1>4, <1>5, <1>6, <1>7, <1>8, <1>9, <1>10 DEF Step

-----------------------------------------------------------------------------
LEMMA InitInv == Init => Inv
  BY DEF Init, Inv, StoreTyped, Shaped, Vouched, Idle, Carried

LEMMA NextInv == Inv /\ [Next]_vars => Inv'
<1> SUFFICES ASSUME Inv, [Next]_vars PROVE Inv'
  OBVIOUS
<1>1. CASE Next
  <2>1. Track
    BY <1>1 DEF Next
  <2>2. ASSUME NEW q \in Request, Step(q)
        PROVE  Inv'
    <3>1. StoreTyped' /\ now' >= now
      BY <2>2, StepKeepsStore DEF Inv, StoreTyped
    <3>2. Shaped(q)' /\ Vouched(q)'
      BY <2>1, <2>2, StepVouched
    <3>3. \A r \in Request \ {q} : Shaped(r)' /\ Vouched(r)'
      BY <2>1, <2>2, <3>1, OthersUnmoved, Unmoved
    <3> QED
      BY <2>2, <3>1, <3>2, <3>3, OthersUnmoved DEF Inv
  <2>3. CASE Issue \/ Delete \/ Retire \/ Tick \/ Administer
    <3>1. StoreTyped' /\ now' >= now /\ UNCHANGED <<pc, req>>
      BY <2>3, WorldKeepsStore
    <3>2. \A r \in Request : Shaped(r)' /\ Vouched(r)'
      BY <2>1, <3>1, Unmoved
    <3> QED
      BY <3>1, <3>2 DEF Inv
  <2> QED
    BY <1>1, <2>2, <2>3 DEF Next
<1>2. CASE UNCHANGED vars
  BY <1>2 DEF vars, ghost, Inv, StoreTyped, Shaped, Vouched
<1> QED
  BY <1>1, <1>2

\* For any users, tokens, requests and set-ups: a request is let through as
\* somebody only if its token was a usable access token of that somebody at some
\* moment since the request arrived (getTokenState, Authenticate).
THEOREM ServedCorrectly == Spec => []ServedAsHolder
<1>1. Inv => ServedAsHolder
  BY DEF Inv, Vouched, ServedAsHolder
<1> QED
  BY <1>1, InitInv, NextInv, PTL DEF Spec
-----------------------------------------------------------------------------
(* The authorizers.                                                         *)

\* A suffix wildcard is a prefix of what it grants and a star after it.
LEMMA CoversIsValueMatches ==
  ASSUME NEW granted \in Seq(Char), NEW requested \in Seq(Char)
  PROVE  ValueMatches(granted, requested) <=> Covers(granted, requested)
<1> DEFINE n == Len(granted) - 1
<1>1. ASSUME EndsWithStar(granted), IsPrefix(Front(granted), requested)
      PROVE  n \in 0 .. Len(requested) /\ granted = Append(SubSeq(requested, 1, n), Star)
  <2>1. Len(granted) \in Nat \ {0} /\ granted[Len(granted)] = Star
    BY <1>1 DEF EndsWithStar, Blank, Last
  <2>2. /\ Front(granted) = SubSeq(granted, 1, n)
        /\ Front(granted) \in Seq(Char)
        /\ Len(Front(granted)) = n
        /\ \A i \in 1 .. n : Front(granted)[i] = granted[i]
    <3>1. n \in Nat /\ \A i \in 1 .. n : granted[i] \in Char
      BY <2>1
    <3>2. Front(granted) = SubSeq(granted, 1, n)
      BY DEF Front
    <3> HIDE DEF n
    <3> QED
      BY <3>1, <3>2, SubSeqProperties
  <2>3. n <= Len(requested) /\ SubSeq(Front(granted), 1, n) = SubSeq(requested, 1, n)
    BY <1>1, <2>2 DEF IsPrefix
  <2>4. SubSeq(requested, 1, n) = Front(granted)
    BY <2>2, <2>3, SubSeqFull
  <2>5. /\ Append(Front(granted), Star) \in Seq(Char)
        /\ Len(Append(Front(granted), Star)) = Len(granted)
        /\ \A i \in 1 .. n : Append(Front(granted), Star)[i] = granted[i]
        /\ Append(Front(granted), Star)[Len(granted)] = Star
    BY <2>1, <2>2, AppendProperties, AuthorityAssumption
  <2>6. granted = Append(Front(granted), Star)
    <3> HIDE DEF n
    <3>1. \A i \in 1 .. Len(granted) : i \in 1 .. n \/ i = Len(granted)
      BY <2>1 DEF n
    <3> QED
      BY <2>1, <2>5, <3>1, SeqEqual, Zenon
  <2> QED
    BY <2>1, <2>3, <2>4, <2>6
<1>2. ASSUME NEW m \in 0 .. Len(requested),
             granted = Append(SubSeq(requested, 1, m), Star)
      PROVE  EndsWithStar(granted) /\ IsPrefix(Front(granted), requested)
  <2> DEFINE front == SubSeq(requested, 1, m)
  <2>1. front \in Seq(Char) /\ Len(front) = m
    BY SubSeqProperties
  <2>2. /\ granted # <<>> /\ Len(granted) = m + 1 /\ granted[m + 1] = Star
        /\ \A i \in 1 .. m : granted[i] = front[i]
    <3> HIDE DEF front
    <3>1. granted = Append(front, Star)
      BY <1>2 DEF front
    <3> QED
      BY <2>1, <3>1, AppendProperties, AuthorityAssumption
  <2>3. /\ Front(granted) = SubSeq(granted, 1, m)
        /\ Front(granted) \in Seq(Char) /\ Len(Front(granted)) = m
        /\ \A i \in 1 .. m : Front(granted)[i] = granted[i]
    BY <2>2, SubSeqProperties DEF Front
  <2>4. Front(granted) = front
    <3> HIDE DEF front
    <3> QED
      BY <2>1, <2>2, <2>3, SeqEqual
  <2>5. SubSeq(Front(granted), 1, m) = SubSeq(requested, 1, m)
    BY <2>3, <2>4, SubSeqFull
  <2> QED
    BY <2>2, <2>3, <2>5 DEF EndsWithStar, Blank, Last, IsPrefix
<1> QED
  BY <1>1, <1>2 DEF ValueMatches, Covers

TablesTyped ==
  /\ userRoles \in [LoginID -> SUBSET (Name \ {Blank})]
  /\ rolePermissions \in [Name -> SUBSET (Name \ {Blank})]
  /\ directPermissions \in [LoginID -> SUBSET (Name \ {Blank})]
  /\ authorities \in [LoginID \cup {BlankID} -> SUBSET AnyAuthority]

\* Names given to a user or a role are never blank, whatever an administrator asks.
LEMMA TablesStayTyped ==
  ASSUME TablesTyped, [Next]_vars
  PROVE  TablesTyped'
<1> USE AuthorityAssumption
<1>1. CASE UNCHANGED policy
  BY <1>1 DEF policy, TablesTyped
<1>2. CASE Roles!Administer /\ UNCHANGED authorities
  <2>1. CASE \E u \in Managed, r \in RoleName : Roles!AssignRole(u, r) \/ Roles!RevokeRole(u, r)
    BY <1>2, <2>1 DEF Roles!AssignRole, Roles!RevokeRole, Roles!Blank, Blank, TablesTyped
  <2>2. CASE \E r \in RoleName, p \in PermissionName :
               Roles!GrantPermission(r, p) \/ Roles!RevokePermission(r, p)
    <3>1. PICK r \in RoleName, p \in PermissionName :
            Roles!GrantPermission(r, p) \/ Roles!RevokePermission(r, p)
      BY <2>2
    <3>2. CASE Roles!GrantPermission(r, p)
      BY <1>2, <3>2 DEF Roles!GrantPermission, Roles!Blank, Blank, TablesTyped
    <3>3. CASE Roles!RevokePermission(r, p)
      BY <1>2, <3>3 DEF Roles!RevokePermission, Roles!Blank, Blank, TablesTyped
    <3> QED
      BY <3>1, <3>2, <3>3
  <2>3. CASE \E u \in Managed, P \in SUBSET PermissionName : Roles!SetDirectPermissions(u, P)
    BY <1>2, <2>3 DEF Roles!SetDirectPermissions, Roles!Blank, Blank, TablesTyped
  <2> QED
    BY <1>2, <2>1, <2>2, <2>3 DEF Roles!Administer
<1>3. CASE Direct!Administer /\ UNCHANGED <<userRoles, rolePermissions, directPermissions>>
  <2>1. ASSUME NEW u \in Managed, NEW type, NEW G \in SUBSET AnyAuthority,
               Direct!MergeAuthorities(u, type, G)
        PROVE  TablesTyped'
    BY <1>3, <2>1 DEF Direct!MergeAuthorities, TablesTyped
  <2>2. /\ \A R \in SUBSET RoleName : {Direct!Role(r) : r \in R} \in SUBSET AnyAuthority
        /\ \A P \in SUBSET PermissionName :
             {Direct!Permission(p) : p \in P} \in SUBSET AnyAuthority
    BY DEF Direct!Role, Direct!Permission, AnyAuthority, AuthorityType
  <2>3. CASE \E u \in Managed, R \in SUBSET RoleName : Direct!SetRoles(u, R)
    BY <2>1, <2>2, <2>3 DEF Direct!SetRoles
  <2>4. CASE \E u \in Managed, P \in SUBSET PermissionName : Direct!SetPermissions(u, P)
    BY <2>1, <2>2, <2>4 DEF Direct!SetPermissions
  <2>5. ASSUME NEW u \in Managed, NEW G \in SUBSET AnyAuthority, Direct!SetAuthorities(u, G)
        PROVE  TablesTyped'
    BY <1>3, <2>5 DEF Direct!SetAuthorities, TablesTyped
  <2> QED
    BY <1>3, <2>2, <2>3, <2>4, <2>5 DEF Direct!Administer
<1> QED
  BY <1>1, <1>2, <1>3
     DEF Next, vars, policy, Step, ArriveHTTP, ArriveBrowser, ArriveGRPC, ArriveUnguarded,
         Arrive, Extract, Get, Judge, Renew, Sync, Ask, Check, Forward, Fail, End, World,
         Issue, Delete, Retire, Tick, Administer

\* The authorizer answers what its tables say, name by name.
LEMMA AuthorizerSaysTables ==
  ASSUME TablesTyped, NEW login \in LoginID, NEW a \in AnyAuthority, a.value # Blank
  PROVE  HasAuthority(login, a) <=> Entitled(login, a)
<1> USE AuthorityAssumption
<1>1. a.value \in Seq(Char) /\ a.type \in {"role", "permission"} /\ login # BlankID
  BY DEF AnyAuthority, AuthorityType
<1>2. /\ \A p \in directPermissions[login] : p \in Seq(Char)
      /\ \A r \in userRoles[login] : \A p \in rolePermissions[r] : p \in Seq(Char)
      /\ \A g \in authorities[login] : g.value \in Seq(Char)
  BY DEF TablesTyped, AnyAuthority
<1>3. CASE site.authorizer = "rbac" /\ a.type = "role"
  BY <1>1, <1>3 DEF HasAuthority, Roles!HasAuthority, Roles!Blank, Blank, Entitled
<1>4. CASE site.authorizer = "rbac" /\ a.type = "permission"
  <2>1. HasAuthority(login, a) <=>
          \E p \in Roles!PermissionsOf(login) : ValueMatches(p, a.value)
    BY <1>1, <1>4 DEF HasAuthority, Roles!HasAuthority, Roles!Blank, Blank,
                      Roles!ValueMatches, Roles!EndsWithStar, Roles!Last, Roles!Front, Roles!IsPrefix,
                      ValueMatches, EndsWithStar, Last, Front, IsPrefix
  <2>2. Entitled(login, a) <=>
          \E p \in Roles!PermissionsOf(login) : Covers(p, a.value)
    BY <1>4 DEF Entitled, Roles!PermissionsOf
  <2>3. \A p \in Roles!PermissionsOf(login) : p \in Seq(Char)
    BY <1>2 DEF Roles!PermissionsOf
  <2> QED
    BY <1>1, <2>1, <2>2, <2>3, CoversIsValueMatches
<1>5. CASE site.authorizer # "rbac"
  <2>1. HasAuthority(login, a) <=>
          \E g \in authorities[login] : g.type = a.type /\ ValueMatches(g.value, a.value)
    BY <1>5 DEF HasAuthority, Direct!HasAuthority, Direct!AuthorityMatches, Direct!Blank, Blank,
                Direct!ValueMatches, Direct!EndsWithStar, Direct!Last, Direct!Front,
                Direct!IsPrefix, ValueMatches, EndsWithStar, Last, Front, IsPrefix
  <2>2. Entitled(login, a) <=>
          \E g \in authorities[login] : g.type = a.type /\ Covers(g.value, a.value)
    BY <1>5 DEF Entitled
  <2> QED
    BY <1>1, <1>2, <2>1, <2>2, CoversIsValueMatches
<1> QED
  BY <1>1, <1>3, <1>4, <1>5

\* For any users, names and grants: what GetAuthorities lists is what HasAuthority
\* grants, wildcard by wildcard (rbac.Authorizer, core.MemoryAuthorizer).
THEOREM ListingCorrect == Spec => []ListingAgrees
<1>1. Init => TablesTyped
  BY DEF Init, Roles!Init, Direct!Init, TablesTyped
<1>2. TablesTyped /\ [Next]_vars => TablesTyped'
  BY TablesStayTyped
<1>3. TablesTyped => ListingAgrees
  <2> SUFFICES ASSUME TablesTyped, NEW login \in LoginID, NEW a \in AnyAuthority,
                      a.value # Blank
               PROVE  Entitled(login, a) <=>
                        \E g \in GetAuthorities(login) :
                          /\ g.type = a.type
                          /\ IF site.authorizer = "rbac" /\ a.type = "role"
                               THEN g = a ELSE Covers(g.value, a.value)
    BY AuthorizerSaysTables DEF ListingAgrees
  <2>1. login # BlankID /\ a.type \in {"role", "permission"}
    BY AuthorityAssumption DEF AnyAuthority, AuthorityType
  <2>2. CASE site.authorizer = "rbac"
    <3>1. GetAuthorities(login) =
            {Role(r) : r \in userRoles[login]}
              \cup {Permission(p) : p \in Roles!PermissionsOf(login)}
      BY <2>1, <2>2 DEF GetAuthorities, Roles!GetAuthorities, Roles!Role, Roles!Permission,
                        Role, Permission
    <3>2. CASE a.type = "role"
      <4>1. a = Role(a.value)
        BY <3>2 DEF AnyAuthority, Role
      <4>2. \A r : Role(r).value = r /\ Role(r).type = "role"
        BY DEF Role
      <4>3. \A p : Permission(p).type = "permission"
        BY DEF Permission
      <4> QED
        BY <2>2, <3>1, <3>2, <4>1, <4>2, <4>3 DEF Entitled
    <3>3. CASE a.type = "permission"
      <4>1. \A p : Permission(p).type = "permission" /\ Permission(p).value = p
        BY DEF Permission
      <4>2. \A r : Role(r).type = "role"
        BY DEF Role
      <4>3. Entitled(login, a) <=>
              \E p \in Roles!PermissionsOf(login) : Covers(p, a.value)
        BY <2>2, <3>3 DEF Entitled, Roles!PermissionsOf
      <4> QED
        BY <3>1, <3>3, <4>1, <4>2, <4>3
    <3> QED
      BY <2>1, <3>2, <3>3
  <2>3. CASE site.authorizer # "rbac"
    BY <2>3 DEF Entitled, GetAuthorities, Direct!GetAuthorities
  <2> QED
    BY <2>2, <2>3
<1> QED
  BY <1>1, <1>2, <1>3, PTL DEF Spec
-----------------------------------------------------------------------------
(* What a request carries.                                                  *)

Labels == Authenticating \cup {"idle", "handler", "check", "done"}

\* What a request at a step may know: once it was found, its token names a key of
\* the store and its user is one a login flow saved.
Fit(label, known) ==
  /\ label \in Labels
  /\ DOMAIN known = DOMAIN Idle
  /\ known.snap \in States \cup {NoEntry}
  /\ known.auth \in [token : TokenValue, subject : {s.subject : s \in Issues}] \cup {NoAuth}
  /\ known.answer \in {"none", "unauthorized", "ok", "denied", "error"}
  /\ label \in {"judge", "renew", "sync"} =>
       /\ Len(known.token) = 1
       /\ StoreKey(Head(known.token)) \in Token
       /\ known.snap \in States
  /\ label = "handler" /\ known.auth # NoAuth => known.auth.token = Head(known.token)

Typed ==
  /\ site \in Sites
  /\ StoreTyped
  /\ TablesTyped
  /\ pc \in [Request -> Labels]
  /\ DOMAIN req = Request
  /\ \A q \in Request : Fit(pc[q], req[q])

LEMMA FieldsOfIdle ==
  DOMAIN Idle = {"via", "message", "sent", "token", "snap", "auth", "op", "asked",
                 "left", "answer"}
BY DEF Idle

\* An answer, and a step on with what is known already, change nothing else.
LEMMA AnswerFits ==
  ASSUME NEW label, NEW known, Fit(label, known), NEW outcome,
         outcome \in {"unauthorized", "ok", "denied", "error"}
  PROVE  Fit("done", [known EXCEPT !.answer = outcome])
BY FieldsOfIdle DEF Fit, Labels

\* The user of a request is the holder that the snapshot of its token names.
LEMMA AuthenticateFits ==
  ASSUME Typed, NEW q \in Request, pc[q] \in {"judge", "sync"}, Authenticate(q)
  PROVE  \E label, known : Go(q, label, known) /\ Fit(label, known)
<1>0. Fit(pc[q], req[q])
  BY DEF Typed
<1>1. CASE Unauthorized(q)
  BY <1>0, <1>1, AnswerFits DEF Unauthorized, Answer
<1>2. CASE ~Unauthorized(q)
  <2> DEFINE auth == [token |-> Head(req[q].token), subject |-> req[q].snap.subject]
             known == [req[q] EXCEPT !.auth = auth, !.snap = NoEntry]
  <2>1. Go(q, "handler", known)
    BY <1>2 DEF Authenticate
  <2>2. PICK t \in TokenValue : StoreKey(Head(req[q].token)) = StoreKey(t)
    BY <1>0 DEF Fit, Token
  <2>3. Head(req[q].token) = t
    BY <2>2 DEF StoreKey
  <2>4. req[q].snap.subject \in {s.subject : s \in Issues}
    BY <1>0 DEF Fit, States
  <2>5. auth \in [token : TokenValue, subject : {s.subject : s \in Issues}]
        /\ auth.token = Head(req[q].token)
    BY <2>3, <2>4
  <2>6. /\ DOMAIN known = DOMAIN Idle
        /\ known.snap = NoEntry /\ known.auth = auth /\ known.token = req[q].token
        /\ known.answer = req[q].answer
    <3> HIDE DEF auth
    <3> QED
      BY <1>0, FieldsOfIdle DEF Fit
  <2>7. Fit("handler", known)
    <3> HIDE DEF auth, known
    <3> QED
      BY <1>0, <2>5, <2>6 DEF Fit, Labels
  <2> QED
    BY <2>1, <2>7
<1> QED
  BY <1>1, <1>2

\* A request goes on with what fits the step it goes to.
LEMMA StepFits ==
  ASSUME Typed, NEW q \in Request, Step(q)
  PROVE  \E label, known : Go(q, label, known) /\ Fit(label, known)
<1>0. Fit(pc[q], req[q])
  BY DEF Typed
<1>idle. /\ Fit("idle", Idle)
         /\ Fit("handler", Idle)
         /\ \A via, message, token :
              Fit("arrived", [Idle EXCEPT !.via = via, !.message = message, !.sent = token])
  BY DEF Fit, Labels, Authenticating, Idle
<1>sent. ASSUME NEW via, NEW message, NEW token, Send(q, via, message, token)
         PROVE  \E label, known : Go(q, label, known) /\ Fit(label, known)
  BY <1>sent, <1>idle DEF Send
<1>1. CASE ArriveHTTP(q) \/ ArriveBrowser(q) \/ ArriveGRPC(q)
  <2>1. PICK via, message, token : Arrive(q, via, message, token)
    BY <1>1 DEF ArriveHTTP, ArriveBrowser, ArriveGRPC
  <2> QED
    BY <2>1, <1>sent DEF Arrive
<1>2. CASE ArriveUnguarded(q) \/ End(q)
  BY <1>2, <1>idle DEF ArriveUnguarded, End
<1>3. CASE Extract(q)
  <2>1. PICK token : LET known == [req[q] EXCEPT !.token = token, !.message = NoEntry] IN
                     \/ Go(q, "done", [known EXCEPT !.answer = "unauthorized"])
                     \/ Go(q, "get", known)
    BY <1>3 DEF Extract
  <2> DEFINE known == [req[q] EXCEPT !.token = token, !.message = NoEntry]
  <2>2. Fit("get", known)
    BY <1>0, FieldsOfIdle DEF Fit, Labels, Authenticating
  <2>3. Fit("done", [known EXCEPT !.answer = "unauthorized"])
    <3> HIDE DEF known
    <3> QED
      BY <2>2, AnswerFits
  <2> QED
    BY <2>1, <2>2, <2>3
<1>4. CASE Get(q)
  <2>1. CASE Unauthorized(q)
    BY <1>0, <2>1, AnswerFits DEF Unauthorized, Answer
  <2>2. CASE ~Unauthorized(q)
    <3> DEFINE snap == tokens[Key(q)].state
    <3>1. Known(q) /\ tokens[Key(q)] # NoEntry /\ Go(q, "judge", [req[q] EXCEPT !.snap = snap])
      BY <1>4, <2>2 DEF Get
    <3>2. snap \in States
      BY <3>1 DEF Known, Typed, StoreTyped
    <3>3. Len(req[q].token) = 1 /\ StoreKey(Head(req[q].token)) \in Token
      BY <3>1 DEF Known, Key
    <3>4. Fit("judge", [req[q] EXCEPT !.snap = snap])
      <4> HIDE DEF snap
      <4> QED
        BY <1>0, <3>2, <3>3, FieldsOfIdle DEF Fit, Labels, Authenticating
    <3> QED
      BY <3>1, <3>4
  <2> QED
    BY <2>1, <2>2
<1>5. CASE Judge(q)
  <2>1. pc[q] = "judge" /\ (Unauthorized(q) \/ Go(q, "renew", req[q]) \/ Authenticate(q))
    BY <1>5 DEF Judge
  <2>2. CASE Unauthorized(q)
    BY <1>0, <2>2, AnswerFits DEF Unauthorized, Answer
  <2>3. CASE Go(q, "renew", req[q])
    <3>1. Fit("renew", req[q])
      BY <1>0, <2>1 DEF Fit, Labels, Authenticating
    <3> QED
      BY <2>3, <3>1
  <2> QED
    BY <2>1, <2>2, <2>3, AuthenticateFits
<1>6. CASE Renew(q)
  <2>1. pc[q] = "renew" /\ (Unauthorized(q) \/ Go(q, "sync", req[q]))
    BY <1>6 DEF Renew
  <2>2. CASE Unauthorized(q)
    BY <1>0, <2>2, AnswerFits DEF Unauthorized, Answer
  <2>3. Fit("sync", req[q])
    BY <1>0, <2>1 DEF Fit, Labels, Authenticating
  <2> QED
    BY <2>1, <2>2, <2>3
<1>7. CASE Sync(q)
  BY <1>7, AuthenticateFits DEF Sync
<1>8. CASE Ask(q)
  <2>1. PICK op, list :
          Go(q, "check", [Idle EXCEPT !.auth = req[q].auth, !.op = op,
                                      !.asked = list, !.left = list])
    BY <1>8 DEF Ask
  <2>2. Fit("check", [Idle EXCEPT !.auth = req[q].auth, !.op = op,
                                  !.asked = list, !.left = list])
    <3>1. req[q].auth \in [token : TokenValue, subject : {s.subject : s \in Issues}] \cup {NoAuth}
      BY <1>0 DEF Fit
    <3> DEFINE auth == req[q].auth
    <3> HIDE DEF auth
    <3> SUFFICES Fit("check", [Idle EXCEPT !.auth = auth, !.op = op,
                                           !.asked = list, !.left = list])
      BY DEF auth
    <3>2. auth \in [token : TokenValue, subject : {s.subject : s \in Issues}] \cup {NoAuth}
      BY <3>1 DEF auth
    <3> QED
      BY <3>2 DEF Fit, Labels, Idle
  <2> QED
    BY <2>1, <2>2
<1>9. CASE Check(q)
  <2>1. \/ \E outcome \in {"ok", "denied", "error"} : Answer(q, outcome)
        \/ Go(q, "check", [req[q] EXCEPT !.left = Tail(@)])
    BY <1>9 DEF Check, CheckAuthority
  <2>2. Fit("check", [req[q] EXCEPT !.left = Tail(@)])
    BY <1>0, FieldsOfIdle DEF Fit, Labels
  <2> QED
    BY <1>0, <2>1, <2>2, AnswerFits DEF Answer
<1>10. CASE Forward(q)
  BY <1>10, <1>sent DEF Forward
<1>11. CASE Fail(q)
  BY <1>0, <1>11, AnswerFits DEF Fail, Unauthorized, Answer
<1> QED
  BY <1>1, <1>2, <1>3, <1>4, <1>5, <1>6, <1>7, <1>8, <1>9, <1>10, <1>11 DEF Step

\* The clock, the store and the place of a request as the first part has them.
LEMMA TypedInv ==
  ASSUME Typed
  PROVE  /\ StoreTyped /\ DOMAIN pc = Request /\ DOMAIN req = Request
         /\ \A q \in Request : Shaped(q)
BY FieldsOfIdle DEF Typed, Shaped, Fit, Carried
\* Every step of the module keeps the types and the invariant of the first part.
LEMMA NextTyped ==
  ASSUME Typed, Inv, [Next]_vars
  PROVE  Typed' /\ Inv'
<1>1. Inv'
  BY NextInv
<1>2. TablesTyped'
  BY TablesStayTyped DEF Typed
<1>3. CASE UNCHANGED vars
  BY <1>1, <1>2, <1>3 DEF vars, Typed, Inv
<1>4. ASSUME NEW q \in Request, Step(q)
      PROVE  Typed'
  <2>1. PICK label, known : Go(q, label, known) /\ Fit(label, known)
    BY <1>4, StepFits
  <2>2. site' = site
    BY <1>4 DEF Step, ArriveHTTP, ArriveBrowser, ArriveGRPC, ArriveUnguarded, Arrive, Extract,
                Get, Judge, Renew, Sync, Ask, Check, Forward, Fail, End, World
  <2>3. pc' \in [Request -> Labels] /\ DOMAIN req' = Request
    BY <2>1 DEF Go, Fit, Typed
  <2>4. \A r \in Request : Fit(pc'[r], req'[r])
    <3> SUFFICES ASSUME NEW r \in Request PROVE Fit(pc'[r], req'[r])
      OBVIOUS
    <3>1. CASE r = q
      BY <2>1, <3>1, Gone
    <3>2. CASE r # q
      <4>1. pc'[r] = pc[r] /\ req'[r] = req[r]
        BY <2>1, <3>2 DEF Go, Inv
      <4> QED
        BY <4>1 DEF Typed
    <3> QED
      BY <3>1, <3>2
  <2> QED
    BY <1>1, <1>2, <2>2, <2>3, <2>4 DEF Typed, Inv
<1>5. ASSUME Issue \/ Delete \/ Retire \/ Tick \/ Administer
      PROVE  Typed'
  <2>1. UNCHANGED <<pc, req>>
    BY <1>5, WorldKeepsStore
  <2>2. site' = site
    BY <1>5 DEF Issue, Delete, Retire, Tick, Administer
  <2> QED
    BY <1>1, <1>2, <2>1, <2>2 DEF Typed, Inv
<1> QED
  BY <1>1, <1>3, <1>4, <1>5 DEF Next

LEMMA InitTyped == Init => Typed
<1> SUFFICES ASSUME Init PROVE Typed
  OBVIOUS
<1>1. StoreTyped /\ TablesTyped
  BY DEF Init, StoreTyped, Roles!Init, Direct!Init, TablesTyped
<1>2. Fit("idle", Idle)
  BY DEF Fit, Labels, Idle
<1>3. pc \in [Request -> Labels]
  BY DEF Init, Labels
<1> QED
  BY <1>1, <1>2, <1>3 DEF Init, Typed

\* For any users, tokens, requests, set-ups and grants: a request carries a state
\* that was stored and a holder some login flow saved, names of roles and
\* permissions are never blank (getTokenState, Authenticate, rbac.Authorizer).
THEOREM TypeCorrect == Spec => []TypeOK
<1>1. Typed => TypeOK
  BY DEF Typed, StoreTyped, TablesTyped, Fit, Labels, TypeOK
<1> QED
  BY <1>1, InitTyped, NextTyped, InitInv, PTL DEF Spec

-----------------------------------------------------------------------------
(* What was written is read.                                                *)

\* A token is never spelt as the prefix a site puts in front of it.
TokensAreNoPrefixes ==
  \A s \in Sites, t \in TokenValue :
    \A prefix \in {s.tokenPrefix, s.serverPrefix} \ {NoPrefix} : Lower[t] # Lower[prefix]

\* A lookup that finds something in one source only offers that.
LEMMA OnlyOffer ==
  ASSUME NEW lookup, NEW getters, NEW i \in DOMAIN lookup.order, i \in Nat,
         Offered(lookup, getters, lookup.order[i]) # Missing,
         \A j \in DOMAIN lookup.order :
           j # i => Offered(lookup, getters, lookup.order[j]) = Missing
  PROVE  Resolve(lookup, getters) = Offered(lookup, getters, lookup.order[i])
<1>1. {j \in DOMAIN lookup.order : Offered(lookup, getters, lookup.order[j]) # Missing} = {i}
  OBVIOUS
<1>2. Min({i}) = i
  BY DEF Min
<1> QED
  BY <1>1, <1>2 DEF Resolve

\* The value a client of the same prefix, or of none, appends to empty metadata
\* is read by the server as the token.
LEMMA ServerHears ==
  ASSUME TokensAreNoPrefixes, NEW s \in Sites, NEW t \in TokenValue,
         s.clientPrefix \in {NoPrefix, s.serverPrefix}
  PROVE  ServerExtract(s.serverPrefix, MetadataKey,
                       Inject(s.clientPrefix, MetadataKey, t, Metadata(<<>>))) = <<t>>
<1> DEFINE value    == IF s.clientPrefix = NoPrefix THEN <<t>> ELSE <<s.clientPrefix, t>>
           metadata == Inject(s.clientPrefix, MetadataKey, t, Metadata(<<>>))
           lookup   == ServerLookup(s.serverPrefix, MetadataKey)
           getters  == [header |-> [k \in DOMAIN metadata |-> FirstValue(metadata[k])]]
<1>1. DOMAIN metadata = {MetadataKey} /\ metadata[MetadataKey] = <<value>>
  BY DEF Inject, Metadata
<1>2. getters.header[MetadataKey] = value
  <2> HIDE DEF metadata, value
  <2> QED
    BY <1>1 DEF FirstValue
<1>3. Normalize(s.serverPrefix, value) = <<t>>
  <2>1. CASE s.serverPrefix = NoPrefix
    BY <2>1 DEF Normalize
  <2>2. CASE s.serverPrefix # NoPrefix /\ s.clientPrefix = NoPrefix
    <3>1. Lower[t] # Lower[s.serverPrefix]
      BY <2>2 DEF TokensAreNoPrefixes
    <3>2. value = <<t>> /\ Head(<<t>>) = t
      BY <2>2
    <3> QED
      BY <3>1, <3>2 DEF Normalize
  <2>3. CASE s.serverPrefix # NoPrefix /\ s.clientPrefix = s.serverPrefix
    BY <2>3 DEF Normalize, Missing
  <2> QED
    BY <2>1, <2>2, <2>3
<1>4. /\ lookup.order = <<"header">> /\ lookup.name = MetadataKey
      /\ lookup.prefix = s.serverPrefix
  BY DEF ServerLookup
<1>5. DOMAIN lookup.order = {1} /\ lookup.order[1] = "header"
  BY <1>4
<1>6. Offered(lookup, getters, "header") = <<t>>
  <2> HIDE DEF getters, lookup, value
  <2> QED
    BY <1>2, <1>3, <1>4 DEF Offered
<1>7. Resolve(lookup, getters) = Offered(lookup, getters, lookup.order[1])
  <2> HIDE DEF getters, lookup
  <2>1. Offered(lookup, getters, lookup.order[1]) # Missing
    BY <1>5, <1>6 DEF Missing
  <2> QED
    BY <1>5, <2>1, OnlyOffer
<1> QED
  BY <1>5, <1>6, <1>7 DEF ServerExtract

\* A browser with nothing but the cookie SetTokenCookie wrote is heard.
LEMMA CookieHeard ==
  ASSUME TokensAreNoPrefixes, NEW s \in Sites, NEW t \in TokenValue,
         s.readCookie, s.cookie.given
  PROVE  LET cookie == TokenCookie(s.cookie, t) IN
         ExtractToken(s, [NoRequest EXCEPT !.cookie[cookie.name] = cookie.value]) = <<t>>
<1> DEFINE name    == CookieName(s.cookie)
           request == [NoRequest EXCEPT !.cookie[name] = <<t>>]
           lookup  == NewExtractor(s)
           getters == HTTPGetters(s, request)
<1>1. /\ NoRequest \in Requests
      /\ \A part \in {"header", "cookie", "query"} :
           \A n \in DOMAIN NoRequest[part] : NoRequest[part][n] = Missing
  BY RequestAssumption DEF NoRequest
<1>2. /\ DOMAIN NoRequest = {"header", "cookie", "query"}
      /\ s.tokenName \in DOMAIN NoRequest.header /\ "Authorization" \in DOMAIN NoRequest.header
      /\ s.tokenName \in DOMAIN NoRequest.cookie /\ name \in DOMAIN NoRequest.cookie
      /\ s.tokenName \in DOMAIN NoRequest.query
  BY <1>1, RequestAssumption DEF ReadCookieName
<1>3. /\ request.header = NoRequest.header /\ request.query = NoRequest.query
      /\ DOMAIN request.cookie = DOMAIN NoRequest.cookie
      /\ request.cookie[name] = <<t>>
  <2> HIDE DEF name
  <2> QED
    BY <1>2
<1>4. /\ lookup.order \in {DefaultOrder, Append(DefaultOrder, "query")}
      /\ lookup.name = s.tokenName /\ lookup.prefix = s.tokenPrefix
      /\ lookup.authorizationKey = "Authorization"
  BY DEF NewExtractor
<1>5. /\ getters.header[s.tokenName] = Missing /\ getters.header["Authorization"] = Missing
      /\ getters.query[s.tokenName] = Missing
      /\ getters.cookie[s.tokenName] = <<t>>
  <2>1. getters.header = request.header /\ getters.query = request.query
    BY DEF HTTPGetters
  <2>2. getters.cookie = [n \in DOMAIN request.cookie |-> request.cookie[name]]
    BY DEF HTTPGetters, ReadCookieName
  <2>3. /\ NoRequest.header[s.tokenName] = Missing
        /\ NoRequest.header["Authorization"] = Missing
        /\ NoRequest.query[s.tokenName] = Missing
    BY <1>1, <1>2
  <2> HIDE DEF getters, request, name
  <2> QED
    BY <1>2, <1>3, <2>1, <2>2, <2>3
<1>6. Normalize(s.tokenPrefix, Missing) = Missing /\ Normalize(s.tokenPrefix, <<t>>) = <<t>>
  <2>1. s.tokenPrefix # NoPrefix => Lower[t] # Lower[s.tokenPrefix]
    BY DEF TokensAreNoPrefixes
  <2>2. Head(<<t>>) = t
    OBVIOUS
  <2> QED
    BY <2>1, <2>2 DEF Normalize
<1>7. /\ Offered(lookup, getters, "header") = Missing
      /\ Offered(lookup, getters, "authorization") = Missing
      /\ Offered(lookup, getters, "cookie") = <<t>>
      /\ Offered(lookup, getters, "query") = Missing
  <2> HIDE DEF getters, lookup
  <2> QED
    BY <1>4, <1>5, <1>6 DEF Offered
<1>8. /\ DOMAIN lookup.order \in {1 .. 3, 1 .. 4}
      /\ lookup.order[1] = "header" /\ lookup.order[2] = "authorization"
      /\ lookup.order[3] = "cookie" /\ (4 \in DOMAIN lookup.order => lookup.order[4] = "query")
  <2> HIDE DEF lookup
  <2>1. CASE lookup.order = DefaultOrder
    BY <2>1 DEF DefaultOrder
  <2>2. CASE lookup.order = Append(DefaultOrder, "query")
    <3> DEFINE S == {"header", "authorization", "cookie", "query"}
    <3>1. DefaultOrder \in Seq(S)
      BY DEF DefaultOrder
    <3>2. /\ Len(DefaultOrder) = 3
          /\ DefaultOrder[1] = "header" /\ DefaultOrder[2] = "authorization"
          /\ DefaultOrder[3] = "cookie"
      BY DEF DefaultOrder
    <3>3. /\ Append(DefaultOrder, "query") \in Seq(S)
          /\ Len(Append(DefaultOrder, "query")) = 4
          /\ Append(DefaultOrder, "query")[4] = "query"
          /\ \A i \in 1 .. 3 : Append(DefaultOrder, "query")[i] = DefaultOrder[i]
      <4> HIDE DEF S
      <4>1. "query" \in S
        BY DEF S
      <4>2. ASSUME NEW order \in Seq(S), NEW last \in S, Len(order) = 3
            PROVE  /\ Append(order, last) \in Seq(S)
                   /\ Len(Append(order, last)) = 4
                   /\ Append(order, last)[4] = last
                   /\ \A i \in 1 .. 3 : Append(order, last)[i] = order[i]
          <5>1. /\ Append(order, last) \in Seq(S)
                /\ Len(Append(order, last)) = Len(order) + 1
                /\ Append(order, last)[Len(order) + 1] = last
                /\ \A i \in 1 .. Len(order) : Append(order, last)[i] = order[i]
            BY AppendProperties
          <5> QED
            BY <4>2, <5>1
      <4> QED
        BY <3>1, <3>2, <4>1, <4>2
    <3> HIDE DEF S
    <3> QED
      BY <2>2, <3>2, <3>3
  <2> QED
    BY <1>4, <2>1, <2>2
<1>9. Resolve(lookup, getters) = Offered(lookup, getters, lookup.order[3])
  <2> HIDE DEF getters, lookup
  <2>1. 3 \in DOMAIN lookup.order
    BY <1>8
  <2>2. \A j \in DOMAIN lookup.order :
          j # 3 => Offered(lookup, getters, lookup.order[j]) = Missing
    BY <1>7, <1>8
  <2>3. Offered(lookup, getters, lookup.order[3]) # Missing
    BY <1>7, <1>8 DEF Missing
  <2> QED
    BY <2>1, <2>2, <2>3, OnlyOffer
<1>10. TokenCookie(s.cookie, t).name = name /\ TokenCookie(s.cookie, t).value = <<t>>
  BY DEF TokenCookie
<1> QED
  BY <1>7, <1>8, <1>9, <1>10 DEF ExtractToken
\* The site reads what it wrote itself.
Alike(known) ==
  IF known.via = "grpc" THEN site.clientPrefix \in {NoPrefix, site.serverPrefix}
                        ELSE site.readCookie /\ site.cookie.given

\* What was sent is what will be extracted, and then what was.
Heard(label, known) ==
  known.sent # NoToken =>
    /\ label # "check"
    /\ Alike(known) /\ label = "arrived" =>
         <<known.sent>> = IF known.via = "grpc"
                            THEN ServerExtract(site.serverPrefix, MetadataKey, known.message)
                            ELSE ExtractToken(site, known.message)
    /\ Alike(known) /\ label \in Labels \ {"idle", "arrived", "check"} =>
         known.token = <<known.sent>>

\* A step on keeps how the request came and with what.
LEMMA StillHeard ==
  ASSUME NEW label, NEW known, Heard(label, known),
         label \in Labels \ {"idle", "arrived"},
         NEW next, NEW then, next \in Labels \ {"idle", "arrived"},
         then.via = known.via, then.sent = known.sent, then.token = known.token,
         next = "check" => label = "check"
  PROVE  Heard(next, then)
BY DEF Heard, Alike

LEMMA AuthenticateHeard ==
  ASSUME Typed, NEW q \in Request, Heard(pc[q], req[q]), Authenticate(q),
         pc[q] \in {"judge", "sync"}
  PROVE  \E label, known : Go(q, label, known) /\ Heard(label, known)
<1>0. DOMAIN req[q] = DOMAIN Idle
  BY DEF Typed, Fit
<1>1. CASE Unauthorized(q)
  <2> DEFINE known == [req[q] EXCEPT !.answer = "unauthorized"]
  <2>1. known.via = req[q].via /\ known.sent = req[q].sent /\ known.token = req[q].token
    BY <1>0, FieldsOfIdle
  <2>2. Heard("done", known)
    <3> HIDE DEF known
    <3> QED
      BY <2>1, StillHeard DEF Labels, Authenticating
  <2> QED
    BY <1>1, <2>2 DEF Unauthorized, Answer
<1>2. CASE ~Unauthorized(q)
  <2> DEFINE auth  == [token |-> Head(req[q].token), subject |-> req[q].snap.subject]
             known == [req[q] EXCEPT !.auth = auth, !.snap = NoEntry]
  <2>1. Go(q, "handler", known)
    BY <1>2 DEF Authenticate
  <2>2. known.via = req[q].via /\ known.sent = req[q].sent /\ known.token = req[q].token
    <3> HIDE DEF auth
    <3> QED
      BY <1>0, FieldsOfIdle
  <2>3. Heard("handler", known)
    <3> HIDE DEF known
    <3> QED
      BY <2>2, StillHeard DEF Labels, Authenticating
  <2> QED
    BY <2>1, <2>3
<1> QED
  BY <1>1, <1>2

\* What this library writes is heard from its arrival to its answer.
LEMMA StepHeard ==
  ASSUME TokensAreNoPrefixes, Typed, NEW q \in Request, Heard(pc[q], req[q]), Step(q)
  PROVE  \E label, known : Go(q, label, known) /\ Heard(label, known)
<1>0. DOMAIN req[q] = DOMAIN Idle /\ site \in Sites /\ pc[q] \in Labels
  BY DEF Typed, Fit
<1>idle. /\ Idle.sent = NoToken
         /\ \A label : Heard(label, Idle)
  BY DEF Idle, Heard
<1>sent. ASSUME NEW via, NEW message, NEW token, Send(q, via, message, token),
                LET known == [Idle EXCEPT !.via = via, !.message = message, !.sent = token]
                IN  token # NoToken /\ Alike(known) =>
                      <<token>> = IF via = "grpc"
                                    THEN ServerExtract(site.serverPrefix, MetadataKey, message)
                                    ELSE ExtractToken(site, message)
         PROVE  \E label, known : Go(q, label, known) /\ Heard(label, known)
  <2> DEFINE known == [Idle EXCEPT !.via = via, !.message = message, !.sent = token]
  <2>1. known.via = via /\ known.message = message /\ known.sent = token
    BY DEF Idle
  <2>2. Go(q, "arrived", known)
    BY <1>sent DEF Send
  <2>3. token # NoToken /\ Alike(known) =>
          <<token>> = IF via = "grpc"
                        THEN ServerExtract(site.serverPrefix, MetadataKey, message)
                        ELSE ExtractToken(site, message)
    BY <1>sent
  <2>4. Heard("arrived", known)
    <3> HIDE DEF known
    <3> QED
      BY <2>1, <2>3 DEF Heard
  <2> QED
    BY <2>2, <2>4
<1>via. \A via, message, token :
          [Idle EXCEPT !.via = via, !.message = message, !.sent = token].via = via
  BY DEF Idle
<1>answer. ASSUME NEW outcome, Answer(q, outcome), pc[q] \in Labels \ {"idle", "arrived"}
           PROVE  \E label, known : Go(q, label, known) /\ Heard(label, known)
  <2> DEFINE known == [req[q] EXCEPT !.answer = outcome]
  <2>1. known.via = req[q].via /\ known.sent = req[q].sent /\ known.token = req[q].token
    BY <1>0, FieldsOfIdle
  <2>2. Heard("done", known)
    <3> HIDE DEF known
    <3> QED
      BY <1>answer, <2>1, StillHeard DEF Labels
  <2> QED
    BY <1>answer, <2>2 DEF Answer
<1>1. CASE ArriveHTTP(q)
  BY <1>1, <1>sent DEF ArriveHTTP, Arrive
<1>2. CASE ArriveBrowser(q)
  <2> DEFINE cookie(t)  == TokenCookie(site.cookie, t)
             message(t) == [NoRequest EXCEPT !.cookie[cookie(t).name] = cookie(t).value]
  <2>1. PICK t \in TokenValue : Send(q, "http", message(t), t)
    BY <1>2 DEF ArriveBrowser, Arrive
  <2> DEFINE known == [Idle EXCEPT !.via = "http", !.message = message(t), !.sent = t]
  <2>2. Alike(known) => <<t>> = ExtractToken(site, message(t))
    <3>1. known.via = "http"
      BY DEF Idle
    <3>2. Alike(known) => site.readCookie /\ site.cookie.given
      <4> HIDE DEF known
      <4> QED
        BY <3>1 DEF Alike
    <3> QED
      BY <1>0, <3>2, CookieHeard
  <2> HIDE DEF message
  <2> QED
    BY <2>1, <2>2, <1>sent
<1>3. ASSUME NEW t, t \in TokenValue \/ t = NoToken,
             t \in TokenValue =>
               Send(q, "grpc", Inject(site.clientPrefix, MetadataKey, t, Metadata(<<>>)), t)
      PROVE  t \in TokenValue =>
               \E label, known : Go(q, label, known) /\ Heard(label, known)
  <2> SUFFICES ASSUME t \in TokenValue
               PROVE  \E label, known : Go(q, label, known) /\ Heard(label, known)
    OBVIOUS
  <2> DEFINE message == Inject(site.clientPrefix, MetadataKey, t, Metadata(<<>>))
             known   == [Idle EXCEPT !.via = "grpc", !.message = message, !.sent = t]
  <2>1. Alike(known) => <<t>> = ServerExtract(site.serverPrefix, MetadataKey, message)
    <3>1. known.via = "grpc"
      BY DEF Idle
    <3>2. Alike(known) => site.clientPrefix \in {NoPrefix, site.serverPrefix}
      <4> HIDE DEF known
      <4> QED
        BY <3>1 DEF Alike
    <3> QED
      BY <1>0, <3>2, ServerHears
  <2>2. Send(q, "grpc", message, t)
    BY <1>3
  <2> HIDE DEF message
  <2> QED
    BY <2>1, <2>2, <1>sent
<1>4. CASE ArriveGRPC(q)
  <2>1. PICK t \in TokenValue, own \in {<<>>, <<Missing>>} :
          Send(q, "grpc", Inject(site.clientPrefix, MetadataKey, t, Metadata(own)),
               IF own = <<>> THEN t ELSE NoToken)
    BY <1>4 DEF ArriveGRPC, Arrive
  <2>2. CASE own = <<>>
    BY <2>1, <2>2, <1>3
  <2>3. CASE own # <<>>
    BY <2>1, <2>3, <1>sent
  <2> QED
    BY <2>2, <2>3
<1>5. CASE ArriveUnguarded(q) \/ End(q)
  BY <1>5, <1>idle DEF ArriveUnguarded, End
<1>6. CASE Extract(q)
  <2> DEFINE token == IF req[q].via = "grpc"
                        THEN ServerExtract(site.serverPrefix, MetadataKey, req[q].message)
                        ELSE ExtractToken(site, req[q].message)
             known == [req[q] EXCEPT !.token = token, !.message = NoEntry]
             ended == [known EXCEPT !.answer = "unauthorized"]
  <2>1. pc[q] = "arrived" /\ (Go(q, "get", known) \/ Go(q, "done", ended))
    BY <1>6 DEF Extract
  <2> HIDE DEF token
  <2>2. /\ known.via = req[q].via /\ known.sent = req[q].sent /\ known.token = token
        /\ DOMAIN known = DOMAIN Idle
    BY <1>0, FieldsOfIdle
  <2> HIDE DEF known
  <2>3. ended.via = req[q].via /\ ended.sent = req[q].sent /\ ended.token = token
    BY <2>2, FieldsOfIdle
  <2> HIDE DEF ended
  <2>4. req[q].sent # NoToken /\ Alike(req[q]) => token = <<req[q].sent>>
    BY <2>1 DEF Heard, token
  <2>5. Heard("get", known) /\ Heard("done", ended)
    BY <2>2, <2>3, <2>4 DEF Heard, Alike
  <2> QED
    BY <2>1, <2>5
<1>7. CASE Get(q)
  <2> DEFINE known == [req[q] EXCEPT !.snap = tokens[Key(q)].state]
  <2>1. pc[q] = "get" /\ (Unauthorized(q) \/ Go(q, "judge", known))
    BY <1>7 DEF Get
  <2>2. known.via = req[q].via /\ known.sent = req[q].sent /\ known.token = req[q].token
    BY <1>0, FieldsOfIdle
  <2> HIDE DEF known
  <2>3. Heard("judge", known)
    BY <2>1, <2>2, StillHeard DEF Labels, Authenticating
  <2> QED
    BY <2>1, <2>3, <1>answer DEF Unauthorized, Labels, Authenticating
<1>8. CASE Judge(q)
  <2>1. pc[q] = "judge" /\ (Unauthorized(q) \/ Go(q, "renew", req[q]) \/ Authenticate(q))
    BY <1>8 DEF Judge
  <2>2. Heard("renew", req[q])
    BY <2>1, StillHeard DEF Labels, Authenticating
  <2> QED
    BY <2>1, <2>2, <1>answer, AuthenticateHeard DEF Unauthorized, Labels, Authenticating
<1>9. CASE Renew(q)
  <2>1. pc[q] = "renew" /\ (Unauthorized(q) \/ Go(q, "sync", req[q]))
    BY <1>9 DEF Renew
  <2>2. Heard("sync", req[q])
    BY <2>1, StillHeard DEF Labels, Authenticating
  <2> QED
    BY <2>1, <2>2, <1>answer DEF Unauthorized, Labels, Authenticating
<1>10. CASE Sync(q)
  BY <1>10, AuthenticateHeard DEF Sync
<1>11. CASE Ask(q)
  <2>1. PICK op, list :
          Go(q, "check", [Idle EXCEPT !.auth = req[q].auth, !.op = op,
                                      !.asked = list, !.left = list])
    BY <1>11 DEF Ask
  <2> DEFINE known == [Idle EXCEPT !.auth = req[q].auth, !.op = op,
                                   !.asked = list, !.left = list]
  <2>2. known.sent = NoToken
    BY DEF Idle
  <2> HIDE DEF known
  <2>3. Heard("check", known)
    BY <2>2 DEF Heard
  <2> QED
    BY <2>1, <2>3 DEF known
<1>12. CASE Check(q)
  <2>1. /\ pc[q] = "check"
        /\ (\E outcome : Answer(q, outcome)) \/ Go(q, "check", [req[q] EXCEPT !.left = Tail(@)])
    BY <1>12 DEF Check
  <2> DEFINE known == [req[q] EXCEPT !.left = Tail(@)]
  <2>2. known.via = req[q].via /\ known.sent = req[q].sent /\ known.token = req[q].token
    BY <1>0, FieldsOfIdle
  <2>3. Heard("check", known)
    <3> HIDE DEF known
    <3> QED
      BY <2>1, <2>2, StillHeard DEF Labels
  <2> QED
    BY <2>1, <2>3, <1>answer DEF Labels
<1>13. CASE Forward(q)
  <2>1. CASE req[q].auth = NoAuth
    BY <1>13, <2>1, <1>sent DEF Forward
  <2>2. CASE req[q].auth # NoAuth
    <3>1. /\ pc[q] = "handler"
          /\ Send(q, "grpc", Inject(site.clientPrefix, MetadataKey, req[q].auth.token,
                                    Metadata(<<>>)), Head(req[q].token))
      BY <1>13, <2>2 DEF Forward
    <3>2. req[q].auth.token = Head(req[q].token) /\ req[q].auth.token \in TokenValue
      BY <2>2, <3>1 DEF Typed, Fit
    <3> QED
      BY <3>1, <3>2, <1>3
  <2> QED
    BY <2>1, <2>2
<1>14. CASE Fail(q)
  BY <1>14, <1>answer DEF Fail, Unauthorized, Labels, Authenticating
<1> QED
  BY <1>1, <1>2, <1>4, <1>5, <1>6, <1>7, <1>8, <1>9, <1>10, <1>11, <1>12, <1>13, <1>14 DEF Step

\* For any words, names, set-ups and requests, when no token is spelt as a prefix:
\* a token this library wrote into a cookie or into the metadata of a call is the
\* token a request was heard with (SetTokenCookie, the interceptors, lookup.go).
THEOREM WriterHeard == TokensAreNoPrefixes /\ Spec => []WriterIsHeard
<1> DEFINE HeardInv == \A q \in Request : Heard(pc[q], req[q])
<1>1. Init => HeardInv
  BY DEF Init, Heard, Idle
<1>2. TokensAreNoPrefixes /\ Typed /\ Inv /\ HeardInv /\ [Next]_vars => HeardInv'
  <2> SUFFICES ASSUME TokensAreNoPrefixes, Typed, Inv, HeardInv, [Next]_vars,
                      NEW r \in Request
               PROVE  Heard(pc[r], req[r])'
    OBVIOUS
  <2>1. CASE UNCHANGED vars
    BY <2>1 DEF vars, Heard, Alike
  <2>2. ASSUME NEW q \in Request, Step(q)
        PROVE  Heard(pc[r], req[r])'
    <3>1. PICK label, known : Go(q, label, known) /\ Heard(label, known)
      BY <2>2, StepHeard
    <3>2. site' = site
      BY <2>2 DEF Step, ArriveHTTP, ArriveBrowser, ArriveGRPC, ArriveUnguarded, Arrive, Extract,
                  Get, Judge, Renew, Sync, Ask, Check, Forward, Fail, End, World
    <3>3. CASE r = q
      <4>1. pc'[r] = label /\ req'[r] = known
        BY <3>1, <3>3, Gone
      <4> QED
        BY <3>1, <3>2, <4>1 DEF Heard, Alike
    <3>4. CASE r # q
      <4>1. pc'[r] = pc[r] /\ req'[r] = req[r]
        BY <3>1, <3>4 DEF Go, Inv
      <4> QED
        BY <3>2, <4>1 DEF Heard, Alike
    <3> QED
      BY <3>3, <3>4
  <2>3. CASE Issue \/ Delete \/ Retire \/ Tick \/ Administer
    <3>1. UNCHANGED <<pc, req>>
      BY <2>3, WorldKeepsStore
    <3>2. site' = site
      BY <2>3 DEF Issue, Delete, Retire, Tick, Administer
    <3> QED
      BY <3>1, <3>2 DEF Heard, Alike
  <2> QED
    BY <2>1, <2>2, <2>3 DEF Next
<1>3. HeardInv => WriterIsHeard
  BY DEF WriterIsHeard, Heard, Alike, SetUpAlike, Labels, Authenticating
<1>4. TokensAreNoPrefixes /\ [Next]_vars => TokensAreNoPrefixes'
  BY DEF TokensAreNoPrefixes
<1> QED
  BY <1>1, <1>2, <1>3, <1>4, InitTyped, NextTyped, InitInv, PTL DEF Spec
-----------------------------------------------------------------------------
(* What is answered.                                                        *)

\* What a checking request found before its next step was so at some moment of the
\* call: all held so far, or all lacking; and an answer rests on that.
Answering(q) ==
  LET asked == Range(req[q].asked)
      left  == Range(req[q].left)
      all   == req[q].op = "CheckAll"
  IN  /\ pc[q] = "check" =>
           /\ req[q].op \in {"CheckAll", "CheckAny"}
           /\ req[q].asked \in Seq(AnyAuthority) /\ req[q].left \in Seq(AnyAuthority)
           /\ left \subseteq asked
           /\ asked \ left \subseteq IF all THEN held[q] ELSE lacked[q]
           /\ Holds(q) \subseteq held[q] /\ Lacks(q) \subseteq lacked[q]
      /\ pc[q] = "done" /\ req[q].op # "none" =>
           /\ req[q].answer = "ok" =>
                IF all THEN asked \subseteq held[q] ELSE asked \cap held[q] # {}
           /\ req[q].answer = "denied" =>
                IF all THEN asked \cap lacked[q] # {} ELSE asked \subseteq lacked[q]
      /\ pc[q] \notin {"idle", "check", "done"} => req[q].op = "none"

LEMMA RangeOfTail ==
  ASSUME NEW S, NEW s \in Seq(S), s # <<>>
  PROVE  /\ Tail(s) \in Seq(S) /\ Head(s) \in Range(s)
         /\ Range(s) = {Head(s)} \cup Range(Tail(s))
<1>1. /\ Tail(s) \in Seq(S) /\ Len(Tail(s)) = Len(s) - 1 /\ Len(s) \in Nat \ {0}
      /\ \A i \in 1 .. Len(Tail(s)) : Tail(s)[i] = s[i + 1]
  BY HeadTailProperties
<1>2. Head(s) = s[1]
  OBVIOUS
<1>3. Range(Tail(s)) \subseteq Range(s)
  <2> SUFFICES ASSUME NEW i \in 1 .. Len(Tail(s)) PROVE Tail(s)[i] \in Range(s)
    BY <1>1 DEF Range
  <2> QED
    BY <1>1 DEF Range
<1>4. ASSUME NEW i \in 1 .. Len(s), i # 1
      PROVE  s[i] \in Range(Tail(s))
  <2>1. i - 1 \in 1 .. Len(Tail(s)) /\ Tail(s)[i - 1] = s[i]
    BY <1>1, <1>4
  <2>2. DOMAIN Tail(s) = 1 .. Len(Tail(s))
    BY <1>1
  <2> QED
    BY <2>1, <2>2 DEF Range
<1> QED
  BY <1>1, <1>2, <1>3, <1>4 DEF Range

\* While a request waits between its steps, what it holds and lacks now is noted.
LEMMA WaitingAnswers ==
  ASSUME NEW q \in Request, Answering(q), Track, pc'[q] = pc[q], req'[q] = req[q]
  PROVE  Answering(q)'
BY DEF Answering, Track

\* The question as it is asked.
LEMMA AskAnswers ==
  ASSUME Typed, Inv, Track, NEW q \in Request, Ask(q)
  PROVE  Answering(q)'
<1>1. PICK op \in {"CheckAll", "CheckAny"}, list \in Lists :
        Go(q, "check", [Idle EXCEPT !.auth = req[q].auth, !.op = op,
                                    !.asked = list, !.left = list])
  BY DEF Ask
<1> DEFINE known == [Idle EXCEPT !.auth = req[q].auth, !.op = op,
                                 !.asked = list, !.left = list]
<1>2. known.op = op /\ known.asked = list /\ known.left = list
  BY DEF Idle
<1> HIDE DEF known
<1>3. pc'[q] = "check" /\ req'[q] = known
  BY <1>1, Gone DEF known
<1>4. list \in Seq(AnyAuthority)
  BY ListAssumption
<1>5. Holds(q)' \subseteq held'[q] /\ Lacks(q)' \subseteq lacked'[q]
  BY <1>3 DEF Track
<1> QED
  BY <1>2, <1>3, <1>4, <1>5 DEF Answering

\* One authority found to be held was held, one found to be missing was missing, at
\* the moment it was looked up; the other kind of answer ends the call.
LEMMA CheckAnswers ==
  ASSUME Typed, Inv, Track, NEW q \in Request, Answering(q), Check(q)
  PROVE  Answering(q)'
<1> DEFINE asked == Range(req[q].asked)
           left  == Range(req[q].left)
           a     == Head(req[q].left)
           found == CheckAuthority(q, a)
           known == [req[q] EXCEPT !.left = Tail(@)]
<1>0. /\ DOMAIN req[q] = DOMAIN Idle
      /\ pc[q] = "check" /\ req[q].op \in {"CheckAll", "CheckAny"}
      /\ req[q].asked \in Seq(AnyAuthority) /\ req[q].left \in Seq(AnyAuthority)
      /\ left \subseteq asked
      /\ asked \ left \subseteq IF req[q].op = "CheckAll" THEN held[q] ELSE lacked[q]
      /\ Holds(q) \subseteq held[q] /\ Lacks(q) \subseteq lacked[q]
  BY DEF Typed, Fit, Answering, Check
<1>answer. ASSUME NEW outcome, Answer(q, outcome)
           PROVE  /\ pc'[q] = "done" /\ req'[q].answer = outcome
                  /\ req'[q].op = req[q].op /\ req'[q].asked = req[q].asked
                  /\ held[q] \subseteq held'[q] /\ lacked[q] \subseteq lacked'[q]
  <2> DEFINE ended == [req[q] EXCEPT !.answer = outcome]
  <2>1. pc'[q] = "done" /\ req'[q] = ended
    BY <1>answer, Gone DEF Answer
  <2>2. ended.answer = outcome /\ ended.op = req[q].op /\ ended.asked = req[q].asked
    BY <1>0, FieldsOfIdle
  <2> HIDE DEF ended
  <2>3. held[q] \subseteq held'[q] /\ lacked[q] \subseteq lacked'[q]
    BY <2>1 DEF Track
  <2> QED
    BY <2>1, <2>2, <2>3
<1>1. CASE req[q].left = <<>>
  <2>1. left = {}
    BY <1>1 DEF Range
  <2>2. Answer(q, IF req[q].op = "CheckAll" THEN "ok" ELSE "denied")
    BY <1>1 DEF Check
  <2> HIDE DEF left
  <2> QED
    BY <1>0, <2>1, <2>2, <1>answer DEF Answering
<1>2. CASE req[q].left # <<>>
  <2>1. a \in AnyAuthority /\ a \in left
    BY <1>0, <1>2, RangeOfTail, HeadTailProperties
  <2>2. /\ left = {a} \cup Range(Tail(req[q].left))
        /\ Tail(req[q].left) \in Seq(AnyAuthority)
    BY <1>0, <1>2, RangeOfTail
  <2>3. /\ found = "ok" => a \in Holds(q)
        /\ found = "denied" => a \in Lacks(q)
    <3> SUFFICES ASSUME found \in {"ok", "denied"}
                 PROVE  /\ found = "ok" => a \in Holds(q)
                        /\ found = "denied" => a \in Lacks(q)
      OBVIOUS
    <3>1. req[q].auth # NoAuth /\ a.value # Blank
      BY DEF CheckAuthority
    <3>2. found = IF HasAuthority(Login(q), a) THEN "ok" ELSE "denied"
      BY <3>1 DEF CheckAuthority
    <3>3. Login(q) \in LoginID
      <4>1. req[q].auth \in [token : TokenValue, subject : {s.subject : s \in Issues}]
        BY <3>1 DEF Typed, Fit
      <4> QED
        BY <4>1, IssueAssumption DEF Login
    <3>4. HasAuthority(Login(q), a) <=> a \in Entitlements[Login(q)]
      <4>1. HasAuthority(Login(q), a) <=> Entitled(Login(q), a)
        BY <2>1, <3>1, <3>3, AuthorizerSaysTables DEF Typed
      <4>2. Entitlements[Login(q)] = {b \in AnyAuthority : Entitled(Login(q), b)}
        BY <3>3 DEF Entitlements
      <4> QED
        BY <2>1, <4>1, <4>2
    <3>5. Holds(q) = asked \cap Entitlements[Login(q)] /\ Lacks(q) = asked \ Holds(q)
      BY <1>0, <3>1 DEF Holds, Lacks
    <3>6. a \in asked
      BY <1>0, <2>1
    <3> HIDE DEF asked, a, found
    <3> QED
      BY <3>2, <3>4, <3>5, <3>6
  <2>4. found \in {"ok", "denied", "error"}
    BY DEF CheckAuthority
  <2>5. IF found = (IF req[q].op = "CheckAll" THEN "ok" ELSE "denied")
          THEN Go(q, "check", known) ELSE Answer(q, found)
    BY <1>2 DEF Check
  <2> HIDE DEF found
  <2>6. CASE Answer(q, found) /\ found # (IF req[q].op = "CheckAll" THEN "ok" ELSE "denied")
    <3>1. a \in asked
      BY <1>0, <2>1
    <3> HIDE DEF a, left
    <3> QED
      BY <1>0, <2>3, <2>4, <2>6, <3>1, <1>answer DEF Answering
  <2>7. CASE Go(q, "check", known) /\ found = (IF req[q].op = "CheckAll" THEN "ok" ELSE "denied")
    <3>1. /\ known.op = req[q].op /\ known.asked = req[q].asked
          /\ known.left = Tail(req[q].left)
      BY <1>0, FieldsOfIdle
    <3>2. pc'[q] = "check" /\ req'[q] = known
      BY <2>7, Gone
    <3> HIDE DEF known, a, left
    <3>3. /\ Holds(q)' \subseteq held'[q] /\ Lacks(q)' \subseteq lacked'[q]
          /\ held[q] \subseteq held'[q] /\ lacked[q] \subseteq lacked'[q]
      BY <3>2 DEF Track
    <3>4. Range(Tail(req[q].left)) \subseteq asked
      BY <1>0, <2>2
    <3>5. asked \ Range(Tail(req[q].left)) \subseteq
            IF req[q].op = "CheckAll" THEN held'[q] ELSE lacked'[q]
      BY <1>0, <2>2, <2>3, <2>7, <3>3
    <3> QED
      BY <1>0, <2>2, <3>1, <3>2, <3>3, <3>4, <3>5 DEF Answering
  <2> QED
    BY <2>5, <2>6, <2>7
<1> QED
  BY <1>1, <1>2
\* Before it asks, and once it is over and done with, a request has no question.
LEMMA UnaskedAnswers ==
  ASSUME Inv, NEW q \in Request, NEW label, NEW known, Go(q, label, known),
         label # "check", known.op = "none"
  PROVE  Answering(q)'
BY Gone DEF Answering

LEMMA StepAnswers ==
  ASSUME Typed, Inv, Track, NEW q \in Request, Answering(q), Step(q)
  PROVE  Answering(q)'
<1>0. DOMAIN req[q] = DOMAIN Idle /\ Idle.op = "none"
  BY DEF Typed, Fit, Idle
<1>1. CASE ArriveHTTP(q) \/ ArriveBrowser(q) \/ ArriveGRPC(q) \/ Forward(q)
  <2>1. PICK via, message, token : Send(q, via, message, token)
    BY <1>1 DEF ArriveHTTP, ArriveBrowser, ArriveGRPC, Arrive, Forward
  <2> DEFINE known == [Idle EXCEPT !.via = via, !.message = message, !.sent = token]
  <2>2. known.op = "none"
    BY DEF Idle
  <2>3. Go(q, "arrived", known)
    BY <2>1 DEF Send
  <2> HIDE DEF known
  <2> QED
    BY <2>2, <2>3, UnaskedAnswers
<1>2. CASE ArriveUnguarded(q) \/ End(q)
  BY <1>0, <1>2, UnaskedAnswers DEF ArriveUnguarded, End
<1>3. ASSUME pc[q] \in Authenticating, NEW label, NEW known, label # "check",
             Go(q, label, known), known.op = req[q].op
      PROVE  Answering(q)'
  <2>1. known.op = "none"
    BY <1>3 DEF Answering, Authenticating
  <2> QED
    BY <1>3, <2>1, UnaskedAnswers
<1>4. ASSUME pc[q] \in Authenticating, Unauthorized(q)
      PROVE  Answering(q)'
  <2> DEFINE known == [req[q] EXCEPT !.answer = "unauthorized"]
  <2>1. known.op = req[q].op
    BY <1>0, FieldsOfIdle
  <2>2. Go(q, "done", known)
    BY <1>4 DEF Unauthorized, Answer
  <2> HIDE DEF known
  <2> QED
    BY <1>3, <1>4, <2>1, <2>2
<1>5. ASSUME pc[q] \in Authenticating, Authenticate(q)
      PROVE  Answering(q)'
  <2>1. CASE ~Unauthorized(q)
    <3> DEFINE auth  == [token |-> Head(req[q].token), subject |-> req[q].snap.subject]
               known == [req[q] EXCEPT !.auth = auth, !.snap = NoEntry]
    <3>1. Go(q, "handler", known)
      BY <1>5, <2>1 DEF Authenticate
    <3> HIDE DEF auth
    <3>2. known.op = req[q].op
      BY <1>0, FieldsOfIdle
    <3> HIDE DEF known
    <3> QED
      BY <1>3, <1>5, <3>1, <3>2
  <2> QED
    BY <1>4, <1>5, <2>1
<1>6. CASE Extract(q)
  <2>1. PICK token : LET known == [req[q] EXCEPT !.token = token, !.message = NoEntry] IN
                     \/ Go(q, "done", [known EXCEPT !.answer = "unauthorized"])
                     \/ Go(q, "get", known)
    BY <1>6 DEF Extract
  <2> DEFINE known == [req[q] EXCEPT !.token = token, !.message = NoEntry]
             ended == [known EXCEPT !.answer = "unauthorized"]
  <2>2. Go(q, "done", ended) \/ Go(q, "get", known)
    BY <2>1
  <2>3. known.op = req[q].op /\ DOMAIN known = DOMAIN Idle
    BY <1>0, FieldsOfIdle
  <2> HIDE DEF known
  <2>4. ended.op = req[q].op
    BY <2>3, FieldsOfIdle
  <2> HIDE DEF ended
  <2>5. pc[q] \in Authenticating
    BY <1>6 DEF Extract, Authenticating
  <2> QED
    BY <1>3, <2>2, <2>3, <2>4, <2>5
<1>7. CASE Get(q)
  <2> DEFINE known == [req[q] EXCEPT !.snap = tokens[Key(q)].state]
  <2>1. pc[q] \in Authenticating /\ (Unauthorized(q) \/ Go(q, "judge", known))
    BY <1>7 DEF Get, Authenticating
  <2>2. known.op = req[q].op
    BY <1>0, FieldsOfIdle
  <2> HIDE DEF known
  <2> QED
    BY <1>3, <1>4, <2>1, <2>2
<1>8. CASE Judge(q) \/ Renew(q) \/ Sync(q)
  <2>1. /\ pc[q] \in Authenticating
        /\ \/ Unauthorized(q) \/ Authenticate(q)
           \/ Go(q, "renew", req[q]) \/ Go(q, "sync", req[q])
    BY <1>8 DEF Judge, Renew, Sync, Authenticating
  <2> QED
    BY <1>3, <1>4, <1>5, <2>1
<1>9. CASE Ask(q)
  BY <1>9, AskAnswers
<1>10. CASE Check(q)
  BY <1>10, CheckAnswers
<1>11. CASE Fail(q)
  <2>1. CASE pc[q] \in {"get", "renew", "sync"} /\ Unauthorized(q)
    BY <1>4, <2>1 DEF Authenticating
  <2>2. CASE Answer(q, "error")
    <3> DEFINE known == [req[q] EXCEPT !.answer = "error"]
    <3>1. known.answer = "error"
      BY <1>0, FieldsOfIdle
    <3>2. pc'[q] = "done" /\ req'[q] = known
      BY <2>2, Gone DEF Answer
    <3> HIDE DEF known
    <3> QED
      BY <3>1, <3>2 DEF Answering
  <2> QED
    BY <1>11, <2>1, <2>2 DEF Fail
<1> QED
  BY <1>1, <1>2, <1>6, <1>7, <1>8, <1>9, <1>10, <1>11 DEF Step

\* For any users, tables, questions and administrators: what CheckAll and CheckAny
\* answer was so during the call, name by name (Manager.CheckAll, CheckAny).
THEOREM AnswersCorrect == Spec => []AnswersAreTrue
<1> DEFINE AnsweringInv == \A q \in Request : Answering(q)
<1>1. Init => AnsweringInv
  BY DEF Init, Answering, Idle
<1>2. Typed /\ Inv /\ AnsweringInv /\ [Next]_vars => AnsweringInv'
  <2> SUFFICES ASSUME Typed, Inv, AnsweringInv, [Next]_vars, NEW r \in Request
               PROVE  Answering(r)'
    OBVIOUS
  <2>1. CASE UNCHANGED vars
    <3>1. UNCHANGED <<site, policy, pc, req, held, lacked>>
      BY <2>1 DEF vars, ghost
    <3>2. Entitlements' = Entitlements
      BY <3>1 DEF policy, Entitlements, Entitled
    <3>3. Holds(r)' = Holds(r) /\ Lacks(r)' = Lacks(r)
      BY <3>1, <3>2 DEF Holds, Lacks, Login
    <3> QED
      BY <3>1, <3>3 DEF Answering
  <2>2. CASE Next
    <3>1. Track /\ Answering(r)
      BY <2>2 DEF Next
    <3>2. ASSUME NEW q \in Request, Step(q)
          PROVE  Answering(r)'
      <4>1. CASE r = q
        BY <3>1, <3>2, <4>1, StepAnswers
      <4>2. CASE r # q
        BY <3>1, <3>2, <4>2, OthersUnmoved, WaitingAnswers
      <4> QED
        BY <4>1, <4>2
    <3>3. CASE Issue \/ Delete \/ Retire \/ Tick \/ Administer
      <4>1. UNCHANGED <<pc, req>>
        BY <3>3, WorldKeepsStore
      <4> QED
        BY <3>1, <4>1, WaitingAnswers
    <3> QED
      BY <2>2, <3>2, <3>3 DEF Next
  <2> QED
    BY <2>1, <2>2
<1>3. AnsweringInv => AnswersAreTrue
  BY DEF Answering, AnswersAreTrue
<1> QED
  BY <1>1, <1>2, <1>3, InitTyped, NextTyped, InitInv, PTL DEF Spec
=============================================================================
