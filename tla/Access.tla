------------------------------- MODULE Access -------------------------------
(***************************************************************************)
(* The path of a request through the library: a middleware or interceptor    *)
(* (plugins/http, plugins/gin, plugins/grpc) extracts a token and            *)
(* authenticates it (plugins/authenticate.go), a handler asks the Manager    *)
(* for authorities (Manager.CheckAll, CheckAny and the calls they are made   *)
(* of) or calls another service with the token it was given.  Meanwhile      *)
(* tokens are issued, revoked and expire, and an administrator changes who   *)
(* may do what: a request reads all of that in several steps.                *)
(*                                                                         *)
(* The writing flows of the Manager are in Manager.tla; here each appears by *)
(* the one store call that matters to a reader.                             *)
(***************************************************************************)
EXTENDS TokenLookup, Authority

CONSTANTS Request,
          TokenValue,   \* the tokens that may be issued, words of a header
          NoToken, NoEntry, NoAuth,
          Sites,        \* how the middleware, client and Manager may be set up
          Requests,     \* the HTTP requests that may arrive
          Issues,       \* the token states login flows save
          Lists,        \* what a handler may ask for: sequences of authorities
          ActiveTimeout, MaxTime

ASSUME AccessAssumption ==
  /\ TokenValue \subseteq Word
  /\ NoToken \notin Word
  /\ {ActiveTimeout, MaxTime} \subseteq Nat

\* storeKey: the store sees a hash of a token, never the token.
StoreKey(t) == <<"sha256", t>>

Token == {StoreKey(t) : t \in TokenValue}

INSTANCE StoreOps

States == [kind : TokenKind, subject : {s.subject : s \in Issues},
           status : TokenStatus, expiresAt : Deadline]

ASSUME IssueAssumption ==
  /\ Issues \subseteq States
  /\ \A s \in Issues : s.subject.loginID \in LoginID

\* A request answers for every name a site looks up, and one may carry nothing.
ASSUME RequestAssumption ==
  /\ \A r \in Requests :
       /\ DOMAIN r = {"header", "cookie", "query"}
       /\ \A s \in Sites :
            /\ {s.tokenName, "Authorization"} \subseteq DOMAIN r.header
            /\ {s.tokenName, ReadCookieName(s)} \subseteq DOMAIN r.cookie
            /\ s.tokenName \in DOMAIN r.query
  /\ \E r \in Requests :
       \A part \in {"header", "cookie", "query"} :
         \A n \in DOMAIN r[part] : r[part][n] = Missing

ASSUME ListAssumption == Lists \subseteq Seq(AnyAuthority)

VARIABLES site,        \* how this service is set up, for good
          now, tokens, \* the clock and the store, as in Manager.tla
          userRoles, rolePermissions, directPermissions,  \* rbac.Authorizer
          authorities,                                     \* MemoryAuthorizer
          pc, req,     \* per request: the next step, what it knows so far
          valid,       \* the holders its token had since it arrived
          held, lacked \* what its user held, and lacked, since it asked

Roles  == INSTANCE RBAC
Direct == INSTANCE MemoryAuthorizer

policy == <<userRoles, rolePermissions, directPermissions, authorities>>
ghost  == <<valid, held, lacked>>
vars   == <<site, now, tokens, policy, pc, req, ghost>>

-----------------------------------------------------------------------------
(* The authorizer the Manager was given.                                    *)

HasAuthority(login, a) ==
  IF site.authorizer = "rbac" THEN Roles!HasAuthority(login, a)
                              ELSE Direct!HasAuthority(login, a)

GetAuthorities(login) ==
  IF site.authorizer = "rbac" THEN Roles!GetAuthorities(login)
                              ELSE Direct!GetAuthorities(login)

-----------------------------------------------------------------------------
(* A request.                                                              *)

Idle == [via |-> "none", message |-> NoEntry, sent |-> NoToken, token |-> Missing,
         snap |-> NoEntry, auth |-> NoAuth, op |-> "none", asked |-> <<>>,
         left |-> <<>>, answer |-> "none"]

Go(q, label, known) ==
  /\ pc' = [pc EXCEPT ![q] = label]
  /\ req' = [req EXCEPT ![q] = known]

World == <<site, now, tokens, policy>>

\* The request is over and this is the outcome.
Answer(q, outcome) == Go(q, "done", [req[q] EXCEPT !.answer = outcome])

\* The middlewares and interceptors turn every failure into one answer.
Unauthorized(q) == Answer(q, "unauthorized")

Send(q, via, message, sent) ==
  Go(q, "arrived", [Idle EXCEPT !.via = via, !.message = message, !.sent = sent])

Arrive(q, via, message, sent) ==
  /\ pc[q] = "idle"
  /\ Send(q, via, message, sent)
  /\ UNCHANGED World

\* Any HTTP request, written by whatever client.
ArriveHTTP(q) == \E r \in Requests : Arrive(q, "http", r, NoToken)

NoRequest == CHOOSE r \in Requests :
  \A part \in {"header", "cookie", "query"} :
    \A n \in DOMAIN r[part] : r[part][n] = Missing

\* A browser sends back the cookie SetTokenCookie left there.
ArriveBrowser(q) ==
  \E t \in TokenValue :
    LET cookie == TokenCookie(site.cookie, t) IN
    Arrive(q, "http", [NoRequest EXCEPT !.cookie[cookie.name] = cookie.value], t)

Metadata(values) == [k \in {MetadataKey} |-> values]

\* A gRPC client with this library's interceptor; a value the application put
\* under the key itself, if only a blank one, comes first.
ArriveGRPC(q) ==
  \E t \in TokenValue, own \in {<<>>, <<Missing>>} :
    Arrive(q, "grpc", Inject(site.clientPrefix, MetadataKey, t, Metadata(own)),
           IF own = <<>> THEN t ELSE NoToken)

\* A handler with no middleware in front of it.
ArriveUnguarded(q) ==
  /\ pc[q] = "idle"
  /\ Go(q, "handler", Idle)
  /\ UNCHANGED World

Extract(q) ==
  /\ pc[q] = "arrived"
  /\ LET token == IF req[q].via = "grpc"
                    THEN ServerExtract(site.serverPrefix, MetadataKey, req[q].message)
                    ELSE ExtractToken(site, req[q].message)
         known == [req[q] EXCEPT !.token = token, !.message = NoEntry]
     IN  IF token = Missing THEN Go(q, "done", [known EXCEPT !.answer = "unauthorized"])
                            ELSE Go(q, "get", known)
  /\ UNCHANGED World

\* The key of what was extracted; several words are the name of no token.
Key(q) == StoreKey(Head(req[q].token))

Known(q) == Len(req[q].token) = 1 /\ Key(q) \in Token

Get(q) ==
  /\ pc[q] = "get"
  /\ IF Known(q) /\ tokens[Key(q)] # NoEntry /\ tokens[Key(q)].state.status = "active"
       THEN Go(q, "judge", [req[q] EXCEPT !.snap = tokens[Key(q)].state])
       ELSE Unauthorized(q)
  /\ UNCHANGED World

\* Mutant: a token of any kind will do.
AuthenticateAnyKind(q) ==
  Go(q, "handler", [req[q] EXCEPT !.auth = [token   |-> Head(req[q].token),
                                            subject |-> req[q].snap.subject],
                                  !.snap = NoEntry])

\* Mutant: the context carries the storage key.
AuthenticateKey(q) ==
  IF req[q].snap.kind # "access" THEN Unauthorized(q)
  ELSE Go(q, "handler", [req[q] EXCEPT !.auth = [token   |-> Key(q),
                                                 subject |-> req[q].snap.subject],
                                       !.snap = NoEntry])

\* The context carries the token as the caller presented it, and its holder.
Authenticate(q) ==
  IF req[q].snap.kind # "access" THEN Unauthorized(q)
  ELSE Go(q, "handler", [req[q] EXCEPT !.auth = [token   |-> Head(req[q].token),
                                                 subject |-> req[q].snap.subject],
                                       !.snap = NoEntry])

\* The snapshot is judged by a later clock: expired by then, it is deleted.
Judge(q) ==
  /\ pc[q] = "judge"
  /\ LET s == req[q].snap IN
       IF IsExpired(s, now)
         THEN Unauthorized(q) /\ tokens' = Drop(tokens, {Key(q)})
         ELSE /\ UNCHANGED tokens
              /\ IF site.autoRenew /\ s.kind = "access" THEN Go(q, "renew", req[q])
                                                        ELSE Authenticate(q)
  /\ UNCHANGED <<site, now, policy>>

Renewed(state) ==
  [state EXCEPT !.expiresAt = IF ActiveTimeout > 0 THEN now + ActiveTimeout ELSE @]

\* Automatic renewal: only an unchanged token is renewed, or served.
Renew(q) ==
  /\ pc[q] = "renew"
  /\ LET next == Renewed(req[q].snap) IN
       IF Matches(tokens, Key(q), req[q].snap, now)
         THEN /\ tokens' = Put(tokens, Key(q), next,
                               EffectiveExpiresAt(next, now, RemainingTTL(next, now)))
              /\ Go(q, "sync", req[q])
         ELSE Unauthorized(q) /\ UNCHANGED tokens
  /\ UNCHANGED <<site, now, policy>>

\* The session's lifetime follows; it decides nothing here.
Sync(q) == pc[q] = "sync" /\ Authenticate(q) /\ UNCHANGED World

-----------------------------------------------------------------------------
(* The handler.                                                            *)

Ask(q) ==
  /\ pc[q] = "handler"
  /\ \E op \in {"CheckAll", "CheckAny"}, list \in Lists :
       Go(q, "check", [Idle EXCEPT !.auth = req[q].auth, !.op = op,
                                   !.asked = list, !.left = list])
  /\ UNCHANGED World

Login(q) == req[q].auth.subject.loginID

\* CheckAuthority: CheckPermission and CheckRole build the authority.
CheckAuthority(q, a) ==
  IF req[q].auth = NoAuth \/ a.value = Blank THEN "error"
  ELSE IF HasAuthority(Login(q), a) THEN "ok" ELSE "denied"

\* Mutant: the last answer is the answer.
CheckLast(q) ==
  /\ pc[q] = "check"
  /\ IF req[q].left = <<>>
       THEN Answer(q, IF req[q].op = "CheckAll" THEN "ok" ELSE "denied")
       ELSE LET found == CheckAuthority(q, Head(req[q].left)) IN
            IF Len(req[q].left) > 1
              THEN Go(q, "check", [req[q] EXCEPT !.left = Tail(@)])
              ELSE Answer(q, found)
  /\ UNCHANGED World

\* CheckAll goes on while the answer is yes, CheckAny while it is no; an error
\* ends both.
Check(q) ==
  /\ pc[q] = "check"
  /\ IF req[q].left = <<>>
       THEN Answer(q, IF req[q].op = "CheckAll" THEN "ok" ELSE "denied")
       ELSE LET found == CheckAuthority(q, Head(req[q].left)) IN
            IF found = (IF req[q].op = "CheckAll" THEN "ok" ELSE "denied")
              THEN Go(q, "check", [req[q] EXCEPT !.left = Tail(@)])
              ELSE Answer(q, found)
  /\ UNCHANGED World

\* The handler calls another service of the same set-up with the token of its
\* context, if it has one; the metadata of the call starts empty.
Forward(q) ==
  /\ pc[q] = "handler"
  /\ req[q].via \in {"none", "http"}
  /\ IF req[q].auth = NoAuth
       THEN Send(q, "grpc", Metadata(<<>>), NoToken)
       ELSE Send(q, "grpc", Inject(site.clientPrefix, MetadataKey, req[q].auth.token,
                                   Metadata(<<>>)), Head(req[q].token))
  /\ UNCHANGED World

\* A store call or an authorizer fails, or the context of the request is done.
Fail(q) ==
  /\ \/ pc[q] \in {"get", "renew", "sync"} /\ Unauthorized(q)
     \/ pc[q] = "check" /\ req[q].left # <<>> /\ Answer(q, "error")
  /\ UNCHANGED World

End(q) == pc[q] = "done" /\ Go(q, "idle", Idle) /\ UNCHANGED World

Step(q) ==
  \/ ArriveHTTP(q) \/ ArriveBrowser(q) \/ ArriveGRPC(q) \/ ArriveUnguarded(q)
  \/ Extract(q) \/ Get(q) \/ Judge(q) \/ Renew(q) \/ Sync(q)
  \/ Ask(q) \/ Check(q) \/ Forward(q) \/ Fail(q) \/ End(q)

-----------------------------------------------------------------------------
(* The rest of the world.                                                   *)

\* A login flow saves a token, also over one of the same name.
Issue ==
  /\ \E t \in TokenValue, s \in Issues :
       /\ ~IsExpired(s, now)
       /\ tokens' = Put(tokens, StoreKey(t), s, s.expiresAt)
  /\ UNCHANGED <<site, now, policy, pc, req>>

\* Logout, replacement, revocation by subject.
Delete ==
  /\ \E k \in Stored(tokens) : tokens' = Drop(tokens, {k})
  /\ UNCHANGED <<site, now, policy, pc, req>>

\* A refresh claims its token, or RevokeRefreshToken revokes it.
Retire ==
  /\ \E k \in Stored(tokens) :
       /\ tokens[k].state.kind = "refresh" /\ tokens[k].state.status = "active"
       /\ \/ tokens' = Consume(tokens, k, {"refresh"}, now)
          \/ tokens' = Rewrite(tokens, k, MarkRevoked(tokens[k].state))
  /\ UNCHANGED <<site, now, policy, pc, req>>

Tick ==
  /\ now < MaxTime
  /\ now' = now + 1
  /\ tokens' = Drop(tokens, Stored(tokens) \ Live(tokens, now + 1))
  /\ UNCHANGED <<site, policy, pc, req>>

Administer ==
  /\ \/ /\ site.authorizer = "rbac"
        /\ Roles!Administer
        /\ UNCHANGED authorities
     \/ /\ site.authorizer = "memory"
        /\ Direct!Administer
        /\ UNCHANGED <<userRoles, rolePermissions, directPermissions>>
  /\ UNCHANGED <<site, now, tokens, pc, req>>

-----------------------------------------------------------------------------
(* What was true while a request ran: the answers are judged by it.          *)

\* The tokens that authenticate somebody now.
Usable ==
  {u \in TokenValue \X {i.subject : i \in Issues} :
     LET entry == tokens[StoreKey(u[1])] IN
     /\ entry # NoEntry
     /\ entry.state.kind = "access"
     /\ entry.state.subject = u[2]
     /\ IsActive(entry.state, now)}

\* A granted name covers a requested one: the same, or a prefix and a star.
Covers(granted, requested) ==
  \/ granted = requested
  \/ \E n \in 0 .. Len(requested) : granted = Append(SubSeq(requested, 1, n), Star)

\* What the tables of the authorizer say, name by name.
Entitled(login, a) ==
  CASE site.authorizer = "rbac" /\ a.type = "role" -> a.value \in userRoles[login]
    [] site.authorizer = "rbac" /\ a.type = "permission" ->
         \/ \E p \in directPermissions[login] : Covers(p, a.value)
         \/ \E r \in userRoles[login] : \E p \in rolePermissions[r] : Covers(p, a.value)
    [] OTHER -> \E g \in authorities[login] : g.type = a.type /\ Covers(g.value, a.value)

Entitlements ==
  [login \in LoginID |-> {a \in AnyAuthority : Entitled(login, a)}]

Authenticating == {"arrived", "get", "judge", "renew", "sync"}

\* Among what a checking request asks for, what its user is entitled to.
Holds(q) ==
  IF pc[q] # "check" \/ req[q].auth = NoAuth THEN {}
  ELSE Range(req[q].asked) \cap Entitlements[Login(q)]

Lacks(q) == IF pc[q] # "check" THEN {} ELSE Range(req[q].asked) \ Holds(q)

Track ==
  /\ valid' = [q \in Request |->
       IF pc'[q] \in Authenticating
         THEN (IF pc[q] \in Authenticating THEN valid[q] ELSE {}) \cup Usable'
       ELSE IF pc'[q] = "handler" THEN valid[q] ELSE {}]
  /\ held' = [q \in Request |->
       IF pc'[q] \in {"check", "done"} THEN held[q] \cup Holds(q)' ELSE {}]
  /\ lacked' = [q \in Request |->
       IF pc'[q] \in {"check", "done"} THEN lacked[q] \cup Lacks(q)' ELSE {}]

Init ==
  /\ site \in Sites
  /\ now = 0
  /\ tokens = [k \in Token |-> NoEntry]
  /\ Roles!Init
  /\ Direct!Init
  /\ pc = [q \in Request |-> "idle"]
  /\ req = [q \in Request |-> Idle]
  /\ valid = [q \in Request |-> {}]
  /\ held = [q \in Request |-> {}]
  /\ lacked = [q \in Request |-> {}]

Next ==
  /\ \/ \E q \in Request : Step(q)
     \/ Issue \/ Delete \/ Retire \/ Tick \/ Administer
  /\ Track

Spec == Init /\ [][Next]_vars
-----------------------------------------------------------------------------
\* Every variable has its type: the tables of the authorizers, the store, and
\* what a request carries from one of its steps to the next.
TypeOK ==
  /\ site \in Sites
  /\ now \in Nat
  /\ tokens \in [Token -> [state : States, expiresAt : Deadline] \cup {NoEntry}]
  /\ userRoles \in [LoginID -> SUBSET (Name \ {Blank})]
  /\ rolePermissions \in [Name -> SUBSET (Name \ {Blank})]
  /\ directPermissions \in [LoginID -> SUBSET (Name \ {Blank})]
  /\ authorities \in [LoginID \cup {BlankID} -> SUBSET AnyAuthority]
  /\ pc \in [Request -> Authenticating \cup {"idle", "handler", "check", "done"}]
  /\ \A q \in Request :
       /\ req[q].snap \in States \cup {NoEntry}
       /\ req[q].auth \in [token : TokenValue, subject : {s.subject : s \in Issues}] \cup {NoAuth}
       /\ req[q].answer \in {"none", "unauthorized", "ok", "denied", "error"}

\* A request is let through as somebody only if its token was a usable access
\* token of that somebody at some moment since the request arrived: a logout or
\* an expiry before that, a refresh token, a token rebound to another user never
\* authenticate (getTokenState, Authenticate).
ServedAsHolder ==
  \A q \in Request :
    pc[q] = "handler" /\ req[q].auth # NoAuth =>
      <<Head(req[q].token), req[q].auth.subject>> \in valid[q]

\* Client and server of a call agree on the prefix, or the client adds none;
\* a cookie is read under the configuration it was written with.
SetUpAlike(q) ==
  IF req[q].via = "grpc" THEN site.clientPrefix \in {NoPrefix, site.serverPrefix}
                         ELSE site.readCookie /\ site.cookie.given

\* What this library wrote for a token (SetTokenCookie, the client interceptor,
\* also one that passes on the token of its own caller) is read as that token.
WriterIsHeard ==
  \A q \in Request :
    pc[q] \in {"get", "judge", "renew", "sync", "done"} /\ req[q].sent # NoToken
      /\ SetUpAlike(q) => req[q].token = <<req[q].sent>>

\* An answer of CheckAll or CheckAny was right at some moment of the call, name
\* by name: what is said to be held was held, what is said to be missing was
\* missing, whatever an administrator did between the steps.
AnswersAreTrue ==
  \A q \in Request :
    pc[q] = "done" /\ req[q].op # "none" =>
      LET asked == Range(req[q].asked)
          all   == req[q].op = "CheckAll"
      IN  /\ req[q].answer = "ok" =>
               IF all THEN asked \subseteq held[q] ELSE asked \cap held[q] # {}
          /\ req[q].answer = "denied" =>
               IF all THEN asked \cap lacked[q] # {} ELSE asked \subseteq lacked[q]

\* What GetAuthorities lists and what HasAuthority answers agree: an authority is
\* granted exactly when a listed one covers it.
ListingAgrees ==
  \A login \in LoginID : \A a \in AnyAuthority :
    a.value # Blank =>
      (HasAuthority(login, a) <=>
         \E g \in GetAuthorities(login) :
           /\ g.type = a.type
           /\ IF site.authorizer = "rbac" /\ a.type = "role" THEN g = a
                                                            ELSE Covers(g.value, a.value))
=============================================================================
