----------------------------- MODULE TokenLookup -----------------------------
(***************************************************************************)
(* How a request carries a token (plugins/lookup.go, plugins/http,           *)
(* plugins/grpc).  A header, cookie or query value is the sequence of its    *)
(* words: the blanks around and between them decide nothing.  The empty      *)
(* sequence is a missing or blank value; a token is a value of one word.     *)
(***************************************************************************)
EXTENDS FiniteSetsExt, Sequences

CONSTANTS Word, NoPrefix, NoName,
          Lower,            \* [Word -> Word], the case folding of EqualFold
          TokenName, MetadataKey  \* core.DefaultTokenName, "authorization"

ASSUME LookupAssumption ==
  /\ NoPrefix \notin Word
  /\ Lower \in [Word -> Word]

Missing == <<>>

\* A leading prefix is taken off, so a value that is nothing else is missing;
\* a value without the prefix is taken as it is.
Normalize(prefix, value) ==
  IF prefix # NoPrefix /\ value # Missing /\ Lower[Head(value)] = Lower[prefix]
    THEN Tail(value) ELSE value

DefaultOrder == <<"header", "authorization", "cookie">>

\* What one source of a request offers under the rules of a lookup.
Offered(lookup, getters, source) ==
  Normalize(lookup.prefix,
    CASE source = "header"        -> getters.header[lookup.name]
      [] source = "authorization" -> getters.header[lookup.authorizationKey]
      [] source = "cookie"        -> getters.cookie[lookup.name]
      [] source = "query"         -> getters.query[lookup.name])

\* The first source that offers something.
Resolve(lookup, getters) ==
  LET offers == {i \in DOMAIN lookup.order :
                   Offered(lookup, getters, lookup.order[i]) # Missing}
  IN  IF offers = {} THEN Missing
      ELSE Offered(lookup, getters, lookup.order[Min(offers)])

-----------------------------------------------------------------------------
(* plugins/http and plugins/gin.                                            *)

\* WithCookieConfig, SetTokenCookie and ClearTokenCookie default alike.
CookieName(config) == IF config.name = NoName THEN TokenName ELSE config.name

\* Without WithCookieConfig the cookie is called as the token is.
ReadCookieName(options) ==
  IF options.cookie.given THEN CookieName(options.cookie) ELSE options.tokenName

NewExtractor(options) ==
  [name |-> options.tokenName, prefix |-> options.tokenPrefix,
   authorizationKey |-> "Authorization",
   order |-> IF options.allowQuery THEN Append(DefaultOrder, "query") ELSE DefaultOrder]

\* The cookie getter ignores the name it is asked for.
HTTPGetters(options, request) ==
  [header |-> request.header,
   cookie |-> [n \in DOMAIN request.cookie |->
                 IF options.readCookie THEN request.cookie[ReadCookieName(options)]
                                       ELSE Missing],
   query  |-> request.query]

ExtractToken(options, request) ==
  Resolve(NewExtractor(options), HTTPGetters(options, request))

\* SetTokenCookie writes the token as it is, with no prefix.
TokenCookie(config, token) == [name |-> CookieName(config), value |-> <<token>>]

-----------------------------------------------------------------------------
(* plugins/grpc.                                                            *)

\* The client appends to the metadata it was given.
Inject(prefix, key, token, metadata) ==
  [metadata EXCEPT ![key] =
     Append(@, IF prefix = NoPrefix THEN <<token>> ELSE <<prefix, token>>)]

\* Of several values the server takes the first.
FirstValue(values) == IF values = <<>> THEN Missing ELSE Head(values)

ServerLookup(prefix, key) ==
  [name |-> key, prefix |-> prefix, authorizationKey |-> key, order |-> <<"header">>]

ServerExtract(prefix, key, metadata) ==
  Resolve(ServerLookup(prefix, key),
          [header |-> [k \in DOMAIN metadata |-> FirstValue(metadata[k])]])
=============================================================================
