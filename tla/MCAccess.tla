----------------------------- MODULE MCAccess -----------------------------
(* An instance of Access small enough to explore exhaustively. *)
EXTENDS Access, TLC

CONSTANTS u1, u2, t1, Bearer, bearer, other

MCName == {<<>>, <<"a", "*">>, <<"a", "b">>}

MCRoleName == {<<>>, <<"a", "*">>}

MCLower == [w \in Word |-> IF w = Bearer THEN bearer ELSE w]

Subject(id) == [loginID |-> id, loginType |-> "login"]

\* What the login flows of two users save.
MCIssues ==
  {[kind |-> "access", subject |-> Subject(u1), status |-> "active", expiresAt |-> Never],
   [kind |-> "access", subject |-> Subject(u2), status |-> "active", expiresAt |-> 1],
   [kind |-> "refresh", subject |-> Subject(u1), status |-> "active", expiresAt |-> Never]}

HTTPRequest(header, cookie, query) ==
  [header |-> [n \in {TokenName, "Authorization"} |->
                 IF n = "Authorization" THEN header ELSE Missing],
   cookie |-> [n \in {TokenName, "access"} |-> IF n = TokenName THEN cookie ELSE Missing],
   query  |-> [n \in {TokenName} |-> query]]

\* A token in each source, with and without a prefix, and others in front of it.
MCRequests ==
  {HTTPRequest(Missing, Missing, Missing), HTTPRequest(<<t1>>, Missing, Missing),
   HTTPRequest(<<bearer, t1>>, Missing, <<other>>), HTTPRequest(<<Bearer>>, <<t1>>, Missing),
   HTTPRequest(Missing, Missing, <<t1>>), HTTPRequest(<<other>>, <<t1>>, Missing)}

Site(authorizer, prefix, query, cookies, cookie, client, server, renew) ==
  [authorizer |-> authorizer, tokenName |-> TokenName, tokenPrefix |-> prefix,
   allowQuery |-> query, readCookie |-> cookies, cookie |-> cookie,
   clientPrefix |-> client, serverPrefix |-> server, autoRenew |-> renew]

NoCookie == [given |-> FALSE, name |-> NoName]

MCSites ==
  {Site("rbac", NoPrefix, FALSE, TRUE, NoCookie, NoPrefix, NoPrefix, FALSE),
   Site("rbac", Bearer, FALSE, FALSE, NoCookie, Bearer, NoPrefix, TRUE),
   Site("memory", Bearer, TRUE, TRUE, [given |-> TRUE, name |-> "access"], Bearer, Bearer, TRUE)}

MCLists ==
  {<<>>, <<Permission(<<"a", "b">>)>>, <<Permission(Blank)>>,
   <<Permission(<<"a", "b">>), Role(<<"a", "b">>)>>,
   <<Role(<<"a", "*">>), Permission(<<"a", "*">>)>>}
=============================================================================
