----------------------------- MODULE MCManager -----------------------------
(* Instances of Manager small enough to explore exhaustively.              *)
EXTENDS Manager, TLC

\* Requests are interchangeable: which goroutine serves one makes no difference.
MCSymmetry == Permutations(Client)

\* The default configuration, nothing asked of it and nothing going wrong.
Calm ==
  [concurrent |-> TRUE, requireNonce |-> FALSE, autoRenew |-> FALSE,
   rotateRefreshToken |-> TRUE, revokeAccessTokenOnRefresh |-> TRUE,
   revokeRefreshOnLogout |-> TRUE, timeout |-> 0, activeTimeout |-> 0,
   refreshTimeout |-> 0, nonceTimeout |-> 1, atomicStore |-> TRUE,
   ops |-> {}, devices |-> {}, renewTTL |-> {0}, aliasArgs |-> "none",
   maxClients |-> 3, maxOps |-> 4, maxTokens |-> 8, maxTime |-> 0,
   maxFaults |-> 0, maxCancels |-> 0, maxCrashes |-> 0]

\* Rotating refresh races itself, logout and revocation; calls fail, requests die,
\* and the tokens that Refresh looks out for are offered as new ones.
Rotation ==
  [Calm EXCEPT
     !.ops = {"LoginWithRefresh", "Refresh", "Logout", "LogoutByLoginID",
              "RevokeRefreshToken", "RevokeRefreshByLoginID"},
     !.aliasArgs = "refused", !.maxFaults = 1, !.maxCrashes = 1]

\* Two requests at a time, where callers offer any token they have as a new one: a
\* refresh token that was rotated away or logged out, or an access token.
Recycling ==
  [Calm EXCEPT
     !.ops = {"LoginWithRefresh", "Refresh", "Logout"},
     !.aliasArgs = "any", !.maxClients = 2, !.maxTokens = 6]

\* Nonces, renewal, automatic renewal and online marks race logout and expiry.
Expiry ==
  [Calm EXCEPT
     !.requireNonce = TRUE, !.autoRenew = TRUE, !.timeout = 1, !.activeTimeout = 2,
     !.ops = {"Login", "Logout", "Renew", "GetTokenState", "MarkOnline",
              "MarkOffline", "GenerateNonce", "ConsumeNonce"},
     !.renewTTL = {0, 2}, !.maxOps = 5, !.maxTokens = 3, !.maxTime = 2]

\* One request at a time over a store without AtomicStore.
Legacy ==
  [Calm EXCEPT
     !.atomicStore = FALSE, !.requireNonce = TRUE,
     !.ops = {"LoginWithRefresh", "Refresh", "Logout", "Renew", "MarkOnline",
              "RevokeRefreshToken", "GenerateNonce", "ConsumeNonce"},
     !.maxClients = 1, !.maxOps = 5, !.maxFaults = 1, !.maxCrashes = 1]

\* Non-rotating refresh: the claim on the token, its release, revocation in between.
Reuse ==
  [Calm EXCEPT
     !.rotateRefreshToken = FALSE,
     !.ops = {"LoginWithRefresh", "Refresh", "Logout", "RevokeRefreshToken"},
     !.maxTokens = 5, !.maxFaults = 1, !.maxCancels = 1, !.maxCrashes = 1]

\* The same mode, one request at a time over a store without AtomicStore.
LegacyReuse == [Reuse EXCEPT !.atomicStore = FALSE, !.maxClients = 1]

\* Old tokens offered as new ones to refreshes that do not rotate.
RecyclingReuse ==
  [Reuse EXCEPT !.aliasArgs = "any", !.maxClients = 2, !.maxTokens = 4,
                !.maxFaults = 0, !.maxCancels = 0, !.maxCrashes = 0]

\* Logins that replace the sessions issued before them, and logout by device.
Replacement(d) ==
  [Calm EXCEPT
     !.concurrent = FALSE, !.rotateRefreshToken = FALSE,
     !.ops = {"Login", "LoginWithRefresh", "Refresh", "LogoutByDevice"},
     !.devices = {d}, !.maxClients = 2, !.maxTokens = 5, !.maxCancels = 1]

\* Reusable refresh tokens that expire, and requests that are cancelled.
Release ==
  [Calm EXCEPT
     !.rotateRefreshToken = FALSE, !.refreshTimeout = 1,
     !.ops = {"LoginWithRefresh", "Refresh", "RevokeRefreshToken"},
     !.maxClients = 2, !.maxOps = 3, !.maxTokens = 4, !.maxTime = 1, !.maxCancels = 2]

\* The context is done when the refresh token is to be stored.
CancelledLogin ==
  [Calm EXCEPT !.ops = {"LoginWithRefresh"}, !.maxOps = 1, !.maxTokens = 2,
               !.maxCancels = 1]

\* A logout by device that failed half-way is tried again.
RetriedLogout(d) ==
  [Calm EXCEPT !.ops = {"LoginWithRefresh", "LogoutByDevice"}, !.devices = {d},
               !.maxOps = 3, !.maxTokens = 2, !.maxFaults = 1]

\* A logout while a rotating refresh of the same session is in flight.
RacedLogout ==
  [Calm EXCEPT !.ops = {"LoginWithRefresh", "Refresh", "LogoutByLoginID"},
               !.maxOps = 3, !.maxTokens = 4]

MCRotate == {Rotation, Recycling, Expiry, Legacy}
MCReuse == {Reuse, RecyclingReuse, LegacyReuse} \cup {Replacement(d) : d \in Device}
MCRelease == {Release}
MCRollback == {CancelledLogin}
MCLogoutRetry == {RetriedLogout(d) : d \in Device}
MCLogoutRace == {RacedLogout}
=============================================================================
