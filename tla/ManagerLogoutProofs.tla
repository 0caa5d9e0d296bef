------------------------ MODULE ManagerLogoutProofs ------------------------
(***************************************************************************)
(* What a returned logout, replacement, revocation or redemption promised    *)
(* holds from then on: the tokens it covered stay unusable, and so do the    *)
(* refresh tokens that name one of them.  The invariant says what a request  *)
(* has done so far of what it will promise when it returns.  The last parts   *)
(* are about what nobody logged out, the access token of a refresh token,     *)
(* and about what a logout by device promises once all is quiet.              *)
(***************************************************************************)
EXTENDS ManagerProofs

IssuedKeys == {StoreKey(t) : t \in issued}

\* The refresh tokens that name a token as their access token.
LinksTo(k) ==
  {j \in Stored(tokens) : tokens[j].state.kind = "refresh" /\ tokens[j].state.access = k}

\* Stored, but out of use for good.
Retired(k) ==
  \/ tokens[k].state.status = "revoked"
  \/ \E t \in TokenValue : k = StoreKey(t) /\ redeemed[t] = 1

Dead(k) == k \in IssuedKeys /\ (tokens[k] = NoEntry \/ Retired(k))

Severed(k) == \A j \in LinksTo(k) : Retired(j)

LinkedWithin(k, subject) == \A j \in LinksTo(k) : tokens[j].state.subject = subject

\* A stored refresh token names an access token of the same subject that was handed
\* out, and shares it with no other.
Chained ==
  /\ \A k \in Token \cup {NoKey} : \A j \in LinksTo(k) :
       k \in IssuedKeys /\ (tokens[k] # NoEntry
                              => tokens[k].state.subject = tokens[j].state.subject)
  /\ \A k \in Token : \A i, j \in LinksTo(k) : i = j

\* The operations that promise what a subject had when they began, and the calls they
\* have still to make: all of them, those on refresh tokens, none.
Covering == LoginOps \cup {"LogoutByLoginID", "LogoutByDevice", "RevokeRefreshByLoginID"}
Asked == {"nonce", "judgeNonce", "replace", "logoutAccess"}
HalfDone == {"replaceRefresh", "logoutRefresh"}
OnDevice == {"deleteAccess", "findLinked", "deleteLinked"}
Wide == Asked \cup HalfDone \cup OnDevice \cup {"revokeAll", "findDevice"}

SweptKinds == IF RevokeRefreshOnLogout THEN {"access", "refresh"} ELSE {"access"}

OfKind(c, k, kinds) ==
  tokens[k].state.subject = loc[c].subject /\ tokens[k].state.kind \in kinds

\* A covered token is gone, or a call that is still to come will find it.
Left(c, k) ==
  \/ tokens[k] = NoEntry
  \/ pc[c] \in Asked /\ OfKind(c, k, SweptKinds)
  \/ pc[c] \in HalfDone \cup {"revokeAll"} /\ OfKind(c, k, {"refresh"})
  \/ /\ pc[c] = "findDevice"
     /\ OfKind(c, k, {"access"}) /\ tokens[k].state.device = loc[c].device
  \/ pc[c] \in OnDevice /\ loc[c].op = "LogoutByDevice" /\ k \in loc[c].targets

\* So are the refresh tokens that name it.
Cut(c, k) ==
  IF pc[c] \in Asked \cup HalfDone THEN LinkedWithin(k, loc[c].subject) ELSE Severed(k)

Sweeps(c) ==
  /\ loc[c].covered \subseteq IssuedKeys
  /\ \A k \in loc[c].covered :
       /\ Left(c, k)
       /\ RevokeRefreshOnLogout /\ loc[c].op # "LogoutByDevice" => Cut(c, k)
  /\ loc[c].covered # {} =>
       loc[c].op \in Covering /\ ~(loc[c].op \in LoginOps /\ Concurrent)

\* A logout of one token deletes it, then the refresh tokens that name it.
LogsOut(c) ==
  /\ loc[c].op \in LookupOps => loc[c].cur \in IssuedKeys
  /\ loc[c].op = "Logout" =>
       /\ loc[c].targets = {}
       /\ pc[c] \in {"deleteAccess", "findLinked"} => LinkedWithin(loc[c].cur, loc[c].subject)
       /\ pc[c] \in {"findLinked", "deleteLinked"} => tokens[loc[c].cur] = NoEntry
       /\ pc[c] = "deleteLinked" => LinksTo(loc[c].cur) \subseteq loc[c].todo

\* A refresh past the claim, and past the deletion of the old access token.
Replacing == {"replace", "replaceRefresh", "findOthers", "deleteOthers", "saveAccess",
              "session", "saveNext"}

Renews(c) ==
  loc[c].op = "Refresh" /\ pc[c] \notin Before =>
    /\ loc[c].snap.access \in IssuedKeys
    /\ loc[c].subject = loc[c].snap.subject
    /\ LinksTo(loc[c].snap.access) \subseteq {StoreKey(loc[c].ref)}
    /\ RevokeAccessTokenOnRefresh /\ pc[c] \in Replacing
         => tokens[loc[c].snap.access] = NoEntry

\* The access token that is to be linked is the subject's.
Storing == {"session", "saveRefresh", "saveNext"}

Stores(c) ==
  loc[c].op \in Issuing /\ pc[c] \in Storing =>
    LET k == StoreKey(loc[c].acc) IN
    tokens[k] # NoEntry => tokens[k].state.subject = loc[c].subject

Serves(c) ==
  /\ loc[c].op \in Ops \cup {"none"}
  /\ pc[c] \in OnDevice => loc[c].op \in {"Logout", "LogoutByDevice"}
  /\ pc[c] = "findDevice" => loc[c].op = "LogoutByDevice"
  /\ pc[c] \in {"getRefresh", "revoke"} => loc[c].op = "RevokeRefreshToken"

Promise(c) == Serves(c) /\ Sweeps(c) /\ LogsOut(c) /\ Renews(c) /\ Stores(c)

\* A logout by device that finds the access token gone has not looked for the refresh
\* tokens that name it when it returns: DeviceLogoutRevokes does not hold, and what does
\* is the last part of this module.
Severs == RevokeRefreshOnLogout /\ "LogoutByDevice" \notin Ops

Buried(k) == Dead(k) /\ (Severs => Severed(k))

Promised ==
  /\ Chained
  /\ \A c \in Client : Promise(c)
  /\ \A k \in dead : Buried(k)

-----------------------------------------------------------------------------
(* What a step does to a token that was handed out: it only loses.          *)

Loses(k) ==
  /\ k \in IssuedKeys'
  /\ tokens[k] = NoEntry => tokens'[k] = NoEntry
  /\ tokens'[k] # NoEntry =>
       /\ tokens'[k].state.kind = tokens[k].state.kind
       /\ tokens'[k].state.subject = tokens[k].state.subject
       /\ tokens[k].state.kind = "access"
            => tokens'[k].state.device = tokens[k].state.device
  /\ LinksTo(k)' \subseteq LinksTo(k)
  /\ \A j \in LinksTo(k)' : /\ tokens'[j].state.subject = tokens[j].state.subject
                            /\ Retired(j) => Retired(j)'
  /\ Dead(k) => Dead(k)'

AllLose == \A k \in IssuedKeys : Loses(k)

LEMMA IssuedKeysTyped ==
  ASSUME Typed
  PROVE  IssuedKeys \subseteq Token
BY KeysDiffer DEF Typed, IssuedKeys

\* A stored one-time token was handed out, and no refresh token names it.
LEMMA OneTimeKeys ==
  ASSUME Typed, Disjoint, NEW k \in Token, tokens[k] # NoEntry, tokens[k].state.kind \in OneTime
  PROVE  k \in IssuedKeys /\ LinksTo(k) = {}
  <1>1. PICK t \in TokenValue : k = StoreKey(t)
    BY DEF Token
  <1>2. OneTimeStored(t) /\ t \in issued
    BY <1>1 DEF OneTimeStored, Typed
  <1>3. LinksTo(k) = {}
    BY <1>1, <1>2 DEF Disjoint, IsOneTime, LinksTo, Stored
  <1> QED
    BY <1>1, <1>2, <1>3 DEF IssuedKeys

LEMMA IssuedGrow ==
  ASSUME NEW c \in Client, Advances(c)
  PROVE  IssuedKeys \subseteq IssuedKeys'
BY DEF Advances, Leaves, Stays, IssuedKeys

\* Nobody stores it anew: it is kept, released by the refresh that claimed it, or gone.
LEMMA IssuedEffect ==
  ASSUME Core, ~AliasArgs, NEW c \in Client, Advances(c), NEW k \in IssuedKeys
  PROVE  /\ k \in Token
         /\ \/ tokens'[k] = tokens[k] \/ tokens'[k] = NoEntry
            \/ Kept(k) \/ PutBack(c, k)
  <1>1. PICK t \in issued : k = StoreKey(t)
    BY DEF IssuedKeys
  <1>2. t \in TokenValue /\ k \in Token
    BY <1>1, KeysDiffer DEF Core, Typed
  <1>3. ~PutAccess(c, k)
    BY <1>1, KeysDiffer DEF Core, AccessIsNew, PutAccess, NewAccess
  <1>4. ~PutOneTime(c, k)
    BY <1>1, <1>2, StoringIsNew
  <1> QED
    BY <1>2, <1>3, <1>4 DEF Advances, Effect

LEMMA RetiredStays ==
  ASSUME Core, ~AliasArgs, NEW c \in Client, Advances(c), NEW k \in IssuedKeys,
         tokens[k] # NoEntry, tokens'[k] # NoEntry, Retired(k)
  PROVE  Retired(k)'
  <1>1. CASE tokens[k].state.status = "revoked"
    <2>1. tokens'[k] = tokens[k] \/ Kept(k)
      BY <1>1, IssuedEffect DEF PutBack
    <2> QED
      BY <1>1, <2>1 DEF Kept, Retired
  <1>2. ASSUME NEW t \in TokenValue, k = StoreKey(t), redeemed[t] = 1 PROVE Retired(k)'
    BY <1>2, RedeemedStays DEF Retired
  <1> QED
    BY <1>1, <1>2 DEF Retired

\* The refresh token that a request stores or releases with its new access token.
NewLink(c, j) ==
  /\ loc[c].op \in Issuing /\ pc[c] \in {"saveRefresh", "saveNext"}
  /\ tokens'[j].state.access = StoreKey(loc[c].acc) /\ loc[c].acc \in issued'
  /\ \/ /\ \E t \in Offered(c) : j = StoreKey(t)
        /\ tokens'[j].state.subject = loc[c].subject
     \/ /\ loc[c].op = "Refresh" /\ ~RotateRefreshToken /\ j = StoreKey(loc[c].ref)
        /\ tokens'[j].state.subject = loc[c].snap.subject

LEMMA LinkOrigin ==
  ASSUME NEW c \in Client, Advances(c), NEW k, NEW j \in LinksTo(k)'
  PROVE  \/ j \in LinksTo(k) /\ tokens'[j].state.subject = tokens[j].state.subject
         \/ NewLink(c, j) /\ k = StoreKey(loc[c].acc)
  <1>1. /\ j \in Token /\ tokens'[j] # NoEntry
        /\ tokens'[j].state.kind = "refresh" /\ tokens'[j].state.access = k
    BY DEF LinksTo, Stored
  <1>2. CASE tokens'[j] = tokens[j] \/ Kept(j)
    BY <1>1, <1>2 DEF LinksTo, Stored, Kept, SameBearer
  <1>3. CASE PutAccess(c, j)
    BY <1>1, <1>3 DEF PutAccess
  <1>4. CASE PutOneTime(c, j)
    BY <1>1, <1>4 DEF PutOneTime, NewLink
  <1>5. CASE PutBack(c, j)
    BY <1>1, <1>5 DEF PutBack, SameBearer, NewLink, LinksTo, Stored, Issuing
  <1> QED
    BY <1>1, <1>2, <1>3, <1>4, <1>5 DEF Advances, Effect

\* No new link to a token that is out already.
LEMMA LinksShrink ==
  ASSUME Core, ~AliasArgs, NEW c \in Client, Advances(c), NEW k \in IssuedKeys,
         NEW j \in LinksTo(k)'
  PROVE  j \in LinksTo(k) /\ tokens'[j].state.subject = tokens[j].state.subject
  <1>1. loc[c].op \in Issuing => StoreKey(loc[c].acc) # k
    BY KeysDiffer DEF Core, AccessIsNew, NewAccess, IssuedKeys
  <1> QED
    BY <1>1, LinkOrigin DEF NewLink

LEMMA StepLoses ==
  ASSUME Core, ~AliasArgs, NEW c \in Client, Advances(c)
  PROVE  AllLose
  <1> SUFFICES ASSUME NEW k \in IssuedKeys PROVE Loses(k)
    BY DEF AllLose
  <1>1. k \in IssuedKeys' /\ k \in Token
    BY IssuedGrow, IssuedEffect
  <1>2. tokens[k] = NoEntry => tokens'[k] = NoEntry
    BY IssuedEffect DEF Kept, PutBack
  <1>3. ASSUME tokens'[k] # NoEntry
        PROVE  /\ tokens'[k].state.kind = tokens[k].state.kind
               /\ tokens'[k].state.subject = tokens[k].state.subject
               /\ tokens[k].state.kind = "access"
                    => tokens'[k].state.device = tokens[k].state.device
    <2>1. CASE tokens'[k] = tokens[k] \/ Kept(k)
      BY <2>1 DEF Kept, SameBearer
    <2>2. CASE PutBack(c, k)
      <3>1. tokens[k] # NoEntry /\ tokens[k].state.status = "consumed"
        BY <2>2 DEF PutBack
      <3>2. tokens[k].state.kind # "access"
        BY <1>1, <3>1 DEF Core, Typed, StoreShaped, OneTime
      <3> QED
        BY <2>2, <3>2 DEF PutBack, SameBearer
    <2> QED
      BY <1>3, <2>1, <2>2, IssuedEffect
  <1>4. LinksTo(k)' \subseteq LinksTo(k)
    BY LinksShrink
  <1>5. ASSUME NEW j \in LinksTo(k)'
        PROVE  /\ tokens'[j].state.subject = tokens[j].state.subject
               /\ Retired(j) => Retired(j)'
    <2>1. j \in LinksTo(k) /\ tokens'[j].state.subject = tokens[j].state.subject
      BY LinksShrink
    <2>2. /\ j \in Token /\ tokens[j] # NoEntry /\ tokens'[j] # NoEntry
          /\ tokens[j].state.kind = "refresh"
      BY <1>5, <2>1 DEF LinksTo, Stored
    <2>3. j \in IssuedKeys
      BY <2>2, OneTimeKeys DEF Core, OneTime
    <2> QED
      BY <2>1, <2>2, <2>3, RetiredStays
  <1>6. Dead(k) => Dead(k)'
    BY <1>1, <1>2, RetiredStays DEF Dead
  <1> QED
    BY <1>1, <1>2, <1>3, <1>4, <1>5, <1>6 DEF Loses

LEMMA QuietLoses ==
  ASSUME UNCHANGED <<tokens, issued, redeemed>>
  PROVE  AllLose
BY DEF AllLose, Loses, IssuedKeys, LinksTo, Stored, Retired, Dead

LEMMA TickLoses ==
  ASSUME Typed, Tick
  PROVE  AllLose
  <1>1. UNCHANGED <<issued, redeemed>> /\ \E K : tokens' = Drop(tokens, K)
    BY DEF Tick, ghost
  <1>2. \A k \in Token : tokens'[k] = NoEntry \/ tokens'[k] = tokens[k]
    BY <1>1 DEF Drop
  <1>3. ASSUME NEW k \in IssuedKeys PROVE Loses(k)
    <2>1. k \in Token /\ k \in IssuedKeys'
      BY <1>1, IssuedKeysTyped DEF IssuedKeys
    <2>2. \A j \in LinksTo(k)' : j \in LinksTo(k) /\ tokens'[j] = tokens[j]
      BY <1>2 DEF LinksTo, Stored
    <2> QED
      BY <1>1, <1>2, <2>1, <2>2 DEF Loses, Dead, Retired
  <1> QED
    BY <1>3 DEF AllLose

-----------------------------------------------------------------------------
(* A promise only comes closer while its request waits.                     *)

LEMMA LossBuries ==
  ASSUME AllLose, UNCHANGED setup, NEW k, Buried(k)
  PROVE  Buried(k)'
  <1>1. k \in IssuedKeys /\ Loses(k)
    BY DEF Buried, Dead, AllLose
  <1>2. Dead(k)' /\ (Severed(k) => Severed(k)')
    BY <1>1 DEF Buried, Loses, Severed
  <1> QED
    BY <1>2 DEF Buried, Severs, RevokeRefreshOnLogout, Ops

LEMMA LossLinks ==
  ASSUME AllLose, NEW k \in IssuedKeys, NEW s
  PROVE  /\ k \in IssuedKeys'
         /\ tokens[k] = NoEntry => tokens'[k] = NoEntry
         /\ LinksTo(k)' \subseteq LinksTo(k)
         /\ Severed(k) => Severed(k)'
         /\ LinkedWithin(k, s) => \A j \in LinksTo(k)' : tokens'[j].state.subject = s
BY DEF AllLose, Loses, Severed, LinkedWithin

LEMMA WaitingSweeps ==
  ASSUME AllLose, UNCHANGED setup, NEW d \in Client, loc'[d] = loc[d], pc'[d] = pc[d], Sweeps(d)
  PROVE  Sweeps(d)'
  <1>1. ASSUME NEW k \in loc[d].covered
        PROVE  /\ k \in IssuedKeys' /\ Left(d, k)'
               /\ RevokeRefreshOnLogout /\ loc[d].op # "LogoutByDevice" => Cut(d, k)'
    <2>1. k \in IssuedKeys /\ Left(d, k) /\ Loses(k)
      BY DEF Sweeps, AllLose
    <2>2. Left(d, k)'
      BY <2>1 DEF Left, OfKind, Loses, SweptKinds, RevokeRefreshOnLogout
    <2>3. Cut(d, k) => Cut(d, k)'
      BY <2>1, LossLinks DEF Cut, LinkedWithin
    <2> QED
      BY <2>1, <2>2, <2>3 DEF Loses, Sweeps
  <1> QED
    BY <1>1 DEF Sweeps, Concurrent, RevokeRefreshOnLogout

LEMMA WaitingLogsOut ==
  ASSUME AllLose, NEW d \in Client, loc'[d] = loc[d], pc'[d] = pc[d], LogsOut(d)
  PROVE  LogsOut(d)'
  <1> DEFINE k == loc[d].cur
  <1>1. loc[d].op = "Logout" => k \in IssuedKeys
    BY DEF LogsOut, LookupOps
  <1>2. loc[d].op \in LookupOps => k \in IssuedKeys'
    BY DEF LogsOut, AllLose, Loses
  <1>3. ASSUME loc[d].op = "Logout"
        PROVE  /\ tokens[k] = NoEntry => tokens'[k] = NoEntry
               /\ LinksTo(k)' \subseteq LinksTo(k)
               /\ LinkedWithin(k, loc[d].subject) => LinkedWithin(k, loc[d].subject)'
    <2>1. PICK h, s : h = loc[d].cur /\ s = loc[d].subject /\ h \in IssuedKeys
      BY <1>1, <1>3
    <2>2. /\ tokens[h] = NoEntry => tokens'[h] = NoEntry
          /\ LinksTo(h)' \subseteq LinksTo(h)
          /\ LinkedWithin(h, s) => \A j \in LinksTo(h)' : tokens'[j].state.subject = s
      BY <2>1, LossLinks
    <2>3. h = loc'[d].cur /\ s = loc'[d].subject
      BY <2>1
    <2> QED
      BY <2>1, <2>2, <2>3 DEF LinkedWithin
  <1> QED
    BY <1>2, <1>3 DEF LogsOut

LEMMA WaitingRenews ==
  ASSUME AllLose, UNCHANGED setup, NEW d \in Client, loc'[d] = loc[d], pc'[d] = pc[d], Renews(d)
  PROVE  Renews(d)'
  <1> SUFFICES ASSUME loc[d].op = "Refresh", pc[d] \notin Before PROVE Renews(d)'
    BY DEF Renews
  <1> DEFINE k == loc[d].snap.access
  <1>1. k \in IssuedKeys
    BY DEF Renews
  <1>2. /\ k \in IssuedKeys' /\ LinksTo(k)' \subseteq LinksTo(k)
        /\ tokens[k] = NoEntry => tokens'[k] = NoEntry
    BY <1>1, LossLinks
  <1> QED
    BY <1>2 DEF Renews, RevokeAccessTokenOnRefresh

LEMMA WaitingServes ==
  ASSUME UNCHANGED setup, NEW d \in Client, loc'[d] = loc[d], pc'[d] = pc[d], Serves(d)
  PROVE  Serves(d)'
BY DEF Serves, Ops

LEMMA Waiting ==
  ASSUME AllLose, UNCHANGED setup, NEW d \in Client, loc'[d] = loc[d], pc'[d] = pc[d],
         Promise(d), Stores(d)'
  PROVE  Promise(d)'
BY WaitingSweeps, WaitingLogsOut, WaitingRenews, WaitingServes DEF Promise

\* The access token a request is about to link is touched by no other.
LEMMA StepStores ==
  ASSUME Core, ~AliasArgs, NEW c \in Client, Advances(c), NEW d \in Client,
         loc[d].op \in Issuing, d = c => pc[c] \in Storing,
         NEW s, tokens[StoreKey(loc[d].acc)] # NoEntry
                  => tokens[StoreKey(loc[d].acc)].state.subject = s
  PROVE  tokens'[StoreKey(loc[d].acc)] # NoEntry
           => tokens'[StoreKey(loc[d].acc)].state.subject = s
  <1> DEFINE t == loc[d].acc
             k == StoreKey(t)
  <1>1. /\ t \in NewAccess(d) /\ t \notin issued /\ t \in TokenValue /\ k \in Token
        /\ \A e \in Client \ {d} : t \notin NewAccess(e)
    BY KeysDiffer DEF Core, AccessIsNew, NewAccess, Typed, Located
  <1>2. ~PutAccess(c, k)
    BY <1>1, KeysDiffer DEF PutAccess, NewAccess, Storing
  <1>3. ~PutOneTime(c, k)
    <2>1. ASSUME t \in Offered(c) PROVE FALSE
      BY <1>1, <2>1 DEF Core, Disjoint, IsOneTime
    <2> QED
      BY <2>1, KeysDiffer DEF PutOneTime
  <1>4. ~PutBack(c, k)
    BY <1>1, KeysDiffer DEF PutBack, Core, Typed, Located
  <1> QED
    BY <1>1, <1>2, <1>3, <1>4 DEF Advances, Effect, Kept, SameBearer

LEMMA StepChained ==
  ASSUME Core, ~AliasArgs, NEW c \in Client, Advances(c), AllLose, Chained, Renews(c), Stores(c)
  PROVE  Chained'
  <1> DEFINE acc == StoreKey(loc[c].acc)
  <1>1. ASSUME NEW k \in Token \cup {NoKey}, NEW j \in LinksTo(k)'
        PROVE  k \in IssuedKeys' /\ (tokens'[k] # NoEntry
                                       => tokens'[k].state.subject = tokens'[j].state.subject)
    <2>1. CASE j \in LinksTo(k) /\ tokens'[j].state.subject = tokens[j].state.subject
      BY <2>1 DEF Chained, AllLose, Loses
    <2>2. CASE NewLink(c, j) /\ k = acc
      <3>1. k \in IssuedKeys'
        BY <2>2 DEF NewLink, IssuedKeys
      <3>2. tokens'[j].state.subject = loc[c].subject
        BY <2>2 DEF NewLink, Renews, Before
      <3>3. tokens[k] # NoEntry => tokens[k].state.subject = loc[c].subject
        BY <2>2 DEF Stores, NewLink, Storing
      <3>4. tokens'[k] # NoEntry => tokens'[k].state.subject = loc[c].subject
        BY <2>2, <3>3, StepStores DEF NewLink, Storing
      <3> QED
        BY <3>1, <3>2, <3>4
    <2> QED
      BY <1>1, <2>1, <2>2, LinkOrigin
  <1>2. ASSUME NEW k \in Token, NEW i \in LinksTo(k)', NEW j \in LinksTo(k)'
        PROVE  i = j
    <2>1. CASE k \in IssuedKeys
      BY <2>1, LinksShrink DEF Chained
    <2>2. CASE k \notin IssuedKeys
      <3>1. i \notin LinksTo(k) /\ j \notin LinksTo(k)
        BY <2>2 DEF Chained
      <3>2. NewLink(c, i) /\ NewLink(c, j)
        BY <1>2, <3>1, LinkOrigin
      <3>3. loc[c].op = "Refresh" /\ ~RotateRefreshToken => Offered(c) = {}
        BY DEF Offered
      <3> QED
        BY <3>2, <3>3, OneOffered DEF NewLink
    <2> QED
      BY <2>1, <2>2
  <1> QED
    BY <1>1, <1>2 DEF Chained

-----------------------------------------------------------------------------
(* What a step does to the promise of its own request.                      *)

Onward(c) ==
  /\ Core /\ Atomic /\ ~AliasArgs /\ UNCHANGED setup
  /\ Advances(c) /\ Core' /\ AllLose
  /\ Chained /\ Promise(c)

\* What a step promises: the token is out of use, and so is what names it.  A logout by
\* device that found the token gone promises the first only.
Excused(c, k) == loc[c].op = "LogoutByDevice" /\ k \in loc[c].covered

Laid(c, k) == Dead(k)' /\ (RevokeRefreshOnLogout => Severed(k)' \/ Excused(c, k))

Delivers(c) ==
  /\ Promise(c)'
  /\ \A k \in dead' : k \in dead \/ Laid(c, k)

SameWork(c) ==
  /\ loc'[c].op = loc[c].op /\ loc'[c].subject = loc[c].subject
  /\ loc'[c].device = loc[c].device /\ loc'[c].snap = loc[c].snap
  /\ loc'[c].acc = loc[c].acc /\ loc'[c].ref = loc[c].ref /\ loc'[c].cur = loc[c].cur
  /\ loc'[c].covered = loc[c].covered

LEMMA FlagsRigid ==
  ASSUME UNCHANGED setup
  PROVE  /\ Concurrent' = Concurrent /\ Ops' = Ops
         /\ RevokeRefreshOnLogout' = RevokeRefreshOnLogout
         /\ RevokeAccessTokenOnRefresh' = RevokeAccessTokenOnRefresh
         /\ Severs' = Severs
BY DEF Concurrent, Ops, RevokeRefreshOnLogout, RevokeAccessTokenOnRefresh, Severs

LEMMA BlankPromise ==
  ASSUME NEW c \in Client, pc'[c] = "idle", loc'[c] = Blank
  PROVE  Promise(c)'
  <1>1. loc'[c].op = "none" /\ loc'[c].covered = {}
    BY DEF Blank
  <1>2. Serves(c)'
    BY <1>1 DEF Serves, OnDevice
  <1>3. Sweeps(c)'
    BY <1>1 DEF Sweeps
  <1>4. LogsOut(c)' /\ Renews(c)' /\ Stores(c)'
    BY <1>1 DEF LogsOut, LookupOps, Renews, Stores, Issuing, LoginOps
  <1> QED
    BY <1>2, <1>3, <1>4 DEF Promise

LEMMA LeavePromise ==
  ASSUME Typed, NEW c \in Client, Leave(c)
  PROVE  Promise(c)'
BY BlankPromise DEF Leave, Typed

LEMMA FailDelivers ==
  ASSUME NEW c \in Client, Onward(c), Fail(c)
  PROVE  Delivers(c)
  <1>1. Leave(c) /\ dead' = dead
    BY DEF Fail, ghost
  <1> QED
    BY <1>1, LeavePromise DEF Delivers, Onward, Core

LEMMA SucceedDelivers ==
  ASSUME NEW c \in Client, Onward(c), NEW new, NEW gone, Succeed(c, new, gone),
         \A k \in gone : Laid(c, k)
  PROVE  Delivers(c)
BY LeavePromise DEF Succeed, Delivers, Onward, Core

LEMMA Lay ==
  ASSUME AllLose, UNCHANGED setup, NEW c \in Client, NEW k \in IssuedKeys, tokens'[k] = NoEntry,
         RevokeRefreshOnLogout => Severed(k)' \/ Excused(c, k)
  PROVE  Laid(c, k)
  <1>1. k \in IssuedKeys'
    BY LossLinks
  <1> QED
    BY <1>1 DEF Laid, Dead

\* Past the last call that sweeps, what a request covers is gone, or is by this step.
LEMMA CoveredLaid ==
  ASSUME NEW c \in Client, Onward(c), pc[c] \notin Asked \cup HalfDone,
         \A k \in loc[c].covered : Left(c, k) => tokens'[k] = NoEntry
  PROVE  \A k \in loc[c].covered : Laid(c, k)
  <1> SUFFICES ASSUME NEW k \in loc[c].covered PROVE Laid(c, k)
    OBVIOUS
  <1>1. k \in IssuedKeys /\ Sweeps(c) /\ Serves(c)
    BY DEF Onward, Promise, Sweeps
  <1>2. tokens'[k] = NoEntry
    BY <1>1 DEF Sweeps
  <1>3. ASSUME RevokeRefreshOnLogout, ~Excused(c, k) PROVE Severed(k)'
    <2>1. Severed(k)
      BY <1>1, <1>3 DEF Excused, Sweeps, Cut
    <2> QED
      BY <1>1, <2>1, LossLinks DEF Onward
  <1> QED
    BY <1>1, <1>2, <1>3, Lay DEF Onward

LEMMA SettledLaid ==
  ASSUME NEW c \in Client, Onward(c), pc[c] \notin Wide
  PROVE  \A k \in loc[c].covered : Laid(c, k)
  <1>1. \A k \in loc[c].covered : Left(c, k) => tokens'[k] = NoEntry
    <2>1. \A k \in loc[c].covered : k \in IssuedKeys /\ (Left(c, k) => tokens[k] = NoEntry)
      BY DEF Onward, Promise, Sweeps, Left, Wide
    <2> QED
      BY <2>1, LossLinks DEF Onward
  <1> QED
    BY <1>1, CoveredLaid DEF Wide

\* The parts of a promise, for a step from one call of a flow to the next.
LEMMA NoSweep ==
  ASSUME NEW c \in Client, loc'[c].covered = {}
  PROVE  Sweeps(c)'
BY DEF Sweeps

LEMMA OnSweeps ==
  ASSUME NEW c \in Client, Onward(c), SameWork(c),
         \A k \in loc[c].covered : Left(c, k) => Left(c, k)',
         RevokeRefreshOnLogout /\ loc[c].op # "LogoutByDevice" =>
           \A k \in loc[c].covered : Cut(c, k) => Cut(c, k)'
  PROVE  Sweeps(c)'
  <1>1. Sweeps(c) /\ AllLose /\ UNCHANGED setup
    BY DEF Onward, Promise
  <1>2. \A k \in loc[c].covered : k \in IssuedKeys'
    BY <1>1, LossLinks DEF Sweeps
  <1> QED
    BY <1>1, <1>2, FlagsRigid DEF Sweeps, SameWork

LEMMA SettledSweeps ==
  ASSUME NEW c \in Client, Onward(c), SameWork(c), pc[c] \notin Wide, pc'[c] \notin Wide
  PROVE  Sweeps(c)'
  <1>1. \A k \in loc[c].covered : k \in IssuedKeys
    BY DEF Onward, Promise, Sweeps
  <1>2. ASSUME NEW k \in loc[c].covered
        PROVE  (Left(c, k) => Left(c, k)') /\ (Cut(c, k) => Cut(c, k)')
    <2>1. Left(c, k) => Left(c, k)'
      BY <1>1, LossLinks DEF Left, Wide, Onward
    <2>2. Cut(c, k) => Cut(c, k)'
      BY <1>1, LossLinks DEF Cut, Wide, Onward
    <2> QED
      BY <2>1, <2>2
  <1> QED
    BY <1>2, OnSweeps

LEMMA OnLogsOut ==
  ASSUME NEW c \in Client, Onward(c), loc'[c].op = loc[c].op, loc'[c].cur = loc[c].cur,
         loc'[c].targets = loc[c].targets, pc'[c] \notin OnDevice
  PROVE  LogsOut(c)'
  <1>1. LogsOut(c) /\ AllLose
    BY DEF Onward, Promise
  <1>2. loc[c].op \in LookupOps => loc[c].cur \in IssuedKeys'
    BY <1>1, LossLinks DEF LogsOut
  <1> QED
    BY <1>1, <1>2 DEF LogsOut, OnDevice

LEMMA OnRenews ==
  ASSUME NEW c \in Client, Onward(c), SameWork(c), pc[c] \notin Before,
         pc'[c] \in Replacing => pc[c] \in Replacing
  PROVE  Renews(c)'
  <1> SUFFICES ASSUME loc[c].op = "Refresh" PROVE Renews(c)'
    BY DEF Renews, SameWork
  <1>1. PICK k : k = loc[c].snap.access
    OBVIOUS
  <1>2. Renews(c) /\ k \in IssuedKeys /\ AllLose
    BY <1>1 DEF Onward, Promise, Renews
  <1>3. /\ k \in IssuedKeys' /\ LinksTo(k)' \subseteq LinksTo(k)
        /\ tokens[k] = NoEntry => tokens'[k] = NoEntry
    BY <1>2, LossLinks
  <1>4. LinksTo(loc[c].snap.access)' = LinksTo(k)'
    BY <1>1 DEF SameWork
  <1> QED
    BY <1>1, <1>2, <1>3, <1>4, FlagsRigid DEF Renews, SameWork, Onward

LEMMA OnStores ==
  ASSUME NEW c \in Client, Onward(c), SameWork(c), pc'[c] \in Storing => pc[c] \in Storing
  PROVE  Stores(c)'
  <1>1. Stores(c)
    BY DEF Onward, Promise
  <1>2. loc[c].op \in Issuing /\ pc[c] \in Storing =>
          (tokens'[StoreKey(loc[c].acc)] # NoEntry
             => tokens'[StoreKey(loc[c].acc)].state.subject = loc[c].subject)
    BY <1>1, StepStores DEF Stores, Onward
  <1> QED
    BY <1>2 DEF Stores, SameWork

\* The calls that sweep nothing, of any operation.
Plain == {"findOthers", "deleteOthers", "saveAccess", "session", "saveRefresh", "saveNext",
          "revokeOld", "rollback", "restore", "dropSession"}

LEMMA PlainPromise ==
  ASSUME NEW c \in Client, Onward(c), SameWork(c), loc'[c].targets = loc[c].targets,
         pc'[c] \in Plain, Sweeps(c)', Renews(c)', Stores(c)'
  PROVE  Promise(c)'
  <1>1. Serves(c)'
    BY FlagsRigid DEF Onward, Promise, Serves, SameWork, Plain, OnDevice
  <1>2. LogsOut(c)'
    BY OnLogsOut DEF SameWork, Plain, OnDevice
  <1> QED
    BY <1>1, <1>2 DEF Promise

LEMMA PlainGoes ==
  ASSUME NEW c \in Client, Onward(c), SameWork(c), loc'[c].targets = loc[c].targets,
         dead' = dead, pc[c] \in Plain, pc'[c] \in Plain,
         pc'[c] \in Replacing => pc[c] \in Replacing,
         pc'[c] \in Storing => pc[c] \in Storing
  PROVE  Delivers(c)
  <1>1. pc[c] \notin Wide /\ pc'[c] \notin Wide /\ pc[c] \notin Before
    BY DEF Plain, Wide, Asked, HalfDone, OnDevice, Before
  <1>2. Promise(c)'
    BY <1>1, SettledSweeps, OnRenews, OnStores, PlainPromise
  <1> QED
    BY <1>2 DEF Delivers

-----------------------------------------------------------------------------
(* Logins.                                                                 *)

LEMMA GoIs ==
  ASSUME NEW c \in Client, Onward(c), NEW label, NEW locals, Go(c, label, locals)
  PROVE  pc'[c] = label /\ loc'[c] = locals /\ dead' = dead
BY GoFrame DEF Onward, Core, Go, ghost

LEMMA NotSweeping ==
  ASSUME NEW c \in Client, Onward(c), loc[c].op \notin Covering
  PROVE  loc[c].covered = {}
BY DEF Onward, Promise, Sweeps

\* A sweep that has still to make its calls.
LEMMA AskedSweeps ==
  ASSUME NEW c \in Client, Onward(c), pc[c] \in Asked, pc'[c] \in Asked,
         loc'[c].op = loc[c].op, loc'[c].subject = loc[c].subject,
         loc'[c].covered = loc[c].covered
  PROVE  Sweeps(c)'
  <1>1. Sweeps(c) /\ AllLose /\ UNCHANGED setup
    BY DEF Onward, Promise
  <1>2. ASSUME NEW k \in loc[c].covered
        PROVE  /\ k \in IssuedKeys' /\ Left(c, k)'
               /\ RevokeRefreshOnLogout /\ loc[c].op # "LogoutByDevice" => Cut(c, k)'
    <2>1. k \in IssuedKeys /\ Left(c, k) /\ Loses(k)
      BY <1>1 DEF Sweeps, AllLose
    <2>2. Left(c, k)'
      BY <1>1, <2>1
         DEF Left, OfKind, Loses, SweptKinds, RevokeRefreshOnLogout, Asked, HalfDone, OnDevice
    <2>3. Cut(c, k) => Cut(c, k)'
      BY <1>1, <2>1, LossLinks DEF Cut, LinkedWithin, Asked
    <2> QED
      BY <1>1, <2>1, <2>2, <2>3 DEF Loses, Sweeps
  <1> QED
    BY <1>1, <1>2, FlagsRigid DEF Sweeps

LEMMA ConsumeNonceStateDelivers ==
  ASSUME NEW c \in Client, Onward(c), ConsumeNonceState(c)
  PROVE  Delivers(c)
  <1>1. pc[c] = "nonce" /\ loc[c].op # "Refresh"
    BY DEF Onward, Core, Typed, Located, ConsumeNonceState, Calls
  <1>2. CASE Fail(c)
    BY <1>2, FailDelivers
  <1>3. CASE Go(c, "judgeNonce", [loc[c] EXCEPT !.snap = tokens[StoreKey(loc[c].nonce)].state])
    <2>1. /\ pc'[c] = "judgeNonce" /\ dead' = dead
          /\ loc'[c] = [loc[c] EXCEPT !.snap = tokens[StoreKey(loc[c].nonce)].state]
      BY <1>3, GoIs
    <2>2. /\ loc'[c].op = loc[c].op /\ loc'[c].subject = loc[c].subject
          /\ loc'[c].cur = loc[c].cur /\ loc'[c].targets = loc[c].targets
          /\ loc'[c].covered = loc[c].covered
      BY <2>1, Fields DEF Onward, Core
    <2>3. Sweeps(c) /\ Serves(c) /\ AllLose /\ UNCHANGED setup
      BY DEF Onward, Promise
    <2>5. Sweeps(c)'
      BY <1>1, <2>1, <2>2, AskedSweeps DEF Asked
    <2>6. Serves(c)' /\ Renews(c)' /\ Stores(c)' /\ LogsOut(c)'
      BY <1>1, <2>1, <2>2, <2>3, OnLogsOut, FlagsRigid DEF Serves, OnDevice, Renews, Stores, Storing
    <2> QED
      BY <2>1, <2>5, <2>6 DEF Delivers, Promise
  <1> QED
    BY <1>2, <1>3 DEF ConsumeNonceState

\* A redeemed token is buried: it is a one-time token, and nothing names it.
LEMMA RedeemedLaid ==
  ASSUME Core', NEW c \in Client, NEW t \in TokenValue, redeemed'[t] = 1
  PROVE  Laid(c, StoreKey(t))
  <1>1. t \in issued'
    BY DEF Core, Spent
  <1>2. LinksTo(StoreKey(t))' = {}
    BY DEF Core, Disjoint, IsOneTime, LinksTo, Stored
  <1> QED
    BY <1>1, <1>2 DEF Laid, Dead, Retired, Severed, IssuedKeys

LEMMA JudgeNonceDelivers ==
  ASSUME NEW c \in Client, Onward(c), JudgeNonce(c)
  PROVE  Delivers(c)
  <1> DEFINE t == loc[c].nonce
  <1>1. pc[c] = "judgeNonce" /\ loc[c].op # "Refresh" /\ tokens' = tokens
    BY DEF Onward, Core, Typed, Located, JudgeNonce, store
  <1>2. CASE Fail(c)
    BY <1>2, FailDelivers
  <1>3. CASE /\ loc[c].snap.kind = "nonce" /\ IsActive(loc[c].snap, now)
             /\ Redeem(t) /\ Leave(c) /\ dead' = dead \cup {StoreKey(t)}
    <2>1. t \in TokenValue /\ Holds(c, t)
      BY <1>1, <1>3 DEF Onward, Core, Typed, Located, Holds
    <2>2. redeemed'[t] = 1
      BY <1>3, <2>1 DEF Onward, Core, Typed, Held, Redeem
    <2>4. Promise(c)'
      BY <1>3, LeavePromise DEF Onward, Core
    <2>5. PICK u : u = StoreKey(t)
      OBVIOUS
    <2>6. Laid(c, u)
      <3>1. PICK v \in TokenValue : v = t
        BY <2>1
      <3>2. Laid(c, StoreKey(v))
        BY <2>2, <3>1, RedeemedLaid DEF Onward
      <3> QED
        BY <2>5, <3>1, <3>2
    <2> QED
      BY <1>3, <2>4, <2>5, <2>6 DEF Delivers
  <1>4. CASE /\ loc[c].op \in LoginOps /\ dead' = dead
             /\ pc' = [pc EXCEPT ![c] = LoginEntry]
             /\ loc' = [loc EXCEPT ![c].snap = NoEntry]
    <2>1. /\ pc'[c] = LoginEntry /\ dead' = dead
          /\ loc'[c] = [loc[c] EXCEPT !.snap = NoEntry]
      BY <1>4 DEF Onward, Core, Typed
    <2>2. /\ loc'[c].op = loc[c].op /\ loc'[c].subject = loc[c].subject
          /\ loc'[c].cur = loc[c].cur /\ loc'[c].targets = loc[c].targets
          /\ loc'[c].covered = loc[c].covered
      BY <2>1, Fields DEF Onward, Core
    <2>3. Sweeps(c) /\ Serves(c) /\ AllLose /\ UNCHANGED setup
      BY DEF Onward, Promise
    <2>4. CASE Concurrent
      <3>1. loc[c].covered = {}
        BY <1>4, <2>3, <2>4 DEF Sweeps
      <3> QED
        <4>1. Sweeps(c)'
          BY <2>2, <3>1, NoSweep
        <4>2. pc'[c] = "saveAccess"
          BY <2>1, <2>4 DEF LoginEntry
        <4>3. Serves(c)' /\ Renews(c)' /\ Stores(c)' /\ LogsOut(c)'
          BY <1>1, <2>2, <2>3, <4>2, OnLogsOut, FlagsRigid
             DEF Serves, OnDevice, Renews, Stores, Storing
        <4> QED
          BY <2>1, <4>1, <4>3 DEF Delivers, Promise
    <2>5. CASE ~Concurrent
      <3>1. pc'[c] = "replace"
        BY <2>1, <2>5 DEF LoginEntry
      <3>3. Sweeps(c)'
        BY <1>1, <2>2, <3>1, AskedSweeps DEF Asked
      <3>4. Serves(c)' /\ Renews(c)' /\ Stores(c)' /\ LogsOut(c)'
        BY <1>1, <2>2, <2>3, <3>1, OnLogsOut, FlagsRigid
           DEF Serves, OnDevice, Renews, Stores, Storing
      <3> QED
        BY <2>1, <3>3, <3>4 DEF Delivers, Promise
    <2> QED
      BY <2>4, <2>5
  <1> QED
    BY <1>2, <1>3, <1>4 DEF JudgeNonce

\* The access tokens of the subject go: the refresh tokens remain to be swept, if any.
LEMMA AccessSwept ==
  ASSUME NEW c \in Client, Onward(c), pc[c] \in Asked,
         tokens' = Drop(tokens, OfSubject(tokens, loc[c].subject, {"access"}))
  PROVE  \A k \in loc[c].covered :
           \/ tokens'[k] = NoEntry
           \/ /\ RevokeRefreshOnLogout
              /\ tokens'[k].state.subject = loc[c].subject
              /\ tokens'[k].state.kind = "refresh"
  <1> SUFFICES ASSUME NEW k \in loc[c].covered, tokens'[k] # NoEntry
               PROVE  /\ RevokeRefreshOnLogout
                      /\ tokens'[k].state.subject = loc[c].subject
                      /\ tokens'[k].state.kind = "refresh"
    OBVIOUS
  <1>1. k \in IssuedKeys /\ Left(c, k) /\ Loses(k)
    BY DEF Onward, Promise, Sweeps, AllLose
  <1>2. k \in Token
    BY <1>1, IssuedKeysTyped DEF Onward, Core
  <1>3. tokens[k] # NoEntry /\ OfKind(c, k, SweptKinds)
    BY <1>1 DEF Loses, Left, Asked, HalfDone, OnDevice
  <1>4. tokens'[k] = tokens[k] /\ k \notin OfSubject(tokens, loc[c].subject, {"access"})
    BY <1>2 DEF Drop
  <1>5. tokens[k].state.kind # "access"
    BY <1>2, <1>3, <1>4 DEF OfSubject, MatchKind, OfKind, Stored
  <1> QED
    BY <1>3, <1>4, <1>5 DEF OfKind, SweptKinds

LEMMA HalfSweeps ==
  ASSUME NEW c \in Client, Onward(c), pc[c] \in Asked, SameWork(c),
         tokens' = Drop(tokens, OfSubject(tokens, loc[c].subject, {"access"})),
         IF RevokeRefreshOnLogout THEN pc'[c] \in HalfDone ELSE pc'[c] \notin Wide
  PROVE  Sweeps(c)'
  <1>1. Sweeps(c) /\ AllLose /\ UNCHANGED setup
    BY DEF Onward, Promise
  <1>2. ASSUME NEW k \in loc[c].covered
        PROVE  /\ k \in IssuedKeys' /\ Left(c, k)'
               /\ RevokeRefreshOnLogout /\ loc[c].op # "LogoutByDevice" => Cut(c, k)'
    <2>1. k \in IssuedKeys /\ Loses(k)
      BY <1>1 DEF Sweeps, AllLose
    <2>2. Left(c, k)'
      BY AccessSwept DEF Left, OfKind, SameWork
    <2>3. RevokeRefreshOnLogout /\ loc[c].op # "LogoutByDevice" => Cut(c, k)'
      <3>1. Cut(c, k) => LinkedWithin(k, loc[c].subject)
        BY DEF Cut
      <3> QED
        BY <1>1, <2>1, <3>1, LossLinks DEF Sweeps, Cut, LinkedWithin, SameWork
    <2> QED
      BY <2>1, <2>2, <2>3 DEF Loses
  <1> QED
    BY <1>1, <1>2, FlagsRigid DEF Sweeps, SameWork

\* Then all its refresh tokens, and with them whatever names a token that is covered.
LEMMA RefreshSwept ==
  ASSUME NEW c \in Client, Onward(c), pc[c] \in HalfDone,
         tokens' = Drop(tokens, OfSubject(tokens, loc[c].subject, {"refresh"})),
         NEW k \in loc[c].covered
  PROVE  /\ tokens'[k] = NoEntry
         /\ RevokeRefreshOnLogout /\ loc[c].op # "LogoutByDevice" => Severed(k)'
  <1>1. k \in IssuedKeys /\ Left(c, k) /\ Loses(k)
    BY DEF Onward, Promise, Sweeps, AllLose
  <1>2. k \in Token
    BY <1>1, IssuedKeysTyped DEF Onward, Core
  <1>3. tokens[k] = NoEntry \/ OfKind(c, k, {"refresh"})
    BY <1>1 DEF Left, Asked, HalfDone, OnDevice
  <1>4. tokens'[k] = NoEntry
    <2>1. CASE tokens[k] = NoEntry
      BY <1>1, <2>1 DEF Loses
    <2>2. CASE tokens[k] # NoEntry
      BY <1>2, <1>3, <2>2 DEF OfKind, Drop, OfSubject, MatchKind, Stored
    <2> QED
      BY <2>1, <2>2
  <1>5. ASSUME RevokeRefreshOnLogout, loc[c].op # "LogoutByDevice" PROVE Severed(k)'
    <2>1. LinkedWithin(k, loc[c].subject)
      BY <1>5 DEF Onward, Promise, Sweeps, Cut
    <2>2. \A j \in LinksTo(k) : j \in OfSubject(tokens, loc[c].subject, {"refresh"})
      BY <2>1 DEF LinkedWithin, LinksTo, OfSubject, MatchKind, Stored
    <2>3. \A j \in LinksTo(k) : tokens'[j] = NoEntry
      BY <2>2 DEF Drop, LinksTo, Stored
    <2>4. LinksTo(k)' = {}
      BY <1>1, <2>3 DEF Loses, LinksTo, Stored
    <2> QED
      BY <2>4 DEF Severed
  <1> QED
    BY <1>4, <1>5

LEMMA LastSweeps ==
  ASSUME NEW c \in Client, Onward(c), pc[c] \in HalfDone, SameWork(c), pc'[c] \notin Wide,
         tokens' = Drop(tokens, OfSubject(tokens, loc[c].subject, {"refresh"}))
  PROVE  Sweeps(c)'
BY RefreshSwept, OnSweeps DEF Left, Cut, Wide

LEMMA LastLaid ==
  ASSUME NEW c \in Client, Onward(c), pc[c] \in HalfDone,
         tokens' = Drop(tokens, OfSubject(tokens, loc[c].subject, {"refresh"}))
  PROVE  \A k \in loc[c].covered : Laid(c, k)
  <1> SUFFICES ASSUME NEW k \in loc[c].covered PROVE Laid(c, k)
    OBVIOUS
  <1>1. Sweeps(c) /\ AllLose /\ UNCHANGED setup
    BY DEF Onward, Promise
  <1>2. RevokeRefreshOnLogout => Severed(k)' \/ Excused(c, k)
    BY RefreshSwept DEF Excused
  <1> QED
    BY <1>1, <1>2, RefreshSwept, Lay DEF Sweeps

LEMMA ReplaceDelivers ==
  ASSUME NEW c \in Client, Onward(c), Replace(c) \/ ReplaceRefresh(c)
  PROVE  Delivers(c)
  <1>1. CASE Replace(c)
    <2> DEFINE label == IF ~RevokeRefreshOnLogout THEN "saveAccess"
                        ELSE IF KeepsRefresh(c) THEN "findOthers" ELSE "replaceRefresh"
    <2>1. /\ pc[c] = "replace"
          /\ tokens' = Drop(tokens, OfSubject(tokens, loc[c].subject, {"access"}))
          /\ Go(c, label, [loc[c] EXCEPT !.at = now])
      BY <1>1 DEF Replace, Calls
    <2>2. /\ pc'[c] = label /\ dead' = dead
          /\ loc'[c] = [loc[c] EXCEPT !.at = now]
      BY <2>1, GoIs
    <2>3. SameWork(c) /\ loc'[c].targets = loc[c].targets
      BY <2>2, Fields DEF Onward, Core, SameWork
    <2>4. Sweeps(c)'
      <3>1. CASE KeepsRefresh(c)
        <4>1. loc[c].covered = {}
          BY <3>1, NotSweeping DEF KeepsRefresh, Covering, LoginOps
        <4> QED
          BY <2>3, <4>1, NoSweep DEF SameWork
      <3>2. CASE ~KeepsRefresh(c)
        BY <2>1, <2>2, <2>3, <3>2, HalfSweeps DEF Asked, HalfDone, OnDevice, Wide
      <3> QED
        BY <3>1, <3>2
    <2>5. Renews(c)' /\ Stores(c)'
      BY <2>1, <2>2, <2>3, OnRenews, OnStores DEF Before, Replacing, Storing
    <2>6. CASE pc'[c] \in Plain
      BY <2>2, <2>3, <2>4, <2>5, <2>6, PlainPromise DEF Delivers
    <2>7. CASE pc'[c] = "replaceRefresh"
      <3>1. Serves(c)' /\ LogsOut(c)'
        BY <2>3, <2>7, FlagsRigid, OnLogsOut DEF Onward, Promise, Serves, SameWork, OnDevice
      <3> QED
        BY <2>2, <2>4, <2>5, <3>1 DEF Delivers, Promise
    <2> QED
      BY <2>2, <2>6, <2>7 DEF Plain
  <1>2. CASE ReplaceRefresh(c)
    <2>1. /\ pc[c] = "replaceRefresh"
          /\ tokens' = Drop(tokens, OfSubject(tokens, loc[c].subject, {"refresh"}))
          /\ Go(c, "saveAccess", loc[c])
      BY <1>2 DEF ReplaceRefresh, Calls
    <2>2. pc'[c] = "saveAccess" /\ dead' = dead /\ loc'[c] = loc[c]
      BY <2>1, GoIs
    <2>3. SameWork(c) /\ loc'[c].targets = loc[c].targets
      BY <2>2 DEF SameWork
    <2>4. Sweeps(c)'
      BY <2>1, <2>2, <2>3, LastSweeps DEF Asked, HalfDone, OnDevice, Wide
    <2>5. Renews(c)' /\ Stores(c)'
      BY <2>1, <2>2, <2>3, OnRenews, OnStores DEF Before, Replacing, Storing
    <2> QED
      BY <2>2, <2>3, <2>4, <2>5, PlainPromise DEF Delivers, Plain
  <1> QED
    BY <1>1, <1>2

LEMMA OthersDelivers ==
  ASSUME NEW c \in Client, Onward(c), FindOthers(c) \/ DeleteOthers(c)
  PROVE  Delivers(c)
  <1>1. PICK label, todo : /\ Go(c, label, [loc[c] EXCEPT !.todo = todo])
                           /\ label \in {"saveAccess", "deleteOthers"}
    BY DEF FindOthers, DeleteOthers
  <1>2. pc[c] \in {"findOthers", "deleteOthers"}
    BY DEF FindOthers, DeleteOthers, Calls
  <1>3. pc'[c] = label /\ dead' = dead /\ loc'[c] = [loc[c] EXCEPT !.todo = todo]
    BY <1>1, GoIs
  <1>4. SameWork(c) /\ loc'[c].targets = loc[c].targets
    BY <1>3, Fields DEF Onward, Core, SameWork
  <1> QED
    BY <1>1, <1>2, <1>3, <1>4, PlainGoes DEF Plain, Replacing, Storing

LEMMA SaveAccessDelivers ==
  ASSUME NEW c \in Client, Onward(c), SaveAccess(c)
  PROVE  Delivers(c)
  <1> DEFINE k == StoreKey(loc[c].acc)
             state == AccessState(loc[c].subject, LoginDevice(c),
                                  IF Concurrent THEN now ELSE loc[c].at)
  <1>1. /\ pc[c] = "saveAccess"
        /\ tokens' = Put(tokens, k, state, EffectiveExpiresAt(state, now, Timeout))
        /\ Go(c, "session", [loc[c] EXCEPT !.ttl = Timeout])
    BY DEF SaveAccess, Calls
  <1>2. pc'[c] = "session" /\ dead' = dead /\ loc'[c] = [loc[c] EXCEPT !.ttl = Timeout]
    BY <1>1, GoIs
  <1>3. SameWork(c) /\ loc'[c].targets = loc[c].targets
    BY <1>2, Fields DEF Onward, Core, SameWork
  <1>4. k \in Token
    BY <1>1, KeysDiffer DEF Onward, Core, Typed, Located, NewAccess
  <1>5. tokens'[k].state = state
    <2>1. tokens'[k] = [state |-> state, expiresAt |-> EffectiveExpiresAt(state, now, Timeout)]
      BY <1>1, <1>4, PutReads DEF Onward, Core
    <2> QED
      BY <2>1
  <1>6. state.subject = loc[c].subject
    BY DEF AccessState, NewState
  <1>7. Stores(c)'
    BY <1>3, <1>5, <1>6 DEF Stores, SameWork
  <1>8. Sweeps(c)' /\ Renews(c)'
    BY <1>1, <1>2, <1>3, SettledSweeps, OnRenews
       DEF Wide, Asked, HalfDone, OnDevice, Before, Replacing
  <1> QED
    BY <1>2, <1>3, <1>7, <1>8, PlainPromise DEF Delivers, Plain

LEMMA SyncSessionDelivers ==
  ASSUME NEW c \in Client, Onward(c), SyncSession(c)
  PROVE  Delivers(c)
  <1>1. pc[c] = "session"
    BY DEF SyncSession, Calls
  <1>2. CASE Fail(c)
    BY <1>2, FailDelivers
  <1>3. ASSUME NEW label \in {"saveRefresh", "saveNext"}, Go(c, label, loc[c])
        PROVE  Delivers(c)
    <2>1. pc'[c] = label /\ dead' = dead /\ loc'[c] = loc[c]
      BY <1>3, GoIs
    <2>2. SameWork(c) /\ loc'[c].targets = loc[c].targets
      BY <2>1 DEF SameWork
    <2> QED
      BY <1>1, <2>1, <2>2, PlainGoes DEF Plain, Replacing, Storing
  <1>4. ASSUME NEW new, NEW gone, Succeed(c, new, gone), gone \subseteq loc[c].covered
        PROVE  Delivers(c)
    <2>1. \A k \in loc[c].covered : Laid(c, k)
      BY <1>1, SettledLaid DEF Wide, Asked, HalfDone, OnDevice
    <2> QED
      BY <1>4, <2>1, SucceedDelivers
  <1>5. \/ Fail(c)
        \/ \E label \in {"saveRefresh", "saveNext"} : Go(c, label, loc[c])
        \/ Succeed(c, {loc[c].acc}, loc[c].covered)
        \/ Succeed(c, {}, {})
    BY DEF SyncSession
  <1> QED
    BY <1>2, <1>3, <1>4, <1>5

LEMMA SaveRefreshDelivers ==
  ASSUME NEW c \in Client, Onward(c), SaveRefresh(c)
  PROVE  Delivers(c)
  <1>1. pc[c] = "saveRefresh" /\ Succeed(c, {loc[c].acc, loc[c].ref}, loc[c].covered)
    BY DEF SaveRefresh, Calls
  <1>2. \A k \in loc[c].covered : Laid(c, k)
    BY <1>1, SettledLaid DEF Wide, Asked, HalfDone, OnDevice
  <1> QED
    BY <1>1, <1>2, SucceedDelivers

LEMMA LoginStepDelivers ==
  ASSUME NEW c \in Client, Onward(c), LoginStep(c)
  PROVE  Delivers(c)
  <1>1. CASE SaveNonce(c)
    <2>1. Succeed(c, {loc[c].nonce}, {})
      BY <1>1 DEF SaveNonce
    <2> QED
      BY <2>1, SucceedDelivers
  <1>2. ~PeekNonce(c)
    BY DEF PeekNonce, Calls, Onward, Core, Typed, Located
  <1> QED
    BY <1>1, <1>2, ConsumeNonceStateDelivers, JudgeNonceDelivers, ReplaceDelivers,
       OthersDelivers, SaveAccessDelivers, SyncSessionDelivers, SaveRefreshDelivers DEF LoginStep

-----------------------------------------------------------------------------
(* Refreshes.                                                              *)

LEMMA LoadRefreshDelivers ==
  ASSUME NEW c \in Client, Onward(c), LoadRefresh(c)
  PROVE  Delivers(c)
  <1>1. pc[c] = "load" /\ loc[c].op = "Refresh"
    BY DEF LoadRefresh, Calls, Onward, Core, Typed, Located
  <1>2. CASE Fail(c)
    BY <1>2, FailDelivers
  <1>3. ASSUME NEW snap, NEW cur, Go(c, "claim", [loc[c] EXCEPT !.snap = snap, !.cur = cur])
        PROVE  Delivers(c)
    <2>1. /\ pc'[c] = "claim" /\ dead' = dead
          /\ loc'[c] = [loc[c] EXCEPT !.snap = snap, !.cur = cur]
      BY <1>3, GoIs
    <2>2. loc'[c].op = "Refresh" /\ loc'[c].covered = loc[c].covered
      BY <1>1, <2>1, Fields DEF Onward, Core
    <2>3. loc[c].covered = {}
      BY <1>1, NotSweeping DEF Covering, LoginOps
    <2>4. Sweeps(c)'
      BY <2>2, <2>3, NoSweep
    <2>5. Serves(c)' /\ Renews(c)' /\ Stores(c)' /\ LogsOut(c)'
      BY <1>1, <2>1, <2>2, FlagsRigid
         DEF Onward, Promise, Serves, OnDevice, Renews, Before, Stores, Storing, LogsOut, LookupOps
    <2> QED
      BY <2>1, <2>4, <2>5 DEF Delivers, Promise
  <1> QED
    BY <1>2, <1>3 DEF LoadRefresh, ClaimEntry, Onward

LEMMA ClaimRefreshDelivers ==
  ASSUME NEW c \in Client, Onward(c), ClaimRefresh(c)
  PROVE  Delivers(c)
  <1>1. pc[c] = "claim" /\ loc[c].op = "Refresh" /\ loc[c].ref \in issued
    BY DEF ClaimRefresh, Calls, Onward, Core, Typed, Located
  <1>2. PICK j : j = StoreKey(loc[c].ref)
    OBVIOUS
  <1>3. CASE Fail(c)
    BY <1>3, FailDelivers
  <1>4. ASSUME tokens[j] # NoEntry, UsableRefresh(tokens[j].state),
               NEW label \in {AfterClaim, "restore"},
               Go(c, label, [loc[c] EXCEPT !.snap = tokens[j].state,
                                           !.subject = tokens[j].state.subject])
        PROVE  Delivers(c)
    <2>1. /\ pc'[c] = label /\ dead' = dead
          /\ loc'[c] = [loc[c] EXCEPT !.snap = tokens[j].state,
                                      !.subject = tokens[j].state.subject]
      BY <1>4, GoIs
    <2>2. /\ loc'[c].op = "Refresh" /\ loc'[c].covered = loc[c].covered
          /\ loc'[c].snap = tokens[j].state /\ loc'[c].subject = tokens[j].state.subject
          /\ loc'[c].ref = loc[c].ref
      BY <1>1, <2>1, Fields DEF Onward, Core
    <2>3. loc[c].covered = {}
      BY <1>1, NotSweeping DEF Covering, LoginOps
    <2>4. Sweeps(c)'
      BY <2>2, <2>3, NoSweep
    <2>5. label \in {"revokeOld", "replace", "saveAccess", "restore"}
          /\ (RevokeAccessTokenOnRefresh => label \notin Replacing)
      BY <1>4 DEF AfterClaim, LoginEntry, Replacing
    <2>6. PICK k : k = tokens[j].state.access
      OBVIOUS
    <2>7. j \in LinksTo(k) /\ k \in Token \cup {NoKey}
      <3>1. j \in Token
        BY <1>1, <1>2, KeysDiffer DEF Onward, Core, Typed
      <3>2. j \in LinksTo(k)
        BY <1>4, <2>6, <3>1 DEF LinksTo, Stored, UsableRefresh
      <3>3. k \in {StoreKey(t) : t \in used} \cup {NoKey}
        BY <1>4, <2>6, <3>1 DEF Onward, Core, Typed, StoreShaped
      <3> QED
        BY <3>2, <3>3, KeysDiffer DEF Onward, Core, Typed
    <2>8. k \in IssuedKeys /\ LinksTo(k) = {j}
      BY <2>7, IssuedKeysTyped DEF Onward, Core, Chained
    <2>9. k \in IssuedKeys' /\ LinksTo(k)' \subseteq {j}
      BY <2>8, LossLinks DEF Onward
    <2>10. LinksTo(loc[c].snap.access)' = LinksTo(k)'
      BY <2>2, <2>6
    <2>11. Renews(c)'
      BY <1>2, <2>1, <2>2, <2>5, <2>6, <2>9, <2>10, FlagsRigid DEF Renews, Onward
    <2>12. Serves(c)' /\ Stores(c)' /\ LogsOut(c)'
      BY <1>1, <2>1, <2>2, <2>5, FlagsRigid
         DEF Onward, Promise, Serves, OnDevice, Stores, Storing, LogsOut, LookupOps
    <2> QED
      BY <2>1, <2>4, <2>11, <2>12 DEF Delivers, Promise
  <1> QED
    BY <1>2, <1>3, <1>4 DEF ClaimRefresh

LEMMA RevokeOldAccessDelivers ==
  ASSUME NEW c \in Client, Onward(c), RevokeOldAccess(c)
  PROVE  Delivers(c)
  <1>1. /\ pc[c] = "revokeOld" /\ loc[c].op = "Refresh"
        /\ tokens' = Drop(tokens, {loc[c].snap.access}) /\ Go(c, LoginEntry, loc[c])
    BY DEF RevokeOldAccess, Calls, Onward, Core, Typed, Located
  <1>2. pc'[c] = LoginEntry /\ dead' = dead /\ loc'[c] = loc[c]
    BY <1>1, GoIs
  <1>3. SameWork(c) /\ loc'[c].targets = loc[c].targets
    BY <1>2 DEF SameWork
  <1>4. loc[c].covered = {}
    BY <1>1, NotSweeping DEF Covering, LoginOps
  <1>5. Sweeps(c)'
    BY <1>2, <1>4, NoSweep
  <1>6. PICK k : k = loc[c].snap.access
    OBVIOUS
  <1>7. k \in IssuedKeys /\ LinksTo(k) \subseteq {StoreKey(loc[c].ref)}
        /\ loc[c].subject = loc[c].snap.subject
    BY <1>1, <1>6 DEF Onward, Promise, Renews, Before
  <1>8. k \in IssuedKeys' /\ LinksTo(k)' \subseteq LinksTo(k) /\ tokens'[k] = NoEntry
    <2>1. k \in Token
      BY <1>7, IssuedKeysTyped DEF Onward, Core
    <2> QED
      BY <1>1, <1>6, <1>7, <2>1, LossLinks DEF Onward, Drop
  <1>9. LinksTo(loc[c].snap.access)' = LinksTo(k)'
    BY <1>2, <1>6
  <1>10. Renews(c)'
    BY <1>2, <1>6, <1>7, <1>8, <1>9 DEF Renews
  <1>11. LoginEntry \in {"replace", "saveAccess"}
    BY DEF LoginEntry
  <1>12. Serves(c)' /\ Stores(c)' /\ LogsOut(c)'
    BY <1>1, <1>2, <1>11, FlagsRigid
       DEF Onward, Promise, Serves, OnDevice, Stores, Storing, LogsOut, LookupOps
  <1> QED
    BY <1>2, <1>5, <1>10, <1>12 DEF Delivers, Promise

\* The access token a refresh replaced is gone before the refresh succeeds, and what
\* named it is retired or names the new one.
LEMMA ReplacedLaid ==
  ASSUME NEW c \in Client, Onward(c), pc[c] = "saveNext",
         NEW k \in Replaced(c),
         \/ \A j : j = StoreKey(loc[c].ref) => Retired(j)'
         \/ \A j : j = StoreKey(loc[c].ref) => j \notin LinksTo(k)'
  PROVE  Laid(c, k)
  <1>1. loc[c].op = "Refresh" /\ k = loc[c].snap.access /\ RevokeAccessTokenOnRefresh
    BY DEF Onward, Core, Typed, Located, Replaced
  <1>2. k \in IssuedKeys /\ LinksTo(k) \subseteq {StoreKey(loc[c].ref)} /\ tokens[k] = NoEntry
    BY <1>1 DEF Onward, Promise, Renews, Before, Replacing
  <1>3. LinksTo(k)' \subseteq {StoreKey(loc[c].ref)} /\ tokens'[k] = NoEntry
    BY <1>2, LossLinks DEF Onward
  <1>4. Severed(k)'
    BY <1>3 DEF Severed
  <1> QED
    BY <1>2, <1>3, <1>4, Lay DEF Onward

LEMMA SaveRotatedDelivers ==
  ASSUME NEW c \in Client, Onward(c), SaveRotated(c)
  PROVE  Delivers(c)
  <1>1. /\ pc[c] = "saveNext" /\ Leave(c) /\ Redeem(loc[c].ref)
        /\ dead' = dead \cup {StoreKey(loc[c].ref)} \cup Replaced(c)
    BY DEF SaveRotated, Calls
  <1>2. PICK t : t = loc[c].ref
    OBVIOUS
  <1>3. t \in TokenValue /\ Holds(c, t)
    BY <1>1, <1>2 DEF Onward, Core, Typed, Located, Holds, Before
  <1>4. redeemed'[t] = 1
    BY <1>1, <1>2, <1>3 DEF Onward, Core, Typed, Held, Redeem
  <1>5. Laid(c, StoreKey(t)) /\ Retired(StoreKey(t))'
    BY <1>3, <1>4, RedeemedLaid DEF Onward, Retired
  <1>6. \A k \in Replaced(c) : Laid(c, k)
    BY <1>1, <1>2, <1>5, ReplacedLaid
  <1>7. Promise(c)'
    BY <1>1, LeavePromise DEF Onward, Core
  <1> QED
    BY <1>1, <1>2, <1>5, <1>6, <1>7 DEF Delivers

LEMMA SaveReusedDelivers ==
  ASSUME NEW c \in Client, Onward(c), SaveReused(c)
  PROVE  Delivers(c)
  <1> DEFINE state == [Touch(loc[c].snap) EXCEPT !.access = StoreKey(loc[c].acc),
                                                 !.device = LoginDevice(c)]
  <1>1. pc[c] = "saveNext" /\ SwapRefresh(c, state)
    BY DEF SaveReused, Calls
  <1>2. PICK j : j = StoreKey(loc[c].ref)
    OBVIOUS
  <1>3. CASE MayUpdate(j, ClaimedState(c))
    <2>1. /\ tokens' = Put(tokens, j, state,
                           EffectiveExpiresAt(state, now, RemainingTTL(state, now)))
          /\ Succeed(c, {loc[c].acc}, Replaced(c) \ {StoreKey(loc[c].acc)})
          /\ j \in Stored(tokens) /\ tokens[j].state = ClaimedState(c)
      BY <1>1, <1>2, <1>3 DEF SaveReused, SwapRefresh, MayUpdate, Matches, Live, Onward
    <2>2. j \in Token /\ tokens[j] # NoEntry /\ StateShaped(tokens[j].state)
      BY <2>1 DEF Stored, Onward, Core, Typed, StoreShaped, EntryShaped
    <2>3. tokens'[j].state = state
      <3>1. tokens'[j] = [state |-> state,
                          expiresAt |-> EffectiveExpiresAt(state, now, RemainingTTL(state, now))]
        BY <2>1, <2>2, PutReads DEF Onward, Core
      <3> QED
        BY <3>1
    <2>4. "access" \in DOMAIN loc[c].snap
      BY <2>1, <2>2 DEF ClaimedState, MarkConsumed, StateShaped, StateFields
    <2>5. state.access = StoreKey(loc[c].acc)
      BY <2>4 DEF Touch
    <2>6. ASSUME NEW k \in Replaced(c) \ {StoreKey(loc[c].acc)} PROVE Laid(c, k)
      <3>1. j \notin LinksTo(k)'
        BY <2>3, <2>5 DEF LinksTo
      <3> QED
        BY <1>1, <1>2, <3>1, ReplacedLaid
    <2> QED
      BY <2>1, <2>6, SucceedDelivers
  <1>4. CASE ~MayUpdate(j, ClaimedState(c))
    <2>1. Go(c, "rollback", loc[c])
      BY <1>2, <1>4 DEF SaveReused
    <2>2. pc'[c] = "rollback" /\ dead' = dead /\ loc'[c] = loc[c]
      BY <2>1, GoIs
    <2>3. SameWork(c) /\ loc'[c].targets = loc[c].targets
      BY <2>2 DEF SameWork
    <2> QED
      BY <1>1, <2>2, <2>3, PlainGoes DEF Plain, Replacing, Storing
  <1> QED
    BY <1>3, <1>4

LEMMA RollbackDelivers ==
  ASSUME NEW c \in Client, Onward(c), Rollback(c)
  PROVE  Delivers(c)
  <1>1. pc[c] = "rollback" /\ (Go(c, "restore", loc[c]) \/ Fail(c))
    BY DEF Rollback, Calls, GiveUp
  <1>2. CASE Go(c, "restore", loc[c])
    <2>1. pc'[c] = "restore" /\ dead' = dead /\ loc'[c] = loc[c]
      BY <1>2, GoIs
    <2>2. SameWork(c) /\ loc'[c].targets = loc[c].targets
      BY <2>1 DEF SameWork
    <2> QED
      BY <1>1, <2>1, <2>2, PlainGoes DEF Plain, Replacing, Storing
  <1> QED
    BY <1>1, <1>2, FailDelivers

LEMMA CallErrorDelivers ==
  ASSUME NEW c \in Client, Onward(c), CallError(c)
  PROVE  Delivers(c)
  <1>1. dead' = dead
    BY DEF CallError, ghost
  <1>2. CASE Leave(c)
    BY <1>1, <1>2, LeavePromise DEF Delivers, Onward, Core
  <1>3. CASE /\ pc[c] \in {"saveRefresh", "saveNext"}
             /\ pc' = [pc EXCEPT ![c] = "rollback"] /\ loc' = loc
    <2>1. pc'[c] = "rollback"
      BY <1>3 DEF Onward, Core, Typed
    <2>2. SameWork(c) /\ loc'[c].targets = loc[c].targets
      BY <1>3 DEF SameWork
    <2> QED
      BY <1>1, <1>3, <2>1, <2>2, PlainGoes DEF Plain, Replacing, Storing
  <1>4. CASE OwesRelease(c) /\ pc' = [pc EXCEPT ![c] = "restore"] /\ loc' = loc
    <2>1. pc'[c] = "restore" /\ loc[c].op = "Refresh" /\ pc[c] \notin Before
      BY <1>4 DEF Onward, Core, Typed, OwesRelease, Before
    <2>2. SameWork(c) /\ loc'[c].targets = loc[c].targets
      BY <1>4 DEF SameWork
    <2>3. loc[c].covered = {}
      BY <2>1, NotSweeping DEF Covering, LoginOps
    <2>4. Sweeps(c)' /\ Renews(c)' /\ Stores(c)'
      BY <1>4, <2>1, <2>2, <2>3, NoSweep, OnRenews, OnStores DEF Replacing, Storing
    <2> QED
      BY <1>1, <2>1, <2>2, <2>4, PlainPromise DEF Delivers, Plain
  <1> QED
    BY <1>2, <1>3, <1>4 DEF CallError

LEMMA RefreshStepDelivers ==
  ASSUME NEW c \in Client, Onward(c), RefreshStep(c)
  PROVE  Delivers(c)
  <1>1. CASE ClaimExpired(c) \/ RestoreRefresh(c)
    BY <1>1, FailDelivers DEF ClaimExpired, RestoreRefresh
  <1>2. ~PeekRefresh(c)
    BY DEF PeekRefresh, Calls, Onward, Core, Typed, Located
  <1> QED
    BY <1>1, <1>2, LoadRefreshDelivers, ClaimRefreshDelivers, RevokeOldAccessDelivers,
       SaveRotatedDelivers, SaveReusedDelivers, RollbackDelivers DEF RefreshStep

-----------------------------------------------------------------------------
(* Lookups and logouts.                                                    *)

LEMMA GetDelivers ==
  ASSUME NEW c \in Client, Onward(c), Get(c)
  PROVE  Delivers(c)
  <1>1. pc[c] = "get" /\ loc[c].op \in LookupOps
    BY DEF Get, Calls, Onward, Core, Typed, Located
  <1>2. PICK k : k = loc[c].cur
    OBVIOUS
  <1>3. k \in IssuedKeys /\ k \in Token
    BY <1>1, <1>2, IssuedKeysTyped DEF Onward, Core, Promise, LogsOut
  <1>4. CASE Fail(c)
    BY <1>4, FailDelivers
  <1>5. CASE Succeed(c, {}, {})
    BY <1>5, SucceedDelivers
  <1>6. ASSUME tokens[k] # NoEntry, NEW label \in {"deleteAccess", "update"},
               label = "deleteAccess" => loc[c].op = "Logout", tokens' = tokens,
               Go(c, label, [loc[c] EXCEPT !.snap = tokens[k].state,
                                           !.subject = tokens[k].state.subject])
        PROVE  Delivers(c)
    <2>1. /\ pc'[c] = label /\ dead' = dead
          /\ loc'[c] = [loc[c] EXCEPT !.snap = tokens[k].state,
                                      !.subject = tokens[k].state.subject]
      BY <1>6, GoIs
    <2>2. /\ loc'[c].op = loc[c].op /\ loc'[c].covered = loc[c].covered
          /\ loc'[c].subject = tokens[k].state.subject
          /\ loc'[c].cur = k /\ loc'[c].targets = loc[c].targets
      BY <1>2, <2>1, Fields DEF Onward, Core
    <2>3. loc[c].covered = {} /\ loc[c].op \notin Issuing
      BY <1>1, NotSweeping DEF Covering, LoginOps, LookupOps, Issuing
    <2>4. Sweeps(c)'
      BY <2>2, <2>3, NoSweep
    <2>5. LogsOut(c)'
      <3>1. LinksTo(k)' = LinksTo(k) /\ k \in IssuedKeys'
        BY <1>3, <1>6, LossLinks DEF Onward, LinksTo, Stored
      <3>2. \A j \in LinksTo(k) : tokens[j].state.subject = tokens[k].state.subject
        BY <1>3, <1>6 DEF Onward, Chained
      <3>3. LinkedWithin(loc[c].cur, loc[c].subject)'
        BY <1>6, <2>2, <3>1, <3>2 DEF LinkedWithin
      <3>4. LogsOut(c)
        BY DEF Onward, Promise
      <3> QED
        BY <1>6, <2>1, <2>2, <3>1, <3>3, <3>4 DEF LogsOut
    <2>6. Serves(c)' /\ Renews(c)' /\ Stores(c)'
      BY <1>1, <1>6, <2>1, <2>2, <2>3, FlagsRigid
         DEF Onward, Promise, Serves, OnDevice, Renews, Stores, Issuing
    <2> QED
      BY <2>1, <2>4, <2>5, <2>6 DEF Delivers, Promise
  <1>7. tokens' = tokens
    BY DEF Get, store
  <1> QED
    BY <1>2, <1>4, <1>5, <1>6, <1>7 DEF Get

LEMMA UpdateDelivers ==
  ASSUME NEW c \in Client, Onward(c), Update(c)
  PROVE  Delivers(c)
  <1>1. pc[c] = "update" /\ loc[c].op \in LookupOps
    BY DEF Update, Calls, Onward, Core, Typed, Located
  <1>2. CASE Fail(c)
    BY <1>2, FailDelivers
  <1>3. CASE Succeed(c, {}, {})
    BY <1>3, SucceedDelivers
  <1>4. ASSUME NEW ttl, Go(c, "session", [loc[c] EXCEPT !.ttl = ttl]) PROVE Delivers(c)
    <2>1. pc'[c] = "session" /\ dead' = dead /\ loc'[c] = [loc[c] EXCEPT !.ttl = ttl]
      BY <1>4, GoIs
    <2>2. SameWork(c) /\ loc'[c].targets = loc[c].targets
      BY <2>1, Fields DEF Onward, Core, SameWork
    <2>3. loc[c].covered = {} /\ loc[c].op \notin Issuing
      BY <1>1, NotSweeping DEF Covering, LoginOps, LookupOps, Issuing
    <2>4. Sweeps(c)' /\ Renews(c)' /\ Stores(c)'
      BY <2>2, <2>3, NoSweep DEF SameWork, Renews, Stores, Issuing
    <2> QED
      BY <2>1, <2>2, <2>4, PlainPromise DEF Delivers, Plain
  <1> QED
    BY <1>2, <1>3, <1>4 DEF Update

LEMMA DeleteAccessDelivers ==
  ASSUME NEW c \in Client, Onward(c), DeleteAccess(c)
  PROVE  Delivers(c)
  <1>1. /\ pc[c] = "deleteAccess" /\ loc[c].op = "Logout"
        /\ tokens' = Drop(tokens, {loc[c].cur})
    BY DEF DeleteAccess, Calls
  <1>2. PICK k : k = loc[c].cur
    OBVIOUS
  <1>3. LogsOut(c) /\ Serves(c) /\ AllLose /\ UNCHANGED setup
    BY DEF Onward, Promise
  <1>4. k \in IssuedKeys /\ tokens'[k] = NoEntry
    <2>1. k \in IssuedKeys /\ k \in Token
      BY <1>1, <1>2, <1>3, IssuedKeysTyped DEF LogsOut, LookupOps, Onward, Core
    <2> QED
      BY <1>1, <1>2, <2>1 DEF Drop
  <1>5. CASE RevokeRefreshOnLogout
    <2>1. Go(c, "findLinked", loc[c])
      BY <1>5 DEF DeleteAccess
    <2>2. pc'[c] = "findLinked" /\ dead' = dead /\ loc'[c] = loc[c]
      BY <2>1, GoIs
    <2>3. loc[c].covered = {}
      BY <1>1, NotSweeping DEF Covering, LoginOps
    <2>4. Sweeps(c)' /\ Renews(c)' /\ Stores(c)'
      BY <1>1, <2>2, <2>3, NoSweep DEF Renews, Stores, Storing
    <2>5. LogsOut(c)'
      <3>1. LinkedWithin(k, loc[c].subject)
        BY <1>1, <1>2, <1>3 DEF LogsOut
      <3>2. LinkedWithin(loc[c].cur, loc[c].subject)'
        BY <1>2, <1>3, <1>4, <2>2, <3>1, LossLinks DEF LinkedWithin
      <3>3. k \in IssuedKeys'
        BY <1>3, <1>4, LossLinks
      <3> QED
        BY <1>1, <1>2, <1>3, <1>4, <2>2, <3>2, <3>3 DEF LogsOut
    <2>6. Serves(c)'
      BY <1>1, <1>3, <2>2, FlagsRigid DEF Serves
    <2> QED
      BY <2>2, <2>4, <2>5, <2>6 DEF Delivers, Promise
  <1>6. CASE ~RevokeRefreshOnLogout
    <2>1. Succeed(c, {}, {k})
      BY <1>2, <1>6 DEF DeleteAccess
    <2>2. Laid(c, k)
      BY <1>3, <1>4, <1>6, Lay
    <2> QED
      BY <2>1, <2>2, SucceedDelivers
  <1> QED
    BY <1>5, <1>6

\* The end of a round over the refresh tokens that name one access token: all that
\* still do are to be deleted.
LEMMA LinkedDelivers ==
  ASSUME NEW c \in Client, Onward(c), pc[c] \in {"findLinked", "deleteLinked"},
         NEW todo, LinkedDone(c, todo),
         loc[c].op = "Logout" => \A k : k = loc[c].cur => LinksTo(k)' \subseteq todo
  PROVE  Delivers(c)
  <1>1. LogsOut(c) /\ Sweeps(c) /\ Serves(c) /\ AllLose /\ UNCHANGED setup
    BY DEF Onward, Promise
  <1>2. loc[c].op \in {"Logout", "LogoutByDevice"}
    BY <1>1 DEF Serves, OnDevice
  <1>3. PICK k : k = loc[c].cur
    OBVIOUS
  <1>4. loc[c].op = "Logout" =>
          /\ k \in IssuedKeys /\ k \in IssuedKeys' /\ tokens'[k] = NoEntry
          /\ loc[c].targets = {} /\ loc[c].covered = {} /\ LinksTo(k)' \subseteq todo
    BY <1>1, <1>3, LossLinks, NotSweeping DEF LogsOut, LookupOps, Covering, LoginOps
  <1>5. loc[c].op = "LogoutByDevice" =>
          \A j \in loc[c].covered : tokens'[j] = NoEntry \/ j \in loc[c].targets
    BY <1>1, LossLinks DEF Sweeps, Left, Asked, HalfDone
  <1>6. ASSUME NEW label \in {"deleteLinked", "deleteAccess"}, NEW rest,
               Go(c, label, [loc[c] EXCEPT !.todo = rest]),
               label = "deleteAccess" => loc[c].targets # {},
               label = "deleteLinked" => rest = todo
        PROVE  Delivers(c)
    <2>1. pc'[c] = label /\ dead' = dead /\ loc'[c] = [loc[c] EXCEPT !.todo = rest]
      BY <1>6, GoIs
    <2>2. SameWork(c) /\ loc'[c].targets = loc[c].targets /\ loc'[c].todo = rest
      BY <2>1, Fields DEF Onward, Core, SameWork
    <2>3. Sweeps(c)'
      <3>1. CASE loc[c].op = "Logout"
        BY <1>4, <2>2, <3>1, NoSweep DEF SameWork
      <3>2. CASE loc[c].op = "LogoutByDevice"
        <4>1. \A j \in loc[c].covered : Left(c, j)'
          BY <1>5, <2>1, <2>2, <3>2 DEF Left, SameWork, OnDevice
        <4> QED
          BY <2>2, <3>2, <4>1, OnSweeps
      <3> QED
        BY <1>2, <3>1, <3>2
    <2>4. LogsOut(c)'
      <3>1. CASE loc[c].op = "Logout"
        <4>1. label = "deleteLinked" /\ LinksTo(loc[c].cur)' \subseteq todo
          BY <1>3, <1>4, <1>6, <2>2, <3>1 DEF SameWork
        <4> QED
          BY <1>3, <1>4, <1>6, <2>1, <2>2, <3>1, <4>1 DEF LogsOut, SameWork
      <3>2. CASE loc[c].op = "LogoutByDevice"
        BY <2>2, <3>2 DEF LogsOut, SameWork, LookupOps
      <3> QED
        BY <1>2, <3>1, <3>2
    <2>5. Serves(c)' /\ Renews(c)' /\ Stores(c)'
      BY <1>1, <1>2, <2>1, <2>2, FlagsRigid
         DEF Serves, SameWork, OnDevice, Renews, Stores, Storing
    <2> QED
      BY <2>1, <2>3, <2>4, <2>5 DEF Delivers, Promise
  <1>7. ASSUME todo = {}, loc[c].targets = {},
               Succeed(c, {}, loc[c].covered \cup (IF loc[c].op = "Logout" THEN {k} ELSE {}))
        PROVE  Delivers(c)
    <2>1. loc[c].op = "Logout" => Laid(c, k)
      <3>1. loc[c].op = "Logout" => Severed(k)'
        BY <1>4, <1>7 DEF Severed
      <3> QED
        BY <1>1, <1>4, <3>1, Lay
    <2>2. loc[c].op = "LogoutByDevice" => \A j \in loc[c].covered : Laid(c, j)
      BY <1>1, <1>5, <1>7, Lay DEF Sweeps, Excused
    <2> QED
      BY <1>2, <1>4, <1>7, <2>1, <2>2, SucceedDelivers
  <1> QED
    BY <1>3, <1>6, <1>7 DEF LinkedDone

LEMMA FindLinkedDelivers ==
  ASSUME NEW c \in Client, Onward(c), FindLinked(c)
  PROVE  Delivers(c)
  <1> DEFINE todo == {k \in OfSubject(tokens, loc[c].subject, {"refresh"}) :
                        tokens[k].state.access = loc[c].cur}
  <1>1. pc[c] = "findLinked" /\ LinkedDone(c, todo) /\ tokens' = tokens
    BY DEF FindLinked, Calls, store
  <1>2. ASSUME loc[c].op = "Logout", NEW k, k = loc[c].cur PROVE LinksTo(k)' \subseteq todo
    <2>1. LinkedWithin(k, loc[c].subject)
      BY <1>1, <1>2 DEF Onward, Promise, LogsOut
    <2>2. LinksTo(k)' = LinksTo(k)
      BY <1>1 DEF LinksTo, Stored
    <2> QED
      BY <1>2, <2>1, <2>2 DEF LinkedWithin, LinksTo, OfSubject, MatchKind
  <1> HIDE DEF todo
  <1> QED
    BY <1>1, <1>2, LinkedDelivers

LEMMA DeleteLinkedDelivers ==
  ASSUME NEW c \in Client, Onward(c), DeleteLinked(c)
  PROVE  Delivers(c)
  <1>1. PICK j \in loc[c].todo : tokens' = Drop(tokens, {j}) /\ LinkedDone(c, loc[c].todo \ {j})
    BY DEF DeleteLinked
  <1>2. pc[c] = "deleteLinked"
    BY DEF DeleteLinked, Calls
  <1>3. ASSUME loc[c].op = "Logout", NEW k, k = loc[c].cur
        PROVE  LinksTo(k)' \subseteq loc[c].todo \ {j}
    <2>1. LinksTo(k) \subseteq loc[c].todo /\ k \in IssuedKeys
      BY <1>2, <1>3 DEF Onward, Promise, LogsOut, LookupOps
    <2>2. LinksTo(k)' \subseteq LinksTo(k)
      BY <2>1, LossLinks DEF Onward
    <2>3. j \notin LinksTo(k)'
      BY <1>1 DEF LinksTo, Stored, Drop
    <2> QED
      BY <2>1, <2>2, <2>3
  <1> QED
    BY <1>1, <1>2, <1>3, LinkedDelivers

LEMMA FindDeviceDelivers ==
  ASSUME NEW c \in Client, Onward(c), FindDevice(c)
  PROVE  Delivers(c)
  <1> DEFINE found == {k \in OfSubject(tokens, loc[c].subject, {"access"}) :
                         tokens[k].state.device = loc[c].device}
  <1>1. /\ pc[c] = "findDevice" /\ tokens' = tokens
        /\ IF found = {} THEN Succeed(c, {}, loc[c].covered)
           ELSE Go(c, "deleteAccess", [loc[c] EXCEPT !.targets = found])
    BY DEF FindDevice, Calls, store
  <1>2. Sweeps(c) /\ Serves(c) /\ AllLose /\ UNCHANGED setup
    BY DEF Onward, Promise
  <1>3. loc[c].op = "LogoutByDevice"
    BY <1>1, <1>2 DEF Serves
  <1>4. \A k \in loc[c].covered : tokens[k] = NoEntry \/ k \in found
    <2>1. \A k \in loc[c].covered : k \in Token /\ Left(c, k)
      BY <1>2, IssuedKeysTyped DEF Sweeps, Onward, Core
    <2> QED
      BY <1>1, <2>1 DEF Left, Asked, HalfDone, OnDevice, OfKind, OfSubject, MatchKind, Stored
  <1>5. CASE found = {}
    <2>1. \A k \in loc[c].covered : Laid(c, k)
      BY <1>1, <1>4, <1>5, CoveredLaid DEF Asked, HalfDone
    <2> QED
      BY <1>1, <1>5, <2>1, SucceedDelivers
  <1>6. CASE found # {}
    <2>1. /\ pc'[c] = "deleteAccess" /\ dead' = dead
          /\ loc'[c] = [loc[c] EXCEPT !.targets = found]
      BY <1>1, <1>6, GoIs
    <2>2. SameWork(c) /\ loc'[c].targets = found
      BY <2>1, Fields DEF Onward, Core, SameWork
    <2>3. \A k \in loc[c].covered : Left(c, k)'
      BY <1>1, <1>3, <1>4, <2>1, <2>2 DEF Left, SameWork, OnDevice
    <2>4. Sweeps(c)'
      BY <1>3, <2>2, <2>3, OnSweeps
    <2>5. Serves(c)' /\ Renews(c)' /\ Stores(c)' /\ LogsOut(c)'
      BY <1>2, <1>3, <2>1, <2>2, FlagsRigid
         DEF Serves, SameWork, OnDevice, Renews, Stores, Storing, LogsOut, LookupOps
    <2> QED
      BY <2>1, <2>4, <2>5 DEF Delivers, Promise
  <1> QED
    BY <1>5, <1>6

LEMMA DeleteOnDeviceDelivers ==
  ASSUME NEW c \in Client, Onward(c), DeleteOnDevice(c)
  PROVE  Delivers(c)
  <1>1. PICK k \in loc[c].targets :
          /\ tokens' = Drop(tokens, {k})
          /\ IF RevokeRefreshOnLogout
               THEN Go(c, "findLinked", [loc[c] EXCEPT !.targets = loc[c].targets \ {k}, !.cur = k])
               ELSE IF loc[c].targets \ {k} # {}
               THEN Go(c, "deleteAccess", [loc[c] EXCEPT !.targets = loc[c].targets \ {k}])
               ELSE Succeed(c, {}, loc[c].covered)
    BY DEF DeleteOnDevice
  <1>2. pc[c] = "deleteAccess" /\ loc[c].op = "LogoutByDevice"
    BY DEF DeleteOnDevice, Calls
  <1>3. Sweeps(c) /\ Serves(c) /\ AllLose /\ UNCHANGED setup
    BY DEF Onward, Promise
  <1>4. \A j \in loc[c].covered :
          j \in IssuedKeys /\ (tokens'[j] = NoEntry \/ j \in loc[c].targets \ {k})
    <2>1. \A j \in loc[c].covered : j \in IssuedKeys /\ j \in Token /\ Left(c, j)
      BY <1>3, IssuedKeysTyped DEF Sweeps, Onward, Core
    <2>2. tokens'[k] = NoEntry \/ k \notin Token
      BY <1>1 DEF Drop
    <2> QED
      BY <1>2, <1>3, <2>1, <2>2, LossLinks DEF Left, Asked, HalfDone
  <1>5. ASSUME NEW label \in {"findLinked", "deleteAccess"}, NEW locals,
               Go(c, label, locals), locals.op = loc[c].op,
               locals.covered = loc[c].covered, locals.targets = loc[c].targets \ {k}
        PROVE  Delivers(c)
    <2>1. pc'[c] = label /\ dead' = dead /\ loc'[c] = locals
      BY <1>5, GoIs
    <2>2. \A j \in loc[c].covered : j \in IssuedKeys' /\ Left(c, j)'
      BY <1>2, <1>3, <1>4, <1>5, <2>1, LossLinks DEF Left, OnDevice
    <2>3. Sweeps(c)'
      BY <1>2, <1>3, <1>5, <2>1, <2>2 DEF Sweeps, Covering, LoginOps
    <2>4. Serves(c)' /\ Renews(c)' /\ Stores(c)' /\ LogsOut(c)'
      BY <1>2, <1>3, <1>5, <2>1, FlagsRigid
         DEF Serves, OnDevice, Renews, Stores, Storing, LogsOut, LookupOps
    <2> QED
      BY <2>1, <2>3, <2>4 DEF Delivers, Promise
  <1>6. CASE Succeed(c, {}, loc[c].covered) /\ loc[c].targets \ {k} = {}
    <2>1. \A j \in loc[c].covered : Laid(c, j)
      BY <1>2, <1>3, <1>4, <1>6, Lay DEF Excused
    <2> QED
      BY <1>6, <2>1, SucceedDelivers
  <1>7. CASE Go(c, "findLinked", [loc[c] EXCEPT !.targets = loc[c].targets \ {k}, !.cur = k])
    <2> DEFINE locals == [loc[c] EXCEPT !.targets = loc[c].targets \ {k}, !.cur = k]
    <2>1. /\ locals.op = loc[c].op /\ locals.covered = loc[c].covered
          /\ locals.targets = loc[c].targets \ {k}
      BY Fields DEF Onward, Core
    <2> HIDE DEF locals
    <2> QED
      BY <1>5, <1>7, <2>1 DEF locals
  <1>8. CASE Go(c, "deleteAccess", [loc[c] EXCEPT !.targets = loc[c].targets \ {k}])
    <2> DEFINE locals == [loc[c] EXCEPT !.targets = loc[c].targets \ {k}]
    <2>1. /\ locals.op = loc[c].op /\ locals.covered = loc[c].covered
          /\ locals.targets = loc[c].targets \ {k}
      BY Fields DEF Onward, Core
    <2> HIDE DEF locals
    <2> QED
      BY <1>5, <1>8, <2>1 DEF locals
  <1> QED
    BY <1>1, <1>6, <1>7, <1>8

LEMMA LogoutAccessDelivers ==
  ASSUME NEW c \in Client, Onward(c), LogoutAccess(c)
  PROVE  Delivers(c)
  <1>1. /\ pc[c] = "logoutAccess"
        /\ tokens' = Drop(tokens, OfSubject(tokens, loc[c].subject, {"access"}))
        /\ IF RevokeRefreshOnLogout THEN Go(c, "logoutRefresh", loc[c])
           ELSE IF loc[c].dropSession THEN Go(c, "dropSession", loc[c])
           ELSE Succeed(c, {}, loc[c].covered)
    BY DEF LogoutAccess, Calls
  <1>2. ASSUME NEW label, Go(c, label, loc[c]),
               label = IF RevokeRefreshOnLogout THEN "logoutRefresh" ELSE "dropSession"
        PROVE  Delivers(c)
    <2>1. pc'[c] = label /\ dead' = dead /\ loc'[c] = loc[c]
      BY <1>2, GoIs
    <2>2. SameWork(c) /\ loc'[c].targets = loc[c].targets
      BY <2>1 DEF SameWork
    <2>3. Sweeps(c)'
      BY <1>1, <1>2, <2>1, <2>2, HalfSweeps DEF Asked, HalfDone, OnDevice, Wide
    <2>4. Renews(c)' /\ Stores(c)'
      BY <1>1, <1>2, <2>1, <2>2, OnRenews, OnStores DEF Before, Replacing, Storing
    <2>5. Serves(c)' /\ LogsOut(c)'
      BY <1>2, <2>1, <2>2, FlagsRigid, OnLogsOut
         DEF Onward, Promise, Serves, OnDevice, SameWork
    <2> QED
      BY <2>1, <2>3, <2>4, <2>5 DEF Delivers, Promise
  <1>3. CASE Succeed(c, {}, loc[c].covered) /\ ~RevokeRefreshOnLogout
    <2>1. \A k \in loc[c].covered : k \in IssuedKeys /\ tokens'[k] = NoEntry
      BY <1>1, <1>3, AccessSwept DEF Asked, Onward, Promise, Sweeps
    <2>2. \A k \in loc[c].covered : Laid(c, k)
      BY <1>3, <2>1, Lay DEF Onward
    <2> QED
      BY <1>3, <2>2, SucceedDelivers
  <1> QED
    BY <1>1, <1>2, <1>3

LEMMA LogoutRefreshDelivers ==
  ASSUME NEW c \in Client, Onward(c), LogoutRefresh(c)
  PROVE  Delivers(c)
  <1>1. /\ pc[c] = "logoutRefresh"
        /\ tokens' = Drop(tokens, OfSubject(tokens, loc[c].subject, {"refresh"}))
        /\ Go(c, "dropSession", loc[c]) \/ Succeed(c, {}, loc[c].covered)
    BY DEF LogoutRefresh, Calls
  <1>2. CASE Go(c, "dropSession", loc[c])
    <2>1. pc'[c] = "dropSession" /\ dead' = dead /\ loc'[c] = loc[c]
      BY <1>2, GoIs
    <2>2. SameWork(c) /\ loc'[c].targets = loc[c].targets
      BY <2>1 DEF SameWork
    <2>3. Sweeps(c)'
      BY <1>1, <2>1, <2>2, LastSweeps DEF Asked, HalfDone, OnDevice, Wide
    <2>4. Renews(c)' /\ Stores(c)'
      BY <1>1, <2>1, <2>2, OnRenews, OnStores DEF Before, Replacing, Storing
    <2> QED
      BY <2>1, <2>2, <2>3, <2>4, PlainPromise DEF Delivers, Plain
  <1>3. CASE Succeed(c, {}, loc[c].covered)
    <2>1. \A k \in loc[c].covered : Laid(c, k)
      BY <1>1, LastLaid DEF HalfDone
    <2> QED
      BY <1>3, <2>1, SucceedDelivers
  <1> QED
    BY <1>1, <1>2, <1>3

LEMMA RevokeAllDelivers ==
  ASSUME NEW c \in Client, Onward(c), RevokeAll(c)
  PROVE  Delivers(c)
  <1>1. /\ pc[c] = "revokeAll" /\ Succeed(c, {}, loc[c].covered)
        /\ tokens' = Drop(tokens, OfSubject(tokens, loc[c].subject, {"refresh"}))
    BY DEF RevokeAll, Calls
  <1>2. \A k \in loc[c].covered : k \in IssuedKeys /\ k \in Token
    BY IssuedKeysTyped DEF Onward, Core, Promise, Sweeps
  <1>3. \A k \in loc[c].covered : Left(c, k) => tokens'[k] = NoEntry
    <2> SUFFICES ASSUME NEW k \in loc[c].covered, Left(c, k) PROVE tokens'[k] = NoEntry
      OBVIOUS
    <2>1. tokens[k] = NoEntry \/ OfKind(c, k, {"refresh"})
      BY <1>1 DEF Left, Asked, OnDevice
    <2>2. CASE tokens[k] = NoEntry
      BY <1>2, <2>2, LossLinks DEF Onward
    <2>3. CASE tokens[k] # NoEntry
      BY <1>1, <1>2, <2>1, <2>3 DEF OfKind, Drop, OfSubject, MatchKind, Stored
    <2> QED
      BY <2>2, <2>3
  <1>4. \A k \in loc[c].covered : Laid(c, k)
    BY <1>1, <1>3, CoveredLaid DEF Asked, HalfDone
  <1> QED
    BY <1>1, <1>4, SucceedDelivers

LEMMA GetRefreshDelivers ==
  ASSUME NEW c \in Client, Onward(c), GetRefresh(c)
  PROVE  Delivers(c)
  <1>1. pc[c] = "getRefresh" /\ loc[c].op = "RevokeRefreshToken"
    BY DEF GetRefresh, Calls, Onward, Promise, Serves
  <1>2. CASE Fail(c)
    BY <1>2, FailDelivers
  <1>3. ASSUME NEW snap, Go(c, "revoke", [loc[c] EXCEPT !.snap = snap]) PROVE Delivers(c)
    <2>1. pc'[c] = "revoke" /\ dead' = dead /\ loc'[c] = [loc[c] EXCEPT !.snap = snap]
      BY <1>3, GoIs
    <2>2. loc'[c].op = loc[c].op /\ loc'[c].covered = loc[c].covered
      BY <2>1, Fields DEF Onward, Core
    <2>3. loc[c].covered = {}
      BY <1>1, NotSweeping DEF Covering, LoginOps
    <2>4. Sweeps(c)'
      BY <2>2, <2>3, NoSweep
    <2>5. Serves(c)' /\ Renews(c)' /\ Stores(c)' /\ LogsOut(c)'
      BY <1>1, <2>1, <2>2, FlagsRigid
         DEF Onward, Promise, Serves, OnDevice, Renews, Stores, Storing, LogsOut, LookupOps
    <2> QED
      BY <2>1, <2>4, <2>5 DEF Delivers, Promise
  <1> QED
    BY <1>2, <1>3 DEF GetRefresh

LEMMA RevokeDelivers ==
  ASSUME NEW c \in Client, Onward(c), Revoke(c)
  PROVE  Delivers(c)
  <1> DEFINE next == MarkRevoked(loc[c].snap)
  <1>1. PICK k : k = StoreKey(loc[c].ref)
    OBVIOUS
  <1>2. pc[c] = "revoke" /\ loc[c].snap.kind = "refresh"
    BY DEF Revoke, Calls, Onward, Core, Typed, Located
  <1>3. CASE Fail(c)
    BY <1>3, FailDelivers
  <1>4. CASE /\ tokens' = Put(tokens, k, next, EffectiveExpiresAt(next, now, RemainingTTL(next, now)))
             /\ Succeed(c, {}, {k})
             /\ MayUpdate(k, loc[c].snap)
    <2>1. k \in Token /\ tokens[k] # NoEntry /\ tokens[k].state = loc[c].snap
      BY <1>4 DEF MayUpdate, Onward, Matches, Live, Stored
    <2>2. k \in IssuedKeys /\ LinksTo(k) = {}
      BY <1>2, <2>1, OneTimeKeys DEF OneTime, Onward, Core
    <2>3. tokens'[k].state = next
      <3>1. tokens'[k] = [state |-> next,
                          expiresAt |-> EffectiveExpiresAt(next, now, RemainingTTL(next, now))]
        BY <1>4, <2>1, PutReads DEF Onward, Core
      <3> QED
        BY <3>1
    <2>4. next.status = "revoked"
      <3>1. StateShaped(loc[c].snap)
        BY <2>1 DEF Onward, Core, Typed, StoreShaped, EntryShaped
      <3> QED
        BY <3>1 DEF MarkRevoked, StateShaped, StateFields
    <2>5. k \in IssuedKeys' /\ LinksTo(k)' = {}
      BY <2>2, LossLinks DEF Onward
    <2>6. Laid(c, k)
      BY <2>3, <2>4, <2>5 DEF Laid, Dead, Retired, Severed
    <2> QED
      BY <1>4, <2>6, SucceedDelivers
  <1> QED
    BY <1>1, <1>3, <1>4 DEF Revoke

LEMMA AccessStepDelivers ==
  ASSUME NEW c \in Client, Onward(c), AccessStep(c)
  PROVE  Delivers(c)
  <1>1. CASE EvictExpired(c)
    BY <1>1, FailDelivers DEF EvictExpired
  <1>2. CASE DropSession(c)
    <2>1. pc[c] = "dropSession" /\ Succeed(c, {}, loc[c].covered)
      BY <1>2 DEF DropSession, Calls
    <2>2. \A k \in loc[c].covered : Laid(c, k)
      BY <2>1, SettledLaid DEF Wide, Asked, HalfDone, OnDevice
    <2> QED
      BY <2>1, <2>2, SucceedDelivers
  <1> QED
    BY <1>1, <1>2, GetDelivers, UpdateDelivers, DeleteAccessDelivers, FindLinkedDelivers,
       DeleteLinkedDelivers, FindDeviceDelivers, DeleteOnDeviceDelivers, LogoutAccessDelivers,
       LogoutRefreshDelivers, RevokeAllDelivers, GetRefreshDelivers, RevokeDelivers
       DEF AccessStep

-----------------------------------------------------------------------------
(* A request begins with its promise kept, or with every call still to make. *)

LEMMA BeginIs ==
  ASSUME Typed, NEW c \in Client, NEW label, NEW new, NEW locals, Begin(c, label, new, locals)
  PROVE  /\ UNCHANGED <<tokens, issued, redeemed, dead>>
         /\ pc'[c] = label /\ loc'[c] = locals /\ locals.op \in Ops
         /\ \A d \in Client \ {c} : pc'[d] = pc[d] /\ loc'[d] = loc[d]
BY DEF Begin, Typed, store, ghost

LEMMA BeginPromise ==
  ASSUME Typed, UNCHANGED setup, NEW c \in Client, NEW label, NEW new, NEW locals,
         Begin(c, label, new, locals), Sweeps(c)',
         label \notin OnDevice, label \notin Storing,
         label = "findDevice" => locals.op = "LogoutByDevice",
         label \in {"getRefresh", "revoke"} => locals.op = "RevokeRefreshToken",
         locals.op = "Refresh" => label \in Before,
         locals.op \in LookupOps => locals.cur \in IssuedKeys /\ locals.targets = {}
  PROVE  Promise(c)'
  <1>1. /\ UNCHANGED issued /\ pc'[c] = label /\ loc'[c] = locals /\ locals.op \in Ops
    BY BeginIs
  <1>2. IssuedKeys' = IssuedKeys
    BY <1>1 DEF IssuedKeys
  <1>3. Serves(c)' /\ Renews(c)' /\ Stores(c)'
    BY <1>1, FlagsRigid DEF Serves, Renews, Stores
  <1>4. LogsOut(c)'
    BY <1>1, <1>2 DEF LogsOut, OnDevice, LookupOps
  <1> QED
    BY <1>3, <1>4 DEF Promise

LEMMA IssuedToIs ==
  ASSUME Typed, NEW s, NEW kinds, kinds # {}, NEW k \in IssuedTo(s, kinds)
  PROVE  /\ k \in IssuedKeys /\ k \in Token /\ tokens[k] # NoEntry
         /\ tokens[k].state.subject = s /\ tokens[k].state.kind \in kinds
BY DEF IssuedTo, IssuedKeys, OfSubject, MatchKind, Stored

LEMMA SubjectSweeps ==
  ASSUME Typed, Chained, UNCHANGED setup, NEW c \in Client, NEW label, NEW new, NEW locals,
         Begin(c, label, new, locals), label \in Asked,
         locals.op \in Covering, ~(locals.op \in LoginOps /\ Concurrent),
         locals.covered = SubjectLogout(locals.subject)
  PROVE  Sweeps(c)'
  <1>1. /\ UNCHANGED <<tokens, issued>> /\ pc'[c] = label /\ loc'[c] = locals
    BY BeginIs
  <1>2. locals.covered = IssuedTo(locals.subject, SweptKinds) /\ SweptKinds # {}
    BY DEF SubjectLogout, SweptKinds
  <1>3. \A k \in locals.covered :
          /\ k \in IssuedKeys /\ k \in Token /\ tokens[k] # NoEntry
          /\ tokens[k].state.subject = locals.subject /\ tokens[k].state.kind \in SweptKinds
    BY <1>2, IssuedToIs
  <1>4. IssuedKeys' = IssuedKeys /\ SweptKinds' = SweptKinds
    BY <1>1, FlagsRigid DEF IssuedKeys, SweptKinds
  <1>5. \A k \in locals.covered : Left(c, k)'
    BY <1>1, <1>3, <1>4 DEF Left, OfKind
  <1>6. ASSUME NEW k \in locals.covered PROVE Cut(c, k)'
    <2>1. \A j \in LinksTo(k) : tokens[j].state.subject = locals.subject
      BY <1>3 DEF Chained
    <2>2. LinksTo(k)' = LinksTo(k)
      BY <1>1 DEF LinksTo, Stored
    <2> QED
      BY <1>1, <2>1, <2>2 DEF Cut, LinkedWithin
  <1> QED
    BY <1>1, <1>3, <1>4, <1>5, <1>6, FlagsRigid DEF Sweeps

LEMMA LoginsPromise ==
  ASSUME Core, Atomic, Chained, UNCHANGED setup, NEW c \in Client, Login(c) \/ LoginWithRefresh(c)
  PROVE  Promise(c)'
  <1>1. PICK label, new, locals :
          /\ Begin(c, label, new, locals)
          /\ label = IF RequireNonce THEN NonceEntry ELSE LoginEntry
          /\ locals.op \in LoginOps
          /\ locals.covered = IF Concurrent THEN {} ELSE SubjectLogout(locals.subject)
    <2>2. CASE Login(c)
      <3>1. PICK s, d, n :
              Begin(c, IF RequireNonce THEN NonceEntry ELSE LoginEntry, {Fresh1},
                    [Blank EXCEPT !.op = "Login", !.acc = Fresh1, !.nonce = n,
                           !.subject = s, !.device = d,
                           !.covered = IF Concurrent THEN {} ELSE SubjectLogout(s)])
        BY <2>2, LoginBegins DEF Core
      <3> DEFINE locals == [Blank EXCEPT !.op = "Login", !.acc = Fresh1, !.nonce = n,
                           !.subject = s, !.device = d,
                           !.covered = IF Concurrent THEN {} ELSE SubjectLogout(s)]
      <3>2. /\ locals.op = "Login" /\ locals.subject = s
            /\ locals.covered = IF Concurrent THEN {} ELSE SubjectLogout(s)
        BY DEF Blank
      <3> HIDE DEF locals
      <3> QED
        BY <3>1, <3>2 DEF locals, LoginOps
    <2>3. CASE LoginWithRefresh(c)
      <3>1. PICK s, d, n, r :
              Begin(c, IF RequireNonce THEN NonceEntry ELSE LoginEntry, {Fresh1, r},
                    [Blank EXCEPT !.op = "LoginWithRefresh", !.acc = Fresh1, !.ref = r,
                           !.nonce = n, !.subject = s, !.device = d,
                           !.covered = IF Concurrent THEN {} ELSE SubjectLogout(s)])
        BY <2>3, LoginWithRefreshBegins DEF Core
      <3> DEFINE locals == [Blank EXCEPT !.op = "LoginWithRefresh", !.acc = Fresh1, !.ref = r,
                           !.nonce = n, !.subject = s, !.device = d,
                           !.covered = IF Concurrent THEN {} ELSE SubjectLogout(s)]
      <3>2. /\ locals.op = "LoginWithRefresh" /\ locals.subject = s
            /\ locals.covered = IF Concurrent THEN {} ELSE SubjectLogout(s)
        BY DEF Blank
      <3> HIDE DEF locals
      <3> QED
        BY <3>1, <3>2 DEF locals, LoginOps
    <2> QED
      BY <2>2, <2>3
  <1>2. label \in {"nonce", "saveAccess", "replace"} /\ (~Concurrent => label \in Asked)
    BY <1>1 DEF NonceEntry, LoginEntry, Asked
  <1>3. Sweeps(c)'
    <2>1. CASE Concurrent
      <3>1. loc'[c].covered = {}
        BY <1>1, <2>1, BeginIs DEF Core
      <3> QED
        BY <3>1, NoSweep
    <2>2. CASE ~Concurrent
      BY <1>1, <1>2, <2>2, SubjectSweeps DEF Core, Covering
    <2> QED
      BY <2>1, <2>2
  <1> QED
    BY <1>1, <1>2, <1>3, BeginPromise
       DEF Core, OnDevice, Storing, LoginOps, LookupOps

LEMMA AsksPromise ==
  ASSUME Core, UNCHANGED setup, NEW c \in Client, NEW label, NEW new, NEW locals,
         Begin(c, label, new, locals), locals.covered = {},
         label \in {"load", "get", "getRefresh", "saveNonce", "nonce"},
         label = "getRefresh" => locals.op = "RevokeRefreshToken",
         locals.op = "Refresh" => label = "load",
         locals.op \in LookupOps => locals.cur \in IssuedKeys /\ locals.targets = {}
  PROVE  Promise(c)'
  <1>1. loc'[c].covered = {}
    BY BeginIs DEF Core
  <1>2. Sweeps(c)'
    BY <1>1, NoSweep
  <1> QED
    BY <1>2, BeginPromise DEF Core, OnDevice, Storing, Before

LEMMA LookupsPromise ==
  ASSUME Core, Atomic, UNCHANGED setup, NEW c \in Client,
         \/ Refresh(c) \/ Lookup(c) \/ RevokeRefreshToken(c) \/ GenerateNonce(c) \/ ConsumeNonce(c)
  PROVE  Promise(c)'
  <1>1. CASE Refresh(c)
    <2>1. PICK ref, acc, next, d :
            Begin(c, "load", {acc, next} \ {NoToken},
                  [Blank EXCEPT !.op = "Refresh", !.ref = ref, !.acc = acc,
                                !.next = next, !.device = d])
      BY <1>1 DEF Refresh
    <2> DEFINE locals == [Blank EXCEPT !.op = "Refresh", !.ref = ref, !.acc = acc,
                                       !.next = next, !.device = d]
    <2>2. locals.op = "Refresh" /\ locals.covered = {}
      BY DEF Blank
    <2> HIDE DEF locals
    <2> QED
      BY <2>1, <2>2, AsksPromise DEF locals, LookupOps
  <1>2. CASE Lookup(c)
    <2>1. PICK op \in LookupOps, t \in issued, ttl \in RenewTTL :
            Begin(c, "get", {},
                  [Blank EXCEPT !.op = op, !.acc = t, !.cur = StoreKey(t), !.ttl = ttl])
      BY <1>2 DEF Lookup
    <2> DEFINE locals == [Blank EXCEPT !.op = op, !.acc = t, !.cur = StoreKey(t), !.ttl = ttl]
    <2>2. locals.op = op /\ locals.covered = {} /\ locals.targets = {} /\ locals.cur = StoreKey(t)
      BY DEF Blank
    <2>3. locals.cur \in IssuedKeys
      BY <2>2 DEF IssuedKeys
    <2> HIDE DEF locals
    <2> QED
      BY <2>1, <2>2, <2>3, AsksPromise DEF locals, LookupOps
  <1>3. CASE RevokeRefreshToken(c)
    <2>1. PICK t : Begin(c, "getRefresh", {}, [Blank EXCEPT !.op = "RevokeRefreshToken", !.ref = t])
      BY <1>3 DEF RevokeRefreshToken
    <2> DEFINE locals == [Blank EXCEPT !.op = "RevokeRefreshToken", !.ref = t]
    <2>2. locals.op = "RevokeRefreshToken" /\ locals.covered = {}
      BY DEF Blank
    <2> HIDE DEF locals
    <2> QED
      BY <2>1, <2>2, AsksPromise DEF locals, LookupOps
  <1>4. CASE GenerateNonce(c)
    <2> DEFINE locals == [Blank EXCEPT !.op = "GenerateNonce", !.nonce = Fresh1]
    <2>1. Begin(c, "saveNonce", {Fresh1}, locals)
      BY <1>4, GenerateNonceBegins DEF Core
    <2>2. locals.op = "GenerateNonce" /\ locals.covered = {}
      BY DEF Blank
    <2> HIDE DEF locals
    <2> QED
      BY <2>1, <2>2, AsksPromise DEF LookupOps
  <1>5. CASE ConsumeNonce(c)
    <2>1. PICK t : Begin(c, "nonce", {}, [Blank EXCEPT !.op = "ConsumeNonce", !.nonce = t])
      BY <1>5 DEF ConsumeNonce, NonceEntry
    <2> DEFINE locals == [Blank EXCEPT !.op = "ConsumeNonce", !.nonce = t]
    <2>2. locals.op = "ConsumeNonce" /\ locals.covered = {}
      BY DEF Blank
    <2> HIDE DEF locals
    <2> QED
      BY <2>1, <2>2, AsksPromise DEF locals, LookupOps
  <1> QED
    BY <1>1, <1>2, <1>3, <1>4, <1>5

LEMMA LogoutsPromise ==
  ASSUME Core, Chained, UNCHANGED setup, NEW c \in Client,
         LogoutByLoginID(c) \/ LogoutByDevice(c) \/ RevokeRefreshByLoginID(c)
  PROVE  Promise(c)'
  <1>1. CASE LogoutByLoginID(c)
    <2>1. PICK s, drop :
            Begin(c, "logoutAccess", {},
                  [Blank EXCEPT !.op = "LogoutByLoginID", !.subject = s, !.dropSession = drop,
                                !.covered = SubjectLogout(s)])
      BY <1>1 DEF LogoutByLoginID
    <2> DEFINE locals == [Blank EXCEPT !.op = "LogoutByLoginID", !.subject = s,
                                       !.dropSession = drop, !.covered = SubjectLogout(s)]
    <2>2. /\ locals.op = "LogoutByLoginID" /\ locals.subject = s
          /\ locals.covered = SubjectLogout(s)
      BY DEF Blank
    <2> HIDE DEF locals
    <2>3. Begin(c, "logoutAccess", {}, locals)
      BY <2>1 DEF locals
    <2>4. Sweeps(c)'
      BY <2>2, <2>3, SubjectSweeps DEF Core, Asked, Covering, LoginOps
    <2> QED
      BY <2>2, <2>3, <2>4, BeginPromise DEF Core, OnDevice, Storing, LookupOps
  <1>2. CASE LogoutByDevice(c)
    <2>1. PICK s, d :
            Begin(c, "findDevice", {},
                  [Blank EXCEPT !.op = "LogoutByDevice", !.subject = s, !.device = d,
                     !.covered = {k \in IssuedTo(s, {"access"}) : tokens[k].state.device = d}])
      BY <1>2 DEF LogoutByDevice
    <2> DEFINE covered == {k \in IssuedTo(s, {"access"}) : tokens[k].state.device = d}
               locals == [Blank EXCEPT !.op = "LogoutByDevice", !.subject = s, !.device = d,
                                       !.covered = covered]
    <2>2. /\ locals.op = "LogoutByDevice" /\ locals.subject = s /\ locals.device = d
          /\ locals.covered = covered
      BY DEF Blank
    <2>3. \A k \in covered :
            /\ k \in IssuedKeys /\ tokens[k].state.subject = s
            /\ tokens[k].state.kind = "access" /\ tokens[k].state.device = d
      BY IssuedToIs DEF Core
    <2> HIDE DEF locals, covered
    <2>4. Begin(c, "findDevice", {}, locals)
      BY <2>1 DEF locals, covered
    <2>5. /\ UNCHANGED <<tokens, issued>> /\ pc'[c] = "findDevice" /\ loc'[c] = locals
      BY <2>4, BeginIs DEF Core
    <2>6. IssuedKeys' = IssuedKeys
      BY <2>5 DEF IssuedKeys
    <2>7. \A k \in covered : Left(c, k)'
      BY <2>2, <2>3, <2>5 DEF Left, OfKind
    <2>8. Sweeps(c)'
      BY <2>2, <2>3, <2>5, <2>6, <2>7 DEF Sweeps, Covering, LoginOps
    <2> QED
      BY <2>2, <2>4, <2>8, BeginPromise DEF Core, OnDevice, Storing, LookupOps
  <1>3. CASE RevokeRefreshByLoginID(c)
    <2>1. PICK s :
            Begin(c, "revokeAll", {},
                  [Blank EXCEPT !.op = "RevokeRefreshByLoginID", !.subject = s,
                                !.covered = IssuedTo(s, {"refresh"})])
      BY <1>3 DEF RevokeRefreshByLoginID
    <2> DEFINE covered == IssuedTo(s, {"refresh"})
               locals == [Blank EXCEPT !.op = "RevokeRefreshByLoginID", !.subject = s,
                                       !.covered = covered]
    <2>2. /\ locals.op = "RevokeRefreshByLoginID" /\ locals.subject = s
          /\ locals.covered = covered
      BY DEF Blank
    <2>3. \A k \in covered :
            /\ k \in IssuedKeys /\ k \in Token /\ tokens[k] # NoEntry
            /\ tokens[k].state.subject = s /\ tokens[k].state.kind = "refresh"
      BY IssuedToIs DEF Core
    <2> HIDE DEF locals, covered
    <2>4. Begin(c, "revokeAll", {}, locals)
      BY <2>1 DEF locals, covered
    <2>5. /\ UNCHANGED <<tokens, issued>> /\ pc'[c] = "revokeAll" /\ loc'[c] = locals
      BY <2>4, BeginIs DEF Core
    <2>6. IssuedKeys' = IssuedKeys
      BY <2>5 DEF IssuedKeys
    <2>7. \A k \in covered : Left(c, k)'
      BY <2>2, <2>3, <2>5 DEF Left, OfKind
    <2>8. \A k \in covered : Cut(c, k)'
      <3>1. \A k \in covered : LinksTo(k) = {}
        BY <2>3, OneTimeKeys DEF Core, OneTime
      <3>2. \A k \in covered : LinksTo(k)' = {}
        BY <2>5, <3>1 DEF LinksTo, Stored
      <3> QED
        BY <2>5, <3>2 DEF Cut, Severed, Asked, HalfDone
    <2>9. Sweeps(c)'
      BY <2>2, <2>3, <2>5, <2>6, <2>7, <2>8 DEF Sweeps, Covering, LoginOps
    <2> QED
      BY <2>2, <2>4, <2>9, BeginPromise DEF Core, OnDevice, Storing, LookupOps
  <1> QED
    BY <1>1, <1>2, <1>3

LEMMA StartPromise ==
  ASSUME Core, Atomic, Chained, UNCHANGED setup, NEW c \in Client, Start(c)
  PROVE  /\ Promise(c)' /\ UNCHANGED <<tokens, issued, redeemed, dead>>
         /\ \A d \in Client \ {c} : pc'[d] = pc[d] /\ loc'[d] = loc[d]
  <1>1. Promise(c)'
    BY LoginsPromise, LookupsPromise, LogoutsPromise DEF Start
  <1>2. \E label, new, locals : Begin(c, label, new, locals)
    BY DEF Start, Login, LoginWithRefresh, Refresh, Lookup, LogoutByLoginID, LogoutByDevice,
           RevokeRefreshToken, RevokeRefreshByLoginID, GenerateNonce, ConsumeNonce
  <1> QED
    BY <1>1, <1>2, BeginIs DEF Core

-----------------------------------------------------------------------------
(* What a returned logout has promised.                                     *)

LEMMA InitPromised ==
  ASSUME Init
  PROVE  Promised
  <1>1. \A k : LinksTo(k) = {}
    BY DEF Init, LinksTo, Stored
  <1>2. \A c \in Client : pc[c] = "idle" /\ loc[c] = Blank
    BY DEF Init
  <1>3. /\ Blank.op = "none" /\ Blank.covered = {}
    BY DEF Blank
  <1>4. \A c \in Client : Promise(c)
    BY <1>2, <1>3 DEF Promise, Serves, OnDevice, Sweeps, LogsOut, LookupOps, Renews, Stores,
                      Issuing, LoginOps
  <1> QED
    BY <1>1, <1>4 DEF Promised, Chained, Init

\* Nobody's promise is broken by a step that takes nothing back and stores nothing.
LEMMA IdlePromised ==
  ASSUME Promised, UNCHANGED setup, AllLose, UNCHANGED <<pc, loc, dead>>,
         \A k \in Token : tokens'[k] = tokens[k] \/ tokens'[k] = NoEntry,
         UNCHANGED issued, Core
  PROVE  Promised'
  <1>1. \A k : \A j \in LinksTo(k)' : j \in LinksTo(k) /\ tokens'[j] = tokens[j]
    BY DEF LinksTo, Stored
  <1>2. Chained'
    <2>1. ASSUME NEW k \in Token \cup {NoKey}, NEW j \in LinksTo(k)'
          PROVE  k \in IssuedKeys' /\ (tokens'[k] # NoEntry
                                         => tokens'[k].state.subject = tokens'[j].state.subject)
      <3>1. k \in IssuedKeys /\ k \in Token
        BY <1>1, IssuedKeysTyped DEF Promised, Chained, Core
      <3> QED
        BY <1>1, <3>1 DEF Promised, Chained, IssuedKeys
    <2>2. \A k \in Token : \A i, j \in LinksTo(k)' : i = j
      BY <1>1 DEF Promised, Chained
    <2> QED
      BY <2>1, <2>2 DEF Chained
  <1>3. ASSUME NEW d \in Client PROVE Promise(d)'
    <2>1. Stores(d)'
      <3>1. loc[d].op \in Issuing => StoreKey(loc[d].acc) \in Token
        BY KeysDiffer DEF Core, Typed, Located, NewAccess
      <3> QED
        BY <3>1 DEF Promised, Promise, Stores
    <2> QED
      BY <2>1, Waiting DEF Promised
  <1> QED
    BY <1>2, <1>3, LossBuries DEF Promised

LEMMA LaidBuries ==
  ASSUME UNCHANGED setup, NEW c \in Client, Serves(c), NEW k, Laid(c, k)
  PROVE  Buried(k)'
  <1>1. Severs => RevokeRefreshOnLogout /\ loc[c].op # "LogoutByDevice"
    BY DEF Severs, Serves
  <1> QED
    BY <1>1, FlagsRigid DEF Laid, Excused, Buried

LEMMA StepPromised ==
  ASSUME Promised, NEW c \in Client, Onward(c), Delivers(c)
  PROVE  Promised'
  <1>1. AllLose /\ UNCHANGED setup /\ Advances(c) /\ Core /\ ~AliasArgs
    BY DEF Onward
  <1>2. Chained'
    BY <1>1, StepChained DEF Promised, Promise
  <1>3. ASSUME NEW d \in Client \ {c} PROVE Promise(d)'
    <2>1. pc'[d] = pc[d] /\ loc'[d] = loc[d]
      BY <1>1 DEF Advances, Frame
    <2>2. Stores(d)'
      <3>1. Stores(d)
        BY DEF Promised, Promise
      <3>2. loc[d].op \in Issuing /\ pc[d] \in Storing =>
              (tokens'[StoreKey(loc[d].acc)] # NoEntry
                 => tokens'[StoreKey(loc[d].acc)].state.subject = loc[d].subject)
        BY <1>1, <3>1, StepStores DEF Stores
      <3> QED
        BY <2>1, <3>2 DEF Stores
    <2> QED
      BY <1>1, <2>1, <2>2, Waiting DEF Promised
  <1>4. ASSUME NEW k \in dead' PROVE Buried(k)'
    <2>1. CASE k \in dead
      BY <1>1, <2>1, LossBuries DEF Promised
    <2>2. CASE Laid(c, k)
      BY <1>1, <2>2, LaidBuries DEF Promised, Promise
    <2> QED
      BY <2>1, <2>2 DEF Delivers
  <1> QED
    BY <1>2, <1>3, <1>4, Waiting DEF Promised, Delivers

LEMMA CrashDelivers ==
  ASSUME NEW c \in Client, Onward(c), Crash(c)
  PROVE  Delivers(c)
BY LeavePromise DEF Crash, ghost, Delivers, Onward, Core

LEMMA NextPromised ==
  ASSUME Inv, Promised, ~AliasArgs, [Next]_vars
  PROVE  Promised'
  <1>1. UNCHANGED setup /\ Core /\ Atomic /\ Core'
    BY NextInv, NextCarries DEF Inv
  <1>2. ASSUME UNCHANGED <<tokens, pc, loc, issued, redeemed, dead>> PROVE Promised'
    BY <1>1, <1>2, QuietLoses, IdlePromised
  <1>3. CASE Tick
    <2>1. UNCHANGED <<pc, loc, issued, dead>> /\ \E K : tokens' = Drop(tokens, K)
      BY <1>3 DEF Tick, ghost
    <2> QED
      BY <1>1, <1>3, <2>1, TickLoses, IdlePromised DEF Core, Drop
  <1>4. ASSUME NEW c \in Client, Start(c) PROVE Promised'
    <2>1. /\ Promise(c)' /\ UNCHANGED <<tokens, issued, redeemed, dead>> /\ AllLose
          /\ \A d \in Client \ {c} : pc'[d] = pc[d] /\ loc'[d] = loc[d]
      BY <1>1, <1>4, StartPromise, QuietLoses DEF Promised
    <2>2. Chained'
      BY <2>1 DEF Promised, Chained, LinksTo, Stored, IssuedKeys
    <2>3. ASSUME NEW d \in Client \ {c} PROVE Promise(d)'
      <3>1. Stores(d)'
        BY <2>1 DEF Promised, Promise, Stores
      <3> QED
        BY <1>1, <2>1, <3>1, Waiting DEF Promised
    <2> QED
      BY <1>1, <2>1, <2>2, <2>3, LossBuries DEF Promised
  <1>5. ASSUME NEW c \in Client, Advances(c), Onward(c) => Delivers(c) PROVE Promised'
    <2>1. Onward(c)
      BY <1>1, <1>5, StepLoses DEF Onward, Promised
    <2> QED
      BY <1>5, <2>1, StepPromised
  <1>6. ASSUME NEW c \in Client, Step(c) PROVE Promised'
    <2>1. Advances(c)
      BY <1>1, <1>6, StepAdvances DEF Core
    <2> QED
      BY <1>5, <1>6, <2>1, LoginStepDelivers, RefreshStepDelivers, AccessStepDelivers,
         CallErrorDelivers DEF Step
  <1>7. ASSUME NEW c \in Client, Crash(c) PROVE Promised'
    BY <1>1, <1>5, <1>7, CrashAdvances, CrashDelivers DEF Core
  <1>8. ASSUME NEW c \in Client, Cancel(c) PROVE Promised'
    BY <1>2, <1>8 DEF Cancel, store, ghost
  <1>9. CASE UNCHANGED vars
    BY <1>2, <1>9 DEF vars, store, ghost
  <1> QED
    BY <1>3, <1>4, <1>6, <1>7, <1>8, <1>9 DEF Next

LEMMA PromisedHolds == Spec /\ Atomic /\ ~AliasArgs => []Promised
  <1>1. Init => Promised
    BY InitPromised
  <1>2. Inv /\ Promised /\ ~AliasArgs /\ [Next]_vars => Promised' /\ ~AliasArgs'
    BY NextPromised, NextCarries DEF AliasArgs
  <1> QED
    BY <1>1, <1>2, CarefulCallers, InvHolds, PTL DEF Spec

LEMMA RetiredIsUnusable ==
  ASSUME Core, NEW k, Retired(k)
  PROVE  ~Usable(k)
BY DEF Retired, Usable, Core, Spent

\* What a returned call promised unusable stays unusable: no renewal, mark, release of a
\* claim or end of a refresh, whenever it read the token, brings it back, and no login
\* or refresh in flight stores it again (core/manager.go, refresh.go, nonce.go).
THEOREM PromisesKept == Spec /\ Atomic /\ ~AliasArgs => []DeadStaysDead
  <1>1. Inv /\ Promised => DeadStaysDead
    BY RetiredIsUnusable DEF Inv, Promised, Buried, Dead, DeadStaysDead, Usable
  <1> QED
    BY <1>1, CarefulCallers, InvHolds, PromisedHolds, PTL

\* Once an access token is logged out or replaced, no usable refresh token names it, in
\* any configuration without a logout by device where callers bring new tokens: whatever refresh, login or logout ran
\* beside it, and however it was interrupted (revokeRefreshForAccessToken, login).
THEOREM LogoutSevers ==
  Spec /\ Atomic /\ ~AliasArgs /\ "LogoutByDevice" \notin Ops => []LogoutSeversRefresh
  <1>1. Inv /\ Promised /\ "LogoutByDevice" \notin Ops => LogoutSeversRefresh
    <2> SUFFICES ASSUME Core, Promised, "LogoutByDevice" \notin Ops, RevokeRefreshOnLogout,
                        NEW k \in Stored(tokens), Usable(k), tokens[k].state.kind = "refresh",
                        tokens[k].state.access \in dead
                 PROVE  FALSE
      BY DEF Inv, LogoutSeversRefresh
    <2>1. Severed(tokens[k].state.access)
      BY DEF Promised, Buried, Severs
    <2>2. k \in LinksTo(tokens[k].state.access)
      BY DEF LinksTo
    <2> QED
      BY <2>1, <2>2, RetiredIsUnusable DEF Severed
  <1>2. Inv /\ [Next]_vars /\ "LogoutByDevice" \notin Ops => ("LogoutByDevice" \notin Ops)'
    BY NextCarries DEF Ops
  <1> QED
    BY <1>1, <1>2, CarefulCallers, InvHolds, PromisedHolds, PTL DEF Spec

-----------------------------------------------------------------------------
(* A refresh token that can be used names an access token that is there.    *)

\* Tokens that callers are given have no end, whatever is asked for.
Lasting == Timeout = 0 /\ ActiveTimeout = 0 /\ RenewTTL \subseteq {0}

\* Nor has what a request has read of one, or is to write of it.
LooksUp == {"update", "deleteAccess", "claim"}

SeesNoEnd(c) ==
  /\ pc[c] \in {"get", "update"} => loc[c].ttl = 0
  /\ pc[c] \in LooksUp /\ loc[c].op # "LogoutByDevice" =>
       LET k == loc[c].cur IN
       /\ k \in IssuedKeys
       /\ tokens[k] # NoEntry /\ tokens[k].state.kind \notin OneTime
            => loc[c].snap.expiresAt = Never

NoEnd(k) ==
  tokens[k].state.kind \notin OneTime =>
    tokens[k].state.expiresAt = Never /\ tokens[k].expiresAt = Never

\* What is deleted one by one, from a list that was read before, is one-time tokens.
OneByOne == {"deleteLinked", "deleteOthers"}

Lists(c) ==
  pc[c] \in OneByOne =>
    \A k \in loc[c].todo :
      k \in IssuedKeys /\ (tokens[k] # NoEntry => tokens[k].state.kind \in OneTime)

Endless ==
  /\ \A k \in Stored(tokens) : NoEnd(k)
  /\ \A c \in Client : SeesNoEnd(c) /\ Lists(c)

\* What a step writes: a one-time token that is new or revoked, the token a refresh has
\* claimed, a new access token, or a token that was there and goes on.
Saved(c, k, s, d) ==
  \/ s.kind \in OneTime /\ s.status # "consumed"
  \/ /\ s.kind \in OneTime /\ loc[c].op = "Refresh" /\ pc[c] \in {"saveNext", "restore"}
     /\ k = StoreKey(loc[c].ref)
  \/ /\ pc[c] \in {"saveAccess", "update"} /\ s.status = "active"
     /\ s.kind \notin OneTime => s.expiresAt = Never /\ d = Never

\* What it deletes.
Dropped(c, K) ==
  \/ DeleteAccess(c) /\ K = {loc[c].cur}
  \/ RevokeOldAccess(c) /\ K = {loc[c].snap.access}
  \/ Rollback(c) /\ K = {StoreKey(loc[c].acc)}
  \/ EvictExpired(c) /\ K = {loc[c].cur}
  \/ pc[c] \in OneByOne /\ K \subseteq loc[c].todo
  \/ K = OfSubject(tokens, loc[c].subject, {"refresh"})
  \/ (Replace(c) \/ LogoutAccess(c)) /\ K = OfSubject(tokens, loc[c].subject, {"access"})
  \/ DeleteOnDevice(c) /\ \E k \in loc[c].targets : K = {k} /\ tokens' = Drop(tokens, {k})

Writes(c) ==
  \/ UNCHANGED tokens
  \/ \E K : tokens' = Drop(tokens, K) /\ Dropped(c, K)
  \/ \E k \in Token, kind \in OneTime :
       tokens[k] # NoEntry /\ tokens' = Consume(tokens, k, {kind}, now)
  \/ \E k : \E s \in Sound, d \in Deadline : tokens' = Put(tokens, k, s, d) /\ Saved(c, k, s, d)

LEMMA NeverAgain ==
  ASSUME NEW s, s.expiresAt = Never, now \in Nat
  PROVE  EffectiveExpiresAt(s, now, 0) = Never /\ RemainingTTL(s, now) = 0
BY DEF EffectiveExpiresAt, RemainingTTL, DeadlineAfter, Earlier, Never

LEMMA NewRefreshIs ==
  ASSUME NEW subject, NEW device, NEW access, NEW from
  PROVE  /\ NewRefreshState(subject, device, access, from).kind = "refresh"
         /\ NewRefreshState(subject, device, access, from).status = "active"
BY DEF NewRefreshState, NewState

LEMMA UpdatedIs ==
  ASSUME Lasting, NEW c \in Client, loc[c].snap \in Sound, loc[c].snap.status = "active",
         now \in Nat, loc[c].op = "Renew" => loc[c].ttl = 0, loc[c].op \in LookupOps
  PROVE  /\ Updated(c).kind = loc[c].snap.kind /\ Updated(c).status = "active"
         /\ loc[c].snap.expiresAt = Never => Updated(c).expiresAt = Never
  <1> DEFINE s == loc[c].snap
             u == Touch(s)
  <1>1. s \in TokenState /\ DeadlineAfter(now, 0) = Never
    BY SoundTyped DEF DeadlineAfter
  <1>2. u \in TokenState /\ u.kind = s.kind /\ u.status = "active" /\ u.expiresAt = s.expiresAt
    BY <1>1 DEF Touch, TokenState
  <1> HIDE DEF u
  <1>3. \A d, o : /\ [u EXCEPT !.expiresAt = d].kind = u.kind
                  /\ [u EXCEPT !.expiresAt = d].status = u.status
                  /\ [u EXCEPT !.expiresAt = d].expiresAt = d
                  /\ [u EXCEPT !.online = o].kind = u.kind
                  /\ [u EXCEPT !.online = o].status = u.status
                  /\ [u EXCEPT !.online = o].expiresAt = u.expiresAt
                  /\ [u EXCEPT !.online = o, !.status = "active"].kind = u.kind
                  /\ [u EXCEPT !.online = o, !.status = "active"].status = "active"
                  /\ [u EXCEPT !.online = o, !.status = "active"].expiresAt = u.expiresAt
    BY <1>2 DEF TokenState
  <1>4. CASE loc[c].op = "Renew"
    BY <1>1, <1>2, <1>3, <1>4 DEF Updated, u
  <1>5. CASE loc[c].op = "GetTokenState"
    <2>1. Updated(c) = [u EXCEPT !.expiresAt = u.expiresAt]
      BY <1>5 DEF Updated, u, Lasting
    <2> QED
      BY <1>2, <1>3, <2>1
  <1>6. CASE loc[c].op \notin {"Renew", "GetTokenState"}
    BY <1>1, <1>2, <1>3, <1>6 DEF Updated, u, MarkOnline, MarkOffline
  <1> QED
    BY <1>4, <1>5, <1>6

\* A new or a rewritten entry.
LEMMA SavesWrites ==
  ASSUME Typed, NEW c \in Client, NEW k, NEW s \in Sound, NEW ttl \in Nat,
         tokens' = Put(tokens, k, s, EffectiveExpiresAt(s, now, ttl)),
         Saved(c, k, s, EffectiveExpiresAt(s, now, ttl))
  PROVE  Writes(c)
  <1>1. EffectiveExpiresAt(s, now, ttl) \in Deadline
    BY SoundTyped, DeadlinesTyped DEF Typed, StoreShaped
  <1> QED
    BY <1>1 DEF Writes

LEMMA LoginWrites ==
  ASSUME Typed, Sorts, Atomic, Lasting, NEW c \in Client, LoginStep(c)
  PROVE  Writes(c)
  <1>1. now \in Nat /\ Located(c)
    BY DEF Typed, StoreShaped
  <1>2. CASE SaveNonce(c)
    <2>1. NonceState.kind = "nonce" /\ NonceState.status = "active" /\ NonceTimeout \in Nat
      BY SetupTyped DEF NonceState, NewState, Typed
    <2> QED
      BY <1>2, <2>1, NonceStateTyped, SavesWrites DEF SaveNonce, Saved, OneTime
  <1>3. CASE ConsumeNonceState(c)
    <2>1. StoreKey(loc[c].nonce) \in Token
      BY <1>1, <1>3, KeysDiffer DEF ConsumeNonceState, Calls, Located, Typed
    <2> QED
      BY <1>3, <2>1 DEF ConsumeNonceState, ConsumedKinds, Writes, OneTime
  <1>4. CASE SaveAccess(c)
    <2> DEFINE at == IF Concurrent THEN now ELSE loc[c].at
               s == AccessState(loc[c].subject, LoginDevice(c), at)
    <2>1. pc[c] = "saveAccess" /\ at \in Nat
      BY <1>1, <1>4 DEF SaveAccess, Calls, Located
    <2>2. s \in Sound
      BY <2>1, AccessStateTyped
    <2>3. s.expiresAt = Never /\ s.status = "active"
      BY DEF AccessState, NewState, DeadlineAfter, Lasting
    <2>4. tokens' = Put(tokens, StoreKey(loc[c].acc), s, EffectiveExpiresAt(s, now, 0))
      BY <1>4 DEF SaveAccess, Lasting
    <2> HIDE DEF s, at
    <2>5. EffectiveExpiresAt(s, now, 0) = Never
      BY <1>1, <2>3, NeverAgain
    <2>6. Saved(c, StoreKey(loc[c].acc), s, EffectiveExpiresAt(s, now, 0))
      BY <2>1, <2>3, <2>5 DEF Saved
    <2> QED
      BY <2>2, <2>4, <2>6, SavesWrites
  <1>5. CASE SaveRefresh(c)
    <2> DEFINE s == NewRefreshState(loc[c].subject, loc[c].device, StoreKey(loc[c].acc), NoKey)
    <2>1. loc[c].op \in Issuing /\ loc[c].device \in Device \cup {NoDevice}
      BY <1>1, <1>5, RequestTyped DEF SaveRefresh, Calls, Located, Issuing, LoginOps, Locals
    <2>2. s \in Sound
      BY <2>1, RefreshStateTyped
    <2>3. s.kind = "refresh" /\ s.status = "active"
      BY NewRefreshIs
    <2>4. tokens' = Put(tokens, StoreKey(loc[c].ref), s,
                        EffectiveExpiresAt(s, now, RemainingTTL(s, now)))
      BY <1>5 DEF SaveRefresh
    <2> HIDE DEF s
    <2>5. RemainingTTL(s, now) \in Nat
      BY <1>1, <2>2, SoundTyped, DeadlinesTyped
    <2> QED
      BY <2>2, <2>3, <2>4, <2>5, SavesWrites DEF Saved, OneTime
  <1>6. CASE DeleteOthers(c)
    <2>1. PICK k \in loc[c].todo : tokens' = Drop(tokens, {k})
      BY <1>6 DEF DeleteOthers
    <2> QED
      BY <1>6, <2>1 DEF DeleteOthers, Calls, Writes, Dropped, OneByOne
  <1>7. CASE Replace(c)
    <2>1. tokens' = Drop(tokens, OfSubject(tokens, loc[c].subject, {"access"}))
      BY <1>7 DEF Replace
    <2> QED
      BY <1>7, <2>1 DEF Writes, Dropped
  <1>8. CASE ReplaceRefresh(c)
    BY <1>8 DEF ReplaceRefresh, Writes, Dropped
  <1>9. CASE PeekNonce(c) \/ JudgeNonce(c) \/ FindOthers(c) \/ SyncSession(c)
    BY <1>9 DEF PeekNonce, JudgeNonce, FindOthers, SyncSession, store, Writes
  <1> QED
    BY <1>2, <1>3, <1>4, <1>5, <1>6, <1>7, <1>8, <1>9 DEF LoginStep

LEMMA SwapWrites ==
  ASSUME Typed, NEW c \in Client, loc[c].op = "Refresh", pc[c] \in {"saveNext", "restore"},
         NEW s \in Sound, s.kind = "refresh", SwapRefresh(c, s)
  PROVE  Writes(c)
  <1>1. RemainingTTL(s, now) \in Nat
    BY SoundTyped, DeadlinesTyped DEF Typed, StoreShaped
  <1> QED
    BY <1>1, SavesWrites DEF SwapRefresh, Saved, OneTime, Writes

LEMMA RefreshWrites ==
  ASSUME Typed, Sorts, Atomic, NEW c \in Client, RefreshStep(c)
  PROVE  Writes(c)
  <1>1. now \in Nat /\ Located(c) /\ Knows(pc[c], loc[c])
    BY RequestTyped DEF Typed
  <1>2. CASE ClaimRefresh(c)
    <2>1. StoreKey(loc[c].ref) \in Token
      BY <1>1, <1>2, KeysDiffer DEF ClaimRefresh, Calls, Located, Typed
    <2> QED
      BY <1>2, <2>1 DEF ClaimRefresh, ConsumedKinds, Writes, OneTime
  <1>3. CASE SaveRotated(c)
    <2> DEFINE s == NewRefreshState(loc[c].subject, LoginDevice(c), StoreKey(loc[c].acc),
                                    StoreKey(loc[c].ref))
    <2>1. pc[c] = "saveNext" /\ loc[c].op \in Issuing /\ StoreKey(loc[c].ref) \in Token
      BY <1>1, <1>3, KeysDiffer DEF SaveRotated, Calls, Located, Issuing, Typed
    <2>2. s \in Sound
      BY <2>1, RefreshStateTyped, DeviceTyped
    <2>3. s.kind = "refresh" /\ s.status = "active"
      BY NewRefreshIs
    <2>4. tokens' = Put(tokens, StoreKey(loc[c].next), s,
                        EffectiveExpiresAt(s, now, RemainingTTL(s, now)))
      BY <1>3 DEF SaveRotated
    <2> HIDE DEF s
    <2>5. RemainingTTL(s, now) \in Nat
      BY <1>1, <2>2, SoundTyped, DeadlinesTyped
    <2> QED
      BY <2>2, <2>3, <2>4, <2>5, SavesWrites DEF Saved, OneTime
  <1>4. CASE SaveReused(c)
    <2> DEFINE s == [Touch(loc[c].snap) EXCEPT !.access = StoreKey(loc[c].acc),
                                               !.device = LoginDevice(c)]
    <2>1. /\ pc[c] = "saveNext" /\ loc[c].op = "Refresh" /\ loc[c].snap \in Sound
          /\ loc[c].snap.kind = "refresh" /\ StoreKey(loc[c].acc) \in Token
      BY <1>1, <1>4, RequestTyped, KeysDiffer DEF SaveReused, Calls, Located, Issuing, Knows
    <2>2. s \in Sound /\ s.kind = "refresh"
      <3>1. LoginDevice(c) \in Device \cup {NoDevice}
        BY <2>1, DeviceTyped
      <3>2. \A x \in Sound, a \in Token, e \in Device \cup {NoDevice} :
              /\ [Touch(x) EXCEPT !.access = a, !.device = e] \in Sound
              /\ [Touch(x) EXCEPT !.access = a, !.device = e].kind = x.kind
        BY <1>1, ReusedTyped
      <3> QED
        BY <2>1, <3>1, <3>2
    <2>3. SwapRefresh(c, s)
      BY <1>4 DEF SaveReused
    <2> HIDE DEF s
    <2> QED
      BY <2>1, <2>2, <2>3, SwapWrites
  <1>5. CASE RestoreRefresh(c)
    <2>1. /\ pc[c] = "restore" /\ loc[c].op = "Refresh" /\ loc[c].snap \in Sound
          /\ loc[c].snap.kind = "refresh" /\ SwapRefresh(c, loc[c].snap)
      BY <1>1, <1>5 DEF RestoreRefresh, Calls, Located, Knows
    <2> QED
      BY <2>1, SwapWrites
  <1>6. CASE \/ LoadRefresh(c) \/ PeekRefresh(c) \/ ClaimExpired(c) \/ RevokeOldAccess(c)
             \/ Rollback(c)
    <2>1. RevokeOldAccess(c) => tokens' = Drop(tokens, {loc[c].snap.access})
      BY DEF RevokeOldAccess
    <2>2. Rollback(c) => tokens' = Drop(tokens, {StoreKey(loc[c].acc)})
      BY DEF Rollback
    <2>3. LoadRefresh(c) \/ PeekRefresh(c) \/ ClaimExpired(c) => UNCHANGED tokens
      BY DEF LoadRefresh, PeekRefresh, ClaimExpired, store
    <2> QED
      BY <1>6, <2>1, <2>2, <2>3 DEF Writes, Dropped
  <1> QED
    BY <1>2, <1>3, <1>4, <1>5, <1>6 DEF RefreshStep

LEMMA AccessWrites ==
  ASSUME Typed, Sorts, Atomic, Lasting, NEW c \in Client, AccessStep(c), Endless
  PROVE  Writes(c)
  <1>1. now \in Nat /\ Located(c) /\ Knows(pc[c], loc[c]) /\ SeesNoEnd(c)
    BY RequestTyped DEF Typed, Endless
  <1>2. CASE Update(c)
    <2> DEFINE k == loc[c].cur
               s == Updated(c)
               ttl == IF loc[c].op = "Renew" THEN loc[c].ttl ELSE RemainingTTL(s, now)
    <2>1. /\ pc[c] = "update" /\ loc[c].snap \in Sound /\ loc[c].snap.status = "active"
          /\ loc[c].op \in LookupOps /\ loc[c].ttl = 0 /\ k \in Token
      BY <1>1, <1>2 DEF Update, Calls, Located, Knows, SeesNoEnd
    <2>2. /\ s \in Sound /\ s.kind = loc[c].snap.kind /\ s.status = "active"
          /\ loc[c].snap.expiresAt = Never => s.expiresAt = Never
      BY <1>1, <2>1, UpdatedTyped, UpdatedIs
    <2>3. \/ UNCHANGED tokens
          \/ /\ MayUpdate(k, loc[c].snap)
             /\ tokens' = Put(tokens, k, s, EffectiveExpiresAt(s, now, ttl))
      BY <1>2 DEF Update
    <2> HIDE DEF s
    <2>4. CASE UNCHANGED tokens
      BY <2>4 DEF Writes
    <2>5. CASE MayUpdate(k, loc[c].snap)
               /\ tokens' = Put(tokens, k, s, EffectiveExpiresAt(s, now, ttl))
      <3>1. tokens[k] # NoEntry /\ tokens[k].state = loc[c].snap
        BY <2>5 DEF MayUpdate, Matches, Live, Stored
      <3>2. s.kind \notin OneTime => s.expiresAt = Never
        BY <2>1, <2>2, <3>1 DEF Endless, NoEnd, Stored
      <3>3. ttl \in Nat /\ (s.expiresAt = Never => ttl = 0)
        BY <1>1, <2>1, <2>2, SoundTyped, DeadlinesTyped, NeverAgain
      <3>4. Saved(c, k, s, EffectiveExpiresAt(s, now, ttl))
        BY <1>1, <2>1, <2>2, <3>2, <3>3, NeverAgain DEF Saved
      <3> QED
        BY <2>2, <2>5, <3>3, <3>4, SavesWrites
    <2> QED
      BY <2>3, <2>4, <2>5
  <1>3. CASE Revoke(c)
    <2> DEFINE s == MarkRevoked(loc[c].snap)
    <2>1. loc[c].snap \in Sound /\ loc[c].snap.kind = "refresh"
      BY <1>1, <1>3 DEF Revoke, Calls, Located, Knows
    <2>2. s \in Sound /\ s.kind = "refresh" /\ s.status = "revoked"
      BY <2>1, RevokedTyped
    <2>3. \/ UNCHANGED tokens
          \/ tokens' = Put(tokens, StoreKey(loc[c].ref), s,
                           EffectiveExpiresAt(s, now, RemainingTTL(s, now)))
      BY <1>3 DEF Revoke
    <2> HIDE DEF s
    <2>4. RemainingTTL(s, now) \in Nat
      BY <1>1, <2>2, SoundTyped, DeadlinesTyped
    <2>5. CASE UNCHANGED tokens
      BY <2>5 DEF Writes
    <2> QED
      BY <2>2, <2>3, <2>4, <2>5, SavesWrites DEF Saved, OneTime
  <1>4. CASE DeleteAccess(c) \/ EvictExpired(c)
    <2>1. tokens' = Drop(tokens, {loc[c].cur})
      BY <1>4 DEF DeleteAccess, EvictExpired
    <2> QED
      BY <1>4, <2>1 DEF Writes, Dropped
  <1>5. CASE DeleteLinked(c)
    <2>1. PICK k \in loc[c].todo : tokens' = Drop(tokens, {k})
      BY <1>5 DEF DeleteLinked
    <2> QED
      BY <1>5, <2>1 DEF DeleteLinked, Calls, Writes, Dropped, OneByOne
  <1>6. CASE DeleteOnDevice(c)
    <2>1. PICK k \in loc[c].targets : tokens' = Drop(tokens, {k})
      BY <1>6 DEF DeleteOnDevice
    <2> QED
      BY <1>6, <2>1 DEF Writes, Dropped
  <1>7. CASE LogoutAccess(c) \/ LogoutRefresh(c) \/ RevokeAll(c)
    BY <1>7 DEF LogoutAccess, LogoutRefresh, RevokeAll, Writes, Dropped
  <1>8. CASE Get(c) \/ FindLinked(c) \/ FindDevice(c) \/ DropSession(c) \/ GetRefresh(c)
    BY <1>8 DEF Get, FindLinked, FindDevice, DropSession, GetRefresh, store, Writes
  <1> QED
    BY <1>2, <1>3, <1>4, <1>5, <1>6, <1>7, <1>8 DEF AccessStep

LEMMA StepWrites ==
  ASSUME Typed, Sorts, Atomic, Lasting, Endless, NEW c \in Client, Step(c)
  PROVE  Writes(c)
  <1>1. CallError(c) => Writes(c)
    BY DEF CallError, store, Writes
  <1> QED
    BY <1>1, LoginWrites, RefreshWrites, AccessWrites DEF Step

\* What a step leaves of an entry: all, nothing, or what was put in its place.
LEMMA WritesTo ==
  ASSUME Typed, Sorts, NEW c \in Client, Writes(c), NEW k \in Token
  PROVE  \/ tokens'[k] = tokens[k]
         \/ tokens'[k] = NoEntry /\ \E K : k \in K /\ Dropped(c, K)
         \/ /\ tokens[k] # NoEntry /\ tokens[k].state.status = "active"
            /\ tokens[k].state.kind \in OneTime
            /\ tokens'[k] # NoEntry /\ tokens'[k].state.kind = tokens[k].state.kind
         \/ /\ tokens'[k] # NoEntry
            /\ Saved(c, k, tokens'[k].state, tokens'[k].expiresAt)
  <1>1. DOMAIN tokens = Token /\ tokens \in TokenMap
    BY DEF Typed, StoreShaped, Sorts
  <1>2. ASSUME NEW K, tokens' = Drop(tokens, K)
        PROVE  tokens'[k] = tokens[k] \/ (tokens'[k] = NoEntry /\ k \in K)
    BY <1>2 DEF Drop
  <1>3. ASSUME NEW j \in Token, NEW kind \in OneTime, tokens[j] # NoEntry,
               tokens' = Consume(tokens, j, {kind}, now)
        PROVE  \/ tokens'[k] = tokens[k]
               \/ /\ tokens[k] # NoEntry /\ tokens[k].state.status = "active"
                  /\ tokens[k].state.kind \in OneTime
                  /\ tokens'[k] # NoEntry /\ tokens'[k].state.kind = tokens[k].state.kind
    <2> DEFINE s == tokens[j].state
    <2>1. CASE ~Consumable(s, {kind}, now)
      BY <1>3, <2>1 DEF Consume
    <2>2. CASE Consumable(s, {kind}, now)
      <3>1. s.status = "active" /\ s.kind = kind
        BY <2>2 DEF Consumable, IsActive, MatchKind
      <3>2. tokens[j] \in [state : Sound, expiresAt : Deadline]
        BY <1>1, <1>3 DEF TokenMap
      <3>3. /\ MarkConsumed(s) \in TokenState /\ MarkConsumed(s).kind = s.kind
        BY <3>2 DEF Sound, MarkConsumed, TokenState, TokenStatus
      <3>4. tokens' = [tokens EXCEPT ![j] = [@ EXCEPT !.state = MarkConsumed(s)]]
        BY <1>3, <2>2 DEF Consume, Rewrite
      <3>5. [tokens[j] EXCEPT !.state = MarkConsumed(s)]
               = [state |-> MarkConsumed(s), expiresAt |-> tokens[j].expiresAt]
        BY <3>2
      <3>6. [tokens[j] EXCEPT !.state = MarkConsumed(s)] \in Entry
        BY <3>2, <3>3, <3>5 DEF Entry
      <3>7. /\ tokens'[j] # NoEntry /\ tokens'[j].state.kind = s.kind
        BY <1>1, <3>3, <3>4, <3>5, <3>6, AbsentIsNoEntry
      <3> QED
        BY <1>1, <1>3, <3>1, <3>4, <3>7
    <2> QED
      BY <2>1, <2>2
  <1>4. ASSUME NEW j, NEW s \in Sound, NEW d \in Deadline, tokens' = Put(tokens, j, s, d),
               Saved(c, j, s, d)
        PROVE  \/ tokens'[k] = tokens[k]
               \/ /\ tokens'[k] # NoEntry
                  /\ Saved(c, k, tokens'[k].state, tokens'[k].expiresAt)
    <2>1. CASE j = k
      <3>1. tokens'[k] = [state |-> s, expiresAt |-> d]
        BY <1>1, <1>4, <2>1 DEF Put
      <3>2. tokens'[k] \in Entry
        BY <3>1, SoundTyped DEF Entry
      <3> QED
        BY <1>4, <2>1, <3>1, <3>2, AbsentIsNoEntry
    <2>2. CASE j # k
      BY <1>1, <1>4, <2>2 DEF Put
    <2> QED
      BY <2>1, <2>2
  <1> QED
    BY <1>2, <1>3, <1>4 DEF Writes

-----------------------------------------------------------------------------
(* Where the steps of a request lead.                                       *)

\* A step that is no failure.
Runs(c) ==
  /\ Core /\ Sorts /\ Promised /\ Endless
  /\ Atomic /\ ~AliasArgs /\ Lasting /\ UNCHANGED setup
  /\ LoginStep(c) \/ RefreshStep(c) \/ AccessStep(c)
  /\ Advances(c) /\ AllLose /\ Writes(c)

\* The calls that delete access tokens by subject.
Sweepers == {"replace", "replaceRefresh", "findOthers", "deleteOthers", "logoutAccess",
             "findDevice"}

\* The labels at which a request has something to lose.
Watched == LooksUp \cup OneByOne \cup {"get"}

Marked == Sweepers \cup Storing \cup Watched \cup {"restore", "rollback"}

LEMMA RunsKnows ==
  ASSUME NEW c \in Client, Runs(c)
  PROVE  /\ Typed /\ Located(c) /\ Knows(pc[c], loc[c]) /\ SeesNoEnd(c) /\ Lists(c) /\ Promise(c)
         /\ LoginEntry \in {"saveAccess", "replace"} /\ (Concurrent => LoginEntry = "saveAccess")
         /\ Leave(c) => pc'[c] = "idle"
         /\ \A label, locals : Go(c, label, locals) => pc'[c] = label /\ loc'[c] = locals
  <1>1. /\ Typed /\ Located(c) /\ Knows(pc[c], loc[c]) /\ SeesNoEnd(c) /\ Lists(c) /\ Promise(c)
    BY RequestTyped DEF Runs, Core, Typed, Endless, Promised
  <1>2. LoginEntry \in {"saveAccess", "replace"} /\ (Concurrent => LoginEntry = "saveAccess")
    BY DEF LoginEntry
  <1>3. /\ Leave(c) => pc'[c] = "idle"
        /\ \A label, locals : Go(c, label, locals) => pc'[c] = label /\ loc'[c] = locals
    BY <1>1 DEF Leave, Go, Typed
  <1> QED
    BY <1>1, <1>2, <1>3

LEMMA Course ==
  ASSUME NEW c \in Client, Runs(c)
  PROVE  \/ pc'[c] \notin Marked
         \/ JudgeNonce(c) \/ Replace(c) \/ FindOthers(c) \/ DeleteOthers(c)
         \/ SaveAccess(c) \/ SyncSession(c) \/ LoadRefresh(c) \/ ClaimRefresh(c)
         \/ RevokeOldAccess(c) \/ SaveReused(c) \/ Rollback(c) \/ Get(c) \/ Update(c)
         \/ FindLinked(c) \/ DeleteLinked(c) \/ FindDevice(c) \/ DeleteOnDevice(c)
  <1>1. \A label, locals : Go(c, label, locals) /\ label \notin Marked => pc'[c] \notin Marked
    BY RunsKnows
  <1>2. {"idle", "saveAccess", "judgeNonce", "findLinked", "logoutRefresh", "dropSession",
         "revoke"} \cap Marked = {}
    BY DEF Marked, Watched, Sweepers, Storing, LooksUp, OneByOne
  <1>3. /\ Fail(c) => pc'[c] \notin Marked
        /\ \A new, gone : Succeed(c, new, gone) => pc'[c] \notin Marked
        /\ Leave(c) => pc'[c] \notin Marked
    BY <1>2, RunsKnows DEF Fail, Succeed
  <1>4. ~PeekNonce(c) /\ ~PeekRefresh(c)
    BY RunsKnows DEF PeekNonce, PeekRefresh, Calls, Located
  <1>5. CASE SaveNonce(c) \/ ConsumeNonceState(c) \/ ReplaceRefresh(c) \/ SaveRefresh(c)
    BY <1>1, <1>2, <1>3, <1>5 DEF SaveNonce, ConsumeNonceState, ReplaceRefresh, SaveRefresh
  <1>6. CASE ClaimExpired(c) \/ SaveRotated(c) \/ RestoreRefresh(c)
    BY <1>3, <1>6 DEF ClaimExpired, SaveRotated, RestoreRefresh
  <1>7. CASE \/ EvictExpired(c) \/ DeleteAccess(c) \/ LogoutAccess(c) \/ LogoutRefresh(c)
             \/ DropSession(c) \/ RevokeAll(c) \/ GetRefresh(c) \/ Revoke(c)
    BY <1>1, <1>2, <1>3, <1>7 DEF EvictExpired, DeleteAccess, LogoutAccess, LogoutRefresh,
            DropSession, RevokeAll, GetRefresh, Revoke
  <1> QED
    BY <1>4, <1>5, <1>6, <1>7 DEF Runs, LoginStep, RefreshStep, AccessStep

\* How a request comes to what it looks up, lists, sweeps, stores, rolls back or releases.
LEMMA Whither ==
  ASSUME NEW c \in Client, Runs(c)
  PROVE  /\ pc'[c] \in Watched =>
              \/ LoadRefresh(c) \/ Get(c) \/ FindLinked(c) \/ DeleteLinked(c)
              \/ FindOthers(c) \/ DeleteOthers(c) \/ FindDevice(c) \/ DeleteOnDevice(c)
         /\ pc'[c] \in Sweepers => pc[c] \in Sweepers \/ ~Concurrent
         /\ pc'[c] \in Storing => SaveAccess(c) \/ SyncSession(c) \/ Update(c)
         /\ pc'[c] = "rollback" => SaveReused(c)
         /\ pc'[c] = "restore" => ClaimRefresh(c) \/ Rollback(c)
  <1>1. /\ LoginEntry \in {"saveAccess", "replace"} /\ (Concurrent => LoginEntry = "saveAccess")
        /\ Leave(c) => pc'[c] = "idle" /\ Typed
        /\ \A label, locals : Go(c, label, locals) => pc'[c] = label
    BY RunsKnows
  <1>2. /\ Fail(c) => pc'[c] = "idle"
        /\ \A new, gone : Succeed(c, new, gone) => pc'[c] = "idle"
    BY <1>1 DEF Fail, Succeed
  <1>3. SaveAccess(c) => pc'[c] = "session"
    BY <1>1 DEF SaveAccess
  <1>4. SyncSession(c) => pc'[c] \in {"idle", "saveRefresh", "saveNext"}
    BY <1>1, <1>2 DEF SyncSession
  <1>5. LoadRefresh(c) => pc'[c] \in {"idle", "claim"}
    BY <1>1, <1>2 DEF LoadRefresh, ClaimEntry, Runs
  <1>6. ClaimRefresh(c) => pc'[c] \in {"idle", "revokeOld", LoginEntry, "restore"}
    BY <1>1, <1>2 DEF ClaimRefresh, AfterClaim
  <1>7. SaveReused(c) => pc'[c] \in {"idle", "rollback"}
    BY <1>1, <1>2 DEF SaveReused
  <1>8. Rollback(c) => pc'[c] \in {"idle", "restore"}
    BY <1>1, <1>2 DEF Rollback, GiveUp
  <1>9. Get(c) => pc'[c] \in {"idle", "deleteAccess", "update"}
    BY <1>1, <1>2 DEF Get
  <1>10. Update(c) => pc'[c] \in {"idle", "session"}
    BY <1>1, <1>2 DEF Update
  <1>11. FindLinked(c) \/ DeleteLinked(c) => pc'[c] \in {"idle", "deleteLinked", "deleteAccess"}
    BY <1>1, <1>2 DEF FindLinked, DeleteLinked, LinkedDone
  <1>12. FindDevice(c) \/ DeleteOnDevice(c) => pc'[c] \in {"idle", "findLinked", "deleteAccess"}
    BY <1>1, <1>2 DEF FindDevice, DeleteOnDevice
  <1>13. JudgeNonce(c) => pc'[c] \in {"idle", LoginEntry}
    BY <1>1, <1>2, RunsKnows DEF JudgeNonce, Typed
  <1>14. RevokeOldAccess(c) => pc'[c] = LoginEntry
    BY <1>1 DEF RevokeOldAccess
  <1>15. /\ Replace(c) => pc'[c] \in {"saveAccess", "findOthers", "replaceRefresh"}
         /\ FindOthers(c) \/ DeleteOthers(c) => pc'[c] \in {"saveAccess", "deleteOthers"}
         /\ Replace(c) \/ FindOthers(c) \/ DeleteOthers(c) => pc[c] \in Sweepers
    BY <1>1 DEF Replace, FindOthers, DeleteOthers, Calls, Sweepers
  <1>16. \/ pc'[c] \notin Marked
         \/ JudgeNonce(c) \/ Replace(c) \/ FindOthers(c) \/ DeleteOthers(c)
         \/ SaveAccess(c) \/ SyncSession(c) \/ LoadRefresh(c) \/ ClaimRefresh(c)
         \/ RevokeOldAccess(c) \/ SaveReused(c) \/ Rollback(c) \/ Get(c) \/ Update(c)
         \/ FindLinked(c) \/ DeleteLinked(c) \/ FindDevice(c) \/ DeleteOnDevice(c)
    BY Course
  <1>17. ASSUME pc'[c] \in Watched
         PROVE  \/ LoadRefresh(c) \/ Get(c) \/ FindLinked(c) \/ DeleteLinked(c)
                \/ FindOthers(c) \/ DeleteOthers(c) \/ FindDevice(c) \/ DeleteOnDevice(c)
    BY <1>1, <1>3, <1>4, <1>6, <1>7, <1>8, <1>10, <1>13, <1>14, <1>15, <1>16, <1>17
       DEF Marked, Watched, LooksUp, OneByOne
  <1>18. ASSUME pc'[c] \in Sweepers PROVE pc[c] \in Sweepers \/ ~Concurrent
    BY <1>1, <1>3, <1>4, <1>5, <1>6, <1>7, <1>8, <1>9, <1>10, <1>11, <1>12, <1>13, <1>14, <1>15,
       <1>16, <1>18 DEF Marked, Sweepers
  <1>19. ASSUME pc'[c] \in Storing PROVE SaveAccess(c) \/ SyncSession(c) \/ Update(c)
    BY <1>1, <1>5, <1>6, <1>7, <1>8, <1>9, <1>11, <1>12, <1>13, <1>14, <1>15, <1>16, <1>19
       DEF Marked, Storing
  <1>20. /\ pc'[c] = "rollback" => SaveReused(c)
         /\ pc'[c] = "restore" => ClaimRefresh(c) \/ Rollback(c)
    BY <1>1, <1>3, <1>4, <1>5, <1>6, <1>7, <1>8, <1>9, <1>10, <1>11, <1>12, <1>13, <1>14, <1>15,
       <1>16 DEF Marked
  <1> QED
    BY <1>17, <1>18, <1>19, <1>20

\* Who takes an access token away.
LEMMA RemovedBy ==
  ASSUME NEW c \in Client, Runs(c), NEW k \in Token, tokens[k] # NoEntry,
         tokens[k].state.kind \notin OneTime, tokens'[k] = NoEntry
  PROVE  \/ DeleteAccess(c) /\ k = loc[c].cur
         \/ RevokeOldAccess(c) /\ k = loc[c].snap.access
         \/ Rollback(c) /\ k = StoreKey(loc[c].acc)
         \/ (Replace(c) \/ LogoutAccess(c)) /\ tokens[k].state.subject = loc[c].subject
         \/ DeleteOnDevice(c) /\ k \in loc[c].targets /\ tokens' = Drop(tokens, {k})
  <1>1. PICK K : k \in K /\ Dropped(c, K)
    BY WritesTo DEF Runs, Core
  <1>2. ~(EvictExpired(c) /\ K = {loc[c].cur})
    <2> SUFFICES ASSUME EvictExpired(c), k = loc[c].cur PROVE FALSE
      BY <1>1
    <2>1. IsExpired(loc[c].snap, now) /\ pc[c] \in LooksUp /\ loc[c].op # "LogoutByDevice"
      BY DEF EvictExpired, LooksUp, ClaimEntry, Runs
    <2>2. loc[c].snap.expiresAt = Never
      BY <2>1, RunsKnows DEF SeesNoEnd
    <2> QED
      BY <2>1, <2>2 DEF IsExpired, Passed
  <1>3. ~(pc[c] \in OneByOne /\ K \subseteq loc[c].todo)
    BY <1>1, RunsKnows DEF Lists
  <1>4. K # OfSubject(tokens, loc[c].subject, {"refresh"})
    BY <1>1 DEF OfSubject, MatchKind, OneTime
  <1>5. K = OfSubject(tokens, loc[c].subject, {"access"})
          => tokens[k].state.subject = loc[c].subject
    BY <1>1 DEF OfSubject
  <1>6. ASSUME DeleteOnDevice(c), NEW h \in loc[c].targets, K = {h}, tokens' = Drop(tokens, {h})
        PROVE  DeleteOnDevice(c) /\ k \in loc[c].targets /\ tokens' = Drop(tokens, {k})
    BY <1>1, <1>6
  <1>7. \A h : K = {h} => k = h
    BY <1>1
  <1>8. \/ DeleteAccess(c) /\ k = loc[c].cur
        \/ RevokeOldAccess(c) /\ k = loc[c].snap.access
        \/ Rollback(c) /\ k = StoreKey(loc[c].acc)
        \/ (Replace(c) \/ LogoutAccess(c)) /\ K = OfSubject(tokens, loc[c].subject, {"access"})
        \/ DeleteOnDevice(c) /\ \E h \in loc[c].targets : K = {h} /\ tokens' = Drop(tokens, {h})
    BY <1>1, <1>2, <1>3, <1>4, <1>7 DEF Dropped
  <1> QED
    BY <1>5, <1>6, <1>8

-----------------------------------------------------------------------------
(* What is given no end keeps having none.                                  *)

LEMMA EntriesEndless ==
  ASSUME NEW c \in Client, Runs(c)
  PROVE  \A k \in Stored(tokens') : NoEnd(k)'
  <1> SUFFICES ASSUME NEW k \in Token, tokens'[k] # NoEntry, tokens'[k].state.kind \notin OneTime
               PROVE  /\ tokens'[k].state.expiresAt = Never
                      /\ tokens'[k].expiresAt = Never
    BY DEF Stored, NoEnd
  <1>1. \/ tokens'[k] = tokens[k]
        \/ Saved(c, k, tokens'[k].state, tokens'[k].expiresAt)
    BY WritesTo DEF Runs, Core
  <1> QED
    BY <1>1 DEF Saved, Runs, Endless, NoEnd, Stored

LEMMA OthersEndless ==
  ASSUME NEW c \in Client, Runs(c), NEW d \in Client \ {c}
  PROVE  SeesNoEnd(d)' /\ Lists(d)'
  <1>1. /\ pc'[d] = pc[d] /\ loc'[d] = loc[d] /\ SeesNoEnd(d) /\ Lists(d)
        /\ \A k \in IssuedKeys : Loses(k)
    BY DEF Runs, Advances, Frame, Endless, AllLose
  <1>2. SeesNoEnd(d)'
    BY <1>1 DEF SeesNoEnd, Loses
  <1>3. Lists(d)'
    BY <1>1 DEF Lists, Loses
  <1> QED
    BY <1>2, <1>3

LEMMA Unwatched ==
  ASSUME NEW c \in Client, pc'[c] \notin Watched
  PROVE  SeesNoEnd(c)' /\ Lists(c)'
BY DEF SeesNoEnd, Lists, Watched, LooksUp

\* What a request lists are one-time tokens that are out.
LEMMA NewList ==
  ASSUME NEW c \in Client, Runs(c), loc'[c].todo \subseteq IssuedKeys,
         \A k \in loc'[c].todo : tokens[k] # NoEntry => tokens[k].state.kind \in OneTime
  PROVE  Lists(c)'
BY DEF Lists, Runs, AllLose, Loses

LEMMA OwnList ==
  ASSUME NEW c \in Client, Runs(c), pc'[c] \in OneByOne
  PROVE  Lists(c)'
  <1>1. /\ Typed /\ Lists(c)
        /\ Leave(c) => pc'[c] = "idle"
        /\ \A label, locals : Go(c, label, locals) => pc'[c] = label /\ loc'[c] = locals
    BY RunsKnows
  <1>2. FindOthers(c) \/ DeleteOthers(c) \/ FindLinked(c) \/ DeleteLinked(c)
    <2>1. /\ LoadRefresh(c) => pc'[c] \in {"idle", "claim"}
          /\ Get(c) => pc'[c] \in {"idle", "deleteAccess", "update"}
          /\ FindDevice(c) \/ DeleteOnDevice(c) => pc'[c] \in {"idle", "findLinked", "deleteAccess"}
      BY <1>1 DEF LoadRefresh, ClaimEntry, Runs, Get, FindDevice, DeleteOnDevice, Fail, Succeed
    <2> QED
      BY <2>1, Whither DEF Watched, OneByOne
  <1>3. ASSUME NEW todo, LinkedDone(c, todo) PROVE loc'[c].todo = todo
    <2>1. loc'[c] = [loc[c] EXCEPT !.todo = todo]
      BY <1>1, <1>3 DEF LinkedDone, Succeed, OneByOne
    <2> QED
      BY <1>1, <2>1, Fields
  <1>4. ASSUME NEW k \in OfSubject(tokens, loc[c].subject, {"refresh"})
        PROVE  k \in IssuedKeys /\ tokens[k].state.kind \in OneTime
    <2>1. k \in Token /\ tokens[k] # NoEntry /\ tokens[k].state.kind \in OneTime
      BY <1>4 DEF OfSubject, Stored, MatchKind, OneTime
    <2> QED
      BY <2>1, OneTimeKeys DEF Runs, Core
  <1>5. CASE FindLinked(c)
    <2>1. loc'[c].todo \subseteq OfSubject(tokens, loc[c].subject, {"refresh"})
      BY <1>3, <1>5 DEF FindLinked
    <2> QED
      BY <1>4, <2>1, NewList
  <1>6. CASE FindOthers(c)
    <2>1. PICK label, todo : /\ todo \subseteq OfSubject(tokens, loc[c].subject, {"refresh"})
                             /\ Go(c, label, [loc[c] EXCEPT !.todo = todo])
      BY <1>6 DEF FindOthers
    <2>2. loc'[c] = [loc[c] EXCEPT !.todo = todo]
      BY <1>1, <2>1
    <2>3. loc'[c].todo = todo
      BY <1>1, <2>2, Fields
    <2> QED
      BY <1>4, <2>1, <2>3, NewList
  <1>7. CASE DeleteLinked(c)
    <2>1. pc[c] \in OneByOne /\ loc'[c].todo \subseteq loc[c].todo
      BY <1>3, <1>7 DEF DeleteLinked, Calls, OneByOne
    <2> QED
      BY <1>1, <2>1, NewList DEF Lists
  <1>8. CASE DeleteOthers(c)
    <2>1. PICK label, k : Go(c, label, [loc[c] EXCEPT !.todo = @ \ {k}])
      BY <1>8 DEF DeleteOthers
    <2>2. loc'[c] = [loc[c] EXCEPT !.todo = @ \ {k}]
      BY <1>1, <2>1
    <2>3. pc[c] \in OneByOne /\ loc'[c].todo \subseteq loc[c].todo
      BY <1>1, <1>8, <2>2, Fields DEF DeleteOthers, Calls, OneByOne
    <2> QED
      BY <1>1, <2>3, NewList DEF Lists
  <1> QED
    BY <1>2, <1>5, <1>6, <1>7, <1>8

LEMMA OwnSight ==
  ASSUME NEW c \in Client, Runs(c), pc'[c] \in LooksUp \cup {"get"}
  PROVE  SeesNoEnd(c)'
  <1>1. /\ Typed /\ Located(c) /\ SeesNoEnd(c) /\ Promise(c)
        /\ Leave(c) => pc'[c] = "idle"
        /\ \A label, locals : Go(c, label, locals) => pc'[c] = label /\ loc'[c] = locals
    BY RunsKnows
  <1>2. /\ Fail(c) => pc'[c] = "idle"
        /\ \A new, gone : Succeed(c, new, gone) => pc'[c] = "idle"
    BY <1>1 DEF Fail, Succeed
  <1>3. pc'[c] # "idle" /\ pc'[c] \in Watched
    BY DEF LooksUp, Watched
  <1>4. CASE FindOthers(c) \/ DeleteOthers(c)
    <2>1. pc'[c] \in {"saveAccess", "deleteOthers"}
      BY <1>1, <1>4 DEF FindOthers, DeleteOthers
    <2> QED
      BY <2>1 DEF LooksUp
  <1>5. CASE LoadRefresh(c)
    <2>1. PICK k : k = StoreKey(loc[c].ref)
      OBVIOUS
    <2>2. /\ UNCHANGED tokens /\ pc'[c] = "claim"
          /\ loc'[c] = [loc[c] EXCEPT !.snap = tokens[k].state, !.cur = k]
          /\ tokens[k].state.kind = "refresh"
      BY <1>1, <1>2, <1>3, <1>5, <2>1 DEF LoadRefresh, Runs, ClaimEntry, UsableRefresh, store
    <2>3. loc'[c].cur = k
      BY <1>1, <2>2, Fields
    <2>4. k \in IssuedKeys'
      <3>1. pc[c] = "load"
        BY <1>5 DEF LoadRefresh, Calls
      <3>2. k \in IssuedKeys
        BY <1>1, <2>1, <3>1 DEF Located, IssuedKeys
      <3> QED
        BY <3>2 DEF Runs, AllLose, Loses
    <2> QED
      BY <2>2, <2>3, <2>4 DEF SeesNoEnd, OneTime
  <1>6. CASE Get(c)
    <2>1. PICK k : k = loc[c].cur
      OBVIOUS
    <2>2. pc[c] = "get" /\ UNCHANGED tokens /\ loc[c].op \in LookupOps /\ k \in IssuedKeys
      BY <1>1, <1>6, <2>1 DEF Get, Calls, store, Located, Promise, LogsOut
    <2>3. /\ pc'[c] \in {"deleteAccess", "update"} /\ tokens[k] # NoEntry
          /\ loc'[c] = [loc[c] EXCEPT !.snap = tokens[k].state, !.subject = tokens[k].state.subject]
      BY <1>1, <1>2, <1>3, <1>6, <2>1 DEF Get
    <2>4. loc'[c].cur = k /\ loc'[c].snap = tokens[k].state /\ loc'[c].ttl = loc[c].ttl
      BY <1>1, <2>1, <2>3, Fields
    <2>5. k \in IssuedKeys' /\ k \in Token
      BY <1>1, <2>2, IssuedKeysTyped DEF Runs, AllLose, Loses
    <2>6. NoEnd(k)
      BY <2>3, <2>5 DEF Runs, Endless, Stored
    <2>7. loc[c].ttl = 0
      BY <1>1, <2>2 DEF SeesNoEnd
    <2> QED
      BY <2>2, <2>3, <2>4, <2>5, <2>6, <2>7 DEF SeesNoEnd, NoEnd
  <1>7. CASE FindLinked(c) \/ DeleteLinked(c) \/ FindDevice(c) \/ DeleteOnDevice(c)
    <2>1. /\ pc'[c] = "deleteAccess"
          /\ pc[c] \in OnDevice \cup {"findDevice"} /\ (loc[c].op = "Logout" => FALSE)
      <3>1. pc[c] \in OnDevice \cup {"findDevice"}
        BY <1>7 DEF FindLinked, DeleteLinked, FindDevice, DeleteOnDevice, Calls, OnDevice
      <3>2. pc'[c] \in {"deleteLinked", "deleteAccess", "findLinked"}
        BY <1>1, <1>2, <1>3, <1>7 DEF FindLinked, DeleteLinked, LinkedDone, FindDevice,
                                      DeleteOnDevice
      <3>3. ASSUME FindLinked(c) \/ DeleteLinked(c) PROVE loc[c].targets # {}
        <4>1. PICK todo : LinkedDone(c, todo)
          BY <3>3 DEF FindLinked, DeleteLinked
        <4>2. todo = {}
          BY <1>1, <4>1 DEF LinkedDone, LooksUp
        <4> QED
          BY <1>2, <1>3, <4>1, <4>2 DEF LinkedDone
      <3>4. FindDevice(c) \/ DeleteOnDevice(c) => loc[c].op = "LogoutByDevice"
        BY <1>1 DEF FindDevice, DeleteOnDevice, Calls, Promise, Serves
      <3> QED
        BY <1>1, <1>7, <3>1, <3>2, <3>3, <3>4 DEF LooksUp, Promise, LogsOut
    <2>2. loc[c].op = "LogoutByDevice"
      BY <1>1, <2>1 DEF Promise, Serves
    <2>3. loc'[c].op = loc[c].op
      BY <1>3 DEF Runs, Advances, Leaves, Stays, SameTokens
    <2> QED
      BY <2>1, <2>2, <2>3 DEF SeesNoEnd
  <1> QED
    BY <1>3, <1>4, <1>5, <1>6, <1>7, Whither

LEMMA OwnEndless ==
  ASSUME NEW c \in Client, Runs(c)
  PROVE  SeesNoEnd(c)' /\ Lists(c)'
  <1>1. pc'[c] \in LooksUp \cup {"get"} \/ SeesNoEnd(c)'
    BY DEF SeesNoEnd, LooksUp
  <1>2. pc'[c] \in OneByOne \/ Lists(c)'
    BY DEF Lists
  <1> QED
    BY <1>1, <1>2, OwnSight, OwnList

LEMMA EndlessStep ==
  ASSUME NEW c \in Client, Runs(c)
  PROVE  Endless'
BY EntriesEndless, OthersEndless, OwnEndless DEF Endless

\* Where a request begins.
Doors == {"nonce", "saveAccess", "replace", "load", "get", "getRefresh", "revokeAll",
          "saveNonce", "logoutAccess", "findDevice"}

\* A logout by device covers tokens that are stored when it begins.
ByDevice(c) ==
  loc[c].op = "LogoutByDevice" => pc[c] = "findDevice" /\ loc[c].covered \subseteq Stored(tokens)

LEMMA LoginsStartAt ==
  ASSUME Typed, Atomic, NEW c \in Client, Login(c) \/ LoginWithRefresh(c) \/ Refresh(c)
  PROVE  pc'[c] \in {"nonce", "saveAccess", "replace", "load"} /\ ByDevice(c)'
         /\ (Concurrent => pc'[c] # "replace")
  <1>1. \A label, new, locals : Begin(c, label, new, locals) => pc'[c] = label /\ loc'[c] = locals
    BY DEF Begin, Typed
  <1>2. NonceEntry = "nonce" /\ LoginEntry \in {"saveAccess", "replace"}
        /\ (Concurrent => LoginEntry = "saveAccess")
    BY DEF LoginEntry, NonceEntry
  <1>3. pc'[c] \in {"load", NonceEntry, LoginEntry}
    BY <1>1 DEF Login, LoginWithRefresh, Refresh
  <1>4. loc'[c].op # "LogoutByDevice"
    <2>1. CASE Login(c)
      <3>1. PICK n, s, d :
              Begin(c, IF RequireNonce THEN NonceEntry ELSE LoginEntry, {Fresh1},
                    [Blank EXCEPT !.op = "Login", !.acc = Fresh1, !.nonce = n,
                                  !.subject = s, !.device = d,
                                  !.covered = IF Concurrent THEN {} ELSE SubjectLogout(s)])
        BY <2>1, LoginBegins
      <3>2. loc'[c] = [Blank EXCEPT !.op = "Login", !.acc = Fresh1, !.nonce = n,
                                    !.subject = s, !.device = d,
                                    !.covered = IF Concurrent THEN {} ELSE SubjectLogout(s)]
        BY <1>1, <3>1
      <3> QED
        BY <3>2 DEF Blank
    <2>2. CASE LoginWithRefresh(c)
      <3>1. PICK n, s, d, r :
              Begin(c, IF RequireNonce THEN NonceEntry ELSE LoginEntry, {Fresh1, r},
                    [Blank EXCEPT !.op = "LoginWithRefresh", !.acc = Fresh1, !.ref = r,
                                  !.nonce = n, !.subject = s, !.device = d,
                                  !.covered = IF Concurrent THEN {} ELSE SubjectLogout(s)])
        BY <2>2, LoginWithRefreshBegins
      <3>2. loc'[c] = [Blank EXCEPT !.op = "LoginWithRefresh", !.acc = Fresh1, !.ref = r,
                                    !.nonce = n, !.subject = s, !.device = d,
                                    !.covered = IF Concurrent THEN {} ELSE SubjectLogout(s)]
        BY <1>1, <3>1
      <3> QED
        BY <3>2 DEF Blank
    <2>3. CASE Refresh(c)
      <3>1. PICK ref, d : \E acc, next :
              Begin(c, "load", {acc, next} \ {NoToken},
                    [Blank EXCEPT !.op = "Refresh", !.ref = ref, !.acc = acc,
                                  !.next = next, !.device = d])
        BY <2>3 DEF Refresh
      <3>2. PICK acc, next : loc'[c] = [Blank EXCEPT !.op = "Refresh", !.ref = ref, !.acc = acc,
                                                     !.next = next, !.device = d]
        BY <1>1, <3>1
      <3> QED
        BY <3>2 DEF Blank
    <2> QED
      BY <2>1, <2>2, <2>3
  <1> QED
    BY <1>2, <1>3, <1>4 DEF ByDevice

LEMMA AsksStartAt ==
  ASSUME Typed, Atomic, Lasting, NEW c \in Client,
         \/ Lookup(c) \/ RevokeRefreshToken(c) \/ RevokeRefreshByLoginID(c)
         \/ GenerateNonce(c) \/ ConsumeNonce(c)
  PROVE  /\ pc'[c] \in {"get", "getRefresh", "revokeAll", "saveNonce", "nonce"} /\ ByDevice(c)'
         /\ pc'[c] = "get" => loc'[c].ttl = 0
  <1>1. \A label, new, locals : Begin(c, label, new, locals) => pc'[c] = label /\ loc'[c] = locals
    BY DEF Begin, Typed
  <1>2. CASE Lookup(c)
    <2>1. PICK op \in LookupOps, t \in issued, ttl \in RenewTTL :
            /\ pc'[c] = "get"
            /\ loc'[c] = [Blank EXCEPT !.op = op, !.acc = t, !.cur = StoreKey(t), !.ttl = ttl]
      BY <1>1, <1>2 DEF Lookup
    <2>2. loc'[c].op = op /\ loc'[c].ttl = ttl
      BY <2>1 DEF Blank
    <2> QED
      BY <2>1, <2>2 DEF ByDevice, LookupOps, Lasting
  <1>3. CASE RevokeRefreshToken(c) \/ RevokeRefreshByLoginID(c)
    <2>1. \/ pc'[c] = "getRefresh"
             /\ \E t : loc'[c] = [Blank EXCEPT !.op = "RevokeRefreshToken", !.ref = t]
          \/ pc'[c] = "revokeAll"
             /\ \E s : loc'[c] = [Blank EXCEPT !.op = "RevokeRefreshByLoginID", !.subject = s,
                                               !.covered = IssuedTo(s, {"refresh"})]
      BY <1>1, <1>3 DEF RevokeRefreshToken, RevokeRefreshByLoginID
    <2>2. loc'[c].op # "LogoutByDevice"
      BY <2>1 DEF Blank
    <2> QED
      BY <2>1, <2>2 DEF ByDevice
  <1>4. CASE GenerateNonce(c) \/ ConsumeNonce(c)
    <2>1. /\ pc'[c] \in {"saveNonce", NonceEntry}
          /\ \E t : \/ loc'[c] = [Blank EXCEPT !.op = "GenerateNonce", !.nonce = t]
                    \/ loc'[c] = [Blank EXCEPT !.op = "ConsumeNonce", !.nonce = t]
      BY <1>1, <1>4 DEF GenerateNonce, ConsumeNonce
    <2>2. loc'[c].op # "LogoutByDevice"
      BY <2>1 DEF Blank
    <2> QED
      BY <2>1, <2>2 DEF ByDevice, NonceEntry
  <1> QED
    BY <1>2, <1>3, <1>4

LEMMA LogoutsStartAt ==
  ASSUME Typed, NEW c \in Client, LogoutByLoginID(c) \/ LogoutByDevice(c)
  PROVE  pc'[c] \in {"logoutAccess", "findDevice"} /\ ByDevice(c)' /\ Sweeping
  <1>1. \A label, new, locals : Begin(c, label, new, locals) =>
          /\ pc'[c] = label /\ loc'[c] = locals /\ locals.op \in Ops /\ tokens' = tokens
    BY DEF Begin, Typed, store
  <1>2. CASE LogoutByLoginID(c)
    <2>1. PICK s, drop :
            Begin(c, "logoutAccess", {},
                  [Blank EXCEPT !.op = "LogoutByLoginID", !.subject = s, !.dropSession = drop,
                                !.covered = SubjectLogout(s)])
      BY <1>2 DEF LogoutByLoginID
    <2> DEFINE locals == [Blank EXCEPT !.op = "LogoutByLoginID", !.subject = s,
                                       !.dropSession = drop, !.covered = SubjectLogout(s)]
    <2>2. locals.op = "LogoutByLoginID" /\ Begin(c, "logoutAccess", {}, locals)
      BY <2>1 DEF Blank
    <2> HIDE DEF locals
    <2> QED
      BY <1>1, <2>2 DEF ByDevice, Sweeping
  <1>3. CASE LogoutByDevice(c)
    <2>1. PICK s, d, covered :
            /\ covered = {k \in IssuedTo(s, {"access"}) : tokens[k].state.device = d}
            /\ Begin(c, "findDevice", {},
                     [Blank EXCEPT !.op = "LogoutByDevice", !.subject = s, !.device = d,
                                   !.covered = covered])
      BY <1>3 DEF LogoutByDevice
    <2> DEFINE locals == [Blank EXCEPT !.op = "LogoutByDevice", !.subject = s, !.device = d,
                                       !.covered = covered]
    <2>2. /\ locals.op = "LogoutByDevice" /\ locals.covered = covered
          /\ Begin(c, "findDevice", {}, locals)
      BY <2>1 DEF Blank
    <2>3. covered \subseteq Stored(tokens)
      BY <2>1 DEF IssuedTo, OfSubject
    <2> HIDE DEF locals
    <2> QED
      BY <1>1, <2>2, <2>3 DEF ByDevice, Sweeping, Stored
  <1> QED
    BY <1>2, <1>3

LEMMA StartsAt ==
  ASSUME Typed, Atomic, Lasting, NEW c \in Client, Start(c)
  PROVE  /\ pc[c] = "idle" /\ UNCHANGED <<tokens, now, issued, dead, faults, cancels, crashes>>
         /\ \A d \in Client \ {c} : pc'[d] = pc[d] /\ loc'[d] = loc[d]
         /\ pc'[c] \in Doors /\ (pc'[c] = "get" => loc'[c].ttl = 0)
         /\ ByDevice(c)' /\ (~Sweeping => pc'[c] \notin Sweepers)
  <1>1. \A label, new, locals : Begin(c, label, new, locals) =>
          /\ pc[c] = "idle" /\ UNCHANGED <<tokens, now, issued, dead, faults, cancels, crashes>>
          /\ \A d \in Client \ {c} : pc'[d] = pc[d] /\ loc'[d] = loc[d]
    BY DEF Begin, Typed, store, ghost
  <1>2. \E label, new, locals : Begin(c, label, new, locals)
    BY DEF Start, Login, LoginWithRefresh, Refresh, Lookup, LogoutByLoginID, LogoutByDevice,
           RevokeRefreshToken, RevokeRefreshByLoginID, GenerateNonce, ConsumeNonce
  <1>3. /\ pc'[c] \in Doors /\ (pc'[c] = "get" => loc'[c].ttl = 0)
        /\ ByDevice(c)' /\ (~Sweeping => pc'[c] \notin Sweepers)
    <2>1. CASE Login(c) \/ LoginWithRefresh(c) \/ Refresh(c)
      BY <2>1, LoginsStartAt DEF Doors, Sweepers, Sweeping
    <2>2. CASE \/ Lookup(c) \/ RevokeRefreshToken(c) \/ RevokeRefreshByLoginID(c)
               \/ GenerateNonce(c) \/ ConsumeNonce(c)
      BY <2>2, AsksStartAt DEF Doors, Sweepers
    <2>3. CASE LogoutByLoginID(c) \/ LogoutByDevice(c)
      BY <2>3, LogoutsStartAt DEF Doors
    <2> QED
      BY <2>1, <2>2, <2>3 DEF Start
  <1> QED
    BY <1>1, <1>2, <1>3

\* Nobody sees an end where nothing is stored and nothing is read.
LEMMA QuietEndless ==
  ASSUME Endless, UNCHANGED <<tokens, issued>>,
         \A d \in Client : \/ pc'[d] = pc[d] /\ loc'[d] = loc[d]
                           \/ pc'[d] \notin Watched
                           \/ pc'[d] = "get" /\ loc'[d].ttl = 0
  PROVE  Endless'
  <1>1. IssuedKeys' = IssuedKeys
    BY DEF IssuedKeys
  <1>2. ASSUME NEW d \in Client PROVE SeesNoEnd(d)' /\ Lists(d)'
    <2>1. CASE pc'[d] = pc[d] /\ loc'[d] = loc[d]
      BY <1>1, <2>1 DEF Endless, SeesNoEnd, Lists
    <2>2. CASE pc'[d] = "get" /\ loc'[d].ttl = 0
      BY <2>2 DEF SeesNoEnd, Lists, LooksUp, OneByOne
    <2> QED
      BY <1>2, <2>1, <2>2, Unwatched
  <1>3. \A k \in Stored(tokens') : NoEnd(k)'
    BY DEF Endless, NoEnd
  <1> QED
    BY <1>2, <1>3 DEF Endless

\* What has no end outlasts the clock.
LEMMA TickSpares ==
  ASSUME Endless, Tick, NEW k \in Token, tokens[k] # NoEntry, tokens[k].state.kind \notin OneTime
  PROVE  tokens'[k] = tokens[k]
  <1>1. tokens[k].state.expiresAt = Never /\ tokens[k].expiresAt = Never
    BY DEF Endless, NoEnd, Stored
  <1>2. k \in Live(tokens, now + 1)
    BY <1>1 DEF Live, EntryExpired, IsExpired, Passed, Stored
  <1> QED
    BY <1>2 DEF Tick, Drop

LEMMA TickEndless ==
  ASSUME Typed, Endless, Tick
  PROVE  Endless'
  <1>1. UNCHANGED <<pc, loc>> /\ IssuedKeys' = IssuedKeys /\ IssuedKeys \subseteq Token
    BY IssuedKeysTyped DEF Tick, ghost, IssuedKeys
  <1>2. \A k \in Token : tokens'[k] = tokens[k] \/ tokens'[k] = NoEntry
    BY DEF Tick, Drop
  <1>3. \A k \in Stored(tokens') : NoEnd(k)'
    BY <1>2 DEF Endless, Stored, NoEnd
  <1>4. \A d \in Client : SeesNoEnd(d)' /\ Lists(d)'
    BY <1>1, <1>2 DEF Endless, SeesNoEnd, Lists
  <1> QED
    BY <1>3, <1>4 DEF Endless

LEMMA StepRuns ==
  ASSUME Core, Sorts, Promised, Endless, Atomic, ~AliasArgs, Lasting, UNCHANGED setup,
         NEW c \in Client, LoginStep(c) \/ RefreshStep(c) \/ AccessStep(c)
  PROVE  Runs(c)
  <1>1. Typed /\ Advances(c)
    BY StepAdvances DEF Core, Step
  <1> QED
    BY <1>1, StepLoses, StepWrites DEF Runs, Step

LEMMA NextEndless ==
  ASSUME Inv, Sorts, Promised, Endless, ~AliasArgs, Lasting, [Next]_vars
  PROVE  Endless'
  <1>1. UNCHANGED setup /\ Core /\ Atomic /\ Typed
    BY NextCarries DEF Inv, Core
  <1>2. ASSUME NEW c \in Client, Start(c) PROVE Endless'
    BY <1>1, <1>2, StartsAt, QuietEndless DEF Doors, Watched, LooksUp, OneByOne
  <1>3. ASSUME NEW c \in Client, LoginStep(c) \/ RefreshStep(c) \/ AccessStep(c) PROVE Endless'
    BY <1>1, <1>3, StepRuns, EndlessStep
  <1>4. ASSUME NEW c \in Client, CallError(c) \/ Crash(c) PROVE Endless'
    <2>1. /\ UNCHANGED <<tokens, issued>> /\ pc'[c] \in {"idle", "rollback", "restore"}
          /\ \A d \in Client \ {c} : pc'[d] = pc[d] /\ loc'[d] = loc[d]
      BY <1>1, <1>4 DEF CallError, Crash, Leave, store, ghost, Typed
    <2> QED
      BY <2>1, QuietEndless DEF Watched, LooksUp, OneByOne
  <1>5. CASE Tick
    BY <1>1, <1>5, TickEndless
  <1>6. CASE UNCHANGED vars \/ \E c \in Client : Cancel(c)
    <2>1. UNCHANGED <<tokens, issued, pc, loc>>
      BY <1>6 DEF vars, Cancel, store, ghost
    <2> QED
      BY <2>1, QuietEndless
  <1> QED
    BY <1>2, <1>3, <1>4, <1>5, <1>6 DEF Next, Step

LEMMA EndlessHolds == Spec /\ Atomic /\ ~AliasArgs /\ Lasting => []Endless
  <1>1. Init => Endless
    <2>1. ASSUME Init PROVE Stored(tokens) = {} /\ \A c \in Client : pc[c] = "idle"
      BY <2>1 DEF Init, Stored
    <2> QED
      BY <2>1 DEF Endless, SeesNoEnd, Lists, LooksUp, OneByOne
  <1>2. Inv /\ Sorts /\ Promised /\ Endless /\ ~AliasArgs /\ Lasting /\ [Next]_vars
          => Endless' /\ ~AliasArgs' /\ Lasting'
    <2>1. Inv /\ [Next]_vars => UNCHANGED setup
      BY NextCarries
    <2> QED
      BY <2>1, NextEndless DEF AliasArgs, Lasting, Timeout, ActiveTimeout, RenewTTL
  <1> QED
    BY <1>1, <1>2, CarefulCallers, InvHolds, SortsHolds, PromisedHolds, PTL DEF Spec

-----------------------------------------------------------------------------
(* What a usable refresh token names stays, or its logout is under way.     *)

LoggingOut(k) ==
  \E c \in Client :
    loc[c].op = "Logout" /\ pc[c] \in {"findLinked", "deleteLinked"} /\ loc[c].cur = k

Backed(k) == tokens[k] # NoEntry \/ k \in dead \/ LoggingOut(k)

Joined == \A k \in IssuedKeys : \A j \in LinksTo(k) : Usable(j) => Backed(k)

\* The access token that is to be linked is stored.
Stocked(c) ==
  /\ loc[c].op \in Issuing /\ pc[c] \in Storing => tokens[StoreKey(loc[c].acc)] # NoEntry
  /\ pc[c] = "rollback" => loc[c].op \in Issuing

\* A claim that is going to be released has not touched the old one.
Releases(c) ==
  /\ loc[c].op = "Refresh" /\ pc[c] \in {"restore", "rollback"}
  /\ Matches(tokens, StoreKey(loc[c].ref), ClaimedState(c), now)
  => pc[c] = "restore" /\ Backed(loc[c].snap.access)

Backs ==
  /\ \A c \in Client : pc[c] \notin Sweepers
  /\ Undisturbed => Joined /\ \A c \in Client : Stocked(c) /\ Releases(c)

\* A step of a request among others that sweep nothing.
Alone(c) == Runs(c) /\ ~Sweeping /\ pc[c] \notin Sweepers

Proceeds(c) == Alone(c) /\ Joined /\ \A d \in Client : Stocked(d) /\ Releases(d)

LEMMA AloneKnows ==
  ASSUME NEW c \in Client, Alone(c)
  PROVE  /\ Runs(c) /\ Concurrent /\ LoginEntry = "saveAccess"
         /\ loc[c].op \notin {"LogoutByLoginID", "LogoutByDevice"}
         /\ pc[c] \in OnDevice => loc[c].op = "Logout" /\ loc[c].targets = {}
         /\ pc'[c] \notin Sweepers
  <1>1. Runs(c) /\ Promise(c) /\ Concurrent
    BY RunsKnows DEF Alone, Sweeping
  <1>2. loc[c].op \notin {"LogoutByLoginID", "LogoutByDevice"}
    BY <1>1 DEF Alone, Sweeping, Promise, Serves
  <1>3. pc[c] \in OnDevice => loc[c].op = "Logout" /\ loc[c].targets = {}
    BY <1>1, <1>2 DEF Promise, Serves, LogsOut
  <1>4. pc'[c] \notin Sweepers
    BY <1>1, Whither DEF Alone
  <1> QED
    BY <1>1, <1>2, <1>3, <1>4, RunsKnows

\* Of an access token that is out.
LEMMA RemovedAlone ==
  ASSUME NEW c \in Client, Alone(c), NEW k \in Token, tokens[k] # NoEntry,
         tokens[k].state.kind \notin OneTime, tokens'[k] = NoEntry
  PROVE  \/ DeleteAccess(c) /\ k = loc[c].cur
         \/ RevokeOldAccess(c) /\ k = loc[c].snap.access
         \/ Rollback(c) /\ k = StoreKey(loc[c].acc)
  <1>1. ~(Replace(c) \/ LogoutAccess(c))
    BY DEF Replace, LogoutAccess, Calls, Alone, Sweepers
  <1>2. ~DeleteOnDevice(c)
    BY AloneKnows DEF DeleteOnDevice
  <1> QED
    BY <1>1, <1>2, RemovedBy DEF Alone

LEMMA DeadGrows ==
  ASSUME NEW c \in Client, LoginStep(c) \/ RefreshStep(c) \/ AccessStep(c)
  PROVE  dead \subseteq dead'
  <1>1. /\ Fail(c) => dead \subseteq dead'
        /\ \A label, locals : Go(c, label, locals) => dead \subseteq dead'
        /\ \A new, gone : Succeed(c, new, gone) => dead \subseteq dead'
    BY DEF Fail, Go, Succeed, ghost
  <1>2. CASE LoginStep(c)
    <2>1. JudgeNonce(c) => dead \subseteq dead'
      BY <1>1 DEF JudgeNonce
    <2> QED
      BY <1>1, <1>2, <2>1 DEF LoginStep, SaveNonce, PeekNonce, ConsumeNonceState, Replace,
            ReplaceRefresh, FindOthers, DeleteOthers, SaveAccess, SyncSession, SaveRefresh
  <1>3. CASE RefreshStep(c)
    BY <1>1, <1>3 DEF RefreshStep, LoadRefresh, PeekRefresh, ClaimRefresh, ClaimExpired,
          RevokeOldAccess, SaveRotated, SaveReused, Rollback, RestoreRefresh, GiveUp
  <1>4. CASE AccessStep(c)
    BY <1>1, <1>4 DEF AccessStep, Get, EvictExpired, Update, DeleteAccess, FindLinked,
          DeleteLinked, LinkedDone, FindDevice, DeleteOnDevice, LogoutAccess, LogoutRefresh,
          DropSession, RevokeAll, GetRefresh, Revoke
  <1> QED
    BY <1>2, <1>3, <1>4

\* Which call a request makes where only one or two are left to it.
LEMMA CallsMade ==
  ASSUME NEW c \in Client, Runs(c)
  PROVE  /\ pc[c] = "findLinked" => FindLinked(c)
         /\ pc[c] = "deleteLinked" => DeleteLinked(c)
         /\ pc[c] = "deleteAccess" /\ loc[c].op = "LogoutByDevice" => DeleteOnDevice(c)
         /\ pc[c] = "findDevice" => FindDevice(c)
         /\ pc[c] = "replaceRefresh" => ReplaceRefresh(c)
         /\ pc[c] = "logoutRefresh" => LogoutRefresh(c)
         /\ pc[c] = "findOthers" => FindOthers(c)
         /\ pc[c] = "deleteOthers" => DeleteOthers(c)
         /\ pc[c] = "saveNext" => SaveRotated(c) \/ SaveReused(c)
         /\ pc[c] = "restore" => RestoreRefresh(c)
  <1>1. AfterClaim \in {"revokeOld", "saveAccess", "replace"} /\ ClaimEntry = "claim"
    BY RunsKnows DEF AfterClaim, ClaimEntry, Runs
  <1> QED
    BY <1>1 DEF Runs, LoginStep, RefreshStep, AccessStep, Calls, SaveNonce, PeekNonce,
          ConsumeNonceState, JudgeNonce, Replace, ReplaceRefresh, FindOthers, DeleteOthers,
          SaveAccess, SyncSession, SaveRefresh, LoadRefresh, PeekRefresh, ClaimRefresh,
          ClaimExpired, RevokeOldAccess, SaveRotated, SaveReused, Rollback, RestoreRefresh,
          Get, EvictExpired, Update, DeleteAccess, FindLinked, DeleteLinked, FindDevice,
          DeleteOnDevice, LogoutAccess, LogoutRefresh, DropSession, RevokeAll, GetRefresh, Revoke

\* A logout that is under way ends in its promise.
LEMMA LogoutGoesOn ==
  ASSUME NEW c \in Client, Alone(c), NEW k, LoggingOut(k)
  PROVE  k \in dead' \/ LoggingOut(k)'
  <1>1. PICK d \in Client : /\ loc[d].op = "Logout" /\ pc[d] \in {"findLinked", "deleteLinked"}
                            /\ loc[d].cur = k
    BY DEF LoggingOut
  <1>2. CASE d # c
    BY <1>1, <1>2 DEF LoggingOut, Alone, Runs, Advances, Frame
  <1>3. CASE d = c
    <2>1. PICK todo : LinkedDone(c, todo)
      BY <1>1, <1>3, CallsMade DEF Alone, FindLinked, DeleteLinked
    <2>2. loc[c].targets = {} /\ Typed
      BY <1>1, <1>3, AloneKnows, RunsKnows DEF OnDevice
    <2>3. CASE todo # {}
      <3>1. pc'[c] = "deleteLinked" /\ loc'[c] = [loc[c] EXCEPT !.todo = todo]
        BY <2>1, <2>3, RunsKnows DEF Alone, LinkedDone
      <3>2. loc'[c].op = "Logout" /\ loc'[c].cur = k
        BY <1>1, <1>3, <2>2, <3>1, Fields
      <3> QED
        BY <3>1, <3>2 DEF LoggingOut
    <2>4. CASE todo = {}
      BY <1>1, <1>3, <2>1, <2>2, <2>4 DEF LinkedDone, Succeed
    <2> QED
      BY <2>3, <2>4
  <1> QED
    BY <1>2, <1>3

\* What is linked is backed until the refresh that replaces it deletes it.
LEMMA BackedStays ==
  ASSUME NEW c \in Client, Proceeds(c), NEW k \in IssuedKeys, LinksTo(k) # {}, Backed(k),
         ~(RevokeOldAccess(c) /\ k = loc[c].snap.access)
  PROVE  Backed(k)'
  <1>1. k \in Token /\ Typed
    BY IssuedKeysTyped DEF Proceeds, Alone, Runs, Core
  <1>2. CASE k \in dead
    BY <1>2, DeadGrows DEF Backed, Proceeds, Alone, Runs
  <1>3. CASE LoggingOut(k)
    BY <1>3, LogoutGoesOn DEF Backed, Proceeds
  <1>4. CASE tokens[k] # NoEntry /\ tokens'[k] = NoEntry
    <2>1. tokens[k].state.kind \notin OneTime
      BY <1>1, <1>4, OneTimeKeys DEF Proceeds, Alone, Runs, Core
    <2>2. ~(Rollback(c) /\ k = StoreKey(loc[c].acc))
      <3> SUFFICES ASSUME Rollback(c), k = StoreKey(loc[c].acc) PROVE FALSE
        OBVIOUS
      <3>1. loc[c].op \in Issuing
        BY DEF Rollback, Calls, Proceeds, Stocked
      <3>2. loc[c].acc \notin issued
        BY <3>1 DEF Proceeds, Alone, Runs, Core, AccessIsNew, NewAccess
      <3> QED
        BY <3>2, KeysDiffer DEF IssuedKeys
    <2>3. DeleteAccess(c) /\ k = loc[c].cur
      BY <1>1, <1>4, <2>1, <2>2, RemovedAlone DEF Proceeds
    <2>4. loc[c].op = "Logout" /\ (Go(c, "findLinked", loc[c]) \/ Succeed(c, {}, {loc[c].cur}))
      BY <2>3 DEF DeleteAccess
    <2>5. CASE Go(c, "findLinked", loc[c])
      <3>1. pc'[c] = "findLinked" /\ loc'[c] = loc[c]
        BY <2>5, RunsKnows DEF Proceeds, Alone
      <3> QED
        BY <2>3, <2>4, <3>1 DEF Backed, LoggingOut
    <2>6. CASE Succeed(c, {}, {loc[c].cur})
      BY <2>3, <2>6 DEF Backed, Succeed
    <2> QED
      BY <2>4, <2>5, <2>6
  <1> QED
    BY <1>2, <1>3, <1>4 DEF Backed

\* Nobody takes the access token of a request that is to link it.
LEMMA StockStays ==
  ASSUME NEW c \in Client, Proceeds(c), NEW d \in Client, loc[d].op \in Issuing,
         d = c => pc[c] \in Storing,
         NEW k, k = StoreKey(loc[d].acc), tokens[k] # NoEntry
  PROVE  tokens'[k] # NoEntry
  <1>1. /\ loc[d].acc \in TokenValue /\ k \in Token /\ loc[d].acc \notin issued
        /\ loc[d].acc \in NewAccess(d)
        /\ \A e \in Client \ {d} : loc[d].acc \notin NewAccess(e)
    BY KeysDiffer DEF Proceeds, Alone, Runs, Core, Typed, Located, AccessIsNew, NewAccess
  <1>2. tokens[k].state.kind \notin OneTime
    BY <1>1 DEF Proceeds, Alone, Runs, Core, Disjoint, IsOneTime, OneTimeStored
  <1>3. k \notin IssuedKeys
    BY <1>1, KeysDiffer DEF IssuedKeys
  <1>4. ~(DeleteAccess(c) /\ k = loc[c].cur)
    BY <1>3, RunsKnows DEF DeleteAccess, Proceeds, Alone, Promise, LogsOut, LookupOps
  <1>5. ~(RevokeOldAccess(c) /\ k = loc[c].snap.access)
    <2> SUFFICES ASSUME RevokeOldAccess(c) PROVE loc[c].snap.access \in IssuedKeys
      BY <1>3
    <2>1. pc[c] = "revokeOld" /\ loc[c].op = "Refresh" /\ Renews(c)
      BY RunsKnows DEF RevokeOldAccess, Calls, Proceeds, Alone, Located, Promise
    <2> QED
      BY <2>1 DEF Renews, Before
  <1>6. ~(Rollback(c) /\ k = StoreKey(loc[c].acc))
    <2> SUFFICES ASSUME Rollback(c), k = StoreKey(loc[c].acc) PROVE FALSE
      OBVIOUS
    <2>1. pc[c] = "rollback" /\ loc[c].op \in Issuing /\ loc[c].acc = loc[d].acc
      BY KeysDiffer DEF Rollback, Calls, Proceeds, Stocked
    <2>2. d = c
      BY <1>1, <2>1 DEF NewAccess
    <2> QED
      BY <2>1, <2>2 DEF Storing
  <1> QED
    BY <1>1, <1>2, <1>4, <1>5, <1>6, RemovedAlone DEF Proceeds

LEMMA StepStocked ==
  ASSUME NEW c \in Client, Proceeds(c), NEW d \in Client
  PROVE  Stocked(d)'
  <1>1. CASE d # c
    <2>1. pc'[d] = pc[d] /\ loc'[d] = loc[d]
      BY <1>1 DEF Proceeds, Alone, Runs, Advances, Frame
    <2>2. loc[d].op \in Issuing /\ pc[d] \in Storing => tokens'[StoreKey(loc[d].acc)] # NoEntry
      BY <1>1, StockStays DEF Proceeds, Stocked
    <2> QED
      BY <2>1, <2>2 DEF Stocked, Proceeds
  <1>2. CASE d = c
    <2>1. /\ Typed /\ Located(c) /\ Runs(c) /\ Concurrent
          /\ \A label, locals : Go(c, label, locals) => pc'[c] = label /\ loc'[c] = locals
          /\ Leave(c) => pc'[c] = "idle"
      BY AloneKnows, RunsKnows DEF Proceeds
    <2>2. ASSUME pc'[c] = "rollback" PROVE loc'[c].op \in Issuing
      <3>1. SaveReused(c) /\ pc[c] = "saveNext"
        BY <2>1, <2>2, Whither DEF SaveReused, Calls
      <3>2. loc[c].op = "Refresh"
        BY <2>1, <3>1 DEF Located
      <3>3. loc'[c] = loc[c]
        BY <2>1, <2>2, <3>1 DEF SaveReused, Succeed
      <3> QED
        BY <3>2, <3>3 DEF Issuing
    <2>3. ASSUME loc'[c].op \in Issuing, pc'[c] \in Storing
          PROVE  tokens'[StoreKey(loc'[c].acc)] # NoEntry
      <3>1. CASE SaveAccess(c)
        <4> DEFINE s == AccessState(loc[c].subject, LoginDevice(c), now)
        <4>1. /\ pc[c] = "saveAccess"
              /\ tokens' = Put(tokens, StoreKey(loc[c].acc), s, EffectiveExpiresAt(s, now, Timeout))
              /\ loc'[c] = [loc[c] EXCEPT !.ttl = Timeout]
          BY <2>1, <3>1 DEF SaveAccess, Calls
        <4>2. loc'[c].acc = loc[c].acc
          BY <2>1, <4>1, Fields
        <4>3. PICK k \in Token : k = StoreKey(loc[c].acc)
          BY <2>1, <4>1, KeysDiffer DEF Located, NewAccess, Typed
        <4>4. now \in Nat /\ s \in Sound /\ EffectiveExpiresAt(s, now, Timeout) \in Deadline
          <5>1. now \in Nat /\ Timeout \in Nat /\ Sorts
            BY <2>1, SetupTyped DEF Typed, StoreShaped, Runs
          <5>2. s \in Sound
            BY <2>1, <4>1, <5>1, AccessStateTyped
          <5> HIDE DEF s
          <5> QED
            BY <5>1, <5>2, SoundTyped, DeadlinesTyped
        <4> HIDE DEF s
        <4>5. tokens'[k] = [state |-> s, expiresAt |-> EffectiveExpiresAt(s, now, Timeout)]
          BY <2>1, <4>1, <4>3, PutReads
        <4>6. tokens'[k] \in Entry
          BY <4>4, <4>5, SoundTyped DEF Entry
        <4> QED
          BY <4>2, <4>3, <4>6, AbsentIsNoEntry
      <3>2. CASE SyncSession(c)
        <4>1. pc[c] = "session" /\ UNCHANGED tokens /\ loc'[c] = loc[c]
          BY <2>1, <2>3, <3>2 DEF SyncSession, Calls, Fail, Succeed, Storing
        <4> QED
          BY <2>3, <4>1 DEF Proceeds, Stocked, Storing
      <3>3. CASE Update(c)
        <4>1. loc[c].op \in LookupOps
          BY <2>1, <3>3 DEF Update, Calls, Located
        <4>2. loc'[c].op = loc[c].op
          <5>1. PICK ttl : loc'[c] = [loc[c] EXCEPT !.ttl = ttl]
            BY <2>1, <2>3, <3>3 DEF Update, Fail, Succeed, Storing
          <5> QED
            BY <2>1, <5>1, Fields
        <4> QED
          BY <2>3, <4>1, <4>2 DEF LookupOps, Issuing, LoginOps
      <3> QED
        BY <2>1, <2>3, <3>1, <3>2, <3>3, Whither
    <2> QED
      BY <1>2, <2>2, <2>3 DEF Stocked
  <1> QED
    BY <1>1, <1>2

\* What was swapped was read.
LEMMA MatchedLink ==
  ASSUME NEW c \in Client, loc[c].snap \in Sound, loc[c].snap.kind = "refresh", NEW k,
         Matches(tokens, k, ClaimedState(c), now)
  PROVE  /\ k \in Token /\ k \in LinksTo(loc[c].snap.access)
         /\ tokens[k] # NoEntry /\ tokens[k].state = ClaimedState(c)
         /\ ClaimedState(c).status = "consumed" /\ ClaimedState(c).kind = "refresh"
         /\ ClaimedState(c).access = loc[c].snap.access
  <1>1. /\ ClaimedState(c).kind = "refresh" /\ ClaimedState(c).status = "consumed"
        /\ ClaimedState(c).access = loc[c].snap.access
    BY DEF ClaimedState, MarkConsumed, Sound, TokenState
  <1> QED
    BY <1>1 DEF Matches, Live, Stored, LinksTo

\* Nobody else puts back what a claim took.
LEMMA OthersMatch ==
  ASSUME NEW c \in Client, Runs(c), NEW d \in Client \ {c},
         loc[d].op = "Refresh", pc[d] \in {"restore", "rollback"},
         NEW j, j = StoreKey(loc[d].ref), Matches(tokens', j, ClaimedState(d), now)
  PROVE  /\ Matches(tokens, j, ClaimedState(d), now)
         /\ j \in LinksTo(loc[d].snap.access) /\ loc[d].snap.access \in IssuedKeys
         /\ loc[d].ref \in TokenValue /\ Holds(d, loc[d].ref)
  <1>1. PICK t : t = loc[d].ref
    OBVIOUS
  <1>2. /\ Typed /\ Sorts /\ Located(d) /\ Knows(pc[d], loc[d]) /\ Renews(d)
        /\ t \in TokenValue /\ j = StoreKey(t) /\ j \in Token /\ Holds(d, t)
        /\ loc[d].snap \in Sound /\ loc[d].snap.kind = "refresh"
    <2>1. Typed /\ Sorts /\ Located(d) /\ Knows(pc[d], loc[d]) /\ Renews(d) /\ t \in TokenValue
      BY <1>1, RequestTyped DEF Runs, Core, Typed, Promised, Promise
    <2> QED
      BY <1>1, <2>1, KeysDiffer DEF Holds, Before, Knows
  <1>3. /\ tokens'[j] # NoEntry /\ tokens'[j].state = ClaimedState(d)
        /\ ClaimedState(d).status = "consumed"
    BY <1>2 DEF Matches, Live, Stored, ClaimedState, MarkConsumed, Sound, TokenState
  <1>4. ~Usable(j) /\ ~Holds(c, t)
    BY <1>2 DEF Runs, Core, Held
  <1>5. tokens'[j] = tokens[j]
    <2>1. ~Saved(c, j, tokens'[j].state, tokens'[j].expiresAt)
      <3>1. ~(loc[c].op = "Refresh" /\ pc[c] \in {"saveNext", "restore"} /\ j = StoreKey(loc[c].ref))
        BY <1>2, <1>4, KeysDiffer DEF Holds, Before
      <3> QED
        BY <1>3, <3>1 DEF Saved
    <2> QED
      BY <1>2, <1>3, <1>4, <2>1, WritesTo DEF Runs, Usable
  <1>6. Matches(tokens, j, ClaimedState(d), now)
    BY <1>5 DEF Matches, Live, Stored
  <1> QED
    BY <1>1, <1>2, <1>6, MatchedLink DEF Renews, Before

LEMMA OthersRelease ==
  ASSUME NEW c \in Client, Proceeds(c), NEW d \in Client \ {c}
  PROVE  Releases(d)'
  <1>1. PICK j : j = StoreKey(loc[d].ref)
    OBVIOUS
  <1>2. /\ pc'[d] = pc[d] /\ loc'[d] = loc[d] /\ now' = now /\ Runs(c)
        /\ ClaimedState(d)' = ClaimedState(d)
    BY DEF Proceeds, Alone, Runs, Advances, Frame, ClaimedState
  <1> SUFFICES ASSUME loc[d].op = "Refresh", pc[d] \in {"restore", "rollback"},
                      Matches(tokens', j, ClaimedState(d), now)
               PROVE  pc[d] = "restore" /\ Backed(loc[d].snap.access)'
    BY <1>1, <1>2 DEF Releases
  <1>3. /\ Matches(tokens, j, ClaimedState(d), now)
        /\ j \in LinksTo(loc[d].snap.access) /\ loc[d].snap.access \in IssuedKeys
        /\ loc[d].ref \in TokenValue /\ Holds(d, loc[d].ref)
    BY <1>1, <1>2, OthersMatch
  <1>4. pc[d] = "restore" /\ Backed(loc[d].snap.access)
    BY <1>1, <1>3 DEF Proceeds, Releases
  <1>5. ~(RevokeOldAccess(c) /\ loc[d].snap.access = loc[c].snap.access)
    <2> SUFFICES ASSUME RevokeOldAccess(c), loc[d].snap.access = loc[c].snap.access PROVE FALSE
      OBVIOUS
    <2>1. pc[c] = "revokeOld" /\ loc[c].op = "Refresh" /\ Renews(c)
      BY <1>2, RunsKnows DEF RevokeOldAccess, Calls, Located, Promise
    <2>2. StoreKey(loc[d].ref) = StoreKey(loc[c].ref)
      BY <1>1, <1>3, <2>1 DEF Renews, Before
    <2>3. Holds(c, loc[d].ref)
      BY <2>1, <2>2, KeysDiffer DEF Holds, Before
    <2> QED
      BY <1>2, <1>3, <2>3 DEF Runs, Core, Held
  <1>6. Backed(loc[d].snap.access)'
    <2>1. PICK k : k = loc[d].snap.access
      OBVIOUS
    <2>2. Backed(k)'
      BY <1>3, <1>4, <1>5, <2>1, BackedStays
    <2> QED
      BY <1>2, <2>1, <2>2
  <1> QED
    BY <1>4, <1>6

LEMMA OwnReleases ==
  ASSUME NEW c \in Client, Proceeds(c)
  PROVE  Releases(c)'
  <1>1. /\ Typed /\ Sorts /\ Located(c) /\ Knows(pc[c], loc[c]) /\ Promise(c) /\ now' = now
        /\ setup' = setup /\ Atomic
        /\ Leave(c) => pc'[c] = "idle"
        /\ \A label, locals : Go(c, label, locals) => pc'[c] = label /\ loc'[c] = locals
    BY RunsKnows DEF Proceeds, Alone, Runs, Advances, Frame
  <1>2. CASE pc'[c] \notin {"restore", "rollback"}
    BY <1>2 DEF Releases
  <1>3. CASE pc'[c] = "rollback"
    <2>1. SaveReused(c) /\ ~Succeed(c, {loc[c].acc}, Replaced(c) \ {StoreKey(loc[c].acc)})
      BY <1>1, <1>3, Whither DEF Proceeds, Alone, Succeed
    <2>2. /\ ~Matches(tokens, StoreKey(loc[c].ref), ClaimedState(c), now)
          /\ tokens' = tokens /\ loc'[c] = loc[c]
      BY <1>1, <2>1 DEF SaveReused, MayUpdate, SwapRefresh
    <2> QED
      BY <1>1, <2>2 DEF Releases, ClaimedState
  <1>4. CASE pc'[c] = "restore" /\ Rollback(c)
    <2>1. /\ pc[c] = "rollback" /\ loc'[c] = loc[c] /\ tokens' = Drop(tokens, {StoreKey(loc[c].acc)})
      BY <1>1, <1>4 DEF Rollback, GiveUp, Fail, Calls
    <2> SUFFICES ASSUME loc[c].op = "Refresh",
                        Matches(tokens', StoreKey(loc[c].ref), ClaimedState(c), now)
                 PROVE  FALSE
      BY <1>1, <2>1 DEF Releases, ClaimedState
    <2>2. Matches(tokens, StoreKey(loc[c].ref), ClaimedState(c), now)
      BY <2>1 DEF Matches, Live, Stored, Drop
    <2> QED
      BY <2>1, <2>2 DEF Proceeds, Releases
  <1>5. CASE pc'[c] = "restore" /\ ClaimRefresh(c)
    <2>1. PICK j : j = StoreKey(loc[c].ref)
      OBVIOUS
    <2>2. PICK k : k = tokens[j].state.access
      OBVIOUS
    <2>3. /\ pc[c] = "claim" /\ tokens[j] # NoEntry /\ UsableRefresh(tokens[j].state)
          /\ loc'[c] = [loc[c] EXCEPT !.snap = tokens[j].state, !.subject = tokens[j].state.subject]
      <3>1. ~Fail(c)
        BY <1>1, <1>5 DEF Fail
      <3> QED
        BY <1>1, <1>5, <2>1, <3>1 DEF ClaimRefresh, Calls
    <2>4. loc'[c].snap = tokens[j].state
      BY <1>1, <2>3, Fields
    <2>5. j \in Token
      BY <1>1, <2>1, <2>3, KeysDiffer DEF Located, Typed
    <2>6. j \in LinksTo(k) /\ Usable(j)
      BY <2>2, <2>3, <2>5 DEF LinksTo, Stored, UsableRefresh, Usable
    <2>7. k \in IssuedKeys
      <3>1. tokens[j].state.access \in {StoreKey(t) : t \in used} \cup {NoKey}
        BY <1>1, <2>3, <2>5 DEF Typed, StoreShaped
      <3>2. k \in Token \cup {NoKey}
        BY <1>1, <2>2, <3>1, KeysDiffer DEF Typed
      <3> QED
        BY <2>6, <3>2 DEF Proceeds, Alone, Runs, Promised, Chained
    <2>8. Backed(k)
      BY <2>6, <2>7 DEF Proceeds, Joined
    <2>9. Backed(k)'
      BY <2>3, <2>6, <2>7, <2>8, BackedStays DEF RevokeOldAccess, Calls
    <2>10. Backed(loc[c].snap.access)'
      BY <2>2, <2>4, <2>9
    <2> QED
      BY <1>5, <2>10 DEF Releases
  <1> QED
    BY <1>2, <1>3, <1>4, <1>5, Whither DEF Proceeds, Alone

LEMMA StepJoined ==
  ASSUME NEW c \in Client, Proceeds(c)
  PROVE  Joined'
  <1> SUFFICES ASSUME NEW k, k \in IssuedKeys', NEW j \in LinksTo(k)', Usable(j)'
               PROVE  Backed(k)'
    BY DEF Joined
  <1>1. /\ Typed /\ Sorts /\ Located(c) /\ Knows(pc[c], loc[c]) /\ Promise(c) /\ Advances(c) /\ Atomic
        /\ Core /\ Chained
    BY RunsKnows DEF Proceeds, Alone, Runs, Promised
  <1>2. /\ j \in Token /\ tokens'[j] # NoEntry /\ tokens'[j].state.status = "active"
        /\ tokens'[j].state.kind = "refresh" /\ tokens'[j].state.access = k
    BY DEF LinksTo, Stored, Usable
  <1>3. ASSUME loc[c].op \in Issuing, pc[c] \in Storing, k = StoreKey(loc[c].acc)
        PROVE  Backed(k)'
    BY <1>3, StockStays DEF Proceeds, Stocked, Backed
  <1>4. ASSUME j \in LinksTo(k) PROVE k \in IssuedKeys
    <2>1. tokens[j].state.access \in {StoreKey(t) : t \in used} \cup {NoKey}
      BY <1>1, <1>4 DEF Typed, StoreShaped, LinksTo, Stored
    <2>2. k \in Token \cup {NoKey}
      BY <1>1, <1>4, <2>1, KeysDiffer DEF Typed, LinksTo
    <2> QED
      BY <1>1, <1>4, <2>2 DEF Chained
  <1>5. CASE tokens'[j] = tokens[j] \/ Kept(j)
    <2>1. j \in LinksTo(k) /\ Usable(j)
      BY <1>2, <1>5 DEF Kept, LinksTo, Stored, Usable
    <2>2. k \in IssuedKeys /\ Backed(k)
      BY <1>4, <2>1 DEF Proceeds, Joined
    <2>3. ~(RevokeOldAccess(c) /\ k = loc[c].snap.access)
      <3> SUFFICES ASSUME RevokeOldAccess(c), k = loc[c].snap.access PROVE FALSE
        OBVIOUS
      <3>1. pc[c] = "revokeOld" /\ loc[c].op = "Refresh" /\ Renews(c)
        BY <1>1 DEF RevokeOldAccess, Calls, Located, Promise
      <3>2. j = StoreKey(loc[c].ref) /\ Holds(c, loc[c].ref) /\ loc[c].ref \in TokenValue
        BY <1>1, <2>1, <3>1 DEF Renews, Before, Holds, Located, Typed
      <3> QED
        BY <1>1, <2>1, <3>2 DEF Core, Held
    <2> QED
      BY <2>1, <2>2, <2>3, BackedStays
  <1>6. ~PutAccess(c, j)
    BY <1>2 DEF PutAccess
  <1>7. CASE PutOneTime(c, j)
    BY <1>2, <1>3, <1>7 DEF PutOneTime, Storing
  <1>8. CASE PutBack(c, j)
    <2>1. /\ ~RotateRefreshToken /\ loc[c].op = "Refresh" /\ j = StoreKey(loc[c].ref)
          /\ pc[c] \in {"saveNext", "restore"} /\ tokens[j].state.status = "consumed"
          /\ loc[c].snap \in Sound /\ loc[c].snap.kind = "refresh"
      BY <1>1, <1>8 DEF PutBack, Knows
    <2>2. CASE tokens'[j].state.access # tokens[j].state.access
      BY <1>2, <1>3, <1>8, <2>1, <2>2 DEF PutBack, Issuing, Storing
    <2>3. CASE tokens'[j].state.access = tokens[j].state.access /\ pc[c] = "saveNext"
      <3>1. SaveReused(c)
        BY <2>1, <2>3, CallsMade DEF Proceeds, Alone, SaveRotated
      <3> DEFINE s == [Touch(loc[c].snap) EXCEPT !.access = StoreKey(loc[c].acc),
                                                 !.device = LoginDevice(c)]
      <3>2. s.access = StoreKey(loc[c].acc)
        BY <2>1 DEF Touch, Sound, TokenState
      <3>3. SwapRefresh(c, s)
        BY <3>1 DEF SaveReused
      <3> HIDE DEF s
      <3>4. tokens' # tokens
        BY <1>2, <2>1
      <3>5. tokens' = Put(tokens, j, s, EffectiveExpiresAt(s, now, RemainingTTL(s, now)))
        BY <2>1, <3>3, <3>4 DEF SwapRefresh
      <3>6. tokens'[j] = [state |-> s, expiresAt |-> EffectiveExpiresAt(s, now, RemainingTTL(s, now))]
        BY <1>1, <1>2, <3>5, PutReads
      <3> QED
        BY <1>2, <1>3, <2>1, <2>3, <3>2, <3>6 DEF Issuing, Storing
    <2>4. CASE tokens'[j].state.access = tokens[j].state.access /\ pc[c] = "restore"
      <3>1. RestoreRefresh(c)
        BY <2>4, CallsMade DEF Proceeds, Alone
      <3>2. Matches(tokens, j, ClaimedState(c), now)
        <4>1. tokens' # tokens
          BY <1>2, <2>1
        <4> QED
          BY <1>1, <2>1, <3>1, <4>1 DEF RestoreRefresh, SwapRefresh, MayUpdate
      <3>3. j \in LinksTo(k) /\ k = loc[c].snap.access
        BY <1>2, <2>1, <2>4, <3>2, MatchedLink
      <3>4. Backed(k) /\ k \in IssuedKeys
        BY <1>4, <2>1, <2>4, <3>2, <3>3 DEF Proceeds, Releases
      <3>5. ~RevokeOldAccess(c)
        BY <2>4 DEF RevokeOldAccess, Calls
      <3> QED
        BY <3>3, <3>4, <3>5, BackedStays
    <2> QED
      BY <2>1, <2>2, <2>3, <2>4
  <1> QED
    BY <1>1, <1>2, <1>5, <1>6, <1>7, <1>8 DEF Advances, Effect

LEMMA StartBacks ==
  ASSUME Backs, Typed, Atomic, Lasting, ~Sweeping, UNCHANGED setup, NEW c \in Client, Start(c)
  PROVE  Backs'
  <1>1. /\ pc[c] = "idle" /\ UNCHANGED <<tokens, now, issued, dead, faults, cancels, crashes>>
        /\ \A d \in Client \ {c} : pc'[d] = pc[d] /\ loc'[d] = loc[d]
        /\ pc'[c] \in Doors
    BY StartsAt
  <1>2. \A d \in Client : pc'[d] \notin Sweepers
    BY <1>1, StartsAt DEF Backs
  <1>3. \A k : Backed(k) => Backed(k)'
    BY <1>1 DEF Backed, LoggingOut
  <1>4. ASSUME Undisturbed, Joined PROVE Joined'
    BY <1>1, <1>3, <1>4 DEF Joined, IssuedKeys, LinksTo, Stored, Usable
  <1>5. ASSUME NEW d \in Client, Stocked(d), Releases(d) PROVE Stocked(d)' /\ Releases(d)'
    <2>1. CASE d = c
      BY <1>1, <2>1 DEF Stocked, Releases, Doors, Storing
    <2>2. CASE d # c
      <3>1. pc'[d] = pc[d] /\ loc'[d] = loc[d]
        BY <1>1, <2>2
      <3>2. Stocked(d)'
        BY <1>1, <1>5, <3>1 DEF Stocked
      <3>3. Releases(d)'
        <4>1. PICK k : k = loc[d].snap.access
          OBVIOUS
        <4>2. Backed(loc[d].snap.access) => Backed(loc[d].snap.access)'
          BY <1>3, <3>1, <4>1
        <4> QED
          BY <1>1, <1>5, <3>1, <4>2 DEF Releases, ClaimedState
      <3> QED
        BY <3>2, <3>3
    <2> QED
      BY <2>1, <2>2
  <1> QED
    BY <1>1, <1>2, <1>4, <1>5 DEF Backs, Undisturbed

LEMMA TickBacks ==
  ASSUME Backs, Core, Sorts, Promised, Endless, ~AliasArgs, UNCHANGED setup, Tick
  PROVE  Backs'
  <1>1. /\ UNCHANGED <<pc, loc, issued, dead, faults, cancels, crashes>>
        /\ now' = now + 1 /\ now \in Nat /\ IssuedKeys' = IssuedKeys
    BY DEF Tick, ghost, budget, Core, Typed, StoreShaped, IssuedKeys
  <1>2. \A k \in Token : tokens'[k] = tokens[k] \/ tokens'[k] = NoEntry
    BY DEF Tick, Drop
  <1>4. ASSUME NEW k \in IssuedKeys, LinksTo(k) # {}, Backed(k) PROVE Backed(k)'
    <2>1. k \in Token
      BY <1>4, IssuedKeysTyped DEF Core
    <2>2. tokens[k] # NoEntry => tokens[k].state.kind \notin OneTime
      BY <1>4, <2>1, OneTimeKeys DEF Core
    <2>3. tokens[k] # NoEntry => tokens'[k] = tokens[k]
      BY <2>1, <2>2, TickSpares
    <2> QED
      BY <1>1, <1>4, <2>3 DEF Backed, LoggingOut
  <1>5. ASSUME Joined PROVE Joined'
    <2> SUFFICES ASSUME NEW k \in IssuedKeys, NEW j \in LinksTo(k)', Usable(j)' PROVE Backed(k)'
      BY <1>1 DEF Joined
    <2>1. j \in LinksTo(k) /\ Usable(j)
      BY <1>2 DEF LinksTo, Stored, Usable
    <2> QED
      BY <1>4, <1>5, <2>1 DEF Joined
  <1>6. ASSUME NEW d \in Client, Stocked(d) PROVE Stocked(d)'
    <2>1. ASSUME loc[d].op \in Issuing, pc[d] \in Storing
          PROVE  tokens'[StoreKey(loc[d].acc)] # NoEntry
      <3>1. loc[d].acc \in TokenValue /\ loc[d].acc \in NewAccess(d)
        BY <2>1 DEF Core, Typed, Located, NewAccess
      <3>2. StoreKey(loc[d].acc) \in Token /\ ~OneTimeStored(loc[d].acc)
        BY <3>1, KeysDiffer DEF Core, Disjoint, IsOneTime
      <3> QED
        BY <1>6, <2>1, <3>2, TickSpares DEF Stocked, OneTimeStored
    <2> QED
      BY <1>1, <1>6, <2>1 DEF Stocked
  <1>7. ASSUME NEW d \in Client, Releases(d) PROVE Releases(d)'
    <2>1. PICK j : j = StoreKey(loc[d].ref)
      OBVIOUS
    <2>2. PICK k : k = loc[d].snap.access
      OBVIOUS
    <2> SUFFICES ASSUME loc[d].op = "Refresh", pc[d] \in {"restore", "rollback"},
                        Matches(tokens', j, ClaimedState(d), now')
                 PROVE  pc[d] = "restore" /\ Backed(k)'
      BY <1>1, <2>1, <2>2 DEF Releases, ClaimedState, Backed, LoggingOut
    <2>3. tokens'[j] = tokens[j] /\ j \in Token
      BY <1>2 DEF Matches, Live, Stored
    <2>4. Matches(tokens, j, ClaimedState(d), now)
      <3>1. /\ j \in Token /\ tokens[j] # NoEntry /\ tokens[j].state = ClaimedState(d)
            /\ ~EntryExpired(tokens[j], now + 1)
        BY <1>1, <2>3 DEF Matches, Live, Stored
      <3>2. tokens[j].expiresAt \in Deadline /\ tokens[j].state.expiresAt \in Deadline
        BY <3>1, ReadTyped, SoundTyped DEF Sorts
      <3>3. ~EntryExpired(tokens[j], now)
        BY <1>1, <3>1, <3>2 DEF EntryExpired, IsExpired, Passed, Deadline, Never
      <3> QED
        BY <3>1, <3>3 DEF Matches, Live, Stored
    <2>5. pc[d] = "restore" /\ Backed(k)
      BY <1>7, <2>1, <2>2, <2>4 DEF Releases
    <2>6. Typed /\ Knows(pc[d], loc[d]) /\ Renews(d)
      BY RequestTyped DEF Core, Promised, Promise
    <2>7. j \in LinksTo(k) /\ k \in IssuedKeys
      BY <2>2, <2>4, <2>5, <2>6, MatchedLink DEF Knows, Renews, Before
    <2> QED
      BY <1>4, <2>5, <2>7
  <1> QED
    BY <1>1, <1>5, <1>6, <1>7 DEF Backs, Undisturbed

LEMMA StepBacks ==
  ASSUME Backs, Core, Sorts, Promised, Endless, Counted, Atomic, ~AliasArgs, Lasting, ~Sweeping,
         UNCHANGED setup, NEW c \in Client, Step(c)
  PROVE  Backs'
  <1>1. CASE CallError(c)
    <2>1. /\ pc'[c] \in {"idle", "rollback", "restore"}
          /\ \A d \in Client \ {c} : pc'[d] = pc[d]
      BY <1>1 DEF CallError, Leave, Core, Typed
    <2>2. ~Undisturbed'
      BY <1>1 DEF CallError, Counted, Undisturbed
    <2> QED
      BY <2>1, <2>2 DEF Backs, Sweepers
  <1>2. CASE LoginStep(c) \/ RefreshStep(c) \/ AccessStep(c)
    <2>1. Alone(c)
      BY <1>2, StepRuns DEF Alone, Backs
    <2>2. \A d \in Client : pc'[d] \notin Sweepers
      BY <2>1, AloneKnows DEF Alone, Runs, Advances, Frame, Backs
    <2>3. ASSUME Undisturbed' PROVE Joined' /\ \A d \in Client : Stocked(d)' /\ Releases(d)'
      <3>1. Proceeds(c)
        BY <2>1, <2>3, StepCounted DEF Proceeds, Backs
      <3> QED
        BY <3>1, StepJoined, StepStocked, OwnReleases, OthersRelease
    <2> QED
      BY <2>2, <2>3 DEF Backs
  <1> QED
    BY <1>1, <1>2 DEF Step

LEMMA NextBacks ==
  ASSUME Inv, Sorts, Promised, Quiet, Endless, Backs, ~AliasArgs, Lasting, ~Sweeping, [Next]_vars
  PROVE  Backs'
  <1>1. UNCHANGED setup /\ Core /\ Atomic /\ Typed /\ Counted
    BY NextCarries DEF Inv, Core, Quiet
  <1>2. ASSUME NEW c \in Client, Start(c) PROVE Backs'
    BY <1>1, <1>2, StartBacks
  <1>3. ASSUME NEW c \in Client, Step(c) PROVE Backs'
    BY <1>1, <1>3, StepBacks
  <1>4. CASE Tick
    BY <1>1, <1>4, TickBacks
  <1>5. ASSUME NEW c \in Client, Crash(c) PROVE Backs'
    <2>1. pc'[c] = "idle" /\ ~Undisturbed' /\ \A d \in Client \ {c} : pc'[d] = pc[d]
      BY <1>1, <1>5 DEF Crash, Leave, Typed, Counted, Undisturbed
    <2> QED
      BY <2>1 DEF Backs, Sweepers
  <1>6. ASSUME NEW c \in Client, Cancel(c) PROVE Backs'
    <2>1. UNCHANGED pc /\ ~Undisturbed'
      BY <1>1, <1>6 DEF Cancel, Counted, Undisturbed
    <2> QED
      BY <2>1 DEF Backs
  <1>7. CASE UNCHANGED vars
    <2>1. /\ UNCHANGED <<tokens, now, issued, dead, pc, loc, faults, cancels, crashes>>
      BY <1>7 DEF vars, store, ghost, budget
    <2>2. Joined => Joined'
      BY <2>1 DEF Joined, IssuedKeys, LinksTo, Stored, Usable, Backed, LoggingOut
    <2>3. \A d \in Client : (Stocked(d) => Stocked(d)') /\ (Releases(d) => Releases(d)')
      BY <2>1 DEF Stocked, Releases, ClaimedState, Backed, LoggingOut
    <2> QED
      BY <2>1, <2>2, <2>3 DEF Backs, Undisturbed
  <1> QED
    BY <1>2, <1>3, <1>4, <1>5, <1>6, <1>7 DEF Next

LEMMA InitBacks ==
  ASSUME Init
  PROVE  Backs
  <1>1. Stored(tokens) = {} /\ \A c \in Client : pc[c] = "idle"
    BY DEF Init, Stored
  <1>2. Joined /\ \A c \in Client : Stocked(c) /\ Releases(c)
    BY <1>1 DEF Joined, LinksTo, Stocked, Releases, Storing
  <1> QED
    BY <1>1, <1>2 DEF Backs, Sweepers

\* While no call fails, a refresh token that can be used names an access token that is
\* there, unless that one was logged out.  Whatever refreshes, renewals, logouts and
\* revocations ran at the same time, the loser of a refresh has not deleted the access
\* token that the winner linked, a claim that is released finds the token it was taken
\* with, and no renewal has stored a token under a deadline of its own
\* (core/refresh.go: Refresh, with its deferred release).
THEOREM RefreshKeepsAccess == Spec /\ Atomic /\ ~AliasArgs /\ Lasting => []RefreshHasAccess
  <1>1. Init => Backs
    BY InitBacks
  <1>2. /\ Inv /\ Sorts /\ Promised /\ Quiet /\ Endless /\ Backs
        /\ ~AliasArgs /\ Lasting /\ ~Sweeping /\ [Next]_vars
        => Backs' /\ ~AliasArgs' /\ Lasting' /\ ~Sweeping'
    <2>1. Inv /\ [Next]_vars => UNCHANGED setup
      BY NextCarries
    <2> QED
      BY <2>1, NextBacks DEF AliasArgs, Lasting, Timeout, ActiveTimeout, RenewTTL, Sweeping,
                             Concurrent, Ops
  <1>3. Inv /\ Promised /\ Backs => RefreshHasAccess
    <2> SUFFICES ASSUME Core, Promised, Backs, AllIdle, Undisturbed,
                        NEW j \in Stored(tokens), Usable(j), tokens[j].state.kind = "refresh"
                 PROVE  \/ tokens[tokens[j].state.access] # NoEntry
                        \/ tokens[j].state.access \in dead
      BY DEF Inv, RefreshHasAccess
    <2>1. PICK k : k = tokens[j].state.access
      OBVIOUS
    <2>2. j \in LinksTo(k)
      BY <2>1 DEF LinksTo
    <2>3. k \in Token \cup {NoKey}
      BY <2>1, KeysDiffer DEF Core, Typed, StoreShaped, Stored, Token
    <2>4. k \in IssuedKeys
      BY <2>2, <2>3 DEF Promised, Chained
    <2>5. Backed(k)
      BY <2>2, <2>4 DEF Backs, Joined
    <2> QED
      BY <2>1, <2>5 DEF Backed, LoggingOut, AllIdle
  <1>4. Sweeping => RefreshHasAccess
    BY DEF RefreshHasAccess
  <1>5. Inv /\ Sweeping /\ [Next]_vars => Sweeping'
    BY NextCarries DEF Sweeping, Concurrent, Ops
  <1> QED
    BY <1>1, <1>2, <1>3, <1>4, <1>5, CarefulCallers, InvHolds, SortsHolds, PromisedHolds,
       QuietHolds, EndlessHolds, PTL DEF Spec

-----------------------------------------------------------------------------
(* What a logout by device promises is kept once all is quiet.              *)

\* Where a logout by device is, and what it keeps of its locals.
OnlyByDevice == \A c \in Client : loc[c].op = "LogoutByDevice" => pc[c] \in OnDevice \cup {"findDevice"}

\* A token that a call promised unusable, or that a logout by device is to.
Attended(k) ==
  k \in dead \/ \E c \in Client : loc[c].op = "LogoutByDevice" /\ k \in loc[c].covered

\* The request is at the refresh tokens that name the token.
Cutting(c, k) ==
  \/ pc[c] = "findLinked" /\ loc[c].cur = k /\ LinkedWithin(k, loc[c].subject)
  \/ pc[c] = "deleteLinked" /\ LinksTo(k) \subseteq loc[c].todo
  \/ pc[c] \in HalfDone /\ LinkedWithin(k, loc[c].subject)
  \/ loc[c].op = "Refresh" /\ pc[c] = "findOthers" /\ LinkedWithin(k, loc[c].subject)
  \/ /\ loc[c].op = "Refresh" /\ pc[c] = "deleteOthers"
     /\ LinksTo(k) \subseteq loc[c].todo \cup {StoreKey(loc[c].ref)}

Pursued(k) == tokens[k] # NoEntry \/ \E c \in Client : Cutting(c, k)

\* A claim on the refresh token is about to be released.
Revives(c, j) ==
  /\ loc[c].op = "Refresh" /\ pc[c] = "restore"
  /\ j = StoreKey(loc[c].ref) /\ Matches(tokens, j, ClaimedState(c), now)

GoesOn(j) == Usable(j) \/ \E c \in Client : Revives(c, j)

Pursues == \A k \in IssuedKeys : Attended(k) => \A j \in LinksTo(k) : GoesOn(j) => Pursued(k)

\* Only a refresh that lost its token takes its access token back.
Lost(c) ==
  pc[c] = "rollback" =>
    /\ loc[c].op = "Refresh"
    /\ ~Matches(tokens, StoreKey(loc[c].ref), ClaimedState(c), now)

\* The token was stored, and is not going to be stored again.
Settled(t) ==
  /\ t \in used
  /\ \A d \in Client : /\ t \in NewAccess(d) => pc[d] \in Bearing \cup {"restore"}
                       /\ t \in Offered(d) => t \in issued

\* What is still there of what a logout by device found is the subject's.
Aims(c) ==
  loc[c].op = "LogoutByDevice" /\ pc[c] \in OnDevice =>
    \A k \in loc[c].targets :
      /\ \E t \in TokenValue : k = StoreKey(t) /\ Settled(t)
      /\ tokens[k] # NoEntry => tokens[k].state.subject = loc[c].subject

Cuts ==
  /\ OnlyByDevice
  /\ RevokeRefreshOnLogout /\ Undisturbed =>
       Pursues /\ \A c \in Client : Lost(c) /\ Aims(c)

\* A step that is no failure, where none was before.
Furthers(c) ==
  /\ Runs(c) /\ Delivers(c) /\ Core' /\ Sorts'
  /\ Quiet /\ Undisturbed /\ Undisturbed' /\ RevokeRefreshOnLogout
  /\ OnlyByDevice /\ Pursues /\ \A d \in Client : Lost(d) /\ Aims(d)

LEMMA DeviceKeeps ==
  ASSUME NEW c \in Client, Runs(c), OnlyByDevice, loc'[c].op = "LogoutByDevice"
  PROVE  /\ loc[c].op = "LogoutByDevice" /\ pc'[c] \in OnDevice
         /\ loc'[c].covered = loc[c].covered /\ loc'[c].subject = loc[c].subject
         /\ \/ loc'[c].targets \subseteq loc[c].targets /\ pc[c] \in OnDevice
            \/ /\ UNCHANGED tokens
               /\ loc'[c].targets \subseteq OfSubject(tokens, loc[c].subject, {"access"})
  <1>1. /\ Typed
        /\ Leave(c) => pc'[c] = "idle"
        /\ \A label, locals : Go(c, label, locals) => pc'[c] = label /\ loc'[c] = locals
    BY RunsKnows
  <1>2. /\ Fail(c) => pc'[c] = "idle"
        /\ \A new, gone : Succeed(c, new, gone) => pc'[c] = "idle"
    BY <1>1 DEF Fail, Succeed
  <1>3. pc'[c] # "idle" /\ loc[c].op = "LogoutByDevice"
    <2>1. Located(c)' /\ (Leaves(c) \/ Stays(c))
      BY DEF Runs, Advances
    <2> QED
      BY <2>1 DEF Located, Leaves, Stays, SameTokens
  <1>4. FindDevice(c) \/ DeleteOnDevice(c) \/ FindLinked(c) \/ DeleteLinked(c)
    BY <1>3, CallsMade DEF OnlyByDevice, OnDevice
  <1>5. ASSUME FindLinked(c) \/ DeleteLinked(c)
        PROVE  /\ pc[c] \in OnDevice /\ pc'[c] \in {"deleteLinked", "deleteAccess"}
               /\ \E todo : loc'[c] = [loc[c] EXCEPT !.todo = todo]
    <2>1. PICK todo : LinkedDone(c, todo)
      BY <1>5 DEF FindLinked, DeleteLinked
    <2>2. pc[c] \in OnDevice
      BY <1>5 DEF FindLinked, DeleteLinked, Calls, OnDevice
    <2> QED
      BY <1>1, <1>2, <1>3, <2>1, <2>2 DEF LinkedDone
  <1>6. ASSUME DeleteOnDevice(c)
        PROVE  /\ pc[c] \in OnDevice /\ pc'[c] \in {"findLinked", "deleteAccess"}
               /\ \E k : \/ loc'[c] = [loc[c] EXCEPT !.targets = loc[c].targets \ {k}, !.cur = k]
                         \/ loc'[c] = [loc[c] EXCEPT !.targets = loc[c].targets \ {k}]
    <2>1. pc[c] \in OnDevice
      BY <1>6 DEF DeleteOnDevice, Calls, OnDevice
    <2> QED
      BY <1>1, <1>2, <1>3, <1>6, <2>1 DEF DeleteOnDevice
  <1>7. ASSUME FindDevice(c)
        PROVE  /\ pc'[c] = "deleteAccess" /\ UNCHANGED tokens
               /\ \E found : /\ found \subseteq OfSubject(tokens, loc[c].subject, {"access"})
                             /\ loc'[c] = [loc[c] EXCEPT !.targets = found]
    BY <1>1, <1>2, <1>3, <1>7 DEF FindDevice, store
  <1> QED
    BY <1>1, <1>3, <1>4, <1>5, <1>6, <1>7, Fields DEF OnDevice

\* It is where it was, or has come to its end.
LEMMA StepOnlyByDevice ==
  ASSUME NEW c \in Client, Runs(c), OnlyByDevice
  PROVE  OnlyByDevice'
  <1>1. ASSUME NEW d \in Client \ {c}, loc'[d].op = "LogoutByDevice"
        PROVE  pc'[d] \in OnDevice \cup {"findDevice"}
    BY <1>1 DEF Runs, Advances, Frame, OnlyByDevice
  <1> QED
    BY <1>1, DeviceKeeps DEF OnlyByDevice

LEMMA FurthersKnows ==
  ASSUME NEW c \in Client, Furthers(c)
  PROVE  /\ Runs(c) /\ Core /\ Typed /\ Sorts /\ Promised /\ AllLose /\ Advances(c) /\ ~AliasArgs
         /\ Located(c) /\ Knows(pc[c], loc[c]) /\ Promise(c) /\ now' = now
         /\ \A d \in Client \ {c} : pc'[d] = pc[d] /\ loc'[d] = loc[d]
         /\ Leave(c) => pc'[c] = "idle"
         /\ \A label, locals : Go(c, label, locals) => pc'[c] = label /\ loc'[c] = locals
  <1>1. Runs(c)
    BY DEF Furthers
  <1> QED
    BY <1>1, RunsKnows DEF Runs, Core, Advances, Frame

\* A refresh token that is gone on with was so before.
LEMMA GoesOnSince ==
  ASSUME NEW c \in Client, Furthers(c), NEW k \in IssuedKeys, NEW j \in LinksTo(k)', GoesOn(j)'
  PROVE  j \in LinksTo(k) /\ GoesOn(j)
  <1>1. /\ Runs(c) /\ Core /\ Typed /\ Sorts /\ Promised /\ AllLose /\ Advances(c) /\ ~AliasArgs
        /\ Located(c) /\ Knows(pc[c], loc[c]) /\ Promise(c) /\ now' = now
        /\ \A d \in Client \ {c} : pc'[d] = pc[d] /\ loc'[d] = loc[d]
        /\ Leave(c) => pc'[c] = "idle"
        /\ \A label, locals : Go(c, label, locals) => pc'[c] = label /\ loc'[c] = locals
    BY FurthersKnows
  <1>2. j \in LinksTo(k)
    BY <1>1, LinksShrink
  <1>3. /\ j \in Token /\ tokens[j] # NoEntry /\ tokens[j].state.kind = "refresh"
        /\ tokens'[j] # NoEntry /\ tokens'[j].state.access = k
    BY <1>2 DEF LinksTo, Stored
  <1>4. j \in IssuedKeys
    BY <1>1, <1>3, OneTimeKeys DEF Core, OneTime
  <1>5. CASE Usable(j)'
    <2>1. CASE tokens'[j] = tokens[j] \/ Kept(j)
      BY <1>2, <1>3, <1>5, <2>1 DEF Kept, Usable, GoesOn
    <2>2. CASE PutBack(c, j) /\ pc[c] = "restore"
      <3>1. RestoreRefresh(c) /\ loc[c].op = "Refresh" /\ j = StoreKey(loc[c].ref)
        BY <1>1, <2>2, CallsMade DEF PutBack
      <3>2. tokens' # tokens
        BY <1>5, <2>2 DEF PutBack, Usable
      <3>3. Matches(tokens, j, ClaimedState(c), now)
        BY <1>1, <3>1, <3>2 DEF RestoreRefresh, SwapRefresh, MayUpdate, Runs
      <3> QED
        BY <1>2, <2>2, <3>1, <3>3 DEF GoesOn, Revives
    <2>3. CASE PutBack(c, j) /\ pc[c] = "saveNext"
      <3> DEFINE s == [Touch(loc[c].snap) EXCEPT !.access = StoreKey(loc[c].acc),
                                                 !.device = LoginDevice(c)]
      <3>1. /\ ~RotateRefreshToken /\ loc[c].op = "Refresh" /\ j = StoreKey(loc[c].ref)
            /\ loc[c].snap \in Sound /\ tokens[j].state.status = "consumed"
        BY <1>1, <2>3 DEF PutBack, Knows
      <3>2. SwapRefresh(c, s)
        BY <1>1, <2>3, <3>1, CallsMade DEF SaveRotated, SaveReused
      <3>3. s.access = StoreKey(loc[c].acc)
        BY <3>1 DEF Touch, Sound, TokenState
      <3> HIDE DEF s
      <3>4. tokens' # tokens
        BY <1>5, <3>1 DEF Usable
      <3>5. tokens' = Put(tokens, j, s, EffectiveExpiresAt(s, now, RemainingTTL(s, now)))
        BY <3>1, <3>2, <3>4 DEF SwapRefresh
      <3>6. tokens'[j] = [state |-> s, expiresAt |-> EffectiveExpiresAt(s, now, RemainingTTL(s, now))]
        BY <1>1, <1>3, <3>5, PutReads
      <3>7. k = StoreKey(loc[c].acc) /\ loc[c].acc \notin issued
        BY <1>1, <1>3, <3>1, <3>3, <3>6 DEF Core, AccessIsNew, NewAccess, Issuing
      <3> QED
        BY <3>7, KeysDiffer DEF IssuedKeys
    <2> QED
      BY <1>1, <1>3, <1>4, <2>1, <2>2, <2>3, IssuedEffect DEF PutBack
  <1>6. ASSUME NEW d \in Client \ {c}, Revives(d, j)' PROVE GoesOn(j)
    <2>1. /\ loc[d].op = "Refresh" /\ pc[d] = "restore" /\ j = StoreKey(loc[d].ref)
          /\ Matches(tokens', j, ClaimedState(d), now)
      BY <1>1, <1>6 DEF Revives, ClaimedState
    <2>2. Matches(tokens, j, ClaimedState(d), now)
      BY <1>1, <2>1, OthersMatch
    <2> QED
      BY <2>1, <2>2 DEF GoesOn, Revives
  <1>7. CASE Revives(c, j)'
    <2>1. /\ pc'[c] = "restore" /\ loc'[c].op = "Refresh" /\ j = StoreKey(loc'[c].ref)
          /\ loc'[c].ref = loc[c].ref /\ Matches(tokens', j, MarkConsumed(loc'[c].snap), now)
      BY <1>1, <1>7 DEF Revives, ClaimedState, Advances, Leaves, Stays, SameTokens
    <2>2. CASE ClaimRefresh(c)
      <3>1. ~Fail(c)
        BY <1>1, <2>1 DEF Fail
      <3>2. UsableRefresh(tokens[j].state)
        BY <1>3, <2>1, <2>2, <3>1 DEF ClaimRefresh
      <3> QED
        BY <1>2, <1>3, <3>2 DEF UsableRefresh, Usable, GoesOn
    <2>3. CASE Rollback(c)
      <3>1. /\ pc[c] = "rollback" /\ loc'[c] = loc[c] /\ tokens' = Drop(tokens, {StoreKey(loc[c].acc)})
        BY <1>1, <2>1, <2>3 DEF Rollback, GiveUp, Fail, Calls
      <3>2. Matches(tokens, StoreKey(loc[c].ref), ClaimedState(c), now)
        BY <2>1, <3>1 DEF Matches, Live, Stored, Drop, ClaimedState
      <3> QED
        BY <3>1, <3>2 DEF Furthers, Lost
    <2> QED
      BY <1>1, <2>1, <2>2, <2>3, Whither
  <1> QED
    BY <1>2, <1>5, <1>6, <1>7 DEF GoesOn

\* What another request is cutting off it goes on cutting off.
LEMMA OthersCut ==
  ASSUME NEW c \in Client, Runs(c), NEW d \in Client \ {c}, NEW k \in IssuedKeys, Cutting(d, k)
  PROVE  Cutting(d, k)'
  <1>1. AllLose /\ pc'[d] = pc[d] /\ loc'[d] = loc[d]
    BY DEF Runs, Advances, Frame
  <1>2. LinksTo(k)' \subseteq LinksTo(k)
    BY <1>1, LossLinks
  <1>3. \A s : LinkedWithin(k, s) => \A j \in LinksTo(k)' : tokens'[j].state.subject = s
    BY <1>1, LossLinks
  <1> QED
    BY <1>1, <1>2, <1>3 DEF Cutting, LinkedWithin

\* What a refresh holds is not gone on with until its claim is released.
LEMMA HeldRests ==
  ASSUME Core, NEW c \in Client, loc[c].op = "Refresh", pc[c] \notin Before, pc[c] # "restore",
         NEW j, j = StoreKey(loc[c].ref)
  PROVE  ~GoesOn(j)
  <1>1. loc[c].ref \in TokenValue /\ Holds(c, loc[c].ref)
    BY DEF Core, Typed, Located, Holds
  <1>2. ASSUME NEW d \in Client, Revives(d, j) PROVE FALSE
    <2>1. loc[d].ref = loc[c].ref /\ Holds(d, loc[c].ref)
      BY <1>2, KeysDiffer DEF Revives, Holds, Before
    <2> QED
      BY <1>1, <1>2, <2>1 DEF Core, Held, Revives
  <1> QED
    BY <1>1, <1>2 DEF Core, Held, GoesOn

\* A request that cuts off a token does so until nothing that names it goes on.
LEMMA OwnCut ==
  ASSUME NEW c \in Client, Furthers(c), NEW k \in IssuedKeys, Cutting(c, k),
         NEW j \in LinksTo(k)', GoesOn(j)'
  PROVE  Cutting(c, k)'
  <1>1. /\ Runs(c) /\ Core /\ Typed /\ AllLose /\ Located(c)
        /\ Leave(c) => pc'[c] = "idle"
        /\ \A label, locals : Go(c, label, locals) => pc'[c] = label /\ loc'[c] = locals
    BY FurthersKnows
  <1>2. /\ j \in LinksTo(k) /\ GoesOn(j) /\ LinksTo(k)' \subseteq LinksTo(k)
        /\ j \in Token /\ tokens'[j] # NoEntry
    BY <1>1, GoesOnSince, LossLinks DEF LinksTo, Stored
  <1>3. ASSUME NEW subject, LinkedWithin(k, subject)
        PROVE  LinksTo(k) \subseteq OfSubject(tokens, subject, {"refresh"})
    BY <1>3 DEF LinkedWithin, LinksTo, OfSubject, MatchKind
  <1>4. loc[c].op = "Refresh" /\ pc[c] \in {"findOthers", "deleteOthers"} => j # StoreKey(loc[c].ref)
    BY <1>1, <1>2, HeldRests DEF Before
  <1>5. ASSUME NEW todo, LinkedDone(c, todo), LinksTo(k)' \subseteq todo PROVE Cutting(c, k)'
    <2>1. pc'[c] = "deleteLinked" /\ loc'[c] = [loc[c] EXCEPT !.todo = todo]
      BY <1>1, <1>5 DEF LinkedDone
    <2>2. loc'[c].todo = todo
      BY <1>1, <2>1, Fields
    <2> QED
      BY <1>5, <2>1, <2>2 DEF Cutting
  <1>6. CASE pc[c] = "findLinked" /\ loc[c].cur = k /\ LinkedWithin(k, loc[c].subject)
    <2>1. PICK todo : /\ LinkedDone(c, todo)
                      /\ todo = {i \in OfSubject(tokens, loc[c].subject, {"refresh"}) :
                                  tokens[i].state.access = loc[c].cur}
      BY <1>1, <1>6, CallsMade DEF FindLinked
    <2>2. LinksTo(k) \subseteq todo
      BY <1>3, <1>6, <2>1 DEF LinksTo
    <2> QED
      BY <1>2, <1>5, <2>1, <2>2
  <1>7. CASE pc[c] = "deleteLinked" /\ LinksTo(k) \subseteq loc[c].todo
    <2>1. PICK i \in loc[c].todo : tokens' = Drop(tokens, {i}) /\ LinkedDone(c, loc[c].todo \ {i})
      BY <1>1, <1>7, CallsMade DEF DeleteLinked
    <2>2. i \notin LinksTo(k)'
      BY <2>1 DEF LinksTo, Stored, Drop
    <2> QED
      BY <1>2, <1>5, <1>7, <2>1, <2>2
  <1>8. ~(pc[c] \in HalfDone /\ LinkedWithin(k, loc[c].subject))
    <2> SUFFICES ASSUME pc[c] \in HalfDone, LinkedWithin(k, loc[c].subject) PROVE FALSE
      OBVIOUS
    <2>1. tokens' = Drop(tokens, OfSubject(tokens, loc[c].subject, {"refresh"}))
      BY <1>1, CallsMade DEF HalfDone, ReplaceRefresh, LogoutRefresh
    <2> QED
      BY <1>1, <1>2, <1>3, <2>1 DEF Drop, Typed, StoreShaped
  <1>9. CASE loc[c].op = "Refresh" /\ pc[c] = "findOthers" /\ LinkedWithin(k, loc[c].subject)
    <2> DEFINE others == OfSubject(tokens, loc[c].subject, {"refresh"}) \ {StoreKey(loc[c].ref)}
    <2>1. Go(c, IF others = {} THEN "saveAccess" ELSE "deleteOthers", [loc[c] EXCEPT !.todo = others])
      BY <1>1, <1>9, CallsMade DEF FindOthers
    <2>2. LinksTo(k) \subseteq others \cup {StoreKey(loc[c].ref)}
      BY <1>3, <1>9
    <2>3. others # {}
      BY <1>2, <1>4, <1>9, <2>2
    <2> HIDE DEF others
    <2>4. pc'[c] = "deleteOthers" /\ loc'[c] = [loc[c] EXCEPT !.todo = others]
      BY <1>1, <2>1, <2>3
    <2>5. loc'[c].todo = others /\ loc'[c].ref = loc[c].ref /\ loc'[c].op = "Refresh"
      BY <1>1, <1>9, <2>4, Fields
    <2> QED
      BY <1>2, <2>2, <2>4, <2>5 DEF Cutting
  <1>10. CASE /\ loc[c].op = "Refresh" /\ pc[c] = "deleteOthers"
              /\ LinksTo(k) \subseteq loc[c].todo \cup {StoreKey(loc[c].ref)}
    <2>1. PICK i \in loc[c].todo :
            /\ tokens' = Drop(tokens, {i})
            /\ Go(c, IF loc[c].todo = {i} THEN "saveAccess" ELSE "deleteOthers",
                  [loc[c] EXCEPT !.todo = @ \ {i}])
      BY <1>1, <1>10, CallsMade DEF DeleteOthers
    <2>2. i \notin LinksTo(k)'
      BY <2>1 DEF LinksTo, Stored, Drop
    <2>3. loc[c].todo # {i}
      BY <1>2, <1>4, <1>10, <2>2
    <2>4. pc'[c] = "deleteOthers" /\ loc'[c] = [loc[c] EXCEPT !.todo = @ \ {i}]
      BY <1>1, <2>1, <2>3
    <2>5. loc'[c].todo = loc[c].todo \ {i} /\ loc'[c].ref = loc[c].ref /\ loc'[c].op = "Refresh"
      BY <1>1, <1>10, <2>4, Fields
    <2> QED
      BY <1>2, <1>10, <2>2, <2>4, <2>5 DEF Cutting
  <1> QED
    BY <1>6, <1>7, <1>8, <1>9, <1>10 DEF Cutting

\* Whoever takes a token away goes on to the refresh tokens that name it.
LEMMA RemovalCuts ==
  ASSUME NEW c \in Client, Furthers(c), NEW k \in IssuedKeys, tokens[k] # NoEntry, tokens'[k] = NoEntry,
         NEW j \in LinksTo(k)', GoesOn(j)'
  PROVE  Cutting(c, k)'
  <1>1. /\ Runs(c) /\ Core /\ Typed /\ AllLose /\ Located(c) /\ Promise(c) /\ Promised /\ ~AliasArgs
        /\ setup' = setup
        /\ Leave(c) => pc'[c] = "idle"
        /\ \A label, locals : Go(c, label, locals) => pc'[c] = label /\ loc'[c] = locals
    BY FurthersKnows DEF Advances, Frame
  <1>2. j \in LinksTo(k) /\ GoesOn(j)
    BY GoesOnSince
  <1>3. k \in Token /\ tokens[k].state.kind \notin OneTime
    BY <1>1, <1>2, IssuedKeysTyped, OneTimeKeys DEF Core
  <1>4. ASSUME NEW subject, LinkedWithin(k, subject)
        PROVE  \A i \in LinksTo(k)' : tokens'[i].state.subject = subject
    BY <1>1, <1>4, LossLinks
  <1>5. LinkedWithin(k, tokens[k].state.subject)
    BY <1>1, <1>3 DEF Promised, Chained, LinkedWithin
  <1>6. RevokeRefreshOnLogout
    BY DEF Furthers
  <1>7. CASE DeleteAccess(c) /\ k = loc[c].cur
    <2>1. /\ pc[c] = "deleteAccess" /\ loc[c].op = "Logout"
          /\ pc'[c] = "findLinked" /\ loc'[c] = loc[c]
      BY <1>1, <1>6, <1>7 DEF DeleteAccess, Calls
    <2>2. LinkedWithin(k, loc[c].subject)
      BY <1>1, <1>7, <2>1 DEF Promise, LogsOut
    <2> QED
      BY <1>4, <1>7, <2>1, <2>2 DEF Cutting, LinkedWithin
  <1>8. ~(RevokeOldAccess(c) /\ k = loc[c].snap.access)
    <2> SUFFICES ASSUME RevokeOldAccess(c), k = loc[c].snap.access PROVE FALSE
      OBVIOUS
    <2>1. pc[c] = "revokeOld" /\ loc[c].op = "Refresh"
      BY <1>1 DEF RevokeOldAccess, Calls, Located
    <2>2. j = StoreKey(loc[c].ref)
      BY <1>1, <1>2, <2>1 DEF Promise, Renews, Before
    <2> QED
      BY <1>1, <1>2, <2>1, <2>2, HeldRests DEF Before
  <1>9. ~(Rollback(c) /\ k = StoreKey(loc[c].acc))
    <2> SUFFICES ASSUME Rollback(c), k = StoreKey(loc[c].acc) PROVE FALSE
      OBVIOUS
    <2>1. loc[c].op = "Refresh"
      BY DEF Rollback, Calls, Furthers, Lost
    <2>2. loc[c].acc \notin issued
      BY <1>1, <2>1 DEF Core, AccessIsNew, NewAccess, Issuing
    <2> QED
      BY <2>2, KeysDiffer DEF IssuedKeys
  <1>10. CASE Replace(c) /\ tokens[k].state.subject = loc[c].subject
    <2>1. /\ pc'[c] = IF KeepsRefresh(c) THEN "findOthers" ELSE "replaceRefresh"
          /\ loc'[c] = [loc[c] EXCEPT !.at = now]
      BY <1>1, <1>6, <1>10 DEF Replace
    <2>2. loc'[c].subject = loc[c].subject /\ loc'[c].op = loc[c].op
      BY <1>1, <2>1, Fields
    <2> QED
      BY <1>4, <1>5, <1>10, <2>1, <2>2 DEF Cutting, HalfDone, KeepsRefresh, LinkedWithin
  <1>11. CASE LogoutAccess(c) /\ tokens[k].state.subject = loc[c].subject
    <2>1. pc'[c] = "logoutRefresh" /\ loc'[c] = loc[c]
      BY <1>1, <1>6, <1>11 DEF LogoutAccess
    <2> QED
      BY <1>4, <1>5, <1>11, <2>1 DEF Cutting, HalfDone, LinkedWithin
  <1>12. CASE DeleteOnDevice(c) /\ k \in loc[c].targets
    <2>1. PICK h \in loc[c].targets :
            /\ tokens' = Drop(tokens, {h})
            /\ Go(c, "findLinked", [loc[c] EXCEPT !.targets = loc[c].targets \ {h}, !.cur = h])
      BY <1>6, <1>12 DEF DeleteOnDevice
    <2>2. h = k
      BY <1>3, <2>1 DEF Drop
    <2>3. /\ pc'[c] = "findLinked" /\ loc'[c].cur = k /\ loc'[c].subject = loc[c].subject
      BY <1>1, <2>1, <2>2, Fields
    <2>4. tokens[k].state.subject = loc[c].subject
      BY <1>12 DEF DeleteOnDevice, Calls, Furthers, Aims, OnDevice
    <2> QED
      BY <1>4, <1>5, <2>3, <2>4 DEF Cutting, LinkedWithin
  <1> QED
    BY <1>1, <1>3, <1>7, <1>8, <1>9, <1>10, <1>11, <1>12, RemovedBy

\* What is out of use for good is not gone on with.
LEMMA RetiredRests ==
  ASSUME Core', Sorts', NEW j, Retired(j)'
  PROVE  ~GoesOn(j)'
  <1>1. ~Usable(j)'
    BY DEF Retired, Usable, Core, Spent
  <1>2. ASSUME NEW d \in Client, Revives(d, j)' PROVE FALSE
    <2>1. /\ loc'[d].op = "Refresh" /\ pc'[d] = "restore" /\ j = StoreKey(loc'[d].ref)
          /\ tokens'[j].state = MarkConsumed(loc'[d].snap)
      BY <1>2 DEF Revives, ClaimedState, Matches
    <2>2. tokens'[j].state.status = "consumed"
      BY <2>1 DEF MarkConsumed
    <2>3. PICK t \in TokenValue : t = loc'[d].ref /\ Holds(d, t)'
      BY <2>1 DEF Core, Typed, Located, Holds, Before
    <2>4. redeemed'[t] = 0
      BY <2>3 DEF Core, Held
    <2> QED
      BY <2>1, <2>2, <2>3, <2>4, KeysDiffer DEF Retired
  <1> QED
    BY <1>1, <1>2 DEF GoesOn

LEMMA StepPursues ==
  ASSUME NEW c \in Client, Furthers(c)
  PROVE  Pursues'
  <1>1. /\ Runs(c) /\ Promised
        /\ \A d \in Client \ {c} : pc'[d] = pc[d] /\ loc'[d] = loc[d]
    BY FurthersKnows
  <1> SUFFICES ASSUME NEW k, k \in IssuedKeys', Attended(k)', NEW j \in LinksTo(k)', GoesOn(j)'
               PROVE  Pursued(k)'
    BY DEF Pursues
  <1>2. ~Severed(k)'
    BY RetiredRests DEF Severed, Furthers
  <1>3. Attended(k)
    <2>1. CASE k \in dead'
      BY <1>2, <2>1 DEF Furthers, Delivers, Laid, Excused, Attended
    <2>2. CASE \E d \in Client : loc'[d].op = "LogoutByDevice" /\ k \in loc'[d].covered
      <3>1. PICK d \in Client : loc'[d].op = "LogoutByDevice" /\ k \in loc'[d].covered
        BY <2>2
      <3>2. CASE d # c
        BY <1>1, <3>1, <3>2 DEF Attended
      <3>3. CASE d = c
        BY <1>1, <3>1, <3>3, DeviceKeeps DEF Attended, Furthers
      <3> QED
        BY <3>2, <3>3
    <2> QED
      BY <2>1, <2>2 DEF Attended
  <1>4. k \in IssuedKeys
    BY <1>1, <1>3 DEF Attended, Promised, Buried, Dead, Promise, Sweeps
  <1>5. j \in LinksTo(k) /\ GoesOn(j)
    BY <1>4, GoesOnSince
  <1>6. Pursued(k)
    BY <1>3, <1>4, <1>5 DEF Furthers, Pursues
  <1>7. CASE tokens[k] # NoEntry
    BY <1>4, <1>7, RemovalCuts DEF Pursued
  <1>8. ASSUME NEW d \in Client, Cutting(d, k) PROVE Cutting(d, k)'
    BY <1>1, <1>4, <1>8, OwnCut, OthersCut
  <1> QED
    BY <1>6, <1>7, <1>8 DEF Pursued

LEMMA StepLost ==
  ASSUME NEW c \in Client, Furthers(c), NEW d \in Client
  PROVE  Lost(d)'
  <1>1. /\ Runs(c) /\ Typed /\ Located(c) /\ now' = now /\ Atomic
        /\ \A e \in Client \ {c} : pc'[e] = pc[e] /\ loc'[e] = loc[e]
        /\ Leave(c) => pc'[c] = "idle"
        /\ \A label, locals : Go(c, label, locals) => pc'[c] = label /\ loc'[c] = locals
    BY FurthersKnows DEF Runs
  <1>2. CASE d # c
    <2> SUFFICES ASSUME pc[d] = "rollback", loc[d].op = "Refresh",
                        Matches(tokens', StoreKey(loc[d].ref), ClaimedState(d), now)
                 PROVE  FALSE
      BY <1>1, <1>2 DEF Furthers, Lost, ClaimedState
    <2>1. Matches(tokens, StoreKey(loc[d].ref), ClaimedState(d), now)
      BY <1>1, <1>2, OthersMatch
    <2> QED
      BY <2>1 DEF Furthers, Lost
  <1>3. CASE d = c /\ pc'[c] = "rollback"
    <2>1. SaveReused(c) /\ ~Succeed(c, {loc[c].acc}, Replaced(c) \ {StoreKey(loc[c].acc)})
      BY <1>1, <1>3, Whither DEF Succeed
    <2>2. /\ ~Matches(tokens, StoreKey(loc[c].ref), ClaimedState(c), now)
          /\ tokens' = tokens /\ loc'[c] = loc[c] /\ loc[c].op = "Refresh"
      BY <1>1, <2>1 DEF SaveReused, MayUpdate, SwapRefresh, Calls, Located
    <2> QED
      BY <1>1, <1>3, <2>2 DEF Lost, ClaimedState
  <1> QED
    BY <1>2, <1>3 DEF Lost

\* A flow that has stored its access token does not come back to that.
LEMMA BearingGoesOn ==
  ASSUME NEW c \in Client, Runs(c), pc[c] \in Bearing \cup {"restore"}
  PROVE  pc'[c] \in Bearing \cup {"restore", "idle"}
  <1>1. /\ Leave(c) => pc'[c] = "idle"
        /\ \A label, locals : Go(c, label, locals) => pc'[c] = label /\ loc'[c] = locals
    BY RunsKnows
  <1>2. \/ SyncSession(c) \/ SaveRefresh(c) \/ SaveRotated(c)
        \/ SaveReused(c) \/ Rollback(c) \/ RestoreRefresh(c)
    <2>1. AfterClaim \in {"revokeOld", "saveAccess", "replace"} /\ ClaimEntry = "claim"
      BY RunsKnows DEF AfterClaim, ClaimEntry, Runs
    <2> QED
      BY <2>1 DEF Runs, LoginStep, RefreshStep, AccessStep, Calls, SaveNonce, PeekNonce,
            ConsumeNonceState, JudgeNonce, Replace, ReplaceRefresh, FindOthers, DeleteOthers,
            SaveAccess, LoadRefresh, PeekRefresh, ClaimRefresh, ClaimExpired, RevokeOldAccess,
            Get, EvictExpired, Update, DeleteAccess, FindLinked, DeleteLinked, FindDevice,
            DeleteOnDevice, LogoutAccess, LogoutRefresh, DropSession, RevokeAll, GetRefresh, Revoke,
            Bearing
  <1> QED
    BY <1>1, <1>2 DEF SyncSession, SaveRefresh, SaveRotated, SaveReused, Rollback, RestoreRefresh,
                      GiveUp, Succeed, Fail, Bearing

LEMMA SettledStays ==
  ASSUME NEW c \in Client, Runs(c), NEW t, Settled(t)
  PROVE  Settled(t)'
  <1>1. /\ Advances(c) /\ used' = used /\ issued \subseteq issued'
        /\ \A d \in Client \ {c} : pc'[d] = pc[d] /\ loc'[d] = loc[d]
    BY DEF Runs, Advances, Frame, Leaves, Stays
  <1>2. ASSUME NEW d \in Client, t \in NewAccess(d)' PROVE pc'[d] \in Bearing \cup {"restore"}
    <2>1. t \in NewAccess(d)
      BY <1>1, <1>2, NothingMore
    <2>2. pc'[d] # "idle" \/ d # c
      <3>1. pc'[c] = "idle" => Blank.op = "none" /\ loc'[c] = Blank
        BY <1>1 DEF Advances, Leaves, Stays, Blank
      <3> QED
        BY <1>2, <3>1 DEF NewAccess, Issuing, LoginOps
    <2> QED
      BY <1>1, <2>1, <2>2, BearingGoesOn DEF Settled
  <1>3. ASSUME NEW d \in Client, t \in Offered(d)' PROVE t \in issued'
    <2>1. t \in Offered(d)
      BY <1>1, <1>3, NothingMore
    <2> QED
      BY <1>1, <2>1 DEF Settled
  <1> QED
    BY <1>1, <1>2, <1>3 DEF Settled

\* What is stored was stored by the request that bears it, or handed out.
LEMMA StoredIsSettled ==
  ASSUME Core, ~AliasArgs, Quiet, Undisturbed, NEW t \in TokenValue, tokens[StoreKey(t)] # NoEntry,
         tokens[StoreKey(t)].state.kind = "access"
  PROVE  Settled(t)
  <1>1. StoreKey(t) \in Token
    BY KeysDiffer
  <1>2. t \in used
    BY <1>1, KeysDiffer DEF Core, Typed, StoreShaped
  <1>3. t \in issued \/ \E d \in Client : Bears(d, t)
    BY DEF Quiet, Owned
  <1>4. ASSUME NEW d \in Client, t \in NewAccess(d) PROVE pc[d] \in Bearing \cup {"restore"}
    BY <1>3, <1>4 DEF Core, AccessIsNew, Bears
  <1>5. ASSUME NEW d \in Client, t \in Offered(d) PROVE t \in issued
    BY <1>3, <1>5 DEF Core, Disjoint, IsOneTime, Bears
  <1> QED
    BY <1>2, <1>4, <1>5 DEF Settled

LEMMA StepAims ==
  ASSUME NEW c \in Client, Furthers(c), NEW d \in Client
  PROVE  Aims(d)'
  <1>1. /\ Runs(c) /\ Core /\ Typed /\ Advances(c) /\ ~AliasArgs
        /\ \A e \in Client \ {c} : pc'[e] = pc[e] /\ loc'[e] = loc[e]
    BY FurthersKnows
  <1> SUFFICES ASSUME loc'[d].op = "LogoutByDevice", pc'[d] \in OnDevice, NEW k, k \in loc'[d].targets
               PROVE  /\ \E t \in TokenValue : k = StoreKey(t) /\ Settled(t)'
                      /\ tokens'[k] # NoEntry => tokens'[k].state.subject = loc'[d].subject
    BY DEF Aims
  <1>2. CASE /\ loc[d].op = "LogoutByDevice" /\ pc[d] \in OnDevice /\ k \in loc[d].targets
             /\ loc'[d].subject = loc[d].subject
    <2>1. PICK t \in TokenValue : k = StoreKey(t) /\ Settled(t)
      BY <1>2 DEF Furthers, Aims
    <2>2. tokens[k] # NoEntry => tokens[k].state.subject = loc[d].subject
      BY <1>2 DEF Furthers, Aims
    <2>3. k \in Token
      BY <2>1, KeysDiffer
    <2>4. ~PutAccess(c, k)
      <3> SUFFICES ASSUME PutAccess(c, k) PROVE FALSE
        OBVIOUS
      <3>1. t \in NewAccess(c) /\ pc[c] = "saveAccess"
        BY <2>1, KeysDiffer DEF PutAccess, NewAccess
      <3> QED
        BY <2>1, <3>1 DEF Settled, Bearing
    <2>5. ~PutOneTime(c, k)
      BY <1>1, <2>1, <2>3, StoringIsNew DEF Settled
    <2>6. tokens'[k] = tokens[k] \/ tokens'[k] = NoEntry \/ Kept(k) \/ PutBack(c, k)
      BY <1>1, <2>3, <2>4, <2>5 DEF Advances, Effect
    <2>7. tokens'[k] # NoEntry =>
            tokens[k] # NoEntry /\ tokens'[k].state.subject = tokens[k].state.subject
      BY <2>6 DEF Kept, PutBack, SameBearer
    <2>8. Settled(t)'
      BY <1>1, <2>1, SettledStays
    <2> QED
      BY <1>2, <2>1, <2>2, <2>7, <2>8
  <1>3. CASE /\ d = c /\ UNCHANGED tokens /\ loc'[c].subject = loc[c].subject
             /\ loc'[c].targets \subseteq OfSubject(tokens, loc[c].subject, {"access"})
    <2>1. /\ k \in Token /\ tokens[k] # NoEntry /\ tokens[k].state.kind = "access"
          /\ tokens[k].state.subject = loc[c].subject
      BY <1>3 DEF OfSubject, MatchKind, Stored
    <2>2. PICK t \in TokenValue : k = StoreKey(t)
      BY <2>1 DEF Token
    <2>3. Settled(t)'
      BY <1>1, <2>1, <2>2, StoredIsSettled, SettledStays DEF Furthers
    <2> QED
      BY <1>3, <2>1, <2>2, <2>3
  <1>4. d = c => /\ loc[c].op = "LogoutByDevice" /\ loc'[c].subject = loc[c].subject
                 /\ \/ loc'[c].targets \subseteq loc[c].targets /\ pc[c] \in OnDevice
                    \/ /\ UNCHANGED tokens
                       /\ loc'[c].targets \subseteq OfSubject(tokens, loc[c].subject, {"access"})
    BY <1>1, DeviceKeeps DEF Furthers
  <1> QED
    BY <1>1, <1>2, <1>3, <1>4

LEMMA StartCuts ==
  ASSUME Cuts, Core, Atomic, ~AliasArgs, Lasting, UNCHANGED setup, NEW c \in Client, Start(c)
  PROVE  Cuts'
  <1>1. /\ pc[c] = "idle" /\ UNCHANGED <<tokens, now, issued, dead, faults, cancels, crashes>>
        /\ \A d \in Client \ {c} : pc'[d] = pc[d] /\ loc'[d] = loc[d]
        /\ pc'[c] \in Doors /\ ByDevice(c)' /\ IssuedKeys' = IssuedKeys
    BY StartsAt DEF Core, IssuedKeys
  <1>2. Opens(c)
    BY StartOpens DEF Core
  <1>3. OnlyByDevice'
    BY <1>1 DEF Cuts, OnlyByDevice, ByDevice
  <1>4. \A k : LinksTo(k)' = LinksTo(k)
    BY <1>1 DEF LinksTo, Stored
  <1>5. ASSUME NEW d \in Client, NEW k, Cutting(d, k) PROVE Cutting(d, k)'
    <2>1. d # c
      BY <1>1, <1>5 DEF Cutting, HalfDone
    <2>2. pc'[d] = pc[d] /\ loc'[d] = loc[d] /\ tokens' = tokens
      BY <1>1, <2>1
    <2> QED
      BY <1>4, <1>5, <2>2 DEF Cutting, LinkedWithin
  <1>6. ASSUME NEW j, GoesOn(j)' PROVE GoesOn(j)
    <2>1. ASSUME NEW d \in Client, Revives(d, j)' PROVE Revives(d, j)
      <3>1. d # c
        BY <1>1, <2>1 DEF Revives, Doors
      <3> QED
        BY <1>1, <2>1, <3>1 DEF Revives, ClaimedState
    <2> QED
      BY <1>1, <1>6, <2>1 DEF GoesOn, Usable
  <1>7. ASSUME NEW k, Attended(k)' PROVE Attended(k) \/ tokens[k] # NoEntry
    BY <1>1, <1>7 DEF Attended, ByDevice, Stored
  <1>8. ASSUME Pursues PROVE Pursues'
    <2> SUFFICES ASSUME NEW k \in IssuedKeys, Attended(k)', NEW j \in LinksTo(k), GoesOn(j)'
                 PROVE  Pursued(k)'
      BY <1>1, <1>4 DEF Pursues
    <2>1. Pursued(k)
      BY <1>6, <1>7, <1>8 DEF Pursues, Pursued
    <2> QED
      BY <1>1, <1>5, <2>1 DEF Pursued
  <1>9. ASSUME NEW d \in Client, Lost(d) PROVE Lost(d)'
    BY <1>1, <1>9 DEF Lost, ClaimedState, Doors
  <1>10. ASSUME NEW t, Settled(t) PROVE Settled(t)'
    <2>1. ASSUME NEW e \in Client \ {c}
          PROVE  /\ t \in NewAccess(e)' => pc'[e] \in Bearing \cup {"restore"}
                 /\ t \in Offered(e)' => t \in issued
      BY <1>2, <1>10, OthersOffer DEF Settled
    <2>2. t \notin NewAccess(c)' /\ (t \in Offered(c)' => t \in issued) /\ t \in used'
      BY <1>2, <1>10 DEF Opens, Settled
    <2> QED
      BY <1>1, <2>1, <2>2 DEF Settled
  <1>11. ASSUME NEW d \in Client, Aims(d) PROVE Aims(d)'
    <2>1. CASE d = c
      BY <1>1, <2>1 DEF Aims, OnDevice, Doors
    <2>2. CASE d # c
      BY <1>1, <1>10, <1>11, <2>2 DEF Aims
    <2> QED
      BY <2>1, <2>2
  <1> QED
    BY <1>1, <1>3, <1>8, <1>9, <1>11 DEF Cuts, Undisturbed, RevokeRefreshOnLogout

LEMMA TickCuts ==
  ASSUME Cuts, Core, Sorts, Promised, Endless, UNCHANGED setup, Tick
  PROVE  Cuts'
  <1>1. /\ UNCHANGED <<pc, loc, issued, used, dead, faults, cancels, crashes>>
        /\ now' = now + 1 /\ now \in Nat /\ IssuedKeys' = IssuedKeys /\ AllLose
    BY TickLoses DEF Tick, ghost, budget, Core, Typed, StoreShaped, IssuedKeys
  <1>2. \A k \in Token : tokens'[k] = tokens[k] \/ tokens'[k] = NoEntry
    BY DEF Tick, Drop
  <1>3. ASSUME NEW j, NEW s, Matches(tokens', j, s, now') PROVE Matches(tokens, j, s, now)
    <2>1. /\ j \in Token /\ tokens[j] # NoEntry /\ tokens[j].state = s
          /\ ~EntryExpired(tokens[j], now + 1)
      BY <1>1, <1>2, <1>3 DEF Matches, Live, Stored
    <2>2. tokens[j].expiresAt \in Deadline /\ tokens[j].state.expiresAt \in Deadline
      BY <2>1, ReadTyped, SoundTyped DEF Sorts
    <2>3. ~EntryExpired(tokens[j], now)
      BY <1>1, <2>1, <2>2 DEF EntryExpired, IsExpired, Passed, Deadline, Never
    <2> QED
      BY <2>1, <2>3 DEF Matches, Live, Stored
  <1>4. ASSUME NEW d \in Client, NEW k \in IssuedKeys, Cutting(d, k) PROVE Cutting(d, k)'
    <2>1. LinksTo(k)' \subseteq LinksTo(k)
      BY <1>1, LossLinks
    <2>2. \A s : LinkedWithin(k, s) => \A j \in LinksTo(k)' : tokens'[j].state.subject = s
      BY <1>1, LossLinks
    <2> QED
      BY <1>1, <1>4, <2>1, <2>2 DEF Cutting, LinkedWithin
  <1>5. ASSUME NEW j \in Token, GoesOn(j)' PROVE GoesOn(j)
    <2>1. ASSUME NEW d \in Client, Revives(d, j)' PROVE Revives(d, j)
      BY <1>1, <1>3, <2>1 DEF Revives, ClaimedState
    <2> QED
      BY <1>2, <1>5, <2>1 DEF GoesOn, Usable
  <1>6. ASSUME Pursues PROVE Pursues'
    <2> SUFFICES ASSUME NEW k \in IssuedKeys, Attended(k), NEW j \in LinksTo(k)', GoesOn(j)'
                 PROVE  Pursued(k)'
      BY <1>1 DEF Pursues, Attended
    <2>1. j \in LinksTo(k) /\ j \in Token /\ k \in Token
      BY <1>1, LossLinks, IssuedKeysTyped DEF LinksTo, Stored, Core
    <2>2. Pursued(k)
      BY <1>5, <1>6, <2>1 DEF Pursues
    <2>3. tokens[k] # NoEntry => tokens'[k] = tokens[k]
      BY <2>1, OneTimeKeys, TickSpares DEF Core
    <2> QED
      BY <1>4, <2>2, <2>3 DEF Pursued
  <1>7. ASSUME NEW d \in Client, Lost(d) PROVE Lost(d)'
    BY <1>1, <1>3, <1>7 DEF Lost, ClaimedState
  <1>8. ASSUME NEW t, Settled(t) PROVE Settled(t)'
    <2>1. \A d \in Client : NewAccess(d)' = NewAccess(d) /\ Offered(d)' = Offered(d)
      BY <1>1 DEF NewAccess, Offered, RotateRefreshToken
    <2> QED
      BY <1>1, <1>8, <2>1 DEF Settled
  <1>9. ASSUME NEW d \in Client, Aims(d) PROVE Aims(d)'
    <2> SUFFICES ASSUME loc[d].op = "LogoutByDevice", pc[d] \in OnDevice, NEW k \in loc[d].targets
                 PROVE  /\ \E t \in TokenValue : k = StoreKey(t) /\ Settled(t)'
                        /\ tokens'[k] # NoEntry => tokens'[k].state.subject = loc[d].subject
      BY <1>1 DEF Aims
    <2>1. PICK t \in TokenValue : k = StoreKey(t) /\ Settled(t)
      BY <1>9 DEF Aims
    <2>2. tokens'[k] = tokens[k] \/ tokens'[k] = NoEntry
      BY <1>2, <2>1, KeysDiffer
    <2> QED
      BY <1>8, <1>9, <2>1, <2>2 DEF Aims
  <1> QED
    BY <1>1, <1>6, <1>7, <1>9 DEF Cuts, Undisturbed, RevokeRefreshOnLogout, OnlyByDevice

LEMMA StepCuts ==
  ASSUME Cuts, Core, Core', Sorts, Sorts', Promised, Quiet, Endless, Atomic, ~AliasArgs, Lasting,
         UNCHANGED setup, NEW c \in Client, LoginStep(c) \/ RefreshStep(c) \/ AccessStep(c)
  PROVE  Cuts'
  <1>1. Runs(c)
    BY StepRuns
  <1>2. Delivers(c)
    <2>1. Onward(c)
      BY <1>1 DEF Onward, Runs, Promised
    <2> QED
      BY <2>1, LoginStepDelivers, RefreshStepDelivers, AccessStepDelivers
  <1>3. OnlyByDevice'
    BY <1>1, StepOnlyByDevice DEF Cuts
  <1>4. ASSUME RevokeRefreshOnLogout, Undisturbed'
        PROVE  Pursues' /\ \A d \in Client : Lost(d)' /\ Aims(d)'
    <2>1. Undisturbed
      BY <1>4, StepCounted DEF Quiet, Step
    <2>2. Furthers(c)
      BY <1>1, <1>2, <1>4, <2>1 DEF Furthers, Cuts
    <2> QED
      BY <2>2, StepPursues, StepLost, StepAims
  <1> QED
    BY <1>3, <1>4 DEF Cuts, RevokeRefreshOnLogout

LEMMA NextCuts ==
  ASSUME Inv, Sorts, Promised, Quiet, Endless, Cuts, ~AliasArgs, Lasting, [Next]_vars
  PROVE  Cuts'
  <1>1. UNCHANGED setup /\ Core /\ Atomic /\ Typed /\ Counted
    BY NextCarries DEF Inv, Core, Quiet
  <1>2. ASSUME NEW c \in Client, Start(c) PROVE Cuts'
    BY <1>1, <1>2, StartCuts
  <1>3. ASSUME NEW c \in Client, LoginStep(c) \/ RefreshStep(c) \/ AccessStep(c) PROVE Cuts'
    <2>1. Core' /\ Sorts'
      BY NextInv, NextSorts DEF Inv
    <2> QED
      BY <1>1, <1>3, <2>1, StepCuts
  <1>4. CASE Tick
    BY <1>1, <1>4, TickCuts
  <1>5. ASSUME NEW c \in Client, CallError(c) PROVE Cuts'
    <2>1. ~Undisturbed' /\ \A d \in Client \ {c} : pc'[d] = pc[d] /\ loc'[d] = loc[d]
      BY <1>1, <1>5 DEF CallError, Leave, Counted, Undisturbed, Typed
    <2>2. loc'[c].op # "LogoutByDevice"
      <3>1. Leave(c) => loc'[c] = Blank
        BY <1>1 DEF Leave, Typed
      <3>2. CASE OwesRelease(c) \/ pc[c] \in {"saveRefresh", "saveNext"}
        BY <1>1, <1>5, <3>1, <3>2 DEF CallError, OwesRelease, Typed, Located, Blank
      <3>3. CASE Leave(c)
        BY <3>1, <3>3 DEF Blank
      <3> QED
        BY <1>5, <3>2, <3>3 DEF CallError
    <2> QED
      BY <2>1, <2>2 DEF Cuts, OnlyByDevice
  <1>6. ASSUME NEW c \in Client, Crash(c) PROVE Cuts'
    <2>1. /\ ~Undisturbed' /\ loc'[c] = Blank
          /\ \A d \in Client \ {c} : pc'[d] = pc[d] /\ loc'[d] = loc[d]
      BY <1>1, <1>6 DEF Crash, Leave, Typed, Counted, Undisturbed
    <2>2. Blank.op # "LogoutByDevice"
      BY DEF Blank
    <2> QED
      BY <2>1, <2>2 DEF Cuts, OnlyByDevice
  <1>7. ASSUME NEW c \in Client, Cancel(c) PROVE Cuts'
    <2>1. UNCHANGED <<pc, loc>> /\ ~Undisturbed'
      BY <1>1, <1>7 DEF Cancel, Counted, Undisturbed
    <2> QED
      BY <2>1 DEF Cuts, OnlyByDevice
  <1>8. CASE UNCHANGED vars
    <2>1. UNCHANGED <<tokens, now, issued, used, dead, pc, loc, faults, cancels, crashes>>
      BY <1>8 DEF vars, store, ghost, budget
    <2>2. Pursues => Pursues'
      BY <2>1 DEF Pursues, Attended, Pursued, Cutting, GoesOn, Revives, ClaimedState, IssuedKeys,
                  LinksTo, LinkedWithin, Stored, Usable
    <2>3. \A d \in Client : (Lost(d) => Lost(d)') /\ (Aims(d) => Aims(d)')
      BY <1>1, <2>1 DEF Lost, ClaimedState, Aims, Settled, NewAccess, Offered, RotateRefreshToken
    <2> QED
      BY <1>1, <2>1, <2>2, <2>3 DEF Cuts, OnlyByDevice, Undisturbed, RevokeRefreshOnLogout
  <1> QED
    BY <1>2, <1>3, <1>4, <1>5, <1>6, <1>7, <1>8 DEF Next, Step

LEMMA InitCuts ==
  ASSUME Init
  PROVE  Cuts
  <1>1. Stored(tokens) = {} /\ \A c \in Client : pc[c] = "idle" /\ loc[c] = Blank
    BY DEF Init, Stored
  <1>2. Blank.op # "LogoutByDevice"
    BY DEF Blank
  <1>3. Pursues /\ \A c \in Client : Lost(c) /\ Aims(c)
    BY <1>1, <1>2 DEF Pursues, LinksTo, Lost, Aims
  <1> QED
    BY <1>1, <1>2, <1>3 DEF Cuts, OnlyByDevice

\* While no call fails, what a returned logout by device promises holds once all is quiet:
\* no usable refresh token names a token that is promised unusable.  A logout whose
\* lookup misses a token that another request has just deleted may return before the refresh
\* tokens that name it are gone, but the other request is on its way to them, and a refresh
\* that holds one of them does not bring it back (core/online.go: LogoutByDevice;
\* core/manager.go: revokeRefreshForAccessToken; core/refresh.go: Refresh).
THEOREM DeviceLogoutSevers == Spec /\ Atomic /\ ~AliasArgs /\ Lasting => []QuietLogoutSevers
  <1>1. Init => Cuts
    BY InitCuts
  <1>2. /\ Inv /\ Sorts /\ Promised /\ Quiet /\ Endless /\ Cuts
        /\ ~AliasArgs /\ Lasting /\ [Next]_vars
        => Cuts' /\ ~AliasArgs' /\ Lasting'
    <2>1. Inv /\ [Next]_vars => UNCHANGED setup
      BY NextCarries
    <2> QED
      BY <2>1, NextCuts DEF AliasArgs, Lasting, Timeout, ActiveTimeout, RenewTTL
  <1>3. Inv /\ Promised /\ Cuts => QuietLogoutSevers
    <2> SUFFICES ASSUME Core, Promised, Cuts, AllIdle, Undisturbed, RevokeRefreshOnLogout,
                        NEW j \in Stored(tokens), Usable(j), tokens[j].state.kind = "refresh",
                        tokens[j].state.access \in dead
                 PROVE  FALSE
      BY DEF Inv, QuietLogoutSevers, LogoutSeversRefresh
    <2>1. PICK k : k = tokens[j].state.access
      OBVIOUS
    <2>2. j \in LinksTo(k) /\ Dead(k) /\ k \in IssuedKeys /\ j \in Token
      BY <2>1 DEF LinksTo, Promised, Buried, Dead, Stored
    <2>3. k \in Token
      BY <2>2, IssuedKeysTyped DEF Core
    <2>4. Pursued(k)
      BY <2>1, <2>2 DEF Cuts, Pursues, Attended, GoesOn
    <2>5. tokens[k] # NoEntry /\ Retired(k)
      BY <2>2, <2>4 DEF Pursued, Cutting, AllIdle, HalfDone, Dead
    <2>6. tokens[k].state.kind \notin OneTime
      BY <2>2, <2>3, <2>5, OneTimeKeys DEF Core
    <2>7. PICK t \in TokenValue : k = StoreKey(t) /\ redeemed[t] = 1
      BY <2>3, <2>5, <2>6 DEF Retired, Core, Typed, StoreShaped
    <2> QED
      BY <2>1, <2>2, <2>7 DEF Core, Disjoint, IsOneTime, LinksTo, Stored
  <1> QED
    BY <1>1, <1>2, <1>3, CarefulCallers, InvHolds, SortsHolds, PromisedHolds, QuietHolds,
       EndlessHolds, PTL DEF Spec
=============================================================================
