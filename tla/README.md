# A TLA+ model of better-token

better-token is a Go library that issues, refreshes and revokes login tokens. An application
calls a `Manager`; the Manager keeps every token as a `TokenState` in a store that any number
of processes may share; it announces what it did on an event bus, to which an audit sink or
the application listens. Nothing in it runs by itself: the concurrency is that of the requests
of the application, of the processes that share a store, and of the workers of the event bus.

This directory holds the specifications of its concurrent core, the TLC configurations that
check them, and machine-checked proofs about the three stores, the Manager, the event bus and the
way of a request to its handler. `PROJECT.json` maps each
definition to the source lines it stands for and lists the hazards the properties are for.

## Inventory

| component | state | operations | what is hard | what makes it correct |
|---|---|---|---|---|
| Token state (`core/token_state.go`, `state_lifetime.go`) | kind, subject, status, deadline, links | `IsActive`, `IsExpired`, `EffectiveExpiresAt`, `Mark*` | the instant of expiry; ttl 0 means no deadline | an expired or non-active state is never usable |
| Store contract (`core/store.go`) | a map of tokens, a map of sessions | 9 calls of `Store`, 3 of `AtomicStore` | must be atomic over every client | linearizable |
| Memory store (`storage/memory`) | two maps, an index by subject, an RWMutex | the 12 calls | clock read outside the lock, read-lock-to-write-lock upgrade, lazy eviction | implements the contract; the index agrees with the map |
| Database store (`storage/database`) | two tables | the same calls, one SQL statement or a few | rows judged after they were read; dialects that ignore `FOR UPDATE` | implements the contract; a state is consumed by one caller on every dialect |
| Redis store (`storage/redis`) | keys that expire, index sets, the markers and sessions of earlier versions | the same calls: read, decide, compare and write in a script | 32 retries, index members whose key is gone, bulk calls that are not atomic | implements the contract for one token; the index lists every stored token; a deletion by subject that succeeds misses none |
| Manager (`core/manager.go`, `refresh.go`, `nonce.go`, `online.go`) | none of its own: all of it is in the store | login, refresh, logout (3), revoke (2), renew, lookup, nonces, online marks | flows of up to eight store calls with anything in between: other flows, expiry, failing calls, cancelled contexts, crashes | what was revoked stays dead, one-time tokens are redeemed once, a failed flow leaves nothing usable, rotation is a chain |
| Session (`core/session.go`) | a map under a mutex, whose values may be maps and other sessions | set, set several, remove, clear, clone, marshal, numbers | shared maps, objects that contain each other, writes while a walk is under way; digits and exponents | a stored copy is nobody's but the store's; cycles are rejected, and nothing else; a number is exact or zero |
| SyncEventBus, NoopEventBus (`core/event.go`) | listeners | register, publish, clear | a listener that panics | every listener is called |
| AsyncEventBus (`core/async_event.go`) | listeners, a bounded queue, a WaitGroup, an RWMutex, a closed flag | register, publish, clear, flush, close, workers | a full queue with the lock held, close racing publish, abandoned flushes | no send on a closed queue, a flush covers what precedes it, calls return |
| Authorizers (`core/authorizer.go`, `rbac`) | who has which roles and permissions, what a role permits, each behind one RWMutex | assign, revoke, grant, set; has authority, list authorities | wildcards, two implementations, an answer made of several calls while the tables change | each answer was true at some moment; the list means what the question answers |
| Audit (`audit`) | none | event to record | no plain token in a log | |
| Plugins (`plugins`) | none | extract a token from header, cookie, query or metadata; authenticate; put token and subject in the context; write the cookie, pass the token on | order of the sources, prefixes, what is read and judged in different steps | who is served was the holder of the token; what the library writes it reads back |
| Generators, JWT (`token`), utilities (`pkg`), examples | none | | | |

How they interact: plugin → `Manager.GetTokenState` → store, then the handler → `Manager.Check*` →
authorizer; every flow of the Manager → a sequence of store calls, with `EventBus.Publish` after those
that events tell of: at its end, and in `Refresh` also in between (`refresh.go:204`); bus worker →
listener (audit). The request's `context.Context` goes down every one of these
calls, and each store call returns an error at once when the context is done.

## Modules

| module | models | built on |
|---|---|---|
| `TokenState` | statuses, deadlines and transitions of a token state | |
| `StoreOps` | what a store operation does to the map of tokens | `TokenState` |
| `StoreCalls` | the calls of the store interfaces, their arguments and answers | `StoreOps` |
| `AtomicStore` | the contract: every call takes effect at one instant | `StoreCalls` |
| `MemoryStore` | `storage/memory/store.go`, one step per critical section | `StoreCalls`, instance of `AtomicStore` |
| `DatabaseStore` | `storage/database/store.go`, one step per SQL statement | `StoreCalls`, instance of `AtomicStore` |
| `RedisStore` | `storage/redis/store.go`, `session.go`, one step per command or script | `StoreCalls`, instance of `AtomicStore` |
| `Manager` | the flows of `core.Manager`, one step per store call | `StoreOps` |
| `AsyncEventBus` | `core/async_event.go` with Go's RWMutex and WaitGroup | |
| `Authority` | the values of `core/authorizer.go` and the wildcard of both authorizers | |
| `RBAC`, `MemoryAuthorizer` | `rbac.Authorizer` and `core.MemoryAuthorizer`, one step per call | `Authority` |
| `TokenLookup` | where the plugins look for a token and where they write one | |
| `Access` | a request from the middleware to the answer of its handler, with everything that changes meanwhile | `TokenLookup`, `Authority`, `StoreOps`, instances of `RBAC` and `MemoryAuthorizer` |
| `SessionNumber` | `GetInt64` and `GetInt` | |
| `Session` | session objects, their copies and `MarshalJSON`, on a heap of maps | `SessionNumber` |
| `StoreCallsProofs` | lemmas about the operators that all stores use | `StoreCalls`, TLAPS |
| `MemoryStoreProofs`, `DatabaseStoreProofs`, `RedisStoreProofs` | theorems about these stores, among them that they implement `AtomicStore` | `StoreCallsProofs` |
| `ManagerProofs` | one-time use, revocation, rotation, failed flows, types | `Manager`, TLAPS |
| `ManagerLogoutProofs` | what logout promises, by device too, and what refresh tokens that nobody logged out can rely on | `ManagerProofs` |
| `AsyncEventBusProofs`, `AccessProofs` | theorems about these modules | TLAPS |
| `MC*` | inputs, constraints and symmetry of the runs | |

A definition whose comment begins with "Mutant:" or "Part of a mutant:" is not part of the model: it is a plausible
mistake in the definition that follows it, kept to show that a property would notice.

### The contract and the memory store

A token is stored under a key, the hash of what the caller holds. The map is a total function
from keys to entries, `NoEntry` for an absent one. Time is a natural number that `Tick`
advances; a deadline equal to the clock has passed, as in the code.

`AtomicStore` says what the three stores have in common, as weak as they need it and no weaker.

* A call that writes takes effect and returns in one step (`Perform`), with one or two clock
  readings made anywhere since it began: the code may read the clock before it waits for a lock.
* A call that reads, or finds nothing to change, answers from the map as it was at one instant
  of the call (`Observe` keeps that view) and from a clock reading of another (`Report`): the
  answer of a server is judged after it came back.
* What has expired may vanish at any moment (`Evict`, and with the clock in `Tick`: a Redis key
  goes by itself), and may still be listed by a lookup by subject, whose callers check each state
  themselves, or returned unconsumed by a consumption.
* A deletion of a session that was written again since the call looked at it may leave the
  new one: it counts as done just before.
* A call may be refused with an error and no effect (`Refuse`), which is not the same answer as
  *false*.

`MemoryStore` takes a step for each section under the mutex, and reads the clock where the code
does: before the lock for most calls, under it for the comparison of a compare-and-swap and for
`EnsureSession`. `GetTokenState` and `GetSession` are two sections (`GetRead`, then `GetRecheck`
when the entry looked expired) with the clock reading of the first. `FindTokenStates` and
`DeleteTokenStates` go through the index. The payload of a state (device, metadata, online
information) is one abstract value. The state expected by a compare-and-swap is a snapshot the
caller was given earlier, or that snapshot marked consumed.

### The database store

`DatabaseStore` takes a step for each SQL statement and one for the judgement, by a clock read in
Go, of the row that a SELECT returned, with the conditional statement that follows it. A statement
is atomic and waits for a row that another transaction has locked. The transaction of a
consumption is SELECT (`ConsumeSelect`), one of three ends (`ConsumeExpired`, `ConsumeInactive`,
`ConsumeUpdate`, the last with its commit) and the second SELECT after an UPDATE that hit no row
(`ConsumeReload`). `rowLocks` is chosen once, in the initial state: with it, `holder` keeps the
row for the transaction; without it, as on a dialect that drops `FOR UPDATE`, anything may happen
in between. The contract is claimed only with row locks. Without them, the DELETE of the expired
branch names the token only and may hit a row that was saved since; what is claimed then is
what a comment of the source claims, that one consumption wins (`SingleWinner`). `spent`
is history. Transactions that fail to commit are calls refused without effect.

### The Redis store

`RedisStore` takes a step for each command or script. A script compares what was read before
it writes; when the key has changed a save or a consumption starts again, `Attempts` times (32
in the source, 2 in the run: one failed comparison and the last one), then reports an error, and a
deletion reports one at once. A lookup is SMEMBERS, an MGET of the members, and a walk over
them in Go, in any order, which prunes each member whose key is missing or expired by a script
of its own; a deletion by subject then reads and deletes the tokens it found one by one.

A key has two deadlines: that of the state in it, judged in Go, and its own expiry, at which
`Tick` removes it. The expiry is counted by the server from the moment the script runs, from a
duration computed in Go before that (`KeyDeadline`), so the key may outlive the state; `Logical`,
in the mapping to the contract, takes the earlier one. The markers, indexes and sessions that
earlier versions wrote under other names are left out: a store that was never used by one has
none.

`inUse` is the set of tokens that callers use in a behaviour. With one, every call is atomic and
the contract is claimed. With several, a call by subject is not: the mapping then stands still
and claims nothing. What such a deletion promises when it reports success is `SuccessSweeps`.
`covered` is history: the tokens the deletion found its subject with, less those that were saved
again or expired since; marking one consumed does not take it out. Callers of several tokens make
the calls of `BulkOps` only.

### The Manager

`pc[c]` names the store call that request `c` makes next, `loc[c]` its locals. An action is one
store call together with the code up to the next one. `Start` holds the entry points with their
argument checks. The clock readings of a flow between two store calls coincide with the next
store call, except the ones that are seen to matter: the creation time of an access token that
replaces others (`at`), and the checks for expiry after a read (`EvictExpired`, `ClaimExpired`,
`JudgeNonce`), which may come later than the read.

The environment acts between any two steps: `Tick`, with expired entries evicted at once (the
contract allows it at any moment, and every flow repeats the check on what it read);
`Cancel`, after which every call of the request but the release of a claim answers with an
error; `CallError`, a call that fails without effect; `Crash`, the death of the process
that serves the request, with the store left as it is. A call that has its effect and *reports*
an error is not modelled.

`issued`, `dead` and `redeemed` are history: tokens that calls returned to callers, keys that
a returned call promised unusable, and how often a one-time token was redeemed. `dead` holds
what the operation covered when it began: the tokens issued by then. Only a call that returns success
promises anything.

The callers choose the new tokens, and `aliasArgs` says which old ones they may offer as such:
`"none"`; `"refused"`, the refresh token presented and the access token it names, for which `Refresh`
looks out (`refresh.go:153`, `:279`); `"any"`, whatever was ever handed out, to every flow that takes a
new token. The code compares a new token with nothing else, and a save replaces what is stored
under its key: whoever offers an old token brings it back. `recycled` holds the tokens this was done
to, and the properties of the Manager speak of the others. That exception is needed, and TLC finds a
violation when it is left out of any of them: `RotationIsLinear`, `DeadStaysDead`, `RedeemedOnce`,
`LogoutSeversRefresh`, `NeverResurrected`, `ClaimExclusive`, `RefreshHasAccess`, `RevocationFinal` (see "Where the code and its documents disagree").
In the setups with `"none"` and `"refused"` the set is empty and nothing is excepted.

A lifetime of 0 stands for one that outlasts the run: for access tokens that is also what the
code means by 0; a refresh timeout of 0 is replaced by seven days in `withDefaults`.

A behaviour has one `setup`, chosen in the initial state: the configuration, the operations that
are called, and the bounds. `MCManager` names the setups, and a run explores several.

With `atomicStore` the store has the calls of `core.AtomicStore`. Without it the Manager falls back
(`manager.go:493`): a look before each consumption (`PeekNonce`, `PeekRefresh`), a consumption of
whatever kind (`ConsumedKinds`), a plain save for a compare-and-swap (`MayUpdate`). That is safe for
one request at a time, and it is explored like that (`Legacy`, `LegacyReuse`); with two it
loses updates, as the comment in the source says. The setups with `atomicStore` assume calls that
are atomic, bulk deletion included; that is what `MemoryStore` and, with row locks,
`DatabaseStore` are shown to provide, and `RedisStore` for calls on one token. Events, which no
flow reads back, are left out.

### The event bus

`Publish` is two steps, the section under the read lock up to the channel send (`EnterPublish`)
and the send with the lock still held (`Enqueue`) or given up (`GiveUp`). A writer announces
itself and stops new readers before it waits for those inside, as Go's RWMutex does. `Flush`
runs the wait of the WaitGroup in a goroutine (`waiter`), which outlives a flush whose context
ends. A waiter that is woken (`Wake`) and finds the counter in use again panics, as Go's
WaitGroup does: `crashed`. A send on a closed channel also sets it.
Each listener is registered at most once, and a client
does not start a second flush while the goroutine of its first still waits.

### The way of a request, and who may do what

`Access` takes one step for each thing a request reads: `Extract` (the message alone), `Get` (the store),
`Judge` (the clock), `Renew` and `Sync` (the store again), then the handler's question, one
authority at a time (`Check`), or a call to another service with the token of its context
(`Forward`). In between tokens are issued, deleted, retired and expire, and an administrator makes
any call of the authorizer in use. The flows that write tokens are the Manager's; here each appears
by the one store call that a reader can tell. `site` is the set-up of the service, for good:
which authorizer, which prefix on each side, which sources are read, whether tokens renew
themselves. `NoopAuthorizer` is an authorizer in which nobody was granted anything.

Three variables are history, and the properties are stated with them: `valid` holds who was the
holder of which usable token since the request arrived, `held` and `lacked` what the user had and
did not have, name by name, since it was asked. They are kept by definitions that are not the
code's: `Covers` and `Entitled` read the tables by quantifiers, `HasAuthority` in the code's order.

Names are sequences of a few characters, one of them the star, because wildcards cut them. Headers are
sequences of words. Cookie attributes, the answer a middleware writes and the wrapper of a stream
are left out.

### Sessions

`Session` has a heap: an address per Go map, a session whose `Data` is an address, and slots that
hold plain values, numbers, addresses or sessions. `Clone` and the copies of the Manager and the
store are one operator, `Copy`; addresses that nothing reaches are given back at once.
`SaveSession` is two steps, the copy of the Manager and that of the store. `MarshalJSON` holds the lock
of one session at a time, so it is many steps: the copy, the search for cycles (`path`), the
encoder, which calls `MarshalJSON` of what it meets (`calls`). `quiet` says that no session changed
since it began; what it returns is claimed for that case only, since with a writer beside it there is
no one graph that it is about.

A number is set in a session that nothing else happens to, `SetNumber`: the conversion depends on
nothing but the number. The 63 bits and 19 digits of an int64 become `MaxInt` = 63 and two digits,
the narrower int 31.

## Runs

The runs of the Manager, of the event bus, of sessions and of requests stop at a bound, on the
number of calls or on the clock, so deadlock is not checked there. It is in the runs of the stores,
whose goroutines call for ever.

| run | question | bounds and why they are enough |
|---|---|---|
| `MemoryStore` | Is every call atomic, does the index always agree with the map, and is live session data kept? | Two goroutines, one key, two subjects, clock up to 2, an expiring and a permanent state, ttl 1; sessions of one subject with two payloads. Two goroutines are the least that interleave in the gap of `GetRecheck`; the key expires, is rebound to the other subject and is recreated within three instants. Keys do not interact except through a subject's index, which the proofs cover for any number. |
| `DatabaseStore` | Is every call atomic with row locks? Is a state consumed once without? | Two clients and one row, with clock up to 1: the deadline passes between any two statements, and the row is rebound and saved again between the SELECT of one client and its second statement. |
| `RedisStore` | Is every call on one token or session atomic, does the index list every stored token, and does a deletion by subject that succeeds miss none? | Two clients, clock up to 1, two attempts. With one key, every call; with two, saves, consumptions and deletions by subject (`BulkOps`): two members are the least that a walk visits one after the other, with a step of the other client at each place. Lookups and bulk deletions are made for one of the two subjects between which a key is rebound, by the kind filter `{access}`, which the other state does not match. |
| `ManagerRotate` | Is rotation safe against itself, logout and revocation? Does anything come back after expiry or logout? Is a nonce redeemed once? | `Rotation`: three requests at once, four in all, eight tokens, one failing call, one crash; the presented token and its access token offered as new ones. Four operations are a login, two refreshes of one token and a logout, or a login and three generations. `Recycling`: two requests at once, four in all, six tokens, any old token offered as new; a login, two refreshes and the first refresh token offered to the second, with an operation to spare. `Expiry`: five operations, three tokens, three instants: a nonce, the login with it, a renewal, an online mark and a logout. `Legacy`: five operations, one at a time, on a store without `AtomicStore`. |
| `ManagerReuse` | Is the claim of the non-rotating mode exclusive, and do revocation and logout beat it? Does a login with `Concurrent=false`, or a logout by device, kill what it covers? | `Reuse`: three requests at once, four in all, one failing call, one done context, one crash. `LegacyReuse`: the same, one at a time. `RecyclingReuse`: two at once, four in all, four tokens, any old token offered as new. `Replacement`: two at once, four in all, five tokens (two logins with a refresh token and a refresh), one done context. |
| `ManagerRelease` | Is the claim always released? | Two requests, two cancellations, refresh tokens that expire; no crash and no failing release (then it is not, see the hazards). |
| `AsyncEventBus` | Can publishers, flushes and closes hurt each other? | Three clients, one worker, a queue of one, three events (in hand, in the queue, and waiting for room), two other calls. |
| `Access` | Is a request served as the holder of its token, is what the library writes read back, and are the answers of the authorizers true? | One request that may be forwarded, one token, two users, a clock up to 1, three set-ups with each authorizer, prefix and cookie configuration; administrators of one user's grants. Requests do not see each other; what one reads is changed by the other actors, any number of times between two of its steps. |
| `Session` | Are stored copies detached, are exactly the cycles rejected, are numbers exact? | Three sessions, seven maps, two slots, three writes, saves or loads, symmetric in sessions and slots. Three writes make a cycle through two maps or two sessions, and a session beside it that is not part of it; one MarshalJSON at a time. |
| `ManagerRollback`, `ManagerLogoutRetry`, `ManagerLogoutRace` | See below. | The least that shows each. |

Requests are interchangeable, and symmetry over them is used in the runs of the Manager without
liveness; goroutines and keys are in those of the stores.

The three store runs have a constraint (`OneMap`, `OneTable`, `OneKind`): a behaviour uses tokens
or sessions, not both. The code has no operation that touches both, so their product adds
states and no behaviour. For the database, sessions are explored with row locks only, because no
call on a session takes one.

### Where the code and its documents disagree

* `ManagerRollback`: a failed save of the refresh token is to roll back the access token
  (`tasks/phase-2-roadmap-issues.md:214`). When it fails because the context is done, the
  deletion fails for the same reason and its error is dropped.
* `ManagerLogoutRetry`: logout is to revoke the linked refresh tokens
  (`tasks/prd-phase-2-roadmap.md:55`). `LogoutByDevice` deletes the access token first; if the
  next call fails, a second attempt finds no access token on the device and returns success
  with the refresh token alive.
* `ManagerLogoutRace`: a logout by login ID is to revoke every refresh token of the subject
  (`tasks/prd-phase-2-roadmap.md:59`). A rotating refresh that is past its claim saves its new
  token unconditionally. The non-rotating mode compares and swaps and is safe: the same
  property passes in `ManagerReuse`.

Two more are noted as hazards and have no run of their own. `Refresh` refuses as the next token the
one presented and its access token (`refresh.go:153`, `:279`) but not an earlier refresh token of the
chain: after a login with `r1` and a rotation from `r1` to `r2`, a rotation from `r2` to `r1` saves
`r1` as active again (`refresh.go:252`), the successor of its own successor. A refresh token that was
revoked comes back in the same way. `tasks/spec-phase-2-roadmap.md:854` has "rotated, revoked, expired
are terminal for the old refresh token", and `RotationIsLinear` without its exception is false of the
code in the setup `Recycling`. It takes a caller that offers a token twice; with random tokens it
does not happen. What `ManagerRotate` shows there is that the damage is confined to that token.

And with `Concurrent=false` a subject is to have
one valid token state (`tasks/better-token-final-spec.md:363`), and two logins at the same time
both delete, then both save. `ManagerReuse` shows what holds: what was issued before a login
began is dead when it returns.

### Fairness

`ManagerRelease` assumes weak fairness of the steps of each request: a goroutine that can go on
is scheduled. It does not assume that a request is started, a context done, or that time
passes. `AsyncEventBus` assumes weak fairness of the steps of a call and of the workers; Go's
scheduler runs runnable goroutines, and listeners are assumed to return. Lock acquisition needs
no more: an announced writer stops new readers. No fairness is assumed of `GiveUp` and
`Abandon`: a publisher's context need not ever be done. `CallsReturn` leaves out `Flush`,
which may wait for events published after it.

## Proofs

Every theorem holds for any values of the constants that satisfy the named assumptions of the
modules, all of them facts about inputs and about values that stand for nothing:

* `StoreAssumption`: inputs are states, ttls are natural numbers, `NoEntry` is no entry, session,
  payload or view; `HolderAssumption`: it is no client either. `RedisAssumption`: a call makes at
  least one attempt; callers of several tokens make no compare-and-swap.
* `ManagerAssumption`: setups are ones of `Setup`; a refresh configuration has a flag on, as
  `withDefaults` sees to; the tokens callers may choose are finitely many and enough for `maxTokens`.
* `BusAssumption`: finitely many clients and workers, a queue with room.
* `AccessAssumption`, `LookupAssumption`, `AuthorityAssumption`: tokens and names are words, and case
  is folded to words; `IssueAssumption`, `ListAssumption`: what is issued is a token state, what is
  asked a list of authorities; `RequestAssumption`: a request answers for every name a site looks up,
  and one may carry nothing.

**The refinements.** For each store `StoreImplements` says `Spec => ImplementsContract`. A step that
writes is a `Perform` of the contract, a step that reads an `Observe`, the judgement of what was read a
`Report`, a removal of what has expired an `Evict`, and the rest are stutters; `Underway` and `Shown` say
what phase of the contract a call is in and which view it has, and one lemma per action shows that
its step is such a step. In each proof the hard part is what a call has kept from its earlier steps,
which is an invariant of its own.

**Memory store.** `TypeCorrect`: `Spec => []TypeOK`. The type invariant is inductive as it stands
because it has one conjunct that is more than a type: a goroutine that is not idle holds a call and a
clock reading not in the future. `IndexCorrect`: `Spec => []IndexConsistent`, inductive relative to
`TypeOK`: each action stores one state, deletes a set of keys, or marks one state consumed, which moves
no key to another subject. `StoreImplements`: the mapping keeps every
variable but the index. A section that writes is a `Perform` of the contract, one that reads or finds
what it read gone is a `Report` on the map as it is, giving up the read lock is a stutter, and the
eviction in `FindTokenStates` an `Evict`. It uses `TypeOK` and `IndexConsistent`: a lookup by the index
is the contract's lookup by a scan of the map because the two agree. `SessionDataSafe`:
`Spec => SessionDataKept`, from the effect of each section on the map and from the clock: what a
goroutine found ended by its reading has ended still when it comes to evict it.

**Database store.** `ConsumedOnce`: `Spec => []SingleWinner`; `LockedUpdateHits`:
`Spec => []LockSuffices`. The invariant has three parts. `Shaped`: rows hold token states.
`WonIsSpent`: a row that was won since it was saved is not active, which is what makes a second UPDATE,
conditional on an active row, hit nothing, locks or no locks. `Held`: with row locks a client between
its SELECT and its UPDATE holds the row, which is still what it selected; every statement of another
client waits for it. `TypeCorrect`: `Spec => []TypeOK`, with the invariant `Typed`, which adds `Timely` (the
deadline of a row is no later than that of the state in it, so that the column the code judges by
decides as the state would) and `Kept` (what a call has of its first SELECT is the row it asked for, and
for a compare-and-swap equal to what it expects). `StoreImplements` is shown for stores with row
locks, where `Held` makes the row that is written the row that was judged. Without them the contract
is claimed of nothing: the mapping shows a store that nobody calls.

**Redis store.** `IndexComplete`: `Spec => []IndexCovers`. What is saved is added to its index by the
same script; what takes a key out of an index deletes it, rebinds it, or found it gone, in one script.
`SweepComplete`: `Spec => SuccessSweeps`. The invariant `Ahead` says where in a deletion each covered
token still is: listed in the index; then a member; then a member or found, with a value read that is
the stored one or that one marked consumed; then a match. A member passed over was missing or expired
when it was read, so it was not covered; one that changed ends the call with an error. That others act
in between needs no case per action: by `Track` a covered token changes only by being marked consumed,
and doing that twice is doing it once (`ConsumedOnceMore`).
`TypeCorrect`: `Spec => []TypeOK`, with `Kept`: a call that is about to run a script has read the keys it
asked for and no others, what it read had not expired by the clock it judged with, a compare-and-swap
found what it expects, and the matches of a walk are of the subject and the kinds asked for.
`StoreImplements` is shown for behaviours in which callers use one token, and for sessions; the store
of the contract is `LogicalMap`, where a key ends with the earlier of its two deadlines.
`KeyDeadlineCounts`: an expiry counted from the moment of the script amounts to the deadline the
contract computes, which is the reason the contract allows a second clock reading. A script whose
comparison fails changes nothing and is a stutter, or ends the call as a `Refuse`. What is judged in
Go is a `Report` on the MGET; `KeptAnswers` finds the clock reading for it where the code read the
clock twice, once to see that a token is not consumable and once to see whether it has expired.
`IndexComplete` is needed for a lookup that finds the index empty. With several tokens in use the
mapping stands still and nothing is claimed: `SweepComplete` is what such a deletion promises.

**Manager.** All theorems are about a store with the calls of `AtomicStore` (`Atomic`), any bounds and any
configuration in which the callers offer no old token as new but those for which `Refresh` looks out
(`~ReuseArgs`): with others the chain of a rotation is none, as said above, and no theorem is claimed; the runs
say what holds then. `Spec /\ Atomic /\ ~ReuseArgs` implies `[]RedeemedOnce` (`OneTimeRedeemedOnce`),
`[]ClaimExclusive` (`RefreshClaimExclusive`), `RevocationFinal` (`RevocationIsFinal`) and `[]RotationIsLinear`
(`RotationLinear`), with nothing excepted, since `recycled` stays empty. Where callers bring new tokens only
(`~AliasArgs`), `GoneForGood`: `Spec /\ Atomic /\ ~AliasArgs => NeverResurrected`.
None of the properties is inductive. The invariant `Core` adds what a request holds: `Held` (a token
between its claim or consumption and the end of the flow is out of use, not yet redeemed, and no other
request has it), `Spent` (a redeemed token is out of use for good), `Pending` and `Disjoint` (a
one-time token that is about to be stored has been offered by no other request and is neither an access
token nor named as one; the argument checks of Refresh see to that, and `Doomed` says of a request that
got past them with an alias that it is refused at the claim), `AccessIsNew`, and `Typed` (which operation
makes which store call, that nothing expired is stored, and `~ReuseArgs`). The forty store calls need no case each:
`Advances` says what a step may do to a key (`Kept`, `PutAccess`, `PutOneTime`, `PutBack`, or removal) and to
its request, one lemma per action shows that it does no more, and the conjuncts of `Core` are shown
once for `Advances`, once for a request that begins (`Opens`) and once for the clock.
`RotationLinear` adds `Rotated`: what a stored refresh token descends from was redeemed, and for it
alone; a second descendant would take a second redemption. `NothingLeftBehind`:
`Spec /\ Atomic /\ ~ReuseArgs => []NoOrphanAccess`, from the invariant `Quiet`: what is stored was handed out or is on
its way with the request that stored it, which will hand it out or delete it (`Owned`); a flow that logs
in has a subject, so the session call does not fail (`Subjected`); and until something is cancelled no
context is done, so the rollback is not cut short (`Counted`). `LogoutWins`:
`Spec /\ Atomic /\ ~ReuseArgs /\ ~RotateRefreshToken => LogoutBeatsRefresh`, since the swap at the end of such a
refresh finds the claimed token or fails; with rotation it is false (`ManagerLogoutRace`).
`TypeCorrect`: `Spec /\ Atomic /\ ~ReuseArgs => []TypeOK`, from the invariant `Sorts`: of what is stored only one-time
tokens are ever consumed and a refresh token names an access token (`Sound`), and a request that has
read the token it works with knows that much of it (`Knows`). That needs `Core`: the state a refresh
puts back is the one it claimed.

`ManagerLogoutProofs` shows what logout, revocation and a replacing login promise. `PromisesKept`:
`Spec /\ Atomic /\ ~AliasArgs => []DeadStaysDead`. `LogoutSevers`: the same for the refresh tokens that
name a token that was logged out (`LogoutSeversRefresh`), in configurations whose operations do not
include `LogoutByDevice`: of that one it is false, as `ManagerLogoutRetry` shows; what is true of it is
`DeviceLogoutSevers` below. The invariant
`Promised` has three parts. `Chained`: a stored refresh token names an access token that was handed
out to the same subject, and shares it with no other, so a flow that removes what names a token
knows where to look. `Promise(c)`: how far request `c` is with what it will promise when it returns:
each token it covers is gone already, or is one that a call still to come will find (`Left`, `Cut`).
`Buried`: what was promised dead is gone or retired, and so is what names it. The argument rests on `Loses`:
a step of any request does nothing to a token that was handed out but take away from it, its subject
and kind included, so what one request has removed no other brings back; the one exception, a claim
given back, is a token that its claimant holds (`Core`). An alias among the arguments of a caller
would break it, hence the hypothesis.

A second part is about what nobody logged out. `RefreshKeepsAccess`:
`Spec /\ Atomic /\ ~AliasArgs /\ Lasting => []RefreshHasAccess`, where `Lasting` says that access tokens
have no end: `Timeout` and `ActiveTimeout` are 0 and a renewal asks for no ttl. Otherwise the access
token may end by itself, at login or by a renewal, and the refresh token stays. The setups of
`ManagerReuse` in which the property says something are of this kind; the theorem
adds renewals, automatic ones and online marks beside the refreshes. The invariant is `Backs`:
`Endless` (no access token in the store, and nothing a request has read of one, has a deadline, so
nothing is deleted as expired), and until a call fails, a context is done or a process dies, `Joined`
(the access token a usable refresh token names is stored, or promised dead, or its logout is about to
sever it), `Stocked` (what a request is about to link to is stored) and `Releases` (a claim that will be
given back names an access token of the first kind: the refresh has not deleted it). The hard step is
`StepJoined`: whatever deletes an access token that was handed out either holds the claim of the refresh token that names
it, which is then unusable, or is a logout that goes on to find that refresh token. The proof needs that
what stands for an absent token is no entry (`AbsentIsNoEntry`).

The last part is about logout by device. `DeviceLogoutSevers`:
`Spec /\ Atomic /\ ~AliasArgs /\ Lasting => []QuietLogoutSevers`. LogoutByDevice deletes the access tokens
its lookup finds, and after each one the refresh tokens that name it. A token that another request deletes
before the lookup is not found, so the logout may return while a refresh token that names it can still be
used; the theorem says that this ends by itself. `Lasting` is needed: an access token that ends between
the start of the call and its lookup is not found either, no request goes on to its refresh token, and that
one stays usable (with `Timeout` 1, TLC finds this). The
invariant is `Cuts`: `OnlyByDevice` (where such a logout can be), and where refresh tokens are revoked on
logout, until a call fails, a context is done or a process dies, `Pursues` (take a refresh token that is usable, or whose
claim is about to be released, and that names a token promised unusable or covered by a logout by
device under way: the named token is still stored, or a request is `Cutting`, at the refresh tokens that
name it), `Lost` (only a refresh that has lost its refresh token takes its new access token back) and
`Aims` (what a logout by device found belongs to its subject and is `Settled`: stored once, and not to be
stored again, which is where `Owned` is used). The argument goes by who removes the named
token: a logout or a revocation, which goes on to what names it, or a refresh or a replacing login, which
goes on to the others or holds the one there is. When all is quiet nobody is `Cutting`, and what is
promised unusable and still stored is a retired one-time token, which no refresh token names.

**Event bus.** `TypeCorrect`, `CounterCorrect`, `SealedCorrect`, `FlushCorrect`: the bus, its lock and
its calls keep their types, the WaitGroup counts exactly the
events on their way, the queue is closed only when there is none, and Flush and Close return nil only
after what was accepted before them is handled. Beside `TypeOK` the invariant needs `Fresh` (an event on
its way has not run), `Sealing` (close(queue) is reached through
a closed bus and a counter at zero, and neither is undone) and `Accounted` (what was accepted is handled
or in a job).

**Requests.** `ServedCorrectly`: `Spec => []ServedAsHolder`. `Vouched` says at each step which snapshot
has been true since the request arrived; before the judgement only of what has not expired since, as
the clock only advances. `TypeCorrect`: `Spec => []TypeOK`. `ListingCorrect`: `Spec => []ListingAgrees`; it is a
fact about the tables of any user, shown once for each authorizer from what a wildcard covers.
`WriterHeard`: `WriterIsHeard`, where no token is spelt as a prefix that some set-up puts before it
(`TokensAreNoPrefixes`): of such a token nothing would be left when the reader has taken the prefix off.
It needs no more than that only one source of what the library wrote offers anything (`OnlyOffer`).
`AnswersCorrect`: `Spec => []AnswersAreTrue`. The invariant `Answering` says of a request in the middle of
`CheckAll` or `CheckAny` that each name it has been through was so at some moment of the call, and what is
left to ask is part of what was asked; that the tables change between two questions only adds to the
history.

Left to TLC for good, because no installed
prover can do it: liveness under fairness (`ClaimReleased`, `CallsReturn`), anything about
`ENABLED`, and induction over data, which is what the properties of `Session` come to: the walks over
maps, `Reached`, the digits of a number. No module declares a recursive operator; what recursion there
is, is in functions.

## Not modelled

* The events of the Manager, `SyncEventBus`, `NoopEventBus`, audit: what a listener hears of a flow
  that failed half-way is noted as a hazard.
* Listeners that call back into the bus: with one worker and a full queue such a listener waits
  for itself.
* `UnmarshalJSON`; slices, arrays and structs as containers in a session; a session used by two
  MarshalJSON at the same time.
* Several requests at a time over a store without `AtomicStore`, where a plain save undoes what another
  request did meanwhile; no property covers that hazard. The Manager over a store whose bulk
  deletion is not atomic: what the Manager runs show of a logout by login ID holds over the memory and
  database stores. `ListTokenStates`, a read.
* The keys that earlier versions of the Redis store wrote.
* Store calls that take effect and report an error; clocks that differ between processes.
* Cookie attributes and their validation, streams, formatting, logging, cryptography (generators, JWT),
  examples: no state that interacts with anything.

## What comes next

The events each flow of the Manager publishes, and `SyncEventBus`; re-entrant listeners; several requests at
a time over a store without `AtomicStore`, and callers that offer any old token as new, which the theorems
about the Manager leave out.
