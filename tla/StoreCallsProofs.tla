-------------------------- MODULE StoreCallsProofs --------------------------
(***************************************************************************)
(* What the operators on token states, maps, calls and responses return:     *)
(* the lemmas that the proofs about every store rest on.                    *)
(***************************************************************************)
EXTENDS StoreCalls, TLAPS

\* Effective deadlines are deadlines (state_lifetime.go).
LEMMA DeadlineTyped ==
  ASSUME NEW t \in Nat, NEW ttl \in Nat
  PROVE  /\ DeadlineAfter(t, ttl) \in Deadline
         /\ \A s \in State : EffectiveExpiresAt(s, t, ttl) \in Deadline
  BY DEF DeadlineAfter, EffectiveExpiresAt, Earlier, Deadline, Never, State

\* Consuming a state changes its status only (MarkConsumed).
LEMMA ConsumedTyped ==
  ASSUME NEW s \in State
  PROVE  /\ MarkConsumed(s) \in State
         /\ MarkConsumed(s).subject = s.subject
         /\ MarkConsumed(s).kind = s.kind
  BY DEF MarkConsumed, State, TokenStatus

\* What callers ask next is a call of the interface.
LEMMA CallsTyped ==
  ASSUME NEW last \in Response, NEW c \in NextCalls(last)
  PROVE  c \in Call
<1>1. \A x \in last.states : x.key \in Token /\ x.state \in State
  BY DEF Response, Snapshot
<1>2. \A x \in last.states : MarkConsumed(x.state) \in State
  BY <1>1, ConsumedTyped
<1>3. SaveInputs \subseteq State
  BY StoreAssumption
<1>4. Filters \subseteq SUBSET TokenKind
  BY StoreAssumption
<1> QED
  BY <1>1, <1>2, <1>3, <1>4 DEF NextCalls, Call, TokenCall

\* The operators on the token map keep its type.
LEMMA MapTyped ==
  ASSUME NEW map \in [Token -> Entry \cup {NoEntry}]
  PROVE  /\ \A K : Drop(map, K) \in [Token -> Entry \cup {NoEntry}]
         /\ \A k \in Token, s \in State, d \in Deadline :
              Put(map, k, s, d) \in [Token -> Entry \cup {NoEntry}]
         /\ \A k \in Token : \A kinds, t :
              map[k] # NoEntry => Consume(map, k, kinds, t) \in [Token -> Entry \cup {NoEntry}]
<1>1. \A K : Drop(map, K) \in [Token -> Entry \cup {NoEntry}]
  BY DEF Drop
<1>2. \A k \in Token, s \in State, d \in Deadline :
        Put(map, k, s, d) \in [Token -> Entry \cup {NoEntry}]
  BY DEF Put, Entry
<1>3. ASSUME NEW k \in Token, NEW kinds, NEW t, map[k] # NoEntry
      PROVE  Consume(map, k, kinds, t) \in [Token -> Entry \cup {NoEntry}]
  <2>1. map[k] \in Entry
    BY <1>3
  <2>2. MarkConsumed(map[k].state) \in State
    BY <2>1, ConsumedTyped DEF Entry
  <2>3. [map[k] EXCEPT !.state = MarkConsumed(map[k].state)] \in Entry
    BY <2>1, <2>2 DEF Entry
  <2> QED
    BY <2>3 DEF Consume, Rewrite
<1> QED
  BY <1>1, <1>2, <1>3

\* Responses built from the map are responses.
LEMMA FoundTyped ==
  ASSUME NEW map \in [Token -> Entry \cup {NoEntry}],
         NEW K \in SUBSET Token, \A k \in K : map[k] # NoEntry
  PROVE  /\ Reported(K, map) \in Response
         /\ Done \in Response
         /\ Failed \in Response
         /\ Refused \in Response
         /\ \A d \in Data : [Done EXCEPT !.data = d] \in Response
<1>1. \A k \in K : map[k].state \in State
  BY DEF Entry
<1>2. {[key |-> k, state |-> map[k].state] : k \in K} \subseteq Snapshot
  BY <1>1 DEF Snapshot
<1> QED
  BY <1>2 DEF Reported, Done, Failed, Refused, Response

\* The fields of a call, by operation.
LEMMA FieldsTyped ==
  ASSUME NEW c \in Call
  PROVE  /\ c.op \in {"Save", "CAS"} =>
              /\ c.key \in Token
              /\ c.state \in State
              /\ c.ttl \in Nat
         /\ c.op \in {"Get", "Delete", "Consume"} => c.key \in Token
         /\ c.op \in {"Save", "CAS", "Get", "Delete", "Consume"} => "key" \in DOMAIN c
         /\ c.op \in {"Find", "DeleteAll"} => c.subject \in Subject
         /\ c.op \in {"SaveSession", "EnsureSession", "GetSession", "DeleteSession"}
              => c.subject \in Subject
         /\ c.op = "SaveSession" => c.data \in Data
         /\ c.op \in {"SaveSession", "EnsureSession"} => c.ttl \in Nat
<1>1. CASE c \in [op : {"Save"}, key : Token, state : State, ttl : TTL]
  BY <1>1, StoreAssumption
<1>2. CASE c \in [op : {"CAS"}, key : Token, expected : State, state : State, ttl : TTL]
  BY <1>2, StoreAssumption
<1>3. CASE c \in [op : {"Get", "Delete"}, key : Token]
  BY <1>3
<1>4. CASE c \in [op : {"Consume"}, key : Token, kinds : SUBSET TokenKind]
  BY <1>4
<1>5. CASE c \in [op : {"Find", "DeleteAll"}, subject : Subject, kinds : SUBSET TokenKind]
  BY <1>5
<1>6. CASE c \in [op : {"SaveSession"}, subject : Subject, data : Data, ttl : SessionTTL]
  BY <1>6, StoreAssumption
<1>7. CASE c \in [op : {"EnsureSession"}, subject : Subject, ttl : SessionTTL]
  BY <1>7, StoreAssumption
<1>8. CASE c \in [op : {"GetSession", "DeleteSession"}, subject : Subject]
  BY <1>8
<1> QED
  BY <1>1, <1>2, <1>3, <1>4, <1>5, <1>6, <1>7, <1>8
     DEF Call, TokenCall, SessionCall

\* What has expired by a clock reading of the past has expired.
LEMMA ExpiredStays ==
  ASSUME NEW d \in Deadline, NEW t \in Nat, NEW u \in Nat, t <= u, Passed(d, t)
  PROVE  Passed(d, u)
BY DEF Passed, Deadline, Never

\* Nothing found is what an operation that only acts returns.
LEMMA NothingReported ==
  ASSUME NEW entries
  PROVE  Reported({}, entries) = Done
<1>1. {[key |-> k, state |-> entries[k].state] : k \in {}} = {}
  OBVIOUS
<1>2. Done.states = {} /\ Done = [f \in DOMAIN Done |-> Done[f]]
  BY DEF Done
<1>3. [Done EXCEPT !.states = {}] = [f \in DOMAIN Done |-> Done[f]]
  BY <1>2
<1> QED
  BY <1>1, <1>2, <1>3 DEF Reported

\* Two maps that agree on some keys give the same report of them.
LEMMA ReportedAlike ==
  ASSUME NEW K, NEW f, NEW g, \A k \in K : f[k] = g[k]
  PROVE  Reported(K, f) = Reported(K, g)
<1>1. {[key |-> k, state |-> f[k].state] : k \in K} = {[key |-> k, state |-> g[k].state] : k \in K}
  OBVIOUS
<1> QED
  BY <1>1 DEF Reported

\* What a call on one key, on the keys of a subject or on a session looks at.
LEMMA ViewTyped ==
  ASSUME NEW map \in [Token -> Entry \cup {NoEntry}],
         NEW items \in [Subject -> SessionItem \cup {NoEntry}], NEW c \in Call
  PROVE  /\ View(c, map, items) \in StoreView \ {NoEntry}
         /\ c.op \in {"Get", "CAS", "Consume"} =>
              DOMAIN View(c, map, items).entries = {c.key} \cap Stored(map)
         /\ c.op = "Find" =>
              DOMAIN View(c, map, items).entries = OfSubject(map, c.subject, c.kinds)
         /\ \A k \in DOMAIN View(c, map, items).entries : View(c, map, items).entries[k] = map[k]
         /\ c.op = "GetSession" => View(c, map, items).session = items[c.subject]
<1> DEFINE K == IF c.op \in {"Find", "DeleteAll"} THEN OfSubject(map, c.subject, c.kinds)
                ELSE Stored(map) \cap (IF "key" \in DOMAIN c THEN {c.key} ELSE {})
           item == IF c.op \in {"GetSession", "DeleteSession"} THEN items[c.subject]
                   ELSE NoEntry
<1>1. View(c, map, items) = [entries |-> [k \in K |-> map[k]], session |-> item]
  BY DEF View
<1>2. K \in SUBSET Token /\ \A k \in K : map[k] \in Entry
  BY DEF OfSubject, Stored
<1>3. [k \in K |-> map[k]] \in [K -> Entry]
  BY <1>2
<1>4. item \in SessionItem \cup {NoEntry}
  BY FieldsTyped
<1>5. View(c, map, items) \in StoreView \ {NoEntry}
  <2> HIDE DEF K, item
  <2>1. View(c, map, items) \in StoreView
    BY <1>1, <1>2, <1>3, <1>4 DEF StoreView
  <2> QED
    BY <2>1, StoreAssumption
<1>6. CASE c.op \in {"Get", "CAS", "Consume"}
  <2>1. "key" \in DOMAIN c
    BY <1>6, FieldsTyped
  <2>2. K = {c.key} \cap Stored(map)
    BY <1>6, <2>1
  <2> HIDE DEF K, item
  <2> QED
    BY <1>1, <1>5, <1>6, <2>2
<1>7. CASE c.op \notin {"Get", "CAS", "Consume"}
  BY <1>1, <1>5, <1>7
<1> QED
  BY <1>6, <1>7

\* What a call read of one key is an entry.
LEMMA KeptEntry ==
  ASSUME NEW view \in StoreView, NEW k, DOMAIN view.entries = {k}
  PROVE  k \in Token /\ view.entries \in [{k} -> Entry] /\ view.entries[k] \in Entry
<1>1. PICK K \in SUBSET Token : view.entries \in [K -> Entry]
  BY DEF StoreView
<1> QED
  BY <1>1
=============================================================================
