------------------------------ MODULE Session ------------------------------
(***************************************************************************)
(* core.Session and its way through the Manager and the memory store        *)
(* (core/session.go, the session calls of manager.go).                      *)
(*                                                                         *)
(* A session is a pointer to an object whose Data is a map.  A map holds,    *)
(* under its slots, plain values, numbers, other maps, and pointers to       *)
(* sessions, so cycles are possible.  Save and Get hand over deep copies of  *)
(* the maps; what a copied map points to is shared.  Every method holds the  *)
(* lock of one session for one section without waiting inside: a section is *)
(* a step.  MarshalJSON is many: a copy, a search for cycles that copies     *)
(* each session it comes to, then the encoder, which calls MarshalJSON of    *)
(* each session in the copy.  Anyone may write in between.  A session met    *)
(* twice in one walk is visited once here.                                   *)
(***************************************************************************)
EXTENDS SessionNumber, FiniteSets, Functions, TLC

CONSTANTS Session,   \* session objects
          Map,       \* addresses of maps
          Slot,      \* keys of a map
          Absent,    \* nothing under a key
          Cycle,     \* a map that contains itself, met by a walk
          None,      \* no session stored, nothing to save
          MaxOps     \* bound on writes, saves and loads

ASSUME SessionAssumption ==
  /\ MaxOps \in Nat
  /\ Cardinality(Map) > Cardinality(Session)

VARIABLES maps,     \* the heap: [Map -> [Slot -> value]]
          data,     \* the Data of each session
          held,     \* a map a caller put into sessions and goes on writing
          pending,  \* the Data of the copy SaveSession is about to store
          stored,   \* the Data of the session in the store
          calls,    \* the MarshalJSON in progress: its nested calls, innermost last
          asked,    \* the session that is, or was last, marshalled
          result,   \* what came of it
          quiet,    \* no session has changed since it began
          ops

vars == <<maps, data, held, pending, stored, calls, asked, result, quiet, ops>>

Empty == [x \in Slot |-> Absent]

-----------------------------------------------------------------------------
(* The object graph.                                                       *)

Children(heap, M) == {heap[m][x] : m \in M, x \in Slot} \cap Map

\* The maps in those of R, themselves included, not looking into sessions.
Alive(heap, R) ==
  LET grow[M \in SUBSET Map] ==
        LET N == M \cup Children(heap, M) IN IF N = M THEN M ELSE grow[N]
  IN  grow[R]

Inside(heap, root) == Alive(heap, {root})

Fragment(heap, root) == [m \in Inside(heap, root) |-> heap[m]]

\* What is reachable no longer is free, and is kept empty.
Roots(d, others) == {d[s] : s \in Session} \cup (others \ {None})
Collected(heap, R) ==
  LET alive == Alive(heap, R) IN [m \in Map |-> IF m \in alive THEN heap[m] ELSE Empty]

\* A renaming of the maps in root to free addresses.
Renaming(heap, root, R) ==
  CHOOSE f \in [Inside(heap, root) -> Map \ Alive(heap, R)] : IsInjective(f)

HasRoom(heap, root, R) ==
  Cardinality(Inside(heap, root)) <= Cardinality(Map \ Alive(heap, R))

\* Mutant: only the map itself is copied.
CopyShallow(heap, root, R) ==
  LET new == CHOOSE m \in Map \ Alive(heap, R) : TRUE IN
    [heap |-> [heap EXCEPT ![new] = heap[root]], root |-> new]

\* cloneSessionValue: each map is copied once, however often it is met, so the
\* copy has the sharing and the cycles of the original; the rest is shared with it.
Copy(heap, root, R) ==
  LET to        == Renaming(heap, root, R)
      Copied(v) == IF v \in DOMAIN to THEN to[v] ELSE v
      Images    == [m \in Range(to) |-> [x \in Slot |-> Copied(heap[AntiFunction(to)[m]][x])]]
  IN  [heap |-> Images @@ heap, root |-> to[root]]

\* What a walk of the maps in root comes to: sessions, and a map inside itself.
Met(heap, root) ==
  (Session \cap {heap[m][x] : m \in Inside(heap, root), x \in Slot})
    \cup {Cycle : m \in {m \in Inside(heap, root) :
                          \E c \in Children(heap, {m}) : m \in Inside(heap, c)}}

Referenced == {maps[m][x] : m \in Map, x \in Slot} \cap Session

-----------------------------------------------------------------------------
(* Callers.                                                                *)

Live == Roots(data, {held, pending, stored})

Count == ops < MaxOps /\ ops' = ops + 1

\* The heap after a change; d, p and st are the roots there will be.
Become(heap, d, p, st) ==
  /\ maps' = Collected(heap, Roots(d, {held, p, st}))
  /\ data' = d
  /\ pending' = p
  /\ stored' = st
  /\ UNCHANGED held

\* A session changes: a MarshalJSON in progress is not quiet any more, the result
\* of one that has ended is of the past.
Unquiet ==
  IF calls = <<>> THEN asked' = None /\ result' = "none" /\ UNCHANGED <<calls, quiet>>
                  ELSE quiet' = FALSE /\ UNCHANGED <<calls, asked, result>>

Marshalling == UNCHANGED <<calls, asked, result, quiet>>

Write(heap) == Count /\ Become(heap, data, pending, stored) /\ Unquiet

Value == {held} \cup Session \cup {data[s] : s \in Session}

Set(s, x, v) == Write([maps EXCEPT ![data[s]][x] = v])

\* Every value of the argument in one section.
SetMulti(s, values) == Write([maps EXCEPT ![data[s]] = values @@ @])

Remove(s, x) ==
  /\ maps[data[s]][x] # Absent
  /\ Write([maps EXCEPT ![data[s]][x] = Absent])

\* Data becomes another map; the old one stays with whoever has it.
Clear(s) ==
  /\ Map # Alive(maps, Live)
  /\ Count
  /\ LET new == CHOOSE m \in Map \ Alive(maps, Live) : TRUE IN
       Become([maps EXCEPT ![new] = Empty], [data EXCEPT ![s] = new], pending, stored)
  /\ Unquiet

\* The owner of a map it put into a session writes it.
WriteHeld(x, v) == Write([maps EXCEPT ![held][x] = v])

\* A number is stored alone: nothing happens to its session before or after.
SetNumber(s, x) ==
  /\ ops = 0 /\ result = "none"
  /\ \E n \in Number : maps' = [maps EXCEPT ![data[s]][x] = n]
  /\ ops' = MaxOps + 1
  /\ UNCHANGED <<data, held, pending, stored, calls, asked, result, quiet>>

Writes(s) ==
  \/ \E x \in Slot, v \in Value : Set(s, x, v)
  \/ \E values \in [Slot -> Session] : SetMulti(s, values)
  \/ \E x \in Slot : Remove(s, x) \/ SetNumber(s, x)
  \/ Clear(s)

-----------------------------------------------------------------------------
(* The Manager and the memory store.                                       *)

\* Manager.SaveSession copies the session first...
SaveSession(s) ==
  /\ pending = None
  /\ Count
  /\ HasRoom(maps, data[s], Live)
  /\ LET copy == Copy(maps, data[s], Live) IN Become(copy.heap, data, copy.root, stored)
  /\ Marshalling

\* ...and the store a copy of that.
StoreSession ==
  /\ pending # None
  /\ Become(maps, data, None, pending)
  /\ Marshalling
  /\ UNCHANGED ops

\* GetSession: a copy in a session object that nobody has yet.
GetSession(s) ==
  /\ stored # None
  /\ s \notin Referenced
  /\ calls = <<>>
  /\ Count
  /\ HasRoom(maps, stored, Live)
  /\ LET copy == Copy(maps, stored, Live) IN
       Become(copy.heap, [data EXCEPT ![s] = copy.root], pending, stored)
  /\ Unquiet

DeleteSession ==
  /\ stored # None
  /\ Count
  /\ Become(maps, data, pending, None)
  /\ Marshalling

-----------------------------------------------------------------------------
(* MarshalJSON.  A call has the sessions met in its copy that are still to   *)
(* be encoded (enc), and, while it looks for cycles, the sessions it is      *)
(* inside of with what is still to be visited in each (path).               *)

Visit(s) == [session |-> s, todo |-> Met(maps, data[s])]

Call(s) == [session |-> s, path |-> <<Visit(s)>>, enc |-> Met(maps, data[s])]

MarshalJSON(s) ==
  /\ calls = <<>> /\ result = "none" /\ ops <= MaxOps
  /\ calls' = <<Call(s)>>
  /\ asked' = s
  /\ result' = "running"
  /\ UNCHANGED <<maps, data, held, pending, stored, quiet, ops>>

Top == calls[Len(calls)]
Deepest == Top.path[Len(Top.path)]
Replace(seq, e) == [seq EXCEPT ![Len(seq)] = e]
Encoder == UNCHANGED <<maps, data, held, pending, stored, asked, quiet, ops>>

\* Mutant: the session at which the search began is not on its path.
OnPathButFirst(s) == \E i \in 2 .. Len(Top.path) : Top.path[i].session = s

OnPath(s) == \E i \in 1 .. Len(Top.path) : Top.path[i].session = s

\* An error ends the calls around it too.
CycleFound ==
  /\ calls # <<>> /\ Top.path # <<>>
  /\ \E s \in Deepest.todo : s = Cycle \/ OnPath(s)
  /\ calls' = <<>>
  /\ result' = "error"
  /\ Encoder

\* The search goes into a session: a copy of it, taken now.
CheckNested ==
  /\ calls # <<>> /\ Top.path # <<>>
  /\ \E s \in Deepest.todo \ {Cycle} :
       /\ ~OnPath(s)
       /\ calls' = Replace(calls, [Top EXCEPT !.path =
            Append(Replace(@, [Deepest EXCEPT !.todo = @ \ {s}]), Visit(s))])
  /\ UNCHANGED result
  /\ Encoder

CheckDone ==
  /\ calls # <<>> /\ Top.path # <<>> /\ Deepest.todo = {}
  /\ calls' = Replace(calls, [Top EXCEPT !.path = SubSeq(@, 1, Len(@) - 1)])
  /\ UNCHANGED result
  /\ Encoder

EncodeNested ==
  /\ calls # <<>> /\ Top.path = <<>>
  /\ \E s \in Top.enc :
       calls' = Append(Replace(calls, [Top EXCEPT !.enc = @ \ {s}]), Call(s))
  /\ UNCHANGED result
  /\ Encoder

EncodeDone ==
  /\ calls # <<>> /\ Top.path = <<>> /\ Top.enc = {}
  /\ calls' = SubSeq(calls, 1, Len(calls) - 1)
  /\ result' = IF Len(calls) = 1 THEN "encoded" ELSE result
  /\ Encoder

-----------------------------------------------------------------------------
Init ==
  /\ maps = [m \in Map |-> Empty]
  /\ held = CHOOSE m \in Map : TRUE
  /\ LET own == CHOOSE M \in SUBSET (Map \ {held}) : Cardinality(M) = Cardinality(Session) IN
       data \in {d \in [Session -> own] : IsInjective(d)}
  /\ pending = None /\ stored = None
  /\ calls = <<>> /\ asked = None /\ result = "none" /\ quiet = TRUE
  /\ ops = 0

Next ==
  \/ \E s \in Session : \/ Writes(s) \/ SaveSession(s) \/ GetSession(s) \/ MarshalJSON(s)
  \/ \E x \in Slot, v \in Value : WriteHeld(x, v)
  \/ StoreSession \/ DeleteSession
  \/ CycleFound \/ CheckNested \/ CheckDone \/ EncodeNested \/ EncodeDone

Spec == Init /\ [][Next]_vars

-----------------------------------------------------------------------------
\* What a save is about to store and what is stored belong to the store alone:
\* whatever callers go on writing, into the session, into a map they put into it
\* or into a copy they were given, it changes only when a save or a deletion
\* replaces it (Clone, on both sides of Manager.SaveSession and GetSession).
SnapshotsDetached ==
  [][/\ stored # None /\ stored' = stored =>
          Fragment(maps', stored) = Fragment(maps, stored)
     /\ pending # None /\ pending' # None =>
          Fragment(maps', pending) = Fragment(maps, pending)
     /\ pending # None /\ pending' = None =>
          Fragment(maps', stored') = Fragment(maps, pending)]_vars

\* Which objects refer to which, sessions and maps alike.
Refers == {<<s, data[s]>> : s \in Session}
            \cup {<<m, v>> \in Map \X (Map \cup Session) : \E x \in Slot : maps[m][x] = v}

Reached(from) ==
  LET grow[n \in Nat] ==
        IF n = 0 THEN {e[2] : e \in {r \in Refers : r[1] = from}}
        ELSE LET N == grow[n - 1] IN N \cup {e[2] : e \in {r \in Refers : r[1] \in N}}
  IN  grow[Cardinality(Map \cup Session)]

Cyclic(s) == \E o \in {s} \cup Reached(s) : o \in Reached(o)

\* MarshalJSON rejects exactly the sessions from which a cycle is reached, through
\* maps, through itself or through other sessions; and the search and the encoder
\* never go into a session they are inside of, or the stack would overflow
\* (checkSessionJSONCycles).  Both while nobody writes.
RejectsCycles ==
  quiet =>
    /\ result \in {"error", "encoded"} => (result = "error" <=> Cyclic(asked))
    /\ \A i, j \in DOMAIN calls : calls[i].session = calls[j].session => i = j
    /\ \A c \in Range(calls) : \A i, j \in DOMAIN c.path :
         c.path[i].session = c.path[j].session => i = j

\* GetInt64 and GetInt return the number a session holds when it is an integer in
\* their range, however it is written, and zero when it is not: no rounding, no
\* wrapping around.
NumbersExact ==
  \A m \in Map, x \in Slot :
    LET n == maps[m][x] IN
    n \in Number => /\ Exact(n, GetInt64(n), Min64, MaxInt)
                    /\ Exact(n, GetInt(n), -MaxNative - 1, MaxNative)
=============================================================================
