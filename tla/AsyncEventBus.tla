---------------------------- MODULE AsyncEventBus ----------------------------
(***************************************************************************)
(* core/async_event.go: a bounded queue of events between the callers of    *)
(* Publish and a pool of workers.  Publish holds the read lock until its     *)
(* event is in the queue; Register, Clear and Close take the write lock; a   *)
(* WaitGroup counts the events that are on their way, and Flush and Close    *)
(* wait for it in a goroutine of their own.                                 *)
(*                                                                         *)
(* The mutex is Go's RWMutex: a writer first announces itself, which stops   *)
(* new readers, then waits for the readers inside.  The WaitGroup is Go's:   *)
(* when the counter reaches zero every waiter is released, and one that      *)
(* finds the counter in use again when it runs panics.                      *)
(***************************************************************************)
EXTENDS Naturals, Sequences, FiniteSets

CONSTANTS Client,    \* goroutines that call the bus
          Worker,
          Listener,
          Event,     \* the events published, each once: the bound on Publish
          Nobody, NoJob,
          QueueSize,
          MaxCalls   \* bound on the calls other than Publish

ASSUME BusAssumption ==
  /\ QueueSize \in Nat \ {0}
  /\ MaxCalls \in Nat
  /\ IsFiniteSet(Client) /\ IsFiniteSet(Worker)
  /\ Nobody \notin Client
  /\ NoJob \notin [event : Event, to : SUBSET Listener, run : BOOLEAN]

VARIABLES listeners, queue,
          closed,     \* Close has been called: Publish drops what comes
          sealed,     \* close(queue)
          wg,         \* the WaitGroup's counter
          readers, writer,  \* the RWMutex: readers inside, the announced writer
          pc, op, job,   \* per client: where it is, its operation, its event
          waiter,     \* per client: the goroutine of its Flush
          busy,       \* per worker: the job in hand
          crashed,    \* the process panicked
          published, calls,     \* what the bounds count
          accepted, handled,    \* <<event, listener>> queued, and delivered
          owed        \* per client: what was accepted before its Flush or Close

lock   == <<readers, writer>>
state  == <<listeners, closed, sealed>>
ghost  == <<published, calls, accepted, handled, owed>>
vars   == <<state, queue, wg, lock, pc, op, job, waiter, busy, crashed, ghost>>

Job == [event : Event, to : SUBSET Listener, run : BOOLEAN]

\* Part of a mutant: Done is called twice.
CountDownTwice ==
  /\ wg' = IF wg > 1 THEN wg - 2 ELSE wg - 1
  /\ waiter' = [c \in Client |->
                  IF wg <= 2 /\ waiter[c] = "waiting" THEN "woken" ELSE waiter[c]]

\* Done: the waiters are released when the counter reaches zero.
CountDown ==
  /\ wg' = wg - 1
  /\ waiter' = [c \in Client |->
                  IF wg = 1 /\ waiter[c] = "waiting" THEN "woken" ELSE waiter[c]]

call == <<pc, op, job>>

Go(c, label) == pc' = [pc EXCEPT ![c] = label] /\ UNCHANGED <<op, job>>

Return(c) ==
  /\ pc' = [pc EXCEPT ![c] = "idle"]
  /\ op' = [op EXCEPT ![c] = "none"]
  /\ job' = [job EXCEPT ![c] = NoJob]

-----------------------------------------------------------------------------
Publish(c) ==
  /\ ~crashed
  /\ pc[c] = "idle"
  /\ \E e \in Event \ published :
       /\ published' = published \cup {e}
       /\ job' = [job EXCEPT ![c] = [event |-> e, to |-> {}, run |-> FALSE]]
  /\ op' = [op EXCEPT ![c] = "Publish"]
  /\ pc' = [pc EXCEPT ![c] = "publish"]
  /\ UNCHANGED <<state, queue, wg, lock, waiter, busy, crashed, calls, accepted, handled, owed>>

\* Mutant: a closed bus goes on accepting events.
EnterClosed(c) ==
  /\ ~crashed
  /\ pc[c] = "publish"
  /\ writer = Nobody
  /\ wg' = wg + 1
  /\ job' = [job EXCEPT ![c].to = listeners]
  /\ readers' = readers \cup {c}
  /\ pc' = [pc EXCEPT ![c] = "enqueue"]
  /\ UNCHANGED <<op, state, queue, writer, waiter, busy, crashed, ghost>>

\* Under the read lock: a closed bus drops the event; otherwise the WaitGroup
\* goes up and the listeners are copied.
EnterPublish(c) ==
  /\ ~crashed
  /\ pc[c] = "publish"
  /\ writer = Nobody
  /\ IF closed
       THEN Return(c) /\ UNCHANGED <<wg, readers>>
       ELSE /\ wg' = wg + 1
            /\ job' = [job EXCEPT ![c].to = listeners]
            /\ readers' = readers \cup {c}
            /\ pc' = [pc EXCEPT ![c] = "enqueue"]
            /\ UNCHANGED op
  /\ UNCHANGED <<state, queue, writer, waiter, busy, crashed, ghost>>

\* Mutant: the read lock is not released.
EnqueueLocked(c) ==
  /\ ~crashed
  /\ pc[c] = "enqueue"
  /\ Len(queue) < QueueSize \/ sealed
  /\ crashed' = sealed
  /\ queue' = Append(queue, job[c])
  /\ accepted' = accepted \cup ({job[c].event} \X job[c].to)
  /\ Return(c)
  /\ UNCHANGED <<state, wg, lock, waiter, busy, published, calls, handled, owed>>

\* The send waits for room in the queue with the read lock held; on a channel
\* that has been closed it panics.
Enqueue(c) ==
  /\ ~crashed
  /\ pc[c] = "enqueue"
  /\ Len(queue) < QueueSize \/ sealed
  /\ crashed' = sealed
  /\ queue' = Append(queue, job[c])
  /\ accepted' = accepted \cup ({job[c].event} \X job[c].to)
  /\ readers' = readers \ {c}
  /\ Return(c)
  /\ UNCHANGED <<state, wg, writer, waiter, busy, published, calls, handled, owed>>

\* Mutant: the event given up stays counted.
GiveUpCounted(c) ==
  /\ ~crashed
  /\ pc[c] = "enqueue"
  /\ readers' = readers \ {c}
  /\ Return(c)
  /\ UNCHANGED <<state, queue, wg, writer, waiter, busy, crashed, ghost>>

\* Mutant: Done is called here and by a deferred function.
GiveUpTwice(c) ==
  /\ ~crashed
  /\ pc[c] = "enqueue"
  /\ CountDownTwice
  /\ readers' = readers \ {c}
  /\ Return(c)
  /\ UNCHANGED <<state, queue, writer, busy, crashed, ghost>>

\* The context of the publisher is done first: the event is lost.
GiveUp(c) ==
  /\ ~crashed
  /\ pc[c] = "enqueue"
  /\ CountDown
  /\ readers' = readers \ {c}
  /\ Return(c)
  /\ UNCHANGED <<state, queue, writer, busy, crashed, ghost>>

-----------------------------------------------------------------------------
Call(c, name, label) ==
  /\ ~crashed
  /\ pc[c] = "idle"
  /\ calls < MaxCalls
  /\ calls' = calls + 1
  /\ op' = [op EXCEPT ![c] = name]
  /\ pc' = [pc EXCEPT ![c] = label]
  /\ UNCHANGED <<state, queue, wg, lock, job, busy, crashed, published, accepted, handled>>

\* Register, Clear and Close start by asking for the write lock.
CallWriter(c) ==
  /\ \E name \in {"Register", "Clear", "Close"} :
       /\ name = "Close" => waiter[c] = "none"
       /\ Call(c, name, "lock")
  /\ UNCHANGED <<waiter, owed>>

Announce(c) ==
  /\ ~crashed
  /\ pc[c] = "lock"
  /\ writer = Nobody
  /\ writer' = c
  /\ Go(c, "announced")
  /\ UNCHANGED <<state, queue, wg, readers, waiter, busy, crashed, ghost>>

Locked(c, name) ==
  /\ ~crashed
  /\ pc[c] = "announced"
  /\ op[c] = name
  /\ readers = {}
  /\ writer' = Nobody
  /\ UNCHANGED <<queue, wg, readers, busy, crashed, published, calls, accepted, handled>>

Register(c) ==
  /\ Locked(c, "Register")
  /\ \E l \in Listener : listeners' = listeners \cup {l}
  /\ Return(c)
  /\ UNCHANGED <<closed, sealed, waiter, owed>>

Clear(c) ==
  /\ Locked(c, "Clear")
  /\ listeners' = {}
  /\ Return(c)
  /\ UNCHANGED <<closed, sealed, waiter, owed>>

\* A second Close flushes as the first one does.
Close(c) ==
  /\ Locked(c, "Close")
  /\ closed' = TRUE
  /\ owed' = [owed EXCEPT ![c] = accepted]
  /\ waiter' = [waiter EXCEPT ![c] = "starting"]
  /\ Go(c, "flush")
  /\ UNCHANGED <<listeners, sealed>>

\* The goroutine of an abandoned Flush stays behind; one per client is followed.
Flush(c) ==
  /\ waiter[c] = "none"
  /\ Call(c, "Flush", "flush")
  /\ owed' = [owed EXCEPT ![c] = accepted]
  /\ waiter' = [waiter EXCEPT ![c] = "starting"]

\* The goroutine has seen the counter at zero, and nobody may wait for it.
Flushed(c) ==
  /\ waiter' = [waiter EXCEPT ![c] = "none"]
  /\ IF pc[c] # "flush" THEN UNCHANGED call
     ELSE IF op[c] = "Close" THEN Go(c, "seal")
     ELSE Return(c)

Wait(c) ==
  /\ ~crashed
  /\ waiter[c] = "starting"
  /\ IF wg = 0 THEN Flushed(c)
     ELSE waiter' = [waiter EXCEPT ![c] = "waiting"] /\ UNCHANGED call
  /\ UNCHANGED <<state, queue, wg, lock, busy, crashed, ghost>>

\* "WaitGroup is reused before previous Wait has returned"
Wake(c) ==
  /\ ~crashed
  /\ waiter[c] = "woken"
  /\ IF wg = 0 THEN Flushed(c) /\ UNCHANGED crashed
     ELSE crashed' = TRUE /\ UNCHANGED <<call, waiter>>
  /\ UNCHANGED <<state, queue, wg, lock, busy, ghost>>

\* The context of Flush or Close is done: an error, and the queue stays open.
Abandon(c) ==
  /\ ~crashed
  /\ pc[c] = "flush"
  /\ Return(c)
  /\ UNCHANGED <<state, queue, wg, lock, waiter, busy, crashed, ghost>>

\* closeOnce.Do(close(queue)), after Flush returned without an error.
Seal(c) ==
  /\ ~crashed
  /\ pc[c] = "seal"
  /\ sealed' = TRUE
  /\ Return(c)
  /\ UNCHANGED <<listeners, closed, queue, wg, lock, waiter, busy, crashed, ghost>>

-----------------------------------------------------------------------------
Receive(w) ==
  /\ ~crashed
  /\ busy[w] = NoJob
  /\ queue # <<>>
  /\ busy' = [busy EXCEPT ![w] = Head(queue)]
  /\ queue' = Tail(queue)
  /\ UNCHANGED <<state, wg, lock, call, waiter, crashed, ghost>>

\* dispatch: every listener runs; errors and panics go to the error handler.
Dispatch(w) ==
  /\ ~crashed
  /\ busy[w] # NoJob
  /\ ~busy[w].run
  /\ handled' = handled \cup ({busy[w].event} \X busy[w].to)
  /\ busy' = [busy EXCEPT ![w].run = TRUE]
  /\ UNCHANGED <<state, queue, wg, lock, call, waiter, crashed,
                 published, calls, accepted, owed>>

\* Mutant: the event counts as done before the listeners have run.
JobDoneEarly(w) ==
  /\ ~crashed
  /\ busy[w] # NoJob
  /\ CountDown
  /\ busy' = [busy EXCEPT ![w] = NoJob]
  /\ UNCHANGED <<state, queue, lock, call, crashed, ghost>>

JobDone(w) ==
  /\ ~crashed
  /\ busy[w] # NoJob
  /\ busy[w].run
  /\ CountDown
  /\ busy' = [busy EXCEPT ![w] = NoJob]
  /\ UNCHANGED <<state, queue, lock, call, crashed, ghost>>

-----------------------------------------------------------------------------
Init ==
  /\ listeners = {} /\ queue = <<>> /\ closed = FALSE /\ sealed = FALSE /\ wg = 0
  /\ readers = {} /\ writer = Nobody
  /\ pc = [c \in Client |-> "idle"]
  /\ op = [c \in Client |-> "none"]
  /\ job = [c \in Client |-> NoJob]
  /\ waiter = [c \in Client |-> "none"]
  /\ busy = [w \in Worker |-> NoJob]
  /\ crashed = FALSE
  /\ published = {} /\ calls = 0 /\ accepted = {} /\ handled = {}
  /\ owed = [c \in Client |-> {}]

\* Steps that a call in progress, once it can, goes on to take.
Proceed(c) ==
  \/ EnterPublish(c) \/ Enqueue(c)
  \/ Announce(c) \/ Register(c) \/ Clear(c) \/ Close(c)
  \/ Wait(c) \/ Wake(c) \/ Seal(c)

Work(w) == Receive(w) \/ Dispatch(w) \/ JobDone(w)

Next ==
  \/ \E c \in Client : \/ Publish(c) \/ CallWriter(c) \/ Flush(c)
                       \/ Proceed(c) \/ GiveUp(c) \/ Abandon(c)
  \/ \E w \in Worker : Work(w)

Spec == Init /\ [][Next]_vars

\* Goroutines are scheduled and listeners return; contexts need not be done.
FairSpec ==
  /\ Spec
  /\ \A c \in Client : WF_vars(Proceed(c))
  /\ \A w \in Worker : WF_vars(Work(w))

-----------------------------------------------------------------------------
Delivery == Event \X Listener

\* Every variable has its type: the fields of AsyncEventBus and the locals of
\* its methods.
TypeOK ==
  /\ listeners \subseteq Listener
  /\ queue \in Seq(Job)
  /\ {closed, sealed, crashed} \subseteq BOOLEAN
  /\ wg \in Nat
  /\ readers \subseteq Client
  /\ writer \in Client \cup {Nobody}
  /\ pc \in [Client -> {"idle", "publish", "enqueue", "lock", "announced", "flush", "seal"}]
  /\ op \in [Client -> {"none", "Publish", "Register", "Clear", "Close", "Flush"}]
  /\ job \in [Client -> Job \cup {NoJob}]
  /\ waiter \in [Client -> {"none", "starting", "waiting", "woken"}]
  /\ busy \in [Worker -> Job \cup {NoJob}]
  /\ {accepted, handled} \subseteq SUBSET Delivery
  /\ owed \in [Client -> SUBSET Delivery]

\* The WaitGroup counts exactly the events between Publish and the end of their
\* dispatch, whichever way they leave: delivered, or given up by the publisher.
\* One Done too few and Flush and Close hang, one too many and they lie.
CounterExact ==
  wg = Cardinality({c \in Client : pc[c] = "enqueue"}) + Len(queue)
         + Cardinality({w \in Worker : busy[w] # NoJob})

\* The queue is closed only when nothing is in it, in the hands of a worker or
\* about to be sent: Close never makes a publisher panic on a closed channel, and
\* loses no event, however publishers, workers and several Closes interleave.
SealedIsDrained ==
  sealed => /\ wg = 0
            /\ queue = <<>>
            /\ \A c \in Client : pc[c] # "enqueue"

\* Flush and Close return nil only after every event accepted before the call
\* has reached each listener that was registered when it was published.
FlushCovers ==
  [][\A c \in Client :
       pc[c] = "flush" /\ waiter[c] # "none" /\ waiter'[c] = "none"
         => owed[c] \subseteq handled]_vars

\* Publish, Register, Clear and Close all return, although a publisher waits for
\* room in the queue with the read lock held: the workers need no lock.
CallsReturn ==
  \A c \in Client :
    op[c] \in {"Publish", "Register", "Clear", "Close"} ~> (op[c] = "none" \/ crashed)
=============================================================================
