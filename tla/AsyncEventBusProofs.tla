------------------------ MODULE AsyncEventBusProofs ------------------------
(***************************************************************************)
(* What holds of AsyncEventBus for every finite number of publishers and     *)
(* workers, every set of listeners and events and every size of the queue:   *)
(* the WaitGroup is exact, the queue is closed only when it is drained, and  *)
(* a Flush that returns nil has waited for all that was accepted before it.  *)
(***************************************************************************)
EXTENDS AsyncEventBus, FiniteSetTheorems, SequenceTheorems, TLAPS

Sending == {c \in Client : pc[c] = "enqueue"}

Working == {w \in Worker : busy[w] # NoJob}

Deliveries(j) == {j.event} \X j.to

\* An event on its way is a job that has not run, until a worker runs it.
Fresh ==
  /\ \A c \in Client : pc[c] \in {"publish", "enqueue"} => job[c] \in Job /\ ~job[c].run
  /\ \A i \in 1 .. Len(queue) : ~queue[i].run

\* A client comes to close(queue) through a bus that accepts nothing any more
\* and a counter at zero, and neither is undone.
Sealing ==
  /\ \A c \in Client : pc[c] = "flush" /\ op[c] = "Close" => closed
  /\ sealed \/ (\E c \in Client : pc[c] = "seal") => closed /\ wg = 0

\* What was accepted has been handled, or a job of the queue or of a worker
\* accounts for it; a worker has handled the job it says it has run.
Accounted ==
  /\ \A d \in accepted :
       \/ d \in handled
       \/ \E i \in 1 .. Len(queue) : d \in Deliveries(queue[i])
       \/ \E w \in Worker : busy[w] # NoJob /\ d \in Deliveries(busy[w])
  /\ \A w \in Worker : busy[w] # NoJob /\ busy[w].run => Deliveries(busy[w]) \subseteq handled
  /\ \A c \in Client : owed[c] \subseteq accepted

Inv == TypeOK /\ CounterExact /\ Fresh /\ Sealing /\ Accounted

-----------------------------------------------------------------------------
\* The parts of the counter are numbers, and each of them holds it up.
LEMMA Counting ==
  ASSUME TypeOK, CounterExact
  PROVE  /\ IsFiniteSet(Sending) /\ Cardinality(Sending) \in Nat
         /\ IsFiniteSet(Working) /\ Cardinality(Working) \in Nat
         /\ Len(queue) \in Nat
         /\ wg = Cardinality(Sending) + Len(queue) + Cardinality(Working)
         /\ wg = 0 => Sending = {} /\ queue = <<>> /\ Working = {}
         /\ \A c \in Client : pc[c] = "enqueue" => wg >= 1
         /\ \A w \in Worker : busy[w] # NoJob => wg >= 1
<1>1. IsFiniteSet(Sending) /\ Cardinality(Sending) \in Nat
  BY BusAssumption, FS_Subset, FS_CardinalityType DEF Sending
<1>2. IsFiniteSet(Working) /\ Cardinality(Working) \in Nat
  BY BusAssumption, FS_Subset, FS_CardinalityType DEF Working
<1>3. /\ Len(queue) \in Nat
      /\ Len(queue) = 0 => queue = <<>>
  BY DEF TypeOK
<1>4. wg = Cardinality(Sending) + Len(queue) + Cardinality(Working)
  BY DEF CounterExact, Sending, Working
<1>5. /\ Cardinality(Sending) = 0 <=> Sending = {}
      /\ Cardinality(Working) = 0 <=> Working = {}
  BY <1>1, <1>2, FS_EmptySet
<1>6. wg = 0 => Sending = {} /\ queue = <<>> /\ Working = {}
  BY <1>1, <1>2, <1>3, <1>4, <1>5
<1>7. Sending # {} \/ Working # {} => wg >= 1
  BY <1>1, <1>2, <1>3, <1>4, <1>5
<1>8. /\ \A c \in Client : pc[c] = "enqueue" => Sending # {}
      /\ \A w \in Worker : busy[w] # NoJob => Working # {}
  BY DEF Sending, Working
<1> QED
  BY <1>1, <1>2, <1>3, <1>4, <1>6, <1>7, <1>8

\* CounterExact in the next state, from what became of the three parts.
LEMMA Recount ==
  ASSUME NEW n, NEW m, Cardinality(Sending') = n, Cardinality(Working') = m,
         wg' = n + Len(queue') + m
  PROVE  CounterExact'
BY DEF CounterExact, Sending, Working

\* An element of the queue is a job, at its head, after its head, and with one more.
LEMMA QueueTyped ==
  ASSUME NEW q \in Seq(Job)
  PROVE  /\ \A j \in Job : /\ Append(q, j) \in Seq(Job)
                           /\ Len(Append(q, j)) = Len(q) + 1
                           /\ \A i \in 1 .. Len(q) : Append(q, j)[i] = q[i]
                           /\ Append(q, j)[Len(q) + 1] = j
         /\ q # <<>> => /\ Head(q) \in Job /\ Head(q) = q[1]
                        /\ Tail(q) \in Seq(Job)
                        /\ Len(q) >= 1
                        /\ Len(Tail(q)) = Len(q) - 1
                        /\ \A i \in 1 .. Len(q) - 1 : Tail(q)[i] = q[i + 1]
<1>1. \A j \in Job : /\ Append(q, j) \in Seq(Job)
                     /\ Len(Append(q, j)) = Len(q) + 1
                     /\ \A i \in 1 .. Len(q) : Append(q, j)[i] = q[i]
                     /\ Append(q, j)[Len(q) + 1] = j
  BY AppendProperties
<1>2. ASSUME q # <<>>
      PROVE  /\ Head(q) \in Job /\ Head(q) = q[1]
             /\ Tail(q) \in Seq(Job)
             /\ Len(q) >= 1
             /\ Len(Tail(q)) = Len(q) - 1
             /\ \A i \in 1 .. Len(q) - 1 : Tail(q)[i] = q[i + 1]
  <2>1. /\ Head(q) \in Job /\ Head(q) = q[1]
        /\ Tail(q) \in Seq(Job)
        /\ Len(q) >= 1
    BY <1>2, HeadTailProperties
  <2>2. /\ Len(Tail(q)) = Len(q) - 1
        /\ \A i \in 1 .. Len(q) - 1 : Tail(q)[i] = q[i + 1]
    BY <1>2, HeadTailProperties
  <2> QED
    BY <2>1, <2>2
<1> QED
  BY <1>1, <1>2

-----------------------------------------------------------------------------
\* Every action keeps the types; what it sends is a job that has not run.
LEMMA ClientStepTyped ==
  ASSUME TypeOK, CounterExact, Fresh, NEW c \in Client,
         \/ Publish(c) \/ CallWriter(c) \/ Flush(c) \/ Proceed(c) \/ GiveUp(c) \/ Abandon(c)
  PROVE  TypeOK' /\ Fresh'
<1> USE DEF state, lock, ghost, call
<1>1. CASE Publish(c)
  <2>1. PICK e \in Event \ published :
          job' = [job EXCEPT ![c] = [event |-> e, to |-> {}, run |-> FALSE]]
    BY <1>1 DEF Publish
  <2>2. [event |-> e, to |-> {}, run |-> FALSE] \in Job
    BY DEF Job
  <2> QED
    BY <1>1, <2>1, <2>2 DEF Publish, TypeOK, Fresh
<1>2. CASE CallWriter(c)
  BY <1>2 DEF CallWriter, Call, TypeOK, Fresh
<1>3. CASE Flush(c)
  BY <1>3 DEF Flush, Call, TypeOK, Fresh, Delivery
<1>4. CASE EnterPublish(c)
  <2>1. CASE closed
    BY <1>4, <2>1 DEF EnterPublish, Return, TypeOK, Fresh
  <2>2. CASE ~closed
    <3>1. job' = [job EXCEPT ![c].to = listeners]
      BY <1>4, <2>2 DEF EnterPublish
    <3>2. job[c] \in Job /\ ~job[c].run /\ listeners \subseteq Listener
      BY <1>4 DEF EnterPublish, Fresh, TypeOK
    <3>3. [job[c] EXCEPT !.to = listeners] \in Job /\ ~[job[c] EXCEPT !.to = listeners].run
      BY <3>2 DEF Job
    <3>4. job' = [job EXCEPT ![c] = [job[c] EXCEPT !.to = listeners]]
      BY <3>1, <3>2 DEF TypeOK
    <3>5. /\ wg' = wg + 1
          /\ readers' = readers \cup {c}
          /\ pc' = [pc EXCEPT ![c] = "enqueue"]
          /\ UNCHANGED <<op, state, queue, writer, waiter, busy, crashed, ghost>>
      BY <1>4, <2>2 DEF EnterPublish
    <3>6. TypeOK'
      BY <3>3, <3>4, <3>5 DEF TypeOK
    <3>7. Fresh'
      BY <3>3, <3>4, <3>5 DEF TypeOK, Fresh
    <3> QED
      BY <3>6, <3>7
  <2> QED
    BY <2>1, <2>2
<1>5. CASE Enqueue(c)
  <2>1. job[c] \in Job /\ ~job[c].run /\ queue \in Seq(Job)
    BY <1>5 DEF Enqueue, Fresh, TypeOK
  <2>2. queue' = Append(queue, job[c])
    BY <1>5 DEF Enqueue
  <2>3. queue' \in Seq(Job) /\ \A i \in 1 .. Len(queue') : ~queue'[i].run
    <3>1. Len(queue) \in Nat
      BY <2>1
    <3> QED
      BY <2>1, <2>2, <3>1, QueueTyped DEF Fresh
  <2>4. {job[c].event} \X job[c].to \subseteq Delivery
    BY <2>1 DEF Job, Delivery
  <2>5. TypeOK'
    BY <1>5, <2>3, <2>4 DEF Enqueue, Return, TypeOK
  <2>6. Fresh'
    BY <1>5, <2>3 DEF Enqueue, Return, TypeOK, Fresh
  <2> QED
    BY <2>5, <2>6
<1>6. CASE GiveUp(c)
  <2>1. wg - 1 \in Nat
    BY <1>6, Counting DEF GiveUp, TypeOK
  <2> QED
    BY <1>6, <2>1 DEF GiveUp, CountDown, Return, TypeOK, Fresh
<1>7. CASE Announce(c)
  BY <1>7 DEF Announce, Go, TypeOK, Fresh
<1>8. CASE Register(c)
  BY <1>8 DEF Register, Locked, Return, TypeOK, Fresh
<1>9. CASE Clear(c)
  BY <1>9 DEF Clear, Locked, Return, TypeOK, Fresh
<1>10. CASE Close(c)
  BY <1>10 DEF Close, Locked, Go, TypeOK, Fresh, Delivery
<1>11. CASE Wait(c)
  BY <1>11 DEF Wait, Flushed, Go, Return, TypeOK, Fresh
<1>12. CASE Wake(c)
  BY <1>12 DEF Wake, Flushed, Go, Return, TypeOK, Fresh
<1>13. CASE Abandon(c)
  BY <1>13 DEF Abandon, Return, TypeOK, Fresh
<1>14. CASE Seal(c)
  BY <1>14 DEF Seal, Return, TypeOK, Fresh
<1> QED
  BY <1>1, <1>2, <1>3, <1>4, <1>5, <1>6, <1>7, <1>8, <1>9, <1>10, <1>11, <1>12,
     <1>13, <1>14 DEF Proceed

LEMMA WorkerStepTyped ==
  ASSUME TypeOK, CounterExact, Fresh, NEW w \in Worker, Work(w)
  PROVE  TypeOK' /\ Fresh'
<1> USE DEF state, lock, ghost, call
<1>1. CASE Receive(w)
  <2>1. queue \in Seq(Job) /\ queue # <<>> /\ Len(queue) \in Nat
    BY <1>1 DEF Receive, TypeOK
  <2>2. queue' = Tail(queue) /\ busy' = [busy EXCEPT ![w] = Head(queue)]
    BY <1>1 DEF Receive
  <2>3. /\ queue' \in Seq(Job) /\ Head(queue) \in Job
        /\ \A i \in 1 .. Len(queue') : ~queue'[i].run
    BY <2>1, <2>2, QueueTyped DEF Fresh
  <2> QED
    BY <1>1, <2>2, <2>3 DEF Receive, TypeOK, Fresh
<1>2. CASE Dispatch(w)
  <2>1. busy[w] \in Job
    BY <1>2 DEF Dispatch, TypeOK
  <2>2. [busy[w] EXCEPT !.run = TRUE] \in Job /\ {busy[w].event} \X busy[w].to \subseteq Delivery
    BY <2>1 DEF Job, Delivery
  <2>3. busy' = [busy EXCEPT ![w] = [busy[w] EXCEPT !.run = TRUE]]
    BY <1>2 DEF Dispatch, TypeOK
  <2> QED
    BY <1>2, <2>2, <2>3 DEF Dispatch, TypeOK, Fresh
<1>3. CASE JobDone(w)
  <2>1. wg - 1 \in Nat
    BY <1>3, Counting DEF JobDone, TypeOK
  <2> QED
    BY <1>3, <2>1 DEF JobDone, CountDown, TypeOK, Fresh
<1> QED
  BY <1>1, <1>2, <1>3 DEF Work

-----------------------------------------------------------------------------
\* Every action moves the counter with what it counts.
LEMMA ClientStepCounted ==
  ASSUME TypeOK, CounterExact, Fresh, NEW c \in Client,
         \/ Publish(c) \/ CallWriter(c) \/ Flush(c) \/ Proceed(c) \/ GiveUp(c) \/ Abandon(c)
  PROVE  CounterExact'
<1> USE DEF state, lock, ghost, call
<1> DEFINE quiet == /\ UNCHANGED <<queue, wg, busy>>
                    /\ \A x \in Client : pc'[x] = "enqueue" <=> pc[x] = "enqueue"
           n == Cardinality(Sending)
           m == Cardinality(Working)
<1>1. /\ n \in Nat /\ m \in Nat /\ Len(queue) \in Nat /\ wg = n + Len(queue) + m
      /\ IsFiniteSet(Sending)
  BY Counting
<1>2. CASE quiet
  <2>1. Sending' = Sending /\ Working' = Working
    BY <1>2 DEF Sending, Working
  <2> QED
    BY <1>1, <1>2, <2>1, Recount
<1>3. CASE EnterPublish(c) /\ ~closed
  <2>1. c \notin Sending /\ Sending' = Sending \cup {c}
    BY <1>3 DEF EnterPublish, Sending, TypeOK
  <2>2. Working' = Working /\ queue' = queue /\ wg' = wg + 1
    BY <1>3 DEF EnterPublish, Working
  <2>3. Cardinality(Sending') = n + 1
    BY <1>1, <2>1, FS_AddElement
  <2>4. wg' = (n + 1) + Len(queue') + m
    BY <1>1, <2>2
  <2> QED
    BY <2>2, <2>3, <2>4, Recount
<1>4. ASSUME pc[c] = "enqueue", Return(c)
      PROVE  c \in Sending /\ Cardinality(Sending') = n - 1
  <2>1. c \in Sending /\ Sending' = Sending \ {c}
    BY <1>4 DEF Return, Sending, TypeOK
  <2> QED
    BY <1>1, <2>1, FS_RemoveElement
<1>5. CASE Enqueue(c)
  <2>1. Cardinality(Sending') = n - 1
    BY <1>4, <1>5 DEF Enqueue
  <2>2. Working' = Working /\ wg' = wg /\ queue' = Append(queue, job[c])
    BY <1>5 DEF Enqueue, Working
  <2>3. Len(queue') = Len(queue) + 1
    BY <1>5, <2>2, QueueTyped DEF Enqueue, TypeOK, Fresh
  <2>4. wg' = (n - 1) + Len(queue') + m
    BY <1>1, <2>2, <2>3
  <2> QED
    BY <2>1, <2>2, <2>4, Recount
<1>6. CASE GiveUp(c)
  <2>1. Cardinality(Sending') = n - 1
    BY <1>4, <1>6 DEF GiveUp
  <2>2. Working' = Working /\ wg' = wg - 1 /\ queue' = queue
    BY <1>6 DEF GiveUp, CountDown, Working
  <2>3. wg' = (n - 1) + Len(queue') + m
    BY <1>1, <2>2
  <2> QED
    BY <2>1, <2>2, <2>3, Recount
<1>7. CASE \/ Publish(c) \/ CallWriter(c) \/ Flush(c) \/ Abandon(c)
           \/ EnterPublish(c) /\ closed
           \/ Announce(c) \/ Register(c) \/ Clear(c) \/ Close(c) \/ Seal(c)
  <2>1. quiet
    BY <1>7 DEF TypeOK, Publish, CallWriter, Flush, Call, Abandon, EnterPublish, Announce,
                Register, Clear, Close, Seal, Locked, Go, Return
  <2> QED
    BY <1>2, <2>1
<1>8. CASE Wait(c) \/ Wake(c)
  <2>1. quiet
    BY <1>8 DEF TypeOK, Wait, Wake, Flushed, Go, Return
  <2> QED
    BY <1>2, <2>1
<1> QED
  BY <1>3, <1>5, <1>6, <1>7, <1>8 DEF Proceed

LEMMA WorkerStepCounted ==
  ASSUME TypeOK, CounterExact, Fresh, NEW w \in Worker, Work(w)
  PROVE  CounterExact'
<1> USE DEF state, lock, ghost, call
<1> DEFINE n == Cardinality(Sending)
           m == Cardinality(Working)
<1>1. /\ n \in Nat /\ m \in Nat /\ Len(queue) \in Nat /\ wg = n + Len(queue) + m
      /\ IsFiniteSet(Working)
  BY Counting
<1>2. Sending' = Sending
  BY DEF Work, Receive, Dispatch, JobDone, Sending
<1>3. CASE Receive(w)
  <2>1. Head(queue) \in Job /\ Len(queue') = Len(queue) - 1
    BY <1>3, QueueTyped DEF Receive, TypeOK
  <2>2. Head(queue) # NoJob
    BY <2>1, BusAssumption DEF Job
  <2>3. w \notin Working /\ Working' = Working \cup {w} /\ wg' = wg
    BY <1>3, <2>2 DEF Receive, Working, TypeOK
  <2>4. Cardinality(Working') = m + 1
    BY <1>1, <2>3, FS_AddElement
  <2>5. wg' = n + Len(queue') + (m + 1)
    BY <1>1, <2>1, <2>3
  <2> QED
    BY <1>2, <2>4, <2>5, Recount
<1>4. CASE Dispatch(w)
  <2>1. [busy[w] EXCEPT !.run = TRUE] \in Job
    BY <1>4 DEF Dispatch, TypeOK, Job
  <2>2. [busy[w] EXCEPT !.run = TRUE] # NoJob
    BY <2>1, BusAssumption DEF Job
  <2>3. busy' = [busy EXCEPT ![w] = [busy[w] EXCEPT !.run = TRUE]] /\ busy[w] # NoJob
    BY <1>4 DEF Dispatch, TypeOK
  <2>4. Working' = Working
    BY <2>2, <2>3 DEF Working, TypeOK
  <2> QED
    BY <1>1, <1>2, <1>4, <2>4, Recount DEF Dispatch
<1>5. CASE JobDone(w)
  <2>1. w \in Working /\ Working' = Working \ {w} /\ wg' = wg - 1 /\ queue' = queue
    BY <1>5 DEF JobDone, CountDown, Working, TypeOK
  <2>2. Cardinality(Working') = m - 1
    BY <1>1, <2>1, FS_RemoveElement
  <2>3. wg' = n + Len(queue') + (m - 1)
    BY <1>1, <2>1
  <2> QED
    BY <1>2, <2>2, <2>3, Recount
<1> QED
  BY <1>3, <1>4, <1>5 DEF Work

-----------------------------------------------------------------------------
\* Once the bus is closed and the counter at zero, nothing brings it up again.
LEMMA StepSealing ==
  ASSUME TypeOK, CounterExact, Sealing, [Next]_vars
  PROVE  Sealing'
<1> USE DEF state, lock, ghost, call
<1>1. CASE UNCHANGED vars
  BY <1>1 DEF vars, Sealing
<1>2. ASSUME NEW w \in Worker, Work(w)
      PROVE  Sealing'
  <2>1. UNCHANGED <<closed, sealed, pc, op>>
    BY <1>2 DEF Work, Receive, Dispatch, JobDone
  <2>2. wg = 0 => wg' = 0
    <3>1. CASE Receive(w) \/ Dispatch(w)
      BY <3>1 DEF Receive, Dispatch
    <3>2. CASE JobDone(w)
      <4>1. busy[w] # NoJob
        BY <3>2 DEF JobDone
      <4>2. wg >= 1
        BY <4>1, Counting
      <4> QED
        BY <4>2
    <3> QED
      BY <1>2, <3>1, <3>2 DEF Work
  <2> QED
    BY <2>1, <2>2 DEF Sealing
<1>3. ASSUME NEW c \in Client, EnterPublish(c) \/ Enqueue(c) \/ GiveUp(c)
      PROVE  Sealing'
  <2>1. UNCHANGED <<closed, sealed>> /\ (closed /\ wg = 0 => wg' = 0)
    BY <1>3, Counting DEF EnterPublish, Enqueue, GiveUp, Return
  <2>2. \A x \in Client : /\ pc'[x] = "seal" => pc[x] = "seal"
                          /\ pc'[x] = "flush" /\ op'[x] = "Close"
                               => pc[x] = "flush" /\ op[x] = "Close"
    BY <1>3 DEF EnterPublish, Enqueue, GiveUp, Return, TypeOK
  <2> QED
    BY <2>1, <2>2 DEF Sealing
<1>4. ASSUME NEW c \in Client,
             \/ Publish(c) \/ CallWriter(c) \/ Flush(c) \/ Abandon(c)
             \/ Announce(c) \/ Register(c) \/ Clear(c)
      PROVE  Sealing'
  <2>1. UNCHANGED <<closed, sealed, wg>>
    BY <1>4 DEF Publish, CallWriter, Flush, Call, Abandon, Announce, Register, Clear, Locked
  <2>2. \A x \in Client : /\ pc'[x] = "seal" => pc[x] = "seal"
                          /\ pc'[x] = "flush" /\ op'[x] = "Close"
                               => pc[x] = "flush" /\ op[x] = "Close"
    BY <1>4 DEF Publish, CallWriter, Flush, Call, Abandon, Announce, Register, Clear,
                Locked, Go, Return, TypeOK
  <2> QED
    BY <2>1, <2>2 DEF Sealing
<1>5. ASSUME NEW c \in Client, Close(c)
      PROVE  Sealing'
  <2>1. closed' /\ UNCHANGED <<sealed, wg>>
    BY <1>5 DEF Close, Locked
  <2>2. \A x \in Client : pc'[x] = "seal" => pc[x] = "seal"
    BY <1>5 DEF Close, Go, TypeOK
  <2> QED
    BY <2>1, <2>2 DEF Sealing
<1>6. ASSUME NEW c \in Client, Wait(c) \/ Wake(c)
      PROVE  Sealing'
  <2>1. UNCHANGED <<closed, sealed, wg>>
    BY <1>6 DEF Wait, Wake
  <2>2. CASE UNCHANGED call
    BY <2>1, <2>2 DEF Sealing
  <2>3. CASE wg = 0 /\ Flushed(c)
    <3>1. \A x \in Client : /\ pc'[x] = "seal"
                                 => pc[x] = "seal" \/ (pc[x] = "flush" /\ op[x] = "Close")
                            /\ pc'[x] = "flush" /\ op'[x] = "Close"
                                 => pc[x] = "flush" /\ op[x] = "Close"
      BY <2>3 DEF Flushed, Go, Return, TypeOK
    <3> QED
      BY <2>1, <2>3, <3>1 DEF Sealing
  <2> QED
    BY <1>6, <2>2, <2>3 DEF Wait, Wake
<1>7. ASSUME NEW c \in Client, Seal(c)
      PROVE  Sealing'
  <2>1. closed /\ wg = 0 /\ UNCHANGED <<closed, wg>>
    BY <1>7 DEF Seal, Sealing
  <2>2. \A x \in Client : pc'[x] = "flush" /\ op'[x] = "Close"
                            => pc[x] = "flush" /\ op[x] = "Close"
    BY <1>7 DEF Seal, Return, TypeOK
  <2> QED
    BY <2>1, <2>2 DEF Sealing
<1> QED
  BY <1>1, <1>2, <1>3, <1>4, <1>5, <1>6, <1>7 DEF Next, Proceed

\* An accepted delivery stays in the queue, then with a worker, until it is handled.
LEMMA StepAccounted ==
  ASSUME TypeOK, Fresh, Accounted, [Next]_vars
  PROVE  Accounted'
<1> USE DEF state, lock, ghost, call
<1> DEFINE queued(d) == \E i \in 1 .. Len(queue) : d \in Deliveries(queue[i])
           inHand(d) == \E w \in Worker : busy[w] # NoJob /\ d \in Deliveries(busy[w])
<1>1. CASE UNCHANGED <<queue, busy, accepted, handled>> /\ (\A c \in Client : owed'[c] \in {owed[c], accepted})
  BY <1>1 DEF Accounted, Deliveries
<1>2. CASE UNCHANGED vars
  <2>1. UNCHANGED <<queue, busy, accepted, handled, owed>>
    BY <1>2 DEF vars
  <2> QED
    BY <1>1, <2>1
<1>3. ASSUME NEW c \in Client,
             \/ Publish(c) \/ CallWriter(c) \/ Flush(c) \/ GiveUp(c) \/ Abandon(c)
             \/ EnterPublish(c) \/ Announce(c) \/ Register(c) \/ Clear(c) \/ Close(c)
             \/ Wait(c) \/ Wake(c) \/ Seal(c)
      PROVE  Accounted'
  <2>1. UNCHANGED <<queue, busy, accepted, handled>>
    BY <1>3 DEF Publish, CallWriter, Flush, Call, GiveUp, Abandon, EnterPublish, Announce,
                Register, Clear, Close, Locked, Wait, Wake, Seal
  <2>2. \A x \in Client : owed'[x] \in {owed[x], accepted}
    BY <1>3 DEF TypeOK, Publish, CallWriter, Flush, Call, GiveUp, Abandon, EnterPublish,
                Announce, Register, Clear, Close, Locked, Wait, Wake, Seal
  <2> QED
    BY <1>1, <2>1, <2>2
<1>4. ASSUME NEW c \in Client, Enqueue(c)
      PROVE  Accounted'
  <2>1. /\ UNCHANGED <<busy, handled, owed>>
        /\ queue' = Append(queue, job[c])
        /\ accepted' = accepted \cup Deliveries(job[c])
    BY <1>4 DEF Enqueue, Deliveries
  <2>2. /\ Len(queue) \in Nat /\ Len(queue') = Len(queue) + 1
        /\ \A i \in 1 .. Len(queue) : queue'[i] = queue[i]
        /\ queue'[Len(queue) + 1] = job[c]
    BY <1>4, <2>1, QueueTyped DEF Enqueue, Fresh, TypeOK
  <2>3. /\ \A d : queued(d) => queued(d)'
        /\ \A d \in Deliveries(job[c]) : queued(d)'
    BY <2>2 DEF Deliveries
  <2>4. \A d \in accepted' : d \in handled' \/ queued(d)' \/ inHand(d)'
    BY <2>1, <2>3 DEF Accounted, Deliveries
  <2> QED
    BY <2>1, <2>4 DEF Accounted, Deliveries
<1>5. ASSUME NEW w \in Worker, Receive(w)
      PROVE  Accounted'
  <2>1. /\ UNCHANGED <<accepted, handled, owed>>
        /\ busy[w] = NoJob /\ queue # <<>> /\ queue' = Tail(queue)
        /\ busy' = [busy EXCEPT ![w] = Head(queue)]
    BY <1>5 DEF Receive
  <2>2. /\ Len(queue) \in Nat /\ Len(queue) >= 1 /\ Len(queue') = Len(queue) - 1
        /\ \A i \in 1 .. Len(queue) - 1 : queue'[i] = queue[i + 1]
        /\ Head(queue) = queue[1] /\ Head(queue) \in Job
    BY <2>1, QueueTyped DEF TypeOK
  <2>3. busy'[w] = queue[1] /\ queue[1] # NoJob /\ ~queue[1].run
    BY <2>1, <2>2, BusAssumption DEF Job, Fresh, TypeOK
  <2>4. \A x \in Worker \ {w} : busy'[x] = busy[x]
    BY <2>1 DEF TypeOK
  <2>5. \A d : inHand(d) => inHand(d)'
    BY <2>1, <2>4 DEF Deliveries
  <2>6. ASSUME NEW d, queued(d)
        PROVE  queued(d)' \/ inHand(d)'
    <3>1. PICK i \in 1 .. Len(queue) : d \in Deliveries(queue[i])
      BY <2>6
    <3>2. CASE i = 1
      BY <2>3, <3>1, <3>2 DEF Deliveries
    <3>3. CASE i # 1
      <4>1. i - 1 \in 1 .. Len(queue') /\ queue'[i - 1] = queue[i]
        BY <2>2, <3>3
      <4> QED
        BY <3>1, <4>1 DEF Deliveries
    <3> QED
      BY <3>2, <3>3
  <2>7. \A d \in accepted' : d \in handled' \/ queued(d)' \/ inHand(d)'
    BY <2>1, <2>5, <2>6 DEF Accounted
  <2> QED
    BY <2>1, <2>3, <2>4, <2>7 DEF Accounted, Deliveries
<1>6. ASSUME NEW w \in Worker, Dispatch(w)
      PROVE  Accounted'
  <2>1. /\ UNCHANGED <<queue, accepted, owed>>
        /\ handled' = handled \cup Deliveries(busy[w])
        /\ busy[w] # NoJob
        /\ busy' = [busy EXCEPT ![w] = [busy[w] EXCEPT !.run = TRUE]]
    BY <1>6 DEF Dispatch, Deliveries, TypeOK
  <2>2. /\ busy'[w] = [busy[w] EXCEPT !.run = TRUE]
        /\ \A x \in Worker \ {w} : busy'[x] = busy[x]
    BY <2>1 DEF TypeOK
  <2>3. busy[w] \in Job
    BY <2>1 DEF TypeOK
  <2>4. Deliveries(busy'[w]) = Deliveries(busy[w])
    BY <2>2, <2>3 DEF Deliveries, Job
  <2>5. \A d : inHand(d) => inHand(d)' \/ d \in handled'
    BY <2>1, <2>2
  <2>6. \A d \in accepted' : d \in handled' \/ queued(d)' \/ inHand(d)'
    BY <2>1, <2>5 DEF Accounted
  <2>7. \A x \in Worker : busy'[x] # NoJob /\ busy'[x].run => Deliveries(busy'[x]) \subseteq handled'
    BY <2>1, <2>2, <2>4 DEF Accounted
  <2> QED
    BY <2>1, <2>6, <2>7 DEF Accounted, Deliveries
<1>7. ASSUME NEW w \in Worker, JobDone(w)
      PROVE  Accounted'
  <2>1. /\ UNCHANGED <<queue, accepted, handled, owed>>
        /\ busy' = [busy EXCEPT ![w] = NoJob]
        /\ Deliveries(busy[w]) \subseteq handled
    BY <1>7 DEF JobDone, Accounted
  <2>2. busy'[w] = NoJob /\ \A x \in Worker \ {w} : busy'[x] = busy[x]
    BY <2>1 DEF TypeOK
  <2>3. \A d : inHand(d) => inHand(d)' \/ d \in handled
    BY <2>1, <2>2
  <2>4. \A d \in accepted' : d \in handled' \/ queued(d)' \/ inHand(d)'
    BY <2>1, <2>3 DEF Accounted
  <2> QED
    BY <2>1, <2>2, <2>4 DEF Accounted, Deliveries
<1> QED
  BY <1>2, <1>3, <1>4, <1>5, <1>6, <1>7 DEF Next, Proceed, Work

-----------------------------------------------------------------------------
LEMMA Inductive == Spec => []Inv
<1>1. Init => Inv
  <2> SUFFICES ASSUME Init PROVE Inv
    OBVIOUS
  <2>1. queue \in Seq(Job) /\ Len(queue) = 0
    BY EmptySeq DEF Init
  <2>2. TypeOK
    BY <2>1 DEF Init, TypeOK
  <2>3. Sending = {} /\ Working = {}
    BY DEF Init, Sending, Working
  <2>4. Cardinality(Sending) = 0 /\ Cardinality(Working) = 0 /\ wg = 0
    BY <2>3, FS_EmptySet DEF Init
  <2>5. CounterExact
    BY <2>1, <2>4 DEF CounterExact, Sending, Working
  <2>6. Fresh /\ Sealing /\ Accounted
    BY <2>1 DEF Init, Fresh, Sealing, Accounted
  <2> QED
    BY <2>2, <2>5, <2>6 DEF Inv
<1>2. Inv /\ [Next]_vars => Inv'
  <2> SUFFICES ASSUME Inv, [Next]_vars PROVE Inv'
    OBVIOUS
  <2>1. Sealing' /\ Accounted'
    BY StepSealing, StepAccounted DEF Inv
  <2>2. TypeOK' /\ Fresh' /\ CounterExact'
    <3>1. CASE UNCHANGED vars
      BY <3>1 DEF Inv, vars, state, lock, ghost, call, TypeOK, Fresh, CounterExact
    <3>2. CASE Next
      BY <3>2, ClientStepTyped, WorkerStepTyped, ClientStepCounted, WorkerStepCounted
         DEF Next, Inv
    <3> QED
      BY <3>1, <3>2
  <2> QED
    BY <2>1, <2>2 DEF Inv
<1> QED
  BY <1>1, <1>2, PTL DEF Spec

\* Every variable of AsyncEventBus keeps its type whoever publishes, flushes and
\* closes: a client is at a step of the call it made and holds a lock no one else
\* does, a worker has one job or none (Publish, Close, dispatch, jobDone).
THEOREM TypeCorrect == Spec => []TypeOK
<1>1. Inv => TypeOK
  BY DEF Inv
<1> QED
  BY <1>1, Inductive, PTL

\* However publishers, workers and contexts that end interleave, the WaitGroup of
\* AsyncEventBus counts the events on their way, no more and no fewer.
THEOREM CounterCorrect == Spec => []CounterExact
<1>1. Inv => CounterExact
  BY DEF Inv
<1> QED
  BY <1>1, Inductive, PTL

\* Close closes the queue only when nothing is in it, with a worker or about to be
\* sent, whatever number of Closes, Flushes and publishers there is.
THEOREM SealedCorrect == Spec => []SealedIsDrained
<1>1. Inv => SealedIsDrained
  <2> SUFFICES ASSUME Inv, sealed
               PROVE  wg = 0 /\ queue = <<>> /\ \A c \in Client : pc[c] # "enqueue"
    BY DEF SealedIsDrained
  <2>1. wg = 0
    BY DEF Inv, Sealing
  <2>2. queue = <<>> /\ Sending = {}
    BY <2>1, Counting DEF Inv
  <2> QED
    BY <2>1, <2>2 DEF Sending
<1> QED
  BY <1>1, Inductive, PTL

\* Flush and Close return nil only when each listener has handled every event that
\* was accepted before the call: the counter they saw at zero accounts for all.
THEOREM FlushCorrect == Spec => FlushCovers
<1> DEFINE covers == \A c \in Client :
                       pc[c] = "flush" /\ waiter[c] # "none" /\ waiter'[c] = "none"
                         => owed[c] \subseteq handled
<1>1. Inv /\ [Next]_vars => [covers]_vars
  <2> SUFFICES ASSUME Inv, Next, NEW c \in Client, waiter[c] # "none", waiter'[c] = "none"
               PROVE  owed[c] \subseteq handled
    OBVIOUS
  <2>1. wg = 0
    BY DEF Inv, TypeOK, Next, Proceed, Work, Publish, CallWriter, Call, Flush, GiveUp, Abandon,
           EnterPublish, Enqueue, Announce, Register, Clear, Close, Locked, Wait, Wake, Flushed,
           Seal, Receive, Dispatch, JobDone, CountDown
  <2>2. queue = <<>> /\ Working = {}
    BY <2>1, Counting DEF Inv
  <2>3. Len(queue) = 0
    BY <2>2
  <2> QED
    BY <2>2, <2>3 DEF Inv, Accounted, Working
<1> QED
  BY <1>1, Inductive, PTL DEF Spec, FlushCovers
=============================================================================
