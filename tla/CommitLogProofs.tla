-------------------------- MODULE CommitLogProofs --------------------------
(***************************************************************************)
(* Proofs about the commit log: CommitLog, its control, and FlushBuffer,   *)
(* one buffer of it and its file.                                          *)
(***************************************************************************)
EXTENDS CommitLog, FlushBuffer, SequenceTheorems, TLAPS

\* A leaf that names no prover is one for the SMT solver.
USE SMTT(60)

(* What the steps of tasks say: the one of the flush loop is where the     *)
(* loop is, and an append that leaves the gate has written its record.     *)
Agrees(t, lp, done) ==
    /\ t.step = "take" => lp = "taking"
    /\ t.step = "release" => lp = "flushed"
    /\ t.step = "leave" => t.m \in done

Loops(t) == t.step \in {"take", "release"}

(* The flush loop has one task at most in queue q.                         *)
Queue(q, lp, done) ==
    /\ \A i \in DOMAIN q : Agrees(q[i], lp, done)
    /\ \A i, j \in DOMAIN q : Loops(q[i]) /\ Loops(q[j]) => i = j

(* The parts of the inductive invariant of the control: the reactor, the   *)
(* waiters, the buffers, the flush loop, and what has become of mutations. *)
ReactorOK ==
    /\ tasks \in Seq(Tasks) /\ inline \in Tasks \cup {None} /\ idle \in BOOLEAN
    /\ Queue(tasks, loop, written)
    /\ inline # None => Agrees(inline, loop, written) /\ ~Loops(inline)

PoolOK ==
    /\ released_units \in Nat /\ waiters \in Seq(Tasks)
    /\ \A i \in DOMAIN waiters : waiters[i].step \in {"room", "init_buffer"}

Buffers ==
    [offset : Nat, cursor : 0 .. Capacity, touched : Nat, closed : BOOLEAN, entered : Int,
     sealing : BOOLEAN, held : SUBSET Mutations]

StoreOK ==
    /\ bufs \in Seq(Buffers)
    /\ current \in 1 .. Len(bufs) \cup {None} /\ flushing \in 1 .. Len(bufs) \cup {None}
    /\ pending \in Seq(1 .. Len(bufs) \cup {None}) /\ released \in Seq(1 .. Len(bufs))

LoopOK ==
    /\ loop \in {"none", "waiting", "taking", "flushing", "flushed", "dead"} /\ pending_units \in Nat
    /\ armed \in BOOLEAN
    /\ ~armed => loop = "none"
    /\ loop \in {"flushing", "flushed"} => flushing # None
    /\ PendingSignalled

RecordsOK ==
    /\ todo \in SUBSET Mutations /\ opening \in SUBSET Mutations
    /\ file_open \in BOOLEAN
    /\ file \in SUBSET Mutations /\ written \in SUBSET Mutations
    /\ acked \in SUBSET Mutations /\ failed \in SUBSET Mutations
    /\ status \in {"up", "arm", "close", "null", "overrun"}
    /\ WriteAhead

LogInv == ReactorOK /\ PoolOK /\ StoreOK /\ LoopOK /\ RecordsOK

-----------------------------------------------------------------------------
(* The queue of the reactor, when a task leaves it and when one is added.  *)
LEMMA QueueTail ==
  ASSUME NEW q \in Seq(Tasks), q # <<>>, NEW lp, NEW done, Queue(q, lp, done)
  PROVE  /\ Head(q) \in Tasks /\ Tail(q) \in Seq(Tasks)
         /\ Agrees(Head(q), lp, done) /\ Queue(Tail(q), lp, done)
         /\ Loops(Head(q)) => \A lp2 : Queue(Tail(q), lp2, done)
<1>. DEFINE t == Tail(q)
            n == Len(t)
<1>1. /\ n \in Nat /\ Head(q) \in Tasks /\ t \in Seq(Tasks) /\ Head(q) = q[1] /\ 1 \in DOMAIN q
      /\ DOMAIN t = 1 .. n /\ \A i \in 1 .. n : i + 1 \in DOMAIN q /\ t[i] = q[i + 1] /\ i + 1 # 1
  <2>1. Head(q) \in Tasks /\ t \in Seq(Tasks) /\ Len(t) = Len(q) - 1 /\ Len(q) \in Nat \ {0}
    BY HeadTailProperties, EmptySeq
  <2>2. DOMAIN q = 1 .. Len(q) /\ DOMAIN t = 1 .. Len(t)
    BY <2>1, LenProperties
  <2>. QED  BY <2>1, <2>2
<1>. HIDE DEF t, n
<1>2. \A i \in DOMAIN t : Agrees(t[i], lp, done)
  BY <1>1 DEF Queue
<1>3. \A i, j \in DOMAIN t : Loops(t[i]) /\ Loops(t[j]) => i = j
  BY <1>1 DEF Queue
<1>4. ASSUME Loops(Head(q))  PROVE \A i \in DOMAIN t : ~Loops(t[i])
  BY <1>1, <1>4 DEF Queue
<1>5. ASSUME Loops(Head(q)), NEW lp2  PROVE Queue(t, lp2, done)
  BY <1>2, <1>3, <1>4, <1>5 DEF Queue, Agrees, Loops
<1>. QED  BY <1>1, <1>2, <1>3, <1>5 DEF Queue, t

LEMMA QueueAppend ==
  ASSUME NEW q \in Seq(Tasks), NEW t \in Tasks, NEW lp, NEW done,
         Queue(q, lp, done), Agrees(t, lp, done), Loops(t) => \A i \in DOMAIN q : ~Loops(q[i])
  PROVE  Append(q, t) \in Seq(Tasks) /\ Queue(Append(q, t), lp, done)
<1>. DEFINE a == Append(q, t)
            n == Len(q)
<1>1. /\ n \in Nat /\ DOMAIN q = 1 .. n /\ a \in Seq(Tasks) /\ DOMAIN a = 1 .. n + 1
      /\ \A i \in 1 .. n : a[i] = q[i]
      /\ a[n + 1] = t
  <2>1. n \in Nat /\ DOMAIN q = 1 .. n
    BY LenProperties
  <2>2. /\ a \in Seq(Tasks) /\ Len(a) = n + 1 /\ a[n + 1] = t /\ \A i \in 1 .. n : a[i] = q[i]
    BY AppendProperties
  <2>3. DOMAIN a = 1 .. n + 1
    BY <2>2, LenProperties
  <2>. QED  BY <2>1, <2>2, <2>3
<1>. HIDE DEF a, n
<1>2. \A i \in 1 .. n + 1 : i \in 1 .. n \/ i = n + 1
  BY <1>1
<1>3. \A i \in DOMAIN a : Agrees(a[i], lp, done)
  BY <1>1, <1>2 DEF Queue
<1>4. \A i, j \in DOMAIN a : Loops(a[i]) /\ Loops(a[j]) => i = j
  BY <1>1, <1>2 DEF Queue
<1>. QED  BY <1>1, <1>3, <1>4 DEF Queue, a

(* Where the flush loop has no task of its own.                            *)
LEMMA QueueMoves ==
  ASSUME NEW q \in Seq(Tasks), NEW lp, NEW done, Queue(q, lp, done), lp \notin {"taking", "flushed"}
  PROVE  /\ \A i \in DOMAIN q : ~Loops(q[i])
         /\ \A lp2 : Queue(q, lp2, done)
BY DEF Queue, Agrees, Loops

LEMMA QueueWritten ==
  ASSUME NEW q \in Seq(Tasks), NEW lp, NEW done, Queue(q, lp, done), NEW more, done \subseteq more
  PROVE  Queue(q, lp, more)
BY DEF Queue, Agrees

LEMMA RunningTask ==
  ASSUME ReactorOK, NEW t, Running(t)
  PROVE  /\ t \in Tasks /\ Rest \in Seq(Tasks)
         /\ Agrees(t, loop, written) /\ Queue(Rest, loop, written)
         /\ Loops(t) => \A lp : Queue(Rest, lp, written)
<1>1. CASE inline # None
  BY <1>1 DEF ReactorOK, Running, Rest
<1>2. CASE inline = None
  <2>1. tasks # <<>> /\ t = Head(tasks) /\ Rest = Tail(tasks)
    BY <1>2 DEF Running, Rest
  <2>. QED  BY <2>1, QueueTail DEF ReactorOK
<1>. QED  BY <1>1, <1>2

LEMMA StopKeeps ==
  ASSUME ReactorOK, NEW q \in Seq(Tasks), Stop(q), Queue(q, loop', written')
  PROVE  ReactorOK'
BY DEF ReactorOK, Stop

LEMMA ThenKeeps ==
  ASSUME ReactorOK, NEW q \in Seq(Tasks), NEW t \in Tasks, Then(q, t),
         Queue(q, loop', written'), Agrees(t, loop', written'), ~Loops(t)
  PROVE  ReactorOK'
<1>1. Append(q, t) \in Seq(Tasks) /\ Queue(Append(q, t), loop', written')
  BY QueueAppend
<1>. QED  BY <1>1, ZenonT(60) DEF ReactorOK, Then

LEMMA FollowKeeps ==
  ASSUME ReactorOK, NEW q \in Seq(Tasks), NEW t \in Tasks, Follow(q, t),
         Queue(q, loop', written'), Agrees(t, loop', written'), ~Loops(t)
  PROVE  ReactorOK'
<1>1. Append(q, t) \in Seq(Tasks) /\ Queue(Append(q, t), loop', written')
  BY QueueAppend
<1>. QED  BY <1>1, ThenKeeps, StopKeeps, ZenonT(60) DEF Follow

LEMMA WaitKeeps ==
  ASSUME ReactorOK, PoolOK, NEW q \in Seq(Tasks), NEW t \in Tasks, t.step \in {"room", "init_buffer"},
         wait_released(q, t), Queue(q, loop', written')
  PROVE  ReactorOK' /\ PoolOK'
<1>1. Agrees(t, loop', written') /\ ~Loops(t)
  BY DEF Agrees, Loops
<1>2. CASE released_units > 0 /\ waiters = <<>>
  <2>1. Then(q, t) /\ UNCHANGED waiters /\ released_units' \in Nat
    BY <1>2 DEF wait_released, PoolOK
  <2>. QED  BY <1>1, <2>1, ThenKeeps DEF PoolOK
<1>3. CASE ~(released_units > 0 /\ waiters = <<>>)
  <2>1. Stop(q) /\ waiters' = Append(waiters, t) /\ UNCHANGED released_units
    BY <1>3, ZenonT(60) DEF wait_released
  <2>2. ReactorOK'
    BY <2>1, StopKeeps
  <2>3. /\ waiters' \in Seq(Tasks) /\ DOMAIN waiters' = 1 .. Len(waiters) + 1
        /\ waiters'[Len(waiters) + 1] = t /\ \A i \in 1 .. Len(waiters) : waiters'[i] = waiters[i]
    BY <2>1, AppendProperties, LenProperties DEF PoolOK
  <2>4. DOMAIN waiters = 1 .. Len(waiters) /\ Len(waiters) \in Nat
    BY LenProperties DEF PoolOK
  <2>5. \A i \in 1 .. Len(waiters) + 1 : i \in 1 .. Len(waiters) \/ i = Len(waiters) + 1
    BY <2>4
  <2>6. \A i \in DOMAIN waiters' : waiters'[i].step \in {"room", "init_buffer"}
    BY <2>3, <2>4, <2>5 DEF PoolOK
  <2>. QED  BY <2>1, <2>2, <2>3, <2>6 DEF PoolOK
<1>. QED  BY <1>2, <1>3

(* A signal wakes the flush loop with a task, if it waits.                 *)
LEMMA SignalKeeps ==
  ASSUME LoopOK, NEW q \in Seq(Tasks), Queue(q, loop, written), signal_pending, UNCHANGED written
  PROVE  Woken(q) \in Seq(Tasks) /\ Queue(Woken(q), loop', written')
<1>1. CASE loop = "waiting"
  <2>. DEFINE t == Task("take", None)
  <2>1. loop' = "taking" /\ Woken(q) = Append(q, t)
    BY <1>1 DEF signal_pending, Woken
  <2>2. t \in Tasks /\ Agrees(t, "taking", written)
    BY DEF Task, Tasks, Steps, Agrees
  <2>3. Queue(q, "taking", written) /\ \A i \in DOMAIN q : ~Loops(q[i])
    BY <1>1, QueueMoves
  <2>. HIDE DEF t
  <2>4. Append(q, t) \in Seq(Tasks) /\ Queue(Append(q, t), "taking", written)
    BY <2>2, <2>3, QueueAppend
  <2>. QED  BY <2>1, <2>4
<1>2. CASE loop # "waiting"
  BY <1>2 DEF signal_pending, Woken
<1>. QED  BY <1>1, <1>2

(* One step, and the reactor.                                              *)
LEMMA ReactorStep ==
  ASSUME LogInv, [Next]_vars
  PROVE  ReactorOK' /\ PoolOK'
<1>. USE DEF LogInv
<1>a. ASSUME NEW why, Trip(why)  PROVE ReactorOK' /\ PoolOK'
  BY <1>a DEF Trip, reactor, queues, pool, results, ReactorOK, PoolOK
<1>b. \A step \in Steps : \A m \in Mutations \cup {None} : Task(step, m) \in Tasks /\ Task(step, m).step = step /\ Task(step, m).m = m
  BY DEF Task, Tasks
<1>c. UNCHANGED <<released_units, waiters>> => PoolOK'
  BY DEF PoolOK
<1>1. ASSUME NEW m \in Mutations, request(m)  PROVE ReactorOK' /\ PoolOK'
  <2>1. Task("append", m) \in Tasks /\ Agrees(Task("append", m), loop, written) /\ ~Loops(Task("append", m))
    BY <1>b DEF Steps, Agrees, Loops
  <2>2. Append(tasks, Task("append", m)) \in Seq(Tasks) /\ Queue(Append(tasks, Task("append", m)), loop, written)
    BY <2>1, QueueAppend DEF ReactorOK
  <2>3. Stop(Append(tasks, Task("append", m))) /\ UNCHANGED <<loop, written, released_units, waiters>>
    BY <1>1 DEF request, queues, pool, results
  <2>. QED  BY <1>c, <2>2, <2>3, StopKeeps, ZenonT(60)
<1>2. ASSUME NEW m \in Mutations, append(m)  PROVE ReactorOK' /\ PoolOK'
  <2>1. /\ Rest \in Seq(Tasks) /\ Queue(Rest, loop, written)
    BY <1>2, RunningTask DEF append
  <2>2. CASE ~file_open
    <3>1. initialize(m)
      BY <1>2, <2>2 DEF append
    <3>2. CASE armed
      BY <1>a, <3>1, <3>2 DEF initialize
    <3>3. CASE ~armed
      <4>1. Stop(Rest) /\ loop' = "waiting" /\ loop = "none" /\ UNCHANGED <<written, released_units, waiters>>
        BY <3>1, <3>3 DEF initialize, LoopOK, pool, results
      <4>2. Queue(Rest, loop', written')
        BY <2>1, <4>1, QueueMoves
      <4>. QED  BY <1>c, <2>1, <4>1, <4>2, StopKeeps
    <3>. QED  BY <3>2, <3>3
  <2>3. CASE Then(Rest, Task("write", m)) /\ UNCHANGED <<queues, pool, results>>
    <3>1. Task("write", m) \in Tasks /\ Agrees(Task("write", m), loop, written) /\ ~Loops(Task("write", m))
      BY <1>b DEF Steps, Agrees, Loops
    <3>2. UNCHANGED <<loop, written, released_units, waiters>>
      BY <2>3 DEF queues, pool, results
    <3>. QED  BY <1>c, <2>1, <2>3, <3>1, <3>2, ThenKeeps
  <2>4. CASE make_room(m)
    <3>1. CASE current # None /\ bufs[current].closed
      BY <1>a, <2>4, <3>1 DEF make_room
    <3>2. CASE ~(current # None /\ bufs[current].closed)
      <4>1. Task("room", m) \in Tasks /\ Task("room", m).step \in {"room", "init_buffer"}
        BY <1>b DEF Steps
      <4>2. wait_released(IF current = None THEN Rest ELSE Woken(Rest), Task("room", m)) /\ UNCHANGED written
        BY <2>4, <3>2 DEF make_room, results
      <4>3. CASE current = None
        <5>1. UNCHANGED loop
          BY <2>4, <3>2, <4>3 DEF make_room, queues
        <5>. QED  BY <2>1, <4>1, <4>2, <4>3, <5>1, WaitKeeps
      <4>4. CASE current # None
        <5>1. signal_pending
          BY <2>4, <3>2, <4>4 DEF make_room
        <5>2. Woken(Rest) \in Seq(Tasks) /\ Queue(Woken(Rest), loop', written')
          BY <2>1, <4>2, <5>1, SignalKeeps
        <5>. QED  BY <4>1, <4>2, <4>4, <5>2, WaitKeeps
      <4>. QED  BY <4>3, <4>4
    <3>. QED  BY <3>1, <3>2
  <2>. QED  BY <1>2, <2>2, <2>3, <2>4 DEF append
<1>3. ASSUME NEW m \in Mutations, open_done(m)  PROVE ReactorOK' /\ PoolOK'
  <2>. DEFINE t == Task("opened", m)
  <2>1. t \in Tasks /\ Agrees(t, loop, written) /\ ~Loops(t)
    BY <1>b DEF Steps, Agrees, Loops
  <2>2. UNCHANGED <<loop, written, released_units, waiters>>
    BY <1>3 DEF open_done, queues, pool
  <2>3. CASE Stop(Append(tasks, t))
    <3>. HIDE DEF t
    <3>1. Append(tasks, t) \in Seq(Tasks) /\ Queue(Append(tasks, t), loop, written)
      BY <2>1, QueueAppend DEF ReactorOK
    <3>. QED  BY <1>c, <2>2, <2>3, <3>1, StopKeeps, ZenonT(60)
  <2>4. CASE UNCHANGED reactor
    BY <1>c, <2>2, <2>4 DEF reactor, ReactorOK
  <2>. QED  BY <1>3, <2>3, <2>4 DEF open_done
<1>4. ASSUME NEW m \in Mutations, opened(m)  PROVE ReactorOK' /\ PoolOK'
  <2>1. Rest \in Seq(Tasks) /\ Queue(Rest, loop, written)
    BY <1>4, RunningTask DEF opened
  <2>2. Task("init_buffer", m) \in Tasks /\ Task("init_buffer", m).step \in {"room", "init_buffer"}
    BY <1>b DEF Steps
  <2>3. wait_released(Rest, Task("init_buffer", m)) /\ UNCHANGED <<loop, written>>
    BY <1>4 DEF opened, queues, results
  <2>. QED  BY <2>1, <2>2, <2>3, WaitKeeps
<1>5. ASSUME NEW m \in Mutations, init_buffer(m)  PROVE ReactorOK' /\ PoolOK'
  <2>. DEFINE t == Task("append", m)
  <2>1. Rest \in Seq(Tasks) /\ Queue(Rest, loop, written)
    BY <1>5, RunningTask DEF init_buffer
  <2>2. t \in Tasks /\ Agrees(t, loop, written) /\ ~Loops(t)
    BY <1>b DEF Steps, Agrees, Loops
  <2>3. UNCHANGED <<loop, written, released_units, waiters>>
    BY <1>5 DEF init_buffer, queues, pool
  <2>4. Stop(Append(Rest, t)) \/ Stop(Rest)
    BY <1>5 DEF init_buffer, bad_alloc
  <2>. HIDE DEF t
  <2>5. Append(Rest, t) \in Seq(Tasks) /\ Queue(Append(Rest, t), loop, written)
    BY <2>1, <2>2, QueueAppend
  <2>. QED  BY <1>c, <2>1, <2>3, <2>4, <2>5, StopKeeps, ZenonT(60)
<1>6. ASSUME NEW m \in Mutations, room(m)  PROVE ReactorOK' /\ PoolOK'
  <2>1. Rest \in Seq(Tasks) /\ Queue(Rest, loop, written)
    BY <1>6, RunningTask DEF room
  <2>2. Task("write", m) \in Tasks /\ Agrees(Task("write", m), loop, written) /\ ~Loops(Task("write", m))
    BY <1>b DEF Steps, Agrees, Loops
  <2>3. UNCHANGED <<loop, written, released_units, waiters>>
    BY <1>6 DEF room, queues
  <2>4. Follow(Rest, Task("write", m)) \/ Stop(Rest)
    BY <1>6 DEF room, bad_alloc
  <2>. QED  BY <1>c, <2>1, <2>2, <2>3, <2>4, StopKeeps, FollowKeeps
<1>7. ASSUME NEW m \in Mutations, write(m)  PROVE ReactorOK' /\ PoolOK'
  <2>1. Rest \in Seq(Tasks) /\ Queue(Rest, loop, written)
    BY <1>7, RunningTask DEF write
  <2>2. CASE \E why : Trip(why)
    BY <1>a, <2>2
  <2>3. ASSUME NEW ok \in BOOLEAN, written' = (IF ok THEN written \cup {m} ELSE written),
               IF ok THEN Follow(Rest, Task("leave", m)) ELSE Stop(Rest),
               UNCHANGED <<queues, pool>>
        PROVE  ReactorOK' /\ PoolOK'
    <3>1. UNCHANGED <<loop, released_units, waiters>>
      BY <2>3 DEF queues, pool
    <3>2. Queue(Rest, loop', written')
      BY <2>1, <2>3, <3>1, QueueWritten
    <3>3. CASE ok
      <4>1. /\ Task("leave", m) \in Tasks /\ Agrees(Task("leave", m), loop', written')
            /\ ~Loops(Task("leave", m))
        BY <1>b, <2>3, <3>3 DEF Steps, Agrees, Loops
      <4>. QED  BY <1>c, <2>1, <2>3, <3>1, <3>2, <3>3, <4>1, FollowKeeps, ZenonT(60)
    <3>4. CASE ~ok
      BY <1>c, <2>1, <2>3, <3>1, <3>2, <3>4, StopKeeps
    <3>. QED  BY <3>3, <3>4
  <2>4. CASE current = None
    BY <1>7, <2>2, <2>4 DEF write
  <2>5. CASE current # None
    <3>. DEFINE ok == ~bufs[current].closed /\ ensure(bufs[current], Size[m])
    <3>1. ok \in BOOLEAN
      BY DEF ensure
    <3>2. \/ Trip("overrun")
          \/ /\ written' = (IF ok THEN written \cup {m} ELSE written)
             /\ IF ok THEN Follow(Rest, Task("leave", m)) ELSE Stop(Rest)
             /\ UNCHANGED <<queues, pool>>
      BY <1>7, <2>5, ZenonT(60) DEF write
    <3>. HIDE DEF ok
    <3>. QED  BY <2>2, <2>3, <3>1, <3>2
  <2>. QED  BY <2>4, <2>5
<1>8. ASSUME NEW m \in Mutations, leave(m)  PROVE ReactorOK' /\ PoolOK'
  <2>. DEFINE t == Task("seal", None)
  <2>1. Rest \in Seq(Tasks) /\ Queue(Rest, loop, written)
    BY <1>8, RunningTask DEF leave
  <2>2. t \in Tasks /\ Agrees(t, loop, written) /\ ~Loops(t)
    BY <1>b DEF Steps, Agrees, Loops
  <2>3. CASE current = None
    BY <1>8, <1>a, <2>3 DEF leave
  <2>4. CASE current # None
    <3>1. UNCHANGED <<loop, written, released_units, waiters>> /\ (Stop(Append(Rest, t)) \/ Stop(Rest))
      BY <1>8, <2>4 DEF leave, queues, pool
    <3>. HIDE DEF t
    <3>2. Append(Rest, t) \in Seq(Tasks) /\ Queue(Append(Rest, t), loop, written)
      BY <2>1, <2>2, QueueAppend
    <3>. QED  BY <1>c, <2>1, <3>1, <3>2, StopKeeps, ZenonT(60)
  <2>. QED  BY <2>3, <2>4
<1>9. CASE on_timer
  <2>. DEFINE t == Task("seal", None)
  <2>1. t \in Tasks /\ Agrees(t, loop, written) /\ ~Loops(t)
    BY <1>b DEF Steps, Agrees, Loops
  <2>2. \/ Trip("close")
        \/ /\ \/ inline' = t /\ UNCHANGED tasks
              \/ tasks' = Append(tasks, t) /\ UNCHANGED inline
              \/ UNCHANGED <<tasks, inline>>
           /\ idle' \in BOOLEAN /\ UNCHANGED <<loop, written, released_units, waiters>>
    BY <1>9, ZenonT(60) DEF on_timer, queues, pool, results
  <2>. HIDE DEF t
  <2>3. Append(tasks, t) \in Seq(Tasks) /\ Queue(Append(tasks, t), loop, written)
    BY <2>1, QueueAppend DEF ReactorOK
  <2>. QED  BY <1>a, <1>c, <2>1, <2>2, <2>3, ZenonT(60) DEF ReactorOK
<1>10. CASE seal
  <2>1. Rest \in Seq(Tasks) /\ Queue(Rest, loop, written)
    BY <1>10, RunningTask DEF seal
  <2>2. signal_pending /\ Stop(Woken(Rest)) /\ UNCHANGED <<written, released_units, waiters>>
    BY <1>10 DEF seal, pool, results
  <2>3. Woken(Rest) \in Seq(Tasks) /\ Queue(Woken(Rest), loop', written')
    BY <2>1, <2>2, SignalKeeps
  <2>. QED  BY <1>c, <2>2, <2>3, StopKeeps
<1>11. CASE take
  <2>1. Loops(Task("take", None))
    BY <1>b DEF Steps, Loops
  <2>2. Rest \in Seq(Tasks) /\ \A lp : Queue(Rest, lp, written)
    BY <1>11, <2>1, RunningTask DEF take
  <2>3. \/ \E why : Trip(why)
        \/ Stop(Rest) /\ UNCHANGED <<written, released_units, waiters>>
    BY <1>11 DEF take, pool, results
  <2>. QED  BY <1>a, <1>c, <2>2, <2>3, StopKeeps
<1>12. CASE do_flush_one_buffer
  <2>. DEFINE t == Task("release", None)
  <2>1. t \in Tasks /\ Agrees(t, "flushed", written)
    BY <1>b DEF Steps, Agrees
  <2>2. \A i \in DOMAIN tasks : ~Loops(tasks[i])
    BY <1>12, QueueMoves DEF do_flush_one_buffer, ReactorOK
  <2>3. \A lp : Queue(tasks, lp, written)
    BY <1>12, QueueMoves DEF do_flush_one_buffer, ReactorOK
  <2>4. UNCHANGED <<written, released_units, waiters>> /\ inline = None
    BY <1>12 DEF do_flush_one_buffer, pool, results, Polling
  <2>5. CASE loop' = "flushed" /\ Stop(Append(tasks, t))
    <3>. HIDE DEF t
    <3>1. Append(tasks, t) \in Seq(Tasks) /\ Queue(Append(tasks, t), "flushed", written)
      BY <2>1, <2>2, <2>3, QueueAppend DEF ReactorOK
    <3>. QED  BY <1>c, <2>4, <2>5, <3>1, StopKeeps, ZenonT(60)
  <2>6. CASE UNCHANGED reactor
    BY <1>c, <2>3, <2>4, <2>6 DEF reactor, ReactorOK
  <2>. QED  BY <1>12, <2>5, <2>6 DEF do_flush_one_buffer
<1>13. CASE release
  <2>1. Loops(Task("release", None))
    BY <1>b DEF Steps, Loops
  <2>2. Rest \in Seq(Tasks) /\ \A lp : Queue(Rest, lp, written)
    BY <1>13, <2>1, RunningTask DEF release
  <2>3. \A i \in DOMAIN Rest : ~Loops(Rest[i])
    BY <2>2, ZenonT(60) DEF Queue, Agrees, Loops
  <2>4. ASSUME waiters # <<>>
        PROVE  /\ Head(waiters) \in Tasks /\ Head(waiters).step \in {"room", "init_buffer"}
               /\ Tail(waiters) \in Seq(Tasks)
               /\ \A i \in DOMAIN Tail(waiters) : Tail(waiters)[i].step \in {"room", "init_buffer"}
    <3>1. /\ Head(waiters) \in Tasks /\ Tail(waiters) \in Seq(Tasks)
          /\ Len(Tail(waiters)) = Len(waiters) - 1 /\ Len(waiters) \in Nat \ {0}
          /\ \A i \in 1 .. Len(Tail(waiters)) : Tail(waiters)[i] = waiters[i + 1]
      BY <2>4, HeadTailProperties, EmptySeq DEF PoolOK
    <3>2. DOMAIN waiters = 1 .. Len(waiters) /\ DOMAIN Tail(waiters) = 1 .. Len(waiters) - 1
      BY <3>1, LenProperties DEF PoolOK
    <3>3. Head(waiters) = waiters[1]
      BY <2>4 DEF PoolOK
    <3>. QED  BY <3>1, <3>2, <3>3 DEF PoolOK
  <2>5. PoolOK'
    <3>1. CASE waiters = <<>>
      BY <1>13, <3>1 DEF release, PoolOK
    <3>2. CASE waiters # <<>>
      <4>1. waiters' = Tail(waiters) /\ released_units' = released_units
        BY <1>13, <3>2 DEF release
      <4>. QED  BY <2>4, <3>2, <4>1 DEF PoolOK
    <3>. QED  BY <3>1, <3>2
  <2>. DEFINE w == IF waiters = <<>> THEN <<>> ELSE <<Head(waiters)>>
              l == IF pending_units > 0 THEN <<Task("take", None)>> ELSE <<>>
  <2>6. /\ Stop((Rest \o w) \o l) /\ written' = written
        /\ pending_units > 0 => loop' = "taking"
    BY <1>13 DEF release, results
  <2>7. /\ Rest \o w \in Seq(Tasks) /\ \A lp : Queue(Rest \o w, lp, written)
        /\ \A i \in DOMAIN (Rest \o w) : ~Loops((Rest \o w)[i])
    <3>1. CASE waiters = <<>>
      <4>1. Rest \o w = Rest
        BY <2>2, <3>1, ConcatEmptySeq
      <4>. QED  BY <2>2, <2>3, <4>1, ZenonT(60)
    <3>2. CASE waiters # <<>>
      <4>. DEFINE t == Head(waiters)
                  q == Append(Rest, t)
      <4>1. t \in Tasks /\ ~Loops(t) /\ \A lp : Agrees(t, lp, written)
        BY <2>4, <3>2 DEF Loops, Agrees
      <4>2. Rest \o w = q
        BY <2>2, <3>2, <4>1, AppendIsConcat
      <4>. HIDE DEF t
      <4>3. q \in Seq(Tasks) /\ \A lp : Queue(q, lp, written)
        BY <2>2, <4>1, QueueAppend
      <4>. HIDE DEF q
      <4>4. \A i \in DOMAIN q : ~Loops(q[i])
        BY <4>3, ZenonT(60) DEF Queue, Agrees, Loops
      <4>. QED  BY <4>2, <4>3, <4>4, ZenonT(60)
    <3>. QED  BY <3>1, <3>2
  <2>8. (Rest \o w) \o l \in Seq(Tasks) /\ Queue((Rest \o w) \o l, loop', written')
    <3>. DEFINE q == Rest \o w
                t == Task("take", None)
    <3>1. q \in Seq(Tasks) /\ (\A lp : Queue(q, lp, written)) /\ (\A i \in DOMAIN q : ~Loops(q[i]))
      BY <2>7
    <3>2. t \in Tasks /\ Agrees(t, "taking", written)
      BY <1>b DEF Steps, Agrees
    <3>3. l = IF pending_units > 0 THEN <<t>> ELSE <<>>
      OBVIOUS
    <3>. HIDE DEF q, t, l
    <3>4. q \o l = IF pending_units > 0 THEN Append(q, t) ELSE q
      BY <3>1, <3>2, <3>3, ConcatEmptySeq, AppendIsConcat
    <3>5. Append(q, t) \in Seq(Tasks) /\ Queue(Append(q, t), "taking", written)
      BY <3>1, <3>2, QueueAppend
    <3>6. q \o l \in Seq(Tasks) /\ Queue(q \o l, loop', written')
      BY <2>6, <3>1, <3>4, <3>5
    <3>. QED  BY <3>6 DEF q
  <2>. HIDE DEF w, l
  <2>. QED  BY <2>5, <2>6, <2>8, StopKeeps, ZenonT(60)
<1>14. CASE UNCHANGED vars
  BY <1>14 DEF vars, reactor, queues, pool, results, ReactorOK, PoolOK
<1>. QED  BY <1>1, <1>2, <1>3, <1>4, <1>5, <1>6, <1>7, <1>8, <1>9, <1>10, <1>11, <1>12, <1>13, <1>14 DEF Next

-----------------------------------------------------------------------------
(* The buffers: one is added, or some fields of one are changed.           *)
LEMMA BufferAdded ==
  ASSUME StoreOK, make_flush_buffer, UNCHANGED <<flushing, pending, released>>
  PROVE  StoreOK'
<1>1. NewBuffer \in Buffers
  BY CommitLogAssumption DEF NewBuffer, Buffers
<1>2. Len(bufs) \in Nat /\ bufs' \in Seq(Buffers) /\ Len(bufs') = Len(bufs) + 1 /\ current' = Len(bufs) + 1
  BY <1>1, AppendProperties, LenProperties DEF StoreOK, make_flush_buffer
<1>3. 1 .. Len(bufs) \subseteq 1 .. Len(bufs')
  BY <1>2
<1>4. pending' \in Seq(1 .. Len(bufs') \cup {None}) /\ released' \in Seq(1 .. Len(bufs'))
  BY <1>3, SeqMonotonic, ZenonT(60) DEF StoreOK
<1>. QED  BY <1>2, <1>3, <1>4 DEF StoreOK

LEMMA BufferFields ==
  ASSUME NEW b \in Buffers
  PROVE  /\ b.offset \in Nat /\ b.cursor \in 0 .. Capacity /\ b.touched \in Nat /\ b.closed \in BOOLEAN
         /\ b.entered \in Int /\ b.sealing \in BOOLEAN /\ b.held \in SUBSET Mutations
BY DEF Buffers

LEMMA BufferUpdates ==
  ASSUME NEW b \in Buffers
  PROVE  /\ \A o \in Nat, c \in 0 .. Capacity, e \in Int :
               [b EXCEPT !.entered = e, !.offset = o, !.cursor = c] \in Buffers
         /\ \A o \in Nat, c \in 0 .. Capacity, e \in Int, h \in SUBSET Mutations :
               [b EXCEPT !.entered = e, !.offset = o, !.cursor = c, !.held = h] \in Buffers
         /\ \A e \in Int, x \in BOOLEAN : [b EXCEPT !.entered = e, !.sealing = x] \in Buffers
         /\ \A t \in Nat, x \in BOOLEAN, y \in BOOLEAN :
               [b EXCEPT !.touched = t, !.closed = x, !.sealing = y] \in Buffers
BY ZenonT(60) DEF Buffers

LEMMA BufferChanged ==
  ASSUME StoreOK, NEW k \in 1 .. Len(bufs), NEW b \in Buffers, bufs' = [bufs EXCEPT ![k] = b]
  PROVE  bufs' \in Seq(Buffers) /\ Len(bufs') = Len(bufs)
BY ExceptSeq DEF StoreOK

LEMMA StoreStep ==
  ASSUME LogInv, [Next]_vars
  PROVE  StoreOK'
<1>. USE DEF LogInv
<1>a. UNCHANGED <<bufs, current, queues, released>> => StoreOK'
  BY DEF StoreOK, queues
<1>b. ASSUME NEW why, Trip(why)  PROVE StoreOK'
  BY <1>a, <1>b DEF Trip, pool
<1>c. /\ Len(bufs) \in Nat /\ \A k \in 1 .. Len(bufs) : bufs[k] \in Buffers
      /\ None \notin Nat /\ (current # None => current \in 1 .. Len(bufs))
  BY CommitLogAssumption, LenProperties, ElementOfSeq DEF StoreOK
<1>d. ASSUME current # None, NEW b \in Buffers, bufs' = [bufs EXCEPT ![current] = b],
             UNCHANGED <<current, queues, released>>
      PROVE  StoreOK'
  <2>1. bufs' \in Seq(Buffers) /\ Len(bufs') = Len(bufs)
    BY <1>c, <1>d, BufferChanged, ZenonT(60)
  <2>. QED  BY <1>d, <2>1 DEF StoreOK, queues
<1>1. ASSUME NEW m \in Mutations, append(m)  PROVE StoreOK'
  <2>1. CASE ~file_open
    BY <1>1, <1>b, <2>1 DEF append, initialize, StoreOK, pool
  <2>2. CASE UNCHANGED <<bufs, current, queues, pool>>
    BY <1>a, <2>2 DEF pool
  <2>3. CASE make_room(m)
    <3>1. CASE current # None /\ bufs[current].closed
      BY <1>b, <2>3, <3>1 DEF make_room
    <3>2. CASE current = None
      BY <1>a, <2>3, <3>2 DEF make_room
    <3>3. CASE current # None /\ ~bufs[current].closed
      <4>1. /\ bufs' = [bufs EXCEPT ![current] = [bufs[current] EXCEPT !.closed = TRUE]]
            /\ pending' = Append(pending, current) /\ UNCHANGED <<current, flushing, released>>
        BY <2>3, <3>3 DEF make_room
      <4>2. [bufs[current] EXCEPT !.closed = TRUE] \in Buffers /\ current \in 1 .. Len(bufs)
        BY <1>c, <3>3, ZenonT(60) DEF Buffers
      <4>3. bufs' \in Seq(Buffers) /\ Len(bufs') = Len(bufs)
        BY <4>1, <4>2, BufferChanged, ZenonT(60)
      <4>4. pending' \in Seq(1 .. Len(bufs) \cup {None})
        BY <4>1, AppendProperties DEF StoreOK
      <4>. QED  BY <4>1, <4>3, <4>4 DEF StoreOK
    <3>. QED  BY <3>1, <3>2, <3>3
  <2>. QED  BY <1>1, <2>1, <2>2, <2>3 DEF append
<1>2. ASSUME NEW m \in Mutations, request(m) \/ open_done(m) \/ opened(m)  PROVE StoreOK'
  BY <1>2, <1>a DEF request, open_done, opened, pool
<1>3. ASSUME NEW m \in Mutations, init_buffer(m)  PROVE StoreOK'
  <2>1. CASE make_flush_buffer
    BY <1>3, <2>1, BufferAdded DEF init_buffer, queues, pool
  <2>2. CASE bad_alloc(m)
    BY <1>3, <1>a, <2>2 DEF init_buffer, bad_alloc, pool
  <2>. QED  BY <1>3, <2>1, <2>2 DEF init_buffer
<1>4. ASSUME NEW m \in Mutations, room(m)  PROVE StoreOK'
  <2>1. CASE released # <<>> /\ current' = Head(released) /\ released' = Tail(released) /\ UNCHANGED bufs
    <3>1. Head(released) \in 1 .. Len(bufs) /\ Tail(released) \in Seq(1 .. Len(bufs))
      BY <2>1, HeadTailProperties DEF StoreOK
    <3>. QED  BY <1>4, <2>1, <3>1 DEF room, StoreOK, queues
  <2>2. CASE make_flush_buffer /\ UNCHANGED released
    BY <1>4, <2>2, BufferAdded DEF room, queues
  <2>3. CASE bad_alloc(m) /\ UNCHANGED released
    BY <1>4, <1>a, <2>3 DEF room, bad_alloc
  <2>. QED  BY <1>4, <2>1, <2>2, <2>3 DEF room
<1>5. ASSUME NEW m \in Mutations, write(m)  PROVE StoreOK'
  <2>1. CASE current = None
    BY <1>5, <1>b, <2>1 DEF write
  <2>2. CASE current # None
    <3>. DEFINE b == bufs[current]
                ok == ~b.closed /\ ensure(b, Size[m])
    <3>1. \/ Trip("overrun")
          \/ /\ UNCHANGED <<current, queues, released>>
             /\ \/ UNCHANGED bufs
                \/ ok /\ bufs' = [bufs EXCEPT ![current] = Recorded(b, m)]
                \/ \E c \in b.cursor .. Capacity :
                      bufs' = [bufs EXCEPT ![current].entered = @ + 1,
                                           ![current].offset = @ + Header,
                                           ![current].cursor = c]
      BY <1>5, <2>2, ZenonT(60) DEF write, pool
    <3>2. b \in Buffers /\ current \in 1 .. Len(bufs) /\ Size[m] \in Nat /\ Header \in Nat
      BY <1>c, <2>2, CommitLogAssumption
    <3>3. ASSUME ok  PROVE Recorded(b, m) \in Buffers
      <4>1. /\ b.offset + Header + Size[m] \in Nat /\ b.cursor + Size[m] \in 0 .. Capacity
            /\ b.entered + 1 \in Int /\ b.held \cup {m} \in SUBSET Mutations
        <5>1. /\ b.offset \in Nat /\ b.cursor \in 0 .. Capacity /\ b.entered \in Int /\ b.held \in SUBSET Mutations
          BY <3>2, BufferFields
        <5>2. b.cursor + Size[m] <= Capacity /\ Capacity \in Nat
          BY <3>3, CommitLogAssumption DEF ensure
        <5>. HIDE DEF b
        <5>3. b.offset + Header + Size[m] \in Nat /\ b.entered + 1 \in Int
          BY <3>2, <5>1
        <5>4. b.cursor + Size[m] \in 0 .. Capacity
          BY <3>2, <5>1, <5>2
        <5>5. b.held \cup {m} \in SUBSET Mutations
          BY <5>1
        <5>. QED  BY <5>3, <5>4, <5>5
      <4>. QED  BY <3>2, <4>1, BufferUpdates, ZenonT(60) DEF Recorded
    <3>4. ASSUME NEW c \in b.cursor .. Capacity,
                 bufs' = [bufs EXCEPT ![current].entered = @ + 1, ![current].offset = @ + Header, ![current].cursor = c]
          PROVE  \E r \in Buffers : bufs' = [bufs EXCEPT ![current] = r]
      <4>. DEFINE r == [b EXCEPT !.entered = @ + 1, !.offset = @ + Header, !.cursor = c]
      <4>1. r \in Buffers
        <5>1. b.offset + Header \in Nat /\ c \in 0 .. Capacity /\ b.entered + 1 \in Int
          <6>1. b.offset \in Nat /\ b.cursor \in 0 .. Capacity /\ b.entered \in Int /\ Capacity \in Nat
            BY <3>2, BufferFields, CommitLogAssumption
          <6>. HIDE DEF b
          <6>. QED  BY <3>2, <6>1
        <5>. QED  BY <3>2, <5>1, BufferUpdates, ZenonT(60)
      <4>2. bufs' = [bufs EXCEPT ![current] = r]
        BY <3>2, <3>4, LenProperties, ZenonT(60) DEF StoreOK, Buffers
      <4>. QED  BY <4>1, <4>2, ZenonT(60)
    <3>. HIDE DEF b
    <3>. QED  BY <1>a, <1>b, <1>d, <2>2, <3>1, <3>3, <3>4
  <2>. QED  BY <2>1, <2>2
<1>6. ASSUME NEW m \in Mutations, leave(m)  PROVE StoreOK'
  <2>1. CASE current = None
    BY <1>6, <1>b, <2>1 DEF leave
  <2>2. CASE current # None
    <3>. DEFINE b == bufs[current]
                sealed == b.sealing /\ b.entered = 1
                r == [b EXCEPT !.entered = @ - 1, !.sealing = @ /\ ~sealed]
    <3>1. b \in Buffers /\ current \in 1 .. Len(bufs)
      BY <1>c, <2>2
    <3>2. r \in Buffers
      <4>1. b.entered - 1 \in Int /\ (b.sealing /\ ~sealed) \in BOOLEAN
        <5>1. b.entered \in Int
          BY <3>1, BufferFields
        <5>. QED  BY <5>1
      <4>. QED  BY <3>1, <4>1, BufferUpdates, ZenonT(60)
    <3>3. bufs' = [bufs EXCEPT ![current] = r] /\ UNCHANGED <<current, queues, released>>
      BY <1>6, <2>2, <3>1, LenProperties, ZenonT(60) DEF leave, pool, StoreOK, Buffers
    <3>. QED  BY <1>d, <2>2, <3>2, <3>3, ZenonT(60)
  <2>. QED  BY <2>1, <2>2
<1>7. CASE on_timer
  <2>. DEFINE b == bufs[current]
              large == b.offset > (Capacity * 80) \div 100
              n == b.touched + (IF large THEN 1 ELSE 2)
              close == large \/ n > TouchThreshold
              r == [b EXCEPT !.touched = n, !.closed = @ \/ close, !.sealing = @ \/ (close /\ b.entered # 0)]
  <2>1. b \in Buffers /\ current \in 1 .. Len(bufs) /\ current # None
    BY <1>7, <1>c DEF on_timer
  <2>2. r \in Buffers
    <3>1. n \in Nat /\ (b.closed \/ close) \in BOOLEAN /\ (b.sealing \/ (close /\ b.entered # 0)) \in BOOLEAN
      <4>1. b.touched \in Nat
        BY <2>1, BufferFields
      <4>. HIDE DEF b, large
      <4>. QED  BY <4>1
    <3>. HIDE DEF n, close
    <3>. QED  BY <2>1, <3>1, BufferUpdates, ZenonT(60)
  <2>3. \/ Trip("close")
        \/ bufs' = [bufs EXCEPT ![current] = r] /\ UNCHANGED <<current, queues, released>>
    BY <1>7, <2>1, LenProperties, ZenonT(60) DEF on_timer, pool, StoreOK, Buffers
  <2>. QED  BY <1>b, <1>d, <2>1, <2>2, <2>3
<1>8. CASE seal
  <2>1. pending' \in Seq(1 .. Len(bufs) \cup {None})
    BY <1>8, AppendProperties DEF seal, StoreOK
  <2>. QED  BY <1>8, <2>1 DEF seal, StoreOK, pool
<1>9. CASE take
  <2>1. loop = "taking"
    BY <1>9, RunningTask DEF take, Task, Agrees
  <2>2. pending # <<>>
    BY <2>1, EmptySeq DEF LoopOK, PendingSignalled
  <2>3. Head(pending) \in 1 .. Len(bufs) \cup {None} /\ Tail(pending) \in Seq(1 .. Len(bufs) \cup {None})
    BY <2>2, HeadTailProperties DEF StoreOK
  <2>4. \/ \E why : Trip(why)
        \/ flushing' = Head(pending) /\ pending' = Tail(pending) /\ UNCHANGED <<bufs, current, released>>
    BY <1>9 DEF take, pool
  <2>. QED  BY <1>b, <2>3, <2>4, ZenonT(60) DEF StoreOK
<1>10. CASE do_flush_one_buffer
  BY <1>10 DEF do_flush_one_buffer, StoreOK, pool
<1>11. CASE release
  <2>1. loop = "flushed"
    BY <1>11, RunningTask DEF release, Task, Agrees
  <2>2. flushing \in 1 .. Len(bufs)
    BY <2>1 DEF LoopOK, StoreOK
  <2>3. reset(bufs[flushing]) \in Buffers
    <3>1. bufs[flushing].cursor \in 0 .. Capacity
      BY <1>c, <2>2, BufferFields
    <3>2. NewBuffer \in Buffers
      BY CommitLogAssumption DEF NewBuffer, Buffers
    <3>3. \A b \in Buffers, c \in 0 .. Capacity : [b EXCEPT !.cursor = c] \in Buffers
      BY DEF Buffers
    <3>. QED  BY <3>1, <3>2, <3>3 DEF reset
  <2>4. bufs' \in Seq(Buffers) /\ Len(bufs') = Len(bufs)
    BY <1>11, <2>2, <2>3, BufferChanged, ZenonT(60) DEF release
  <2>5. released' \in Seq(1 .. Len(bufs))
    BY <1>11, <2>2, AppendProperties DEF release, StoreOK
  <2>. QED  BY <1>11, <2>4, <2>5 DEF release, StoreOK
<1>12. CASE UNCHANGED vars
  BY <1>a, <1>12 DEF vars, pool
<1>. QED  BY <1>1, <1>2, <1>3, <1>4, <1>5, <1>6, <1>7, <1>8, <1>9, <1>10, <1>11, <1>12 DEF Next

-----------------------------------------------------------------------------
(* The flush loop and the count of _pending_semaphore.                     *)
LEMMA SignalCounts ==
  ASSUME LogInv, NEW b \in 1 .. Len(bufs) \cup {None}, pending' = Append(pending, b),
         signal_pending, UNCHANGED <<armed, flushing>>
  PROVE  LoopOK'
<1>1. Len(pending) \in Nat /\ Len(pending') = Len(pending) + 1
  BY AppendProperties, LenProperties DEF LogInv, StoreOK
<1>2. CASE loop = "waiting"
  BY <1>1, <1>2 DEF LogInv, LoopOK, signal_pending, PendingSignalled
<1>3. CASE loop # "waiting"
  BY <1>1, <1>3 DEF LogInv, LoopOK, signal_pending, PendingSignalled
<1>. QED  BY <1>2, <1>3

LEMMA LoopStep ==
  ASSUME LogInv, [Next]_vars
  PROVE  LoopOK'
<1>. USE DEF LogInv
<1>a. UNCHANGED <<queues, armed>> => LoopOK'
  BY DEF LoopOK, queues, PendingSignalled
<1>b. ASSUME NEW why, Trip(why)  PROVE LoopOK'
  BY <1>a, <1>b DEF Trip
<1>c. Len(pending) \in Nat
  BY LenProperties DEF StoreOK
<1>1. ASSUME NEW m \in Mutations, append(m)  PROVE LoopOK'
  <2>1. CASE ~file_open
    <3>1. CASE armed
      BY <1>1, <1>b, <2>1, <3>1 DEF append, initialize
    <3>2. CASE ~armed
      BY <1>1, <2>1, <3>2 DEF append, initialize, LoopOK, PendingSignalled
    <3>. QED  BY <3>1, <3>2
  <2>2. CASE UNCHANGED <<armed, queues>>
    BY <1>a, <2>2
  <2>3. CASE make_room(m)
    <3>1. CASE current # None /\ bufs[current].closed
      BY <1>b, <2>3, <3>1 DEF make_room
    <3>2. CASE current = None
      BY <1>a, <2>3, <3>2 DEF make_room
    <3>3. CASE current # None /\ ~bufs[current].closed
      <4>1. pending' = Append(pending, current) /\ signal_pending /\ UNCHANGED <<armed, flushing>>
        BY <2>3, <3>3 DEF make_room
      <4>2. current \in 1 .. Len(bufs) \cup {None}
        BY DEF StoreOK
      <4>. QED  BY <4>1, <4>2, SignalCounts
    <3>. QED  BY <3>1, <3>2, <3>3
  <2>. QED  BY <1>1, <2>1, <2>2, <2>3 DEF append
<1>2. ASSUME NEW m \in Mutations,
             request(m) \/ open_done(m) \/ opened(m) \/ init_buffer(m) \/ room(m) \/ write(m) \/ leave(m)
      PROVE  LoopOK'
  <2>1. (\E why : Trip(why)) \/ UNCHANGED <<armed, queues>>
    BY <1>2, ZenonT(60) DEF request, open_done, opened, init_buffer, room, write, leave
  <2>. QED  BY <1>a, <1>b, <2>1
<1>3. CASE on_timer
  <2>1. Trip("close") \/ UNCHANGED <<armed, queues>>
    BY <1>3, ZenonT(60) DEF on_timer
  <2>. QED  BY <1>a, <1>b, <2>1
<1>4. CASE seal
  <2>1. current \in 1 .. Len(bufs) \cup {None}
    BY DEF StoreOK
  <2>. QED  BY <1>4, <2>1, SignalCounts DEF seal
<1>5. CASE take
  <2>1. loop = "taking"
    BY <1>5, RunningTask DEF take, Task, Agrees
  <2>2. CASE \E why : Trip(why)
    BY <1>b, <2>2
  <2>3. CASE /\ flushing' = Head(pending) /\ Head(pending) # None /\ pending' = Tail(pending)
             /\ loop' = "flushing" /\ UNCHANGED <<pending_units, armed>>
    <3>1. pending # <<>>
      BY <2>1, EmptySeq DEF LoopOK, PendingSignalled
    <3>2. Len(pending') = Len(pending) - 1
      BY <2>3, <3>1, HeadTailProperties DEF StoreOK
    <3>. QED  BY <1>c, <2>1, <2>3, <3>2 DEF LoopOK, PendingSignalled
  <2>. QED  BY <1>5, <2>2, <2>3, ZenonT(60) DEF take
<1>6. CASE do_flush_one_buffer
  BY <1>6 DEF do_flush_one_buffer, LoopOK, PendingSignalled
<1>7. CASE release
  <2>1. loop = "flushed"
    BY <1>7, RunningTask DEF release, Task, Agrees
  <2>2. /\ IF pending_units > 0 THEN loop' = "taking" /\ pending_units' = pending_units - 1
           ELSE loop' = "waiting" /\ pending_units' = pending_units
        /\ UNCHANGED <<pending, armed>>
    BY <1>7 DEF release
  <2>. QED  BY <1>c, <2>1, <2>2 DEF LoopOK, PendingSignalled
<1>8. CASE UNCHANGED vars
  BY <1>a, <1>8 DEF vars
<1>. QED  BY <1>1, <1>2, <1>3, <1>4, <1>5, <1>6, <1>7, <1>8 DEF Next

(* The mutations: an append succeeds behind its record.                    *)
LEMMA RecordsStep ==
  ASSUME LogInv, [Next]_vars
  PROVE  RecordsOK'
<1>. USE DEF LogInv
<1>a. UNCHANGED <<todo, opening, file_open, file, results, status>> => RecordsOK'
  BY DEF RecordsOK, results, WriteAhead
<1>b. ASSUME NEW why \in {"arm", "close", "null", "overrun"}, Trip(why)  PROVE RecordsOK'
  BY <1>b DEF Trip, RecordsOK, results, WriteAhead
<1>1. ASSUME NEW m \in Mutations, request(m)  PROVE RecordsOK'
  BY <1>1 DEF request, RecordsOK, results, WriteAhead
<1>2. ASSUME NEW m \in Mutations, append(m)  PROVE RecordsOK'
  <2>1. CASE ~file_open
    <3>1. CASE armed
      BY <1>2, <1>b, <2>1, <3>1 DEF append, initialize
    <3>2. CASE ~armed
      BY <1>2, <2>1, <3>2 DEF append, initialize, RecordsOK, results, WriteAhead
    <3>. QED  BY <3>1, <3>2
  <2>2. CASE make_room(m)
    <3>1. Trip("close") \/ UNCHANGED <<todo, opening, file_open, file, results, status>>
      BY <2>2, ZenonT(60) DEF make_room
    <3>. QED  BY <1>a, <1>b, <3>1
  <2>3. CASE UNCHANGED <<todo, opening, file_open, file, results, status>>
    BY <1>a, <2>3
  <2>. QED  BY <1>2, <2>1, <2>2, <2>3 DEF append
<1>3. ASSUME NEW m \in Mutations, open_done(m)  PROVE RecordsOK'
  BY <1>3 DEF open_done, RecordsOK, WriteAhead
<1>4. ASSUME NEW m \in Mutations, opened(m)  PROVE RecordsOK'
  BY <1>4 DEF opened, RecordsOK, results, WriteAhead
<1>5. ASSUME NEW m \in Mutations, init_buffer(m) \/ room(m)  PROVE RecordsOK'
  <2>1. failed' \in {failed, failed \cup {m}} /\ UNCHANGED <<todo, opening, file_open, file, written, acked, status>>
    BY <1>5 DEF init_buffer, room, bad_alloc
  <2>. QED  BY <2>1 DEF RecordsOK, WriteAhead
<1>6. ASSUME NEW m \in Mutations, write(m)  PROVE RecordsOK'
  <2>1. \/ Trip("null") \/ Trip("overrun")
        \/ /\ written' = written \/ written' = written \cup {m}
           /\ failed' = failed \/ failed' = failed \cup {m}
           /\ UNCHANGED <<todo, opening, file_open, file, acked, status>>
    BY <1>6, ZenonT(60) DEF write
  <2>. QED  BY <1>b, <2>1 DEF RecordsOK, WriteAhead
<1>7. ASSUME NEW m \in Mutations, leave(m)  PROVE RecordsOK'
  <2>1. m \in written
    BY <1>7, RunningTask DEF leave, Task, Agrees
  <2>2. \/ Trip("null")
        \/ acked' = acked \cup {m} /\ UNCHANGED <<todo, opening, file_open, file, written, failed, status>>
    BY <1>7, ZenonT(60) DEF leave
  <2>. QED  BY <1>b, <2>1, <2>2 DEF RecordsOK, WriteAhead
<1>8. CASE on_timer
  <2>1. Trip("close") \/ UNCHANGED <<todo, opening, file_open, file, results, status>>
    BY <1>8, ZenonT(60) DEF on_timer
  <2>. QED  BY <1>a, <1>b, <2>1
<1>9. CASE seal
  BY <1>a, <1>9 DEF seal
<1>10. CASE take
  <2>1. Trip("null") \/ Trip("overrun") \/ UNCHANGED <<todo, opening, file_open, file, results, status>>
    BY <1>10, ZenonT(60) DEF take
  <2>. QED  BY <1>a, <1>b, <2>1
<1>11. CASE do_flush_one_buffer
  <2>1. flushing \in 1 .. Len(bufs)
    BY <1>11 DEF do_flush_one_buffer, LoopOK, StoreOK
  <2>2. bufs[flushing].held \in SUBSET Mutations
    BY <2>1, ElementOfSeq, BufferFields DEF StoreOK
  <2>3. file' \in {file, file \cup bufs[flushing].held} /\ UNCHANGED <<todo, opening, file_open, results, status>>
    BY <1>11 DEF do_flush_one_buffer
  <2>. QED  BY <2>2, <2>3 DEF RecordsOK, results, WriteAhead
<1>12. CASE release
  BY <1>a, <1>12 DEF release
<1>13. CASE UNCHANGED vars
  BY <1>a, <1>13 DEF vars
<1>. QED  BY <1>1, <1>2, <1>3, <1>4, <1>5, <1>6, <1>7, <1>8, <1>9, <1>10, <1>11, <1>12, <1>13 DEF Next

-----------------------------------------------------------------------------
(* The commit log is of its type, and the reactor's tasks, the semaphore   *)
(* and the flush loop agree, however requests, I/O and the timer come.     *)
THEOREM LogInvariant == Spec => [](LogInv /\ TypeOK)
<1>1. Init => LogInv
  <2>. SUFFICES ASSUME Init PROVE LogInv
    OBVIOUS
  <2>. USE DEF Init
  <2>1. \A S : <<>> \in Seq(S) /\ Len(<<>>) = 0 /\ DOMAIN <<>> = {}
    BY EmptySeq
  <2>2. ReactorOK /\ PoolOK
    BY <2>1, CommitLogAssumption DEF ReactorOK, PoolOK, Queue
  <2>3. StoreOK
    BY <2>1 DEF StoreOK
  <2>4. LoopOK
    <3>1. Len(<<>>) = 0
      BY EmptySeq
    <3>2. PendingSignalled
      BY <3>1 DEF PendingSignalled
    <3>. QED  BY <3>2, ZenonT(60) DEF LoopOK
  <2>5. RecordsOK
    BY ZenonT(60) DEF RecordsOK, WriteAhead
  <2>. QED  BY <2>2, <2>3, <2>4, <2>5 DEF LogInv
<1>2. LogInv /\ [Next]_vars => LogInv'
  BY ReactorStep, StoreStep, LoopStep, RecordsStep DEF LogInv
<1>3. LogInv => TypeOK
  BY DEF LogInv, ReactorOK, PoolOK, StoreOK, LoopOK, RecordsOK, Buffers, TypeOK
<1>. QED  BY <1>1, <1>2, <1>3, PTL DEF Spec

(* _pending_semaphore counts what is in _pending_buffers: the flush loop   *)
(* never takes the front of an empty queue, and never sleeps on a buffer.  *)
THEOREM PendingCounted == Spec => []PendingSignalled
<1>1. LogInv => PendingSignalled
  BY DEF LogInv, LoopOK
<1>. QED  BY <1>1, LogInvariant, PTL

(* append() does not succeed before the record is in a buffer, whatever    *)
(* became of the buffers between its continuations.                        *)
THEOREM AckedIsWritten == Spec => []WriteAhead
<1>1. LogInv => WriteAhead
  BY DEF LogInv, RecordsOK
<1>. QED  BY <1>1, LogInvariant, PTL

-----------------------------------------------------------------------------
(* FlushBuffer. *)

(* Division by the alignment.                                              *)
LEMMA DivMod ==
  ASSUME NEW A \in Nat \ {0}, NEW n \in Nat
  PROVE  n \div A \in Nat /\ n % A \in 0 .. A - 1 /\ n = A * (n \div A) + (n % A)
OBVIOUS

LEMMA MulOrder ==
  ASSUME NEW A \in Nat \ {0}, NEW i \in Int, NEW j \in Int, A * i < A * j + A
  PROVE  i <= j
<1>1. SUFFICES ASSUME i >= j + 1 PROVE FALSE
  OBVIOUS
<1>2. A * i >= A * (j + 1)
  <2>1. i - (j + 1) \in Nat
    BY <1>1
  <2>2. A * (i - (j + 1)) \in Nat
    BY <2>1
  <2>3. A * (i - (j + 1)) = A * i - A * (j + 1)
    OBVIOUS
  <2>. QED  BY <2>2, <2>3
<1>3. A * (j + 1) = A * j + A
  OBVIOUS
<1>. QED  BY <1>2, <1>3

LEMMA DivUnique ==
  ASSUME NEW A \in Nat \ {0}, NEW n \in Nat, NEW q \in Nat, NEW r \in 0 .. A - 1, n = A * q + r
  PROVE  n \div A = q /\ n % A = r
<1>. DEFINE p == n \div A
            s == n % A
<1>1. p \in Nat /\ s \in 0 .. A - 1 /\ n = A * p + s
  BY DivMod, ZenonT(60)
<1>. HIDE DEF p, s
<1>2. A * p < A * q + A /\ A * q < A * p + A
  <2>. DEFINE x == A * p
              y == A * q
  <2>1. x \in Int /\ y \in Int /\ x + s = y + r
    BY <1>1
  <2>. HIDE DEF x, y
  <2>2. x < y + A /\ y < x + A
    BY <1>1, <2>1
  <2>. QED  BY <2>2 DEF x, y
<1>3. p = q
  BY <1>1, <1>2, MulOrder
<1>4. s = r
  BY <1>1, <1>3
<1>. QED  BY <1>3, <1>4 DEF p, s

LEMMA Multiple ==
  ASSUME NEW A \in Nat \ {0}, NEW n \in Nat
  PROVE  n % A = 0 <=> \E j \in Nat : n = A * j
<1>1. ASSUME n % A = 0  PROVE n \div A \in Nat /\ n = A * (n \div A)
  BY <1>1, DivMod
<1>2. ASSUME NEW j \in Nat, n = A * j  PROVE n % A = 0
  <2>1. 0 \in 0 .. A - 1 /\ n = A * j + 0
    BY <1>2
  <2>. QED  BY <2>1, DivUnique
<1>. QED  BY <1>1, <1>2, ZenonT(60)

(* align_up is the least multiple that is not below.                       *)
LEMMA AlignUp ==
  ASSUME NEW n \in Nat
  PROVE  /\ align_up(n) \in Nat /\ n <= align_up(n)
         /\ \E j \in Nat : align_up(n) = OUTPUT_BUFFER_ALIGNMENT * j
         /\ \A j \in Nat : n <= OUTPUT_BUFFER_ALIGNMENT * j => align_up(n) <= OUTPUT_BUFFER_ALIGNMENT * j
<1>. DEFINE A == OUTPUT_BUFFER_ALIGNMENT
            q == (n + A - 1) \div A
            r == (n + A - 1) % A
<1>1. A \in Nat \ {0} /\ n + A - 1 \in Nat /\ align_up(n) = q * A
  BY FlushBufferAssumption DEF align_up
<1>. HIDE DEF A
<1>2. q \in Nat /\ r \in 0 .. A - 1 /\ n + A - 1 = A * q + r
  BY <1>1, DivMod, ZenonT(60)
<1>. HIDE DEF q, r
<1>3. A * q \in Nat /\ align_up(n) = A * q
  BY <1>1, <1>2
<1>4. n <= A * q
  BY <1>1, <1>2, <1>3
<1>5. ASSUME NEW j \in Nat, n <= A * j  PROVE A * q <= A * j
  <2>1. A * j \in Nat
    BY <1>1
  <2>2. A * q < A * j + A
    BY <1>1, <1>2, <1>3, <1>5, <2>1
  <2>3. q <= j
    BY <1>1, <1>2, <2>2, MulOrder
  <2>4. A * (j - q) \in Nat /\ A * (j - q) = A * j - A * q
    BY <1>1, <1>2, <2>3
  <2>. QED  BY <1>3, <2>1, <2>4
<1>. QED  BY <1>2, <1>3, <1>4, <1>5 DEF A

LEMMA AlignLess ==
  ASSUME NEW n \in Nat, NEW j \in Nat, OUTPUT_BUFFER_ALIGNMENT * j <= n
  PROVE  align_up(n - OUTPUT_BUFFER_ALIGNMENT * j) = align_up(n) - OUTPUT_BUFFER_ALIGNMENT * j
<1>. DEFINE A == OUTPUT_BUFFER_ALIGNMENT
            q == (n + A - 1) \div A
            r == (n + A - 1) % A
            w == A * j
<1>1. /\ A \in Nat \ {0} /\ n + A - 1 \in Nat /\ align_up(n) = q * A
      /\ align_up(n - w) = (((n - w) + A - 1) \div A) * A
  BY FlushBufferAssumption DEF align_up
<1>2. w \in Nat /\ w <= n
  BY <1>1
<1>. HIDE DEF A
<1>3. q \in Nat /\ r \in 0 .. A - 1 /\ n + A - 1 = A * q + r
  BY <1>1, DivMod, ZenonT(60)
<1>. HIDE DEF q, r
<1>4. A * q \in Nat
  BY <1>1, <1>3
<1>5. j <= q
  <2>1. A * j < A * q + A
    BY <1>1, <1>2, <1>3, <1>4
  <2>. QED  BY <1>1, <1>3, <2>1, MulOrder
<1>6. A * (q - j) = A * q - w
  BY <1>1, <1>3
<1>. HIDE DEF w
<1>7. (n - w) + A - 1 = A * (q - j) + r
  BY <1>1, <1>2, <1>3, <1>4, <1>6
<1>8. ((n - w) + A - 1) \div A = q - j
  <2>1. (n - w) + A - 1 \in Nat /\ q - j \in Nat
    BY <1>1, <1>2, <1>3, <1>5
  <2>. QED  BY <1>1, <1>3, <1>7, <2>1, DivUnique, ZenonT(60)
<1>. QED  BY <1>1, <1>3, <1>6, <1>8 DEF w, A

-----------------------------------------------------------------------------
(* The inductive invariant of the layout: within a flush, the file has the *)
(* part of the buffer that is written, from base on, and has room for the  *)
(* rest; nothing is behind _file_offset yet.                               *)
FlushInv ==
    /\ FlushTypeOK
    /\ AlignedIO
    /\ flush_phase = "fill" => _written = 0
    /\ flush_phase # "fill" =>
         /\ _file_offset = base + _written
         /\ base + align_up(_offset) <= FileSize
         /\ _written <= align_up(_offset)
         /\ \A i \in 0 .. _offset - 1 : i < _written => disk[base + i] = mem[i]
    /\ flush_phase = "flush" => _written <= _offset
    /\ flush_phase = "flushed" => _offset <= _written
    /\ \A p \in DOMAIN disk : _file_offset <= p => disk[p] = Blank

(* A turn of the loop writes k aligned units, at most what is left.        *)
LEMMA TurnArithmetic ==
  ASSUME FlushInv, flush_phase = "flush",
         NEW k \in 0 .. align_up(_offset - _written) \div OUTPUT_BUFFER_ALIGNMENT
  PROVE  /\ k * OUTPUT_BUFFER_ALIGNMENT \in Nat
         /\ align_down(k * OUTPUT_BUFFER_ALIGNMENT) = k * OUTPUT_BUFFER_ALIGNMENT
         /\ _written + k * OUTPUT_BUFFER_ALIGNMENT <= align_up(_offset)
         /\ align_up(_offset) \in 0 .. FLUSH_BUFFER_SIZE
         /\ (_written + k * OUTPUT_BUFFER_ALIGNMENT) % OUTPUT_BUFFER_ALIGNMENT = 0
         /\ (_file_offset + k * OUTPUT_BUFFER_ALIGNMENT) % OUTPUT_BUFFER_ALIGNMENT = 0
<1>. DEFINE A == OUTPUT_BUFFER_ALIGNMENT
            up == align_up(_offset)
            left == align_up(_offset - _written)
<1>1. /\ A \in Nat \ {0} /\ FLUSH_BUFFER_SIZE \in Nat /\ FLUSH_BUFFER_SIZE % A = 0
      /\ _offset \in Nat /\ _written \in Nat /\ _file_offset \in Nat /\ _written <= _offset
      /\ _offset <= FLUSH_BUFFER_SIZE
      /\ _written % A = 0 /\ _file_offset % A = 0
  BY FlushBufferAssumption DEF FlushInv, FlushTypeOK, AlignedIO
<1>2. PICK j \in Nat : _written = A * j
  BY <1>1, Multiple, ZenonT(60)
<1>3. PICK g \in Nat : _file_offset = A * g
  BY <1>1, Multiple, ZenonT(60)
<1>4. PICK f \in Nat : FLUSH_BUFFER_SIZE = A * f
  BY <1>1, Multiple, ZenonT(60)
<1>5. up \in Nat /\ up <= FLUSH_BUFFER_SIZE
  BY <1>1, <1>4, AlignUp, ZenonT(60)
<1>6. left = up - _written
  BY <1>1, <1>2, AlignLess, ZenonT(60)
<1>7. PICK h \in Nat : left = A * h
  <2>1. _offset - _written \in Nat
    BY <1>1
  <2>. QED  BY <2>1, AlignUp
<1>8. left \div A = h
  <2>1. A * h \in Nat /\ 0 \in 0 .. A - 1 /\ A * h = A * h + 0
    BY <1>1
  <2>. QED  BY <1>1, <1>7, <2>1, DivUnique
<1>9. k \in Nat /\ k <= h
  BY <1>7, <1>8
<1>. HIDE DEF A, up, left
<1>10. A * k \in Nat /\ k * A = A * k /\ A * h - A * k = A * (h - k) /\ A * (h - k) \in Nat
  BY <1>1, <1>9
<1>11. _written + A * k <= up
  BY <1>1, <1>5, <1>6, <1>7, <1>10
<1>12. (A * k) \div A = k
  <2>1. 0 \in 0 .. A - 1 /\ A * k = A * k + 0
    BY <1>1, <1>10
  <2>. QED  BY <1>1, <1>9, <1>10, <2>1, DivUnique
<1>13. (_written + A * k) % A = 0 /\ (_file_offset + A * k) % A = 0
  <2>1. _written + A * k = A * (j + k) /\ _file_offset + A * k = A * (g + k)
    BY <1>1, <1>2, <1>3, <1>9
  <2>2. j + k \in Nat /\ g + k \in Nat /\ A * (j + k) \in Nat /\ A * (g + k) \in Nat
    BY <1>1, <1>9
  <2>. QED  BY <1>1, <2>1, <2>2, Multiple, ZenonT(60)
<1>14. align_down(A * k) = A * k
  BY <1>1, <1>12, <1>9 DEF align_down, A
<1>. QED  BY <1>5, <1>10, <1>11, <1>13, <1>14 DEF A, up

(* What a turn leaves in memory and in the file.                           *)
LEMMA TurnKeeps ==
  ASSUME FlushInv, flush_turn
  PROVE  FlushInv'
<1>. DEFINE A == OUTPUT_BUFFER_ALIGNMENT
            pad == align_up(_offset - _written) - (_offset - _written)
<1>1. PICK k \in 0 .. align_up(_offset - _written) \div A :
         /\ disk' = Overwrite(disk, _file_offset, [i \in 0 .. k * A - 1 |-> mem'[_written + i]])
         /\ _written' = _written + k * A
         /\ _file_offset' = _file_offset + align_down(k * A)
         /\ flush_phase' = IF _written' >= _offset THEN "flushed" ELSE "flush"
  BY ZenonT(60) DEF flush_turn
<1>2. /\ flush_phase = "flush" /\ mem' = Overwrite(mem, _offset, [i \in 0 .. pad - 1 |-> Blank])
      /\ UNCHANGED <<_offset, _output, base, records>>
  BY DEF flush_turn
<1>. DEFINE n == k * A
            up == align_up(_offset)
<1>3. /\ n \in Nat /\ align_down(n) = n /\ _written + n <= up /\ up \in 0 .. FLUSH_BUFFER_SIZE
      /\ (_written + n) % A = 0 /\ (_file_offset + n) % A = 0
  BY <1>2, TurnArithmetic
<1>4. /\ FLUSH_BUFFER_SIZE \in Nat /\ FileSize \in Nat
      /\ _offset \in 0 .. FLUSH_BUFFER_SIZE /\ _written \in 0 .. FLUSH_BUFFER_SIZE
      /\ base \in 0 .. FileSize /\ _file_offset = base + _written /\ base + up <= FileSize
      /\ _written <= _offset /\ _offset <= up
      /\ DOMAIN mem = 0 .. FLUSH_BUFFER_SIZE - 1 /\ DOMAIN disk = 0 .. FileSize - 1
  BY <1>2, FlushBufferAssumption, AlignUp DEF FlushInv, FlushTypeOK
<1>4a. /\ \A i \in 0 .. _offset - 1 : i < _written => disk[base + i] = mem[i]
       /\ \A p \in DOMAIN disk : _file_offset <= p => disk[p] = Blank
  BY <1>2 DEF FlushInv
<1>5. /\ DOMAIN mem' = 0 .. FLUSH_BUFFER_SIZE - 1
      /\ \A i \in 0 .. _offset - 1 : mem'[i] = mem[i]
  BY <1>2, <1>4 DEF Overwrite
<1>6. /\ DOMAIN disk' = 0 .. FileSize - 1
      /\ \A p \in 0 .. FileSize - 1 :
            disk'[p] = IF p - _file_offset \in 0 .. n - 1 THEN mem'[_written + (p - _file_offset)] ELSE disk[p]
  BY <1>1, <1>4 DEF Overwrite
<1>7. /\ _written' = _written + n /\ _file_offset' = _file_offset + n
      /\ flush_phase' = IF _written + n >= _offset THEN "flushed" ELSE "flush"
  BY <1>1, <1>3
<1>. HIDE DEF n, up, A
<1>8. FlushTypeOK'
  <2>1. /\ _written' \in 0 .. FLUSH_BUFFER_SIZE /\ _file_offset' \in 0 .. FileSize
        /\ flush_phase' \in {"fill", "flush", "flushed"}
    BY <1>3, <1>4, <1>7
  <2>. QED  BY <1>2, <1>5, <1>6, <2>1 DEF FlushInv, FlushTypeOK
<1>9. AlignedIO'
  BY <1>3, <1>7 DEF AlignedIO, A
<1>10. ASSUME NEW i \in 0 .. _offset - 1, i < _written + n  PROVE disk'[base + i] = mem'[i]
  <2>1. base + i \in 0 .. FileSize - 1 /\ i \in Int
    BY <1>3, <1>4
  <2>2. CASE i < _written
    <3>1. (base + i) - _file_offset \notin 0 .. n - 1
      BY <1>3, <1>4, <2>1, <2>2
    <3>. QED  BY <1>4a, <1>5, <1>6, <2>1, <2>2, <3>1
  <2>3. CASE ~(i < _written)
    <3>1. (base + i) - _file_offset \in 0 .. n - 1 /\ _written + ((base + i) - _file_offset) = i
      BY <1>3, <1>4, <1>10, <2>1, <2>3
    <3>. QED  BY <1>6, <2>1, <3>1
  <2>. QED  BY <2>2, <2>3
<1>11. ASSUME NEW p \in 0 .. FileSize - 1, _file_offset + n <= p  PROVE disk'[p] = Blank
  <2>1. p - _file_offset \notin 0 .. n - 1 /\ _file_offset <= p
    BY <1>3, <1>4, <1>11
  <2>. QED  BY <1>4, <1>4a, <1>6, <2>1
<1>12. up = align_up(_offset')
  BY <1>2 DEF up
<1>13. _file_offset' = base' + _written' /\ base' + align_up(_offset') <= FileSize /\ _written' <= align_up(_offset')
  BY <1>2, <1>3, <1>4, <1>7, <1>12
<1>14. \A i \in 0 .. _offset' - 1 : i < _written' => disk'[base' + i] = mem'[i]
  BY <1>2, <1>7, <1>10, ZenonT(60)
<1>15. \A p \in DOMAIN disk' : _file_offset' <= p => disk'[p] = Blank
  BY <1>6, <1>7, <1>11
<1>16. /\ flush_phase' # "fill" /\ (flush_phase' = "flush" => _written' <= _offset')
       /\ (flush_phase' = "flushed" => _offset' <= _written')
  BY <1>2, <1>3, <1>4, <1>7
<1>. QED  BY <1>8, <1>9, <1>13, <1>14, <1>15, <1>16 DEF FlushInv

LEMMA FlushStep ==
  ASSUME FlushInv, [FlushNext]_flushVars
  PROVE  FlushInv'
<1>0. /\ FLUSH_BUFFER_SIZE \in Nat /\ HEADER_SIZE \in Nat /\ Sizes \subseteq Nat /\ FileSize \in Nat
  BY FlushBufferAssumption
<1>1. ASSUME NEW n \in Sizes, write_record(n)  PROVE FlushInv'
  <2>1. /\ flush_phase = "fill" /\ flush_phase' = "fill" /\ _written = 0
        /\ UNCHANGED <<_written, disk, _file_offset, base>>
        /\ DOMAIN mem' = DOMAIN mem
        /\ _offset' = _offset + HEADER_SIZE + n /\ _offset' <= FLUSH_BUFFER_SIZE
        /\ _output' = _output + n /\ _output' <= FLUSH_BUFFER_SIZE
        /\ records' = records + 1
    BY <1>1, ZenonT(60) DEF write_record, Overwrite, FlushInv
  <2>2. FlushTypeOK'
    BY <1>0, <2>1 DEF FlushInv, FlushTypeOK
  <2>. QED  BY <2>1, <2>2 DEF FlushInv, AlignedIO
<1>2. ASSUME NEW n \in Sizes, write_record_throws(n)  PROVE FlushInv'
  <2>1. PICK k \in 0 .. FLUSH_BUFFER_SIZE - _output :
           /\ mem' = Overwrite(mem, _output, [i \in 0 .. k - 1 |-> MutationCell(records + 1, i)])
           /\ _output' = _output + k
    BY <1>2, ZenonT(60) DEF write_record_throws
  <2>2. /\ flush_phase = "fill" /\ flush_phase' = "fill" /\ _written = 0
        /\ UNCHANGED <<_written, disk, _file_offset, base>>
        /\ DOMAIN mem' = DOMAIN mem
        /\ _offset' = _offset + HEADER_SIZE /\ _offset + HEADER_SIZE + n <= FLUSH_BUFFER_SIZE
        /\ records' = records + 1
    BY <1>2, <2>1 DEF write_record_throws, Overwrite, FlushInv
  <2>3. FlushTypeOK'
    BY <1>0, <2>1, <2>2 DEF FlushInv, FlushTypeOK
  <2>. QED  BY <2>2, <2>3 DEF FlushInv, AlignedIO
<1>3. CASE start_flush
  <2>1. /\ flush_phase' = "flush" /\ _written = 0 /\ base' = _file_offset
        /\ _file_offset + align_up(_offset) <= FileSize
        /\ UNCHANGED <<mem, _offset, _output, _written, disk, _file_offset, records>>
    BY <1>3 DEF start_flush, FlushInv
  <2>2. _offset \in Nat /\ _file_offset \in Nat
    BY <1>0 DEF FlushInv, FlushTypeOK
  <2>3. align_up(_offset') = align_up(_offset) /\ align_up(_offset) \in Nat
    BY <2>1, <2>2, AlignUp
  <2>4. FlushTypeOK'
    BY <2>1 DEF FlushInv, FlushTypeOK
  <2>. QED  BY <2>1, <2>2, <2>3, <2>4 DEF FlushInv, AlignedIO
<1>4. CASE flush_turn
  BY <1>4, TurnKeeps
<1>5. CASE reset_buffer
  <2>1. /\ flush_phase' = "fill" /\ _offset' = 0 /\ _written' = 0
        /\ UNCHANGED <<mem, _output, disk, _file_offset, base, records>>
    BY <1>5 DEF reset_buffer
  <2>2. 0 % OUTPUT_BUFFER_ALIGNMENT = 0
    BY FlushBufferAssumption
  <2>3. FlushTypeOK'
    BY <1>0, <2>1 DEF FlushInv, FlushTypeOK
  <2>. QED  BY <2>1, <2>2, <2>3 DEF FlushInv, AlignedIO
<1>6. CASE UNCHANGED flushVars
  BY <1>6 DEF flushVars, FlushInv, FlushTypeOK, AlignedIO, align_up
<1>. QED  BY <1>1, <1>2, <1>3, <1>4, <1>5, <1>6 DEF FlushNext

(* The layout of the buffer and the file, after any sequence of records,   *)
(* short writes and buffers.                                               *)
THEOREM FlushInvariant == FlushSpec => []FlushInv
<1>1. FlushInit => FlushInv
  <2>. SUFFICES ASSUME FlushInit PROVE FlushInv
    OBVIOUS
  <2>1. 0 % OUTPUT_BUFFER_ALIGNMENT = 0
    BY FlushBufferAssumption
  <2>2. FlushTypeOK
    BY FlushBufferAssumption DEF FlushInit, FlushTypeOK
  <2>. QED  BY <2>1, <2>2 DEF FlushInit, FlushInv, AlignedIO
<1>. QED  BY <1>1, FlushStep, PTL DEF FlushSpec

(* However the DMA writes are cut short, do_flush_one_buffer ends with the *)
(* whole of the buffer in the file, in order and in one piece.             *)
THEOREM FlushedIsInFile == FlushSpec => []FileHoldsBuffer
<1>1. FlushInv => FileHoldsBuffer
  <2>. SUFFICES ASSUME FlushInv, flush_phase = "flushed", NEW i \in 0 .. _offset - 1
                PROVE  disk[base + i] = mem[i]
    BY DEF FileHoldsBuffer
  <2>1. i < _written
    BY FlushBufferAssumption DEF FlushInv, FlushTypeOK
  <2>. QED  BY <2>1 DEF FlushInv
<1>. QED  BY <1>1, FlushInvariant, PTL

(* No write of do_flush_one_buffer goes over cells that an earlier one,    *)
(* of this buffer or of another, has put into the file.                    *)
THEOREM FlushKeepsFile == FlushSpec => FileKept
<1>1. ASSUME FlushInv, [FlushNext]_flushVars, NEW p \in DOMAIN disk, disk[p] # Blank
      PROVE  disk'[p] = disk[p]
  <2>1. CASE flush_turn
    <3>1. PICK c : disk' = Overwrite(disk, _file_offset, [i \in 0 .. c * OUTPUT_BUFFER_ALIGNMENT - 1 |-> mem'[_written + i]])
      BY <2>1, ZenonT(60) DEF flush_turn
    <3>2. p < _file_offset /\ p \in Int /\ _file_offset \in Int
      BY <1>1, FlushBufferAssumption DEF FlushInv, FlushTypeOK
    <3>3. p - _file_offset \notin 0 .. c * OUTPUT_BUFFER_ALIGNMENT - 1
      BY <3>2
    <3>. QED  BY <1>1, <3>1, <3>3 DEF Overwrite
  <2>2. CASE ~flush_turn
    BY <1>1, <2>2, ZenonT(60) DEF FlushNext, write_record, write_record_throws, start_flush, reset_buffer, flushVars
  <2>. QED  BY <2>1, <2>2
<1>2. FlushInv /\ [FlushNext]_flushVars => [\A p \in DOMAIN disk : disk[p] # Blank => disk'[p] = disk[p]]_flushVars
  BY <1>1
<1>. QED  BY <1>2, FlushInvariant, PTL DEF FlushSpec, FileKept
=============================================================================
