----------------------------- MODULE CommitLog -----------------------------
(***************************************************************************)
(* The commit log of a shard (commit_log.cc): appends put their records    *)
(* into the current flush buffer, full or old buffers are queued for the   *)
(* flush loop, and flushed buffers are used again.                         *)
(*                                                                         *)
(* A shard is one thread.  tasks is the reactor's queue of continuations   *)
(* that are ready to run; a continuation attached to a future that is      *)
(* ready already runs at once (inline), or is queued when the reactor      *)
(* wants to preempt.  Requests, I/O completions and the timer come in      *)
(* between two tasks.                                                      *)
(*                                                                         *)
(* A record is a member of the set held by its buffer; where its bytes go  *)
(* is the subject of FlushBuffer.  When an assertion of the gate or of the *)
(* timer fails, a null buffer is used or a write leaves its buffer, the    *)
(* process stops and status says why.                                      *)
(***************************************************************************)
EXTENDS Integers, Sequences, Functions, FiniteSets

CONSTANTS Mutations,      \* the mutations clients ask for
          Size,           \* their serialized sizes
          Header,         \* HEADER_SIZE
          Capacity,       \* FLUSH_BUFFER_SIZE
          MaxBuffers,     \* MAX_FLUSH_BUFFER_SIZE
          TouchThreshold, \* FLUSH_TOUCH_COUNTER_THRESHOLD
          None            \* no buffer, no continuation

ASSUME CommitLogAssumption ==
    /\ Size \in [Mutations -> Nat]
    /\ Header \in Nat /\ Capacity \in Nat /\ TouchThreshold \in Nat
    /\ MaxBuffers \in Nat \ {0}
    /\ None \notin Nat

VARIABLES
    todo,         \* mutations not asked for yet
    tasks,        \* the reactor's queue
    inline,       \* the continuation that runs next without yielding, or None
    idle,         \* the queue has been empty since the timer last fired
    opening,      \* appends that wait for the file to be opened
    file_open,    \* _file is set
    armed,        \* _timer has been armed
    bufs,         \* the flush buffers made so far
    current,      \* _current_buffer
    pending,      \* _pending_buffers
    pending_units, \* the count of _pending_semaphore
    loop,         \* the flush loop
    flushing,     \* the buffer it flushes
    released,     \* _released_buffers
    released_units, \* the count of _released_semaphore
    waiters,      \* the continuations that wait for it
    file,         \* the records that reached the disk
    written,      \* the records ever put into a buffer (auxiliary)
    acked,        \* the appends that succeeded
    failed,       \* the appends that failed
    status

reactor == <<tasks, inline, idle>>
queues == <<pending, pending_units, loop, flushing>>
pool == <<released, released_units, waiters>>
results == <<written, acked, failed>>
vars == <<todo, reactor, opening, file_open, armed, bufs, current, queues, pool, file,
          results, status>>

-----------------------------------------------------------------------------
Task(step, m) == [step |-> step, m |-> m]

(* The task t is the one that runs now; Rest is the queue without it.      *)
Running(t) ==
    /\ status = "up"
    /\ IF inline # None THEN t = inline ELSE tasks # <<>> /\ t = Head(tasks)

Rest == IF inline # None THEN tasks ELSE Tail(tasks)

Stop(q) == tasks' = q /\ inline' = None /\ idle' = (idle \/ q = <<>>)

(* Continuation t of a future that is ready when t is attached to it.      *)
Then(q, t) ==
    /\ UNCHANGED idle
    /\ \/ tasks' = q /\ inline' = t
       \/ tasks' = Append(q, t) /\ inline' = None

(* Continuation t of the running one: attached before that one ran, unless *)
(* that one ran inline.                                                    *)
Follow(q, t) == IF inline # None THEN Then(q, t) ELSE Stop(Append(q, t))

(* Between two tasks the reactor polls for events.                         *)
Polling == status = "up" /\ inline = None

Trip(why) == /\ status' = why
             /\ UNCHANGED <<todo, reactor, opening, file_open, armed, bufs, current,
                            queues, pool, file, results>>

(* _pending_semaphore.signal: the loop is woken when it waits.             *)
signal_pending ==
    IF loop = "waiting"
    THEN loop' = "taking" /\ UNCHANGED pending_units
    ELSE pending_units' = pending_units + 1 /\ UNCHANGED loop

Woken(q) == IF loop = "waiting" THEN Append(q, Task("take", None)) ELSE q

(* _released_semaphore.wait().then(t).                                     *)
wait_released(q, t) ==
    IF released_units > 0 /\ waiters = <<>>
    THEN released_units' = released_units - 1 /\ UNCHANGED waiters /\ Then(q, t)
    ELSE waiters' = Append(waiters, t) /\ UNCHANGED released_units /\ Stop(q)

-----------------------------------------------------------------------------
(* flush_buffer: the offset in it, the cursor of its data_output, its      *)
(* touch counter, its gate, whether on_timer waits for the gate to close,  *)
(* and the records it holds.                                               *)
NewBuffer ==
    [offset |-> 0, cursor |-> 0, touched |-> 0, closed |-> FALSE, entered |-> 0,
     sealing |-> FALSE, held |-> {}]

(* reset() leaves _output where it is.                                     *)
reset(b) == [NewBuffer EXCEPT !.cursor = b.cursor]

(* available_size() >= n; the difference is unsigned.                      *)
Fits(b, n) == b.offset > Capacity \/ Capacity - b.offset >= n

(* The check of data_output, on its own cursor.                            *)
ensure(b, n) == b.cursor + n <= Capacity

Init ==
    /\ todo = Mutations
    /\ tasks = <<>> /\ inline = None /\ idle = TRUE
    /\ opening = {} /\ file_open = FALSE /\ armed = FALSE
    /\ bufs = <<>> /\ current = None
    /\ pending = <<>> /\ pending_units = 0
    /\ loop = "none" /\ flushing = None
    /\ released = <<>> /\ released_units = MaxBuffers /\ waiters = <<>>
    /\ file = {} /\ written = {} /\ acked = {} /\ failed = {}
    /\ status = "up"

(* A request of another shard or of a client of this one.                  *)
request(m) ==
    /\ Polling
    /\ m \in todo
    /\ todo' = todo \ {m}
    /\ Stop(Append(tasks, Task("append", m)))
    /\ UNCHANGED <<opening, file_open, armed, bufs, current, queues, pool, file, results, status>>

(* initialize, up to the opening of the file: the flush loop is started    *)
(* and the timer armed, which asserts that it is not armed.                *)
initialize(m) ==
    IF armed THEN Trip("arm")
    ELSE /\ armed' = TRUE
         /\ loop' = "waiting"
         /\ opening' = opening \cup {m}
         /\ Stop(Rest)
         /\ UNCHANGED <<todo, file_open, bufs, current, pending, pending_units, flushing,
                        pool, file, results, status>>

\* Mutant: the full buffer is queued without closing its gate.
make_room_NoClose(m) ==
    /\ wait_released(IF current = None THEN Rest ELSE Woken(Rest), Task("room", m))
    /\ IF current = None THEN UNCHANGED queues
       ELSE pending' = Append(pending, current) /\ signal_pending /\ UNCHANGED flushing
    /\ UNCHANGED <<todo, opening, file_open, armed, bufs, current, released, file, results,
                   status>>

\* Mutant: the flush loop is not told of the full buffer.
make_room_NoSignal(m) ==
    IF current # None /\ bufs[current].closed THEN Trip("close")
    ELSE /\ wait_released(Rest, Task("room", m))
         /\ IF current = None THEN UNCHANGED <<bufs, pending>>
            ELSE /\ bufs' = [bufs EXCEPT ![current].closed = TRUE]
                 /\ pending' = Append(pending, current)
         /\ UNCHANGED <<todo, opening, file_open, armed, current, pending_units, loop, flushing,
                        released, file, results, status>>

(* make_room_for_apending_mutation where there is no room: the buffer that *)
(* is full, if there is one, is closed, which asserts that it is not       *)
(* closed yet, and queued; it stays the current one.                       *)
make_room(m) ==
    IF current # None /\ bufs[current].closed THEN Trip("close")
    ELSE /\ wait_released(IF current = None THEN Rest ELSE Woken(Rest), Task("room", m))
         /\ IF current = None THEN UNCHANGED <<bufs, queues>>
            ELSE /\ bufs' = [bufs EXCEPT ![current].closed = TRUE]
                 /\ pending' = Append(pending, current)
                 /\ signal_pending
                 /\ UNCHANGED flushing
         /\ UNCHANGED <<todo, opening, file_open, armed, current, released, file, results,
                        status>>

append(m) ==
    /\ Running(Task("append", m))
    /\ IF ~file_open THEN initialize(m)
       ELSE IF current # None /\ Fits(bufs[current], Size[m] + Header)
       THEN /\ Then(Rest, Task("write", m))
            /\ UNCHANGED <<todo, opening, file_open, armed, bufs, current, queues, pool, file,
                           results, status>>
       ELSE make_room(m)

(* The file is open, or could not be opened.                               *)
open_done(m) ==
    /\ Polling
    /\ m \in opening
    /\ opening' = opening \ {m}
    /\ \/ Stop(Append(tasks, Task("opened", m))) /\ UNCHANGED failed
       \/ failed' = failed \cup {m} /\ UNCHANGED reactor
    /\ UNCHANGED <<todo, file_open, armed, bufs, current, queues, pool, file, written, acked, status>>

opened(m) ==
    /\ Running(Task("opened", m))
    /\ file_open' = TRUE
    /\ wait_released(Rest, Task("init_buffer", m))
    /\ UNCHANGED <<todo, opening, armed, bufs, current, queues, released, file, results, status>>

make_flush_buffer == bufs' = Append(bufs, NewBuffer) /\ current' = Len(bufs) + 1

(* make_flush_buffer finds no memory: the append fails, and the unit of    *)
(* the semaphore it has taken is not given back.                           *)
bad_alloc(m) == failed' = failed \cup {m} /\ Stop(Rest) /\ UNCHANGED <<bufs, current>>

init_buffer(m) ==
    /\ Running(Task("init_buffer", m))
    /\ \/ /\ make_flush_buffer
          /\ Stop(Append(Rest, Task("append", m)))
          /\ UNCHANGED failed
       \/ bad_alloc(m)
    /\ UNCHANGED <<todo, opening, file_open, armed, queues, pool, file, written, acked, status>>

(* The rest of make_room_for_apending_mutation.                            *)
room(m) ==
    /\ Running(Task("room", m))
    /\ \/ /\ released # <<>>
          /\ current' = Head(released)
          /\ released' = Tail(released)
          /\ Follow(Rest, Task("write", m))
          /\ UNCHANGED <<bufs, failed>>
       \/ /\ released = <<>>
          /\ make_flush_buffer
          /\ Follow(Rest, Task("write", m))
          /\ UNCHANGED <<released, failed>>
       \/ released = <<>> /\ bad_alloc(m) /\ UNCHANGED released
    /\ UNCHANGED <<todo, opening, file_open, armed, queues, released_units, waiters, file,
                   written, acked, status>>

(* Buffer b behind the record of m.                                        *)
Recorded(b, m) ==
    [b EXCEPT !.entered = @ + 1, !.offset = @ + Header + Size[m], !.cursor = @ + Size[m],
              !.held = @ \cup {m}]

\* Mutant: an exception of the gate or of data_output does not end the append.
write_Swallows(m) ==
    /\ Running(Task("write", m))
    /\ IF current = None THEN Trip("null")
       ELSE LET b  == bufs[current]
                ok == ~b.closed /\ ensure(b, Size[m])
            IN  /\ bufs' = [bufs EXCEPT ![current] = IF ok THEN Recorded(b, m) ELSE b]
                /\ written' = IF ok THEN written \cup {m} ELSE written
                /\ Follow(Rest, Task("leave", m))
                /\ UNCHANGED <<todo, opening, file_open, armed, current, queues, pool, file,
                               acked, failed, status>>

(* The record is put into the buffer that is the current one by now.  The  *)
(* gate may be closed, and data_output may have no room left: both throw,  *)
(* the second one behind enter(), skip() and some of the fields.  The      *)
(* header goes where the offset is, unchecked.                             *)
write(m) ==
    /\ Running(Task("write", m))
    /\ IF current = None THEN Trip("null")
       ELSE LET b  == bufs[current]
                ok == ~b.closed /\ ensure(b, Size[m])
            IN  IF ok /\ b.offset + Header > Capacity THEN Trip("overrun")
                ELSE /\ \/ b.closed /\ UNCHANGED bufs
                        \/ ok /\ bufs' = [bufs EXCEPT ![current] = Recorded(b, m)]
                        \/ /\ ~b.closed /\ ~ok
                           /\ \E c \in b.cursor .. Capacity :
                                  bufs' = [bufs EXCEPT ![current].entered = @ + 1,
                                                       ![current].offset = @ + Header,
                                                       ![current].cursor = c]
                     /\ written' = IF ok THEN written \cup {m} ELSE written
                     /\ failed' = IF ok THEN failed ELSE failed \cup {m}
                     /\ IF ok THEN Follow(Rest, Task("leave", m)) ELSE Stop(Rest)
                     /\ UNCHANGED <<todo, opening, file_open, armed, current, queues, pool, file,
                                    acked, status>>

(* The gate left is that of the buffer that is the current one by now; the *)
(* last to leave a closed gate lets on_timer go on.                        *)
leave(m) ==
    /\ Running(Task("leave", m))
    /\ IF current = None THEN Trip("null")
       ELSE LET sealed == bufs[current].sealing /\ bufs[current].entered = 1
            IN  /\ bufs' = [bufs EXCEPT ![current].entered = @ - 1,
                                        ![current].sealing = @ /\ ~sealed]
                /\ Stop(IF sealed THEN Append(Rest, Task("seal", None)) ELSE Rest)
                /\ acked' = acked \cup {m}
                /\ UNCHANGED <<todo, opening, file_open, armed, current, queues, pool, file,
                               written, failed, status>>

-----------------------------------------------------------------------------
(* The timer.  No task stays in the queue for the 8 seconds between two    *)
(* calls.  The counter is incremented twice, unless the buffer is large    *)
(* enough; close() asserts that the gate is not closed yet.                *)
on_timer ==
    /\ Polling
    /\ armed /\ idle
    /\ current # None
    /\ LET b     == bufs[current]
           large == b.offset > (Capacity * 80) \div 100
           n     == b.touched + (IF large THEN 1 ELSE 2)
           close == large \/ n > TouchThreshold
       IN  IF close /\ b.closed THEN Trip("close")
           ELSE /\ bufs' = [bufs EXCEPT ![current].touched = n,
                                        ![current].closed = @ \/ close,
                                        ![current].sealing = @ \/ (close /\ b.entered # 0)]
                /\ IF close /\ b.entered = 0
                   THEN \/ inline' = Task("seal", None) /\ UNCHANGED tasks
                        \/ tasks' = Append(tasks, Task("seal", None)) /\ UNCHANGED inline
                   ELSE UNCHANGED <<tasks, inline>>
                /\ idle' = (tasks' = <<>> /\ inline' = None)
                /\ UNCHANGED <<todo, opening, file_open, armed, current, queues, pool, file,
                               results, status>>

(* The continuation of close() in on_timer.                                *)
seal ==
    /\ Running(Task("seal", None))
    /\ pending' = Append(pending, current)
    /\ signal_pending
    /\ current' = None
    /\ Stop(Woken(Rest))
    /\ UNCHANGED <<todo, opening, file_open, armed, bufs, flushing, pool, file, results, status>>

-----------------------------------------------------------------------------
(* The flush loop takes a buffer and starts to write it; the fill up to    *)
(* the alignment stays within the buffer unless the records do not.        *)
take ==
    /\ Running(Task("take", None))
    /\ IF Head(pending) = None THEN Trip("null")
       ELSE IF bufs[Head(pending)].offset > Capacity THEN Trip("overrun")
       ELSE /\ flushing' = Head(pending)
            /\ pending' = Tail(pending)
            /\ loop' = "flushing"
            /\ Stop(Rest)
            /\ UNCHANGED <<todo, opening, file_open, armed, bufs, current, pending_units, pool,
                           file, results, status>>

(* The writes and the flush of the file are done, or one of them failed,   *)
(* which ends the loop.                                                    *)
do_flush_one_buffer ==
    /\ Polling
    /\ loop = "flushing"
    /\ \/ /\ file' = file \cup bufs[flushing].held
          /\ loop' = "flushed"
          /\ Stop(Append(tasks, Task("release", None)))
       \/ loop' = "dead" /\ UNCHANGED <<file, reactor>>
    /\ UNCHANGED <<todo, opening, file_open, armed, bufs, current, pending, pending_units,
                   flushing, pool, results, status>>

(* The buffer goes to the pool, an append that waits for one gets it, and  *)
(* the loop waits for the next one.                                        *)
release ==
    /\ Running(Task("release", None))
    /\ bufs' = [bufs EXCEPT ![flushing] = reset(@)]
    /\ released' = Append(released, flushing)
    /\ flushing' = None
    /\ IF waiters = <<>>
       THEN released_units' = released_units + 1 /\ UNCHANGED waiters
       ELSE waiters' = Tail(waiters) /\ UNCHANGED released_units
    /\ IF pending_units > 0
       THEN loop' = "taking" /\ pending_units' = pending_units - 1
       ELSE loop' = "waiting" /\ UNCHANGED pending_units
    /\ Stop(Rest \o (IF waiters = <<>> THEN <<>> ELSE <<Head(waiters)>>)
                 \o (IF pending_units > 0 THEN <<Task("take", None)>> ELSE <<>>))
    /\ UNCHANGED <<todo, opening, file_open, armed, current, pending, file, results, status>>

Next ==
    \/ \E m \in Mutations : \/ request(m)
                            \/ append(m)
                            \/ open_done(m)
                            \/ opened(m)
                            \/ init_buffer(m)
                            \/ room(m)
                            \/ write(m)
                            \/ leave(m)
    \/ on_timer
    \/ seal
    \/ take
    \/ do_flush_one_buffer
    \/ release

RunTask ==
    \/ \E m \in Mutations : \/ append(m)
                            \/ opened(m)
                            \/ init_buffer(m)
                            \/ room(m)
                            \/ write(m)
                            \/ leave(m)
    \/ seal
    \/ take
    \/ release

(* The reactor runs the tasks it has queued, fires its timers, and I/O     *)
(* completes.                                                              *)
Fairness ==
    /\ WF_vars(RunTask)
    /\ WF_vars(on_timer)
    /\ WF_vars(do_flush_one_buffer)
    /\ \A m \in Mutations : WF_vars(open_done(m))

Spec == Init /\ [][Next]_vars /\ Fairness

-----------------------------------------------------------------------------
Steps == {"append", "opened", "init_buffer", "room", "write", "leave", "seal", "take", "release"}

Tasks == [step : Steps, m : Mutations \cup {None}]

TypeOK ==
    /\ todo \in SUBSET Mutations
    /\ tasks \in Seq(Tasks) /\ inline \in Tasks \cup {None} /\ idle \in BOOLEAN
    /\ opening \in SUBSET Mutations
    /\ file_open \in BOOLEAN /\ armed \in BOOLEAN
    /\ bufs \in Seq([offset : Nat, cursor : 0 .. Capacity, touched : Nat, closed : BOOLEAN,
                     entered : Int, sealing : BOOLEAN, held : SUBSET Mutations])
    /\ current \in 1 .. Len(bufs) \cup {None}
    /\ pending \in Seq(1 .. Len(bufs) \cup {None}) /\ pending_units \in Nat
    /\ loop \in {"none", "waiting", "taking", "flushing", "flushed", "dead"}
    /\ flushing \in 1 .. Len(bufs) \cup {None}
    /\ released \in Seq(1 .. Len(bufs)) /\ released_units \in Nat /\ waiters \in Seq(Tasks)
    /\ file \in SUBSET Mutations /\ written \in SUBSET Mutations
    /\ acked \in SUBSET Mutations /\ failed \in SUBSET Mutations
    /\ status \in {"up", "arm", "close", "null", "overrun"}

(* The count of _pending_semaphore and the queue agree, so the flush loop  *)
(* never pops an empty queue and never sleeps on a buffer that is queued.  *)
PendingSignalled ==
    Len(pending) = pending_units + (IF loop = "taking" THEN 1 ELSE 0)

(* A buffer is 1 GB: whatever is queued, raced for, lost or recycled, no   *)
(* more than MAX_FLUSH_BUFFER_SIZE of them are made.                       *)
BufferBound == Len(bufs) <= MaxBuffers

(* A buffer is not queued again before it has been flushed, or its second  *)
(* flush would reset it under the appends that use it by then.             *)
QueuedOnce ==
    /\ IsInjective(pending)
    /\ loop \in {"flushing", "flushed"} => \A i \in DOMAIN pending : pending[i] # flushing

(* set and del append to the log before they update the cache: an append   *)
(* that succeeded has put its record into a buffer, whatever its buffer    *)
(* went through between the check for room and the write.                  *)
WriteAhead == acked \subseteq written

(* No append writes to the buffer that is being flushed, though it may     *)
(* still be the current one.                                               *)
FlushedIsSealed ==
    [][loop = "flushing" => bufs'[flushing].held = bufs[flushing].held]_vars

(* A queued buffer does not stay queued, unless the process stops or the   *)
(* disk fails.                                                             *)
PendingIsFlushed ==
    \A i \in 1 .. MaxBuffers :
        (\E j \in DOMAIN pending : pending[j] = i)
            ~> ((\A j \in DOMAIN pending : pending[j] # i) \/ status # "up" \/ loop = "dead")

(* "periodically flush commitlog buffer to disk": the record of an append  *)
(* that succeeded reaches the disk, unless the process stops or the disk   *)
(* fails.                                                                  *)
AckedReachesDisk ==
    \A m \in Mutations : m \in acked ~> (m \in file \/ status # "up" \/ loop = "dead")

=============================================================================
