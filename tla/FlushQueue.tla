------------------------------ MODULE FlushQueue ------------------------------
(***************************************************************************)
(* utils/flush_queue.hh: func() of several operations run side by side,     *)
(* post() only when all operations with lower keys are complete.            *)
(*                                                                         *)
(* An operation is in one of the phases                                     *)
(*   "new"      not started            "func"    func() runs                *)
(*   "wait"     func() is done, the promise of the entry before its own is  *)
(*              not resolved, or its continuation has not run yet           *)
(*   "post"     post() runs            "done", "failed"   complete          *)
(*   "rejected" refused by run_with_ordered_post_op                         *)
(* A promise belongs to an entry of _map; an entry that is erased and made  *)
(* again has a new one, so promises are numbered.                           *)
(***************************************************************************)
EXTENDS Integers, FiniteSets, FiniteSetsExt

CONSTANTS MaxOps,       \* operations at most; they are numbered in the order of their calls
          Positions,    \* their keys
          Waiters       \* callers of wait_for_pending(rp)

ASSUME FlushQueueAssumption ==
    /\ MaxOps \in Nat /\ Positions \subseteq Int
    /\ Waiters \cap (1 .. MaxOps) = {}

VARIABLES chain,        \* _chain_exceptions
          key,          \* of each operation, once it is started
          phase,        \* of each operation
          threw,        \* operations whose func() failed
          awaits,       \* the promise a waiting operation or a waiter waits for, 0 for none
          map,          \* _map: key |-> [count, pr]
          promise,      \* promise |-> "pending", "value" or "exception"
          closed,       \* _gate is closed
          owed,         \* ghost: per waiter, the operations it has to wait for
          waiting       \* per waiter: "new", "waiting", "done"

Ops == 1 .. MaxOps

fqVars == <<chain, key, phase, threw, awaits, map, promise, closed, owed, waiting>>

Active == {o \in Ops : phase[o] \in {"func", "wait", "post"}}
begin == Min(DOMAIN map)
Erase(k) == [j \in DOMAIN map \ {k} |-> map[j]]

FlushQueueInit ==
    /\ chain \in BOOLEAN
    /\ key = [o \in Ops |-> 0]
    /\ phase = [o \in Ops |-> "new"]
    /\ threw = {}
    /\ awaits = [x \in Ops \cup Waiters |-> 0]
    /\ map = <<>>
    /\ promise = <<>>
    /\ closed = FALSE
    /\ owed = [w \in Waiters |-> {}]
    /\ waiting = [w \in Waiters |-> "new"]

\* Mutant: a key below the highest one is let in.
run_with_ordered_post_op_Any(o, rp) ==
    /\ phase[o] = "new" /\ (o > 1 => phase[o - 1] # "new")
    /\ key' = [key EXCEPT ![o] = rp]
    /\ IF closed
       THEN phase' = [phase EXCEPT ![o] = "rejected"] /\ UNCHANGED <<map, promise>>
       ELSE /\ phase' = [phase EXCEPT ![o] = "func"]
            /\ IF rp \in DOMAIN map
               THEN map' = [map EXCEPT ![rp].count = @ + 1] /\ UNCHANGED promise
               ELSE LET pr == Cardinality(DOMAIN promise) + 1 IN
                    /\ map' = [k \in DOMAIN map \cup {rp} |-> IF k = rp THEN [count |-> 1, pr |-> pr] ELSE map[k]]
                    /\ promise' = [p \in DOMAIN promise \cup {pr} |-> IF p = pr THEN "pending" ELSE promise[p]]
    /\ UNCHANGED <<chain, threw, awaits, closed, owed, waiting>>

\* Refuses a key below the highest one unless an entry has it, and everything
\* once the gate is closed; else counts the operation and starts func().
run_with_ordered_post_op(o, rp) ==
    LET outOfOrder == DOMAIN map # {} /\ rp \notin DOMAIN map /\ rp < Max(DOMAIN map)
    IN
    /\ phase[o] = "new" /\ (o > 1 => phase[o - 1] # "new")
    /\ key' = [key EXCEPT ![o] = rp]
    /\ IF outOfOrder \/ closed
       THEN phase' = [phase EXCEPT ![o] = "rejected"] /\ UNCHANGED <<map, promise>>
       ELSE /\ phase' = [phase EXCEPT ![o] = "func"]
            /\ IF rp \in DOMAIN map
               THEN map' = [map EXCEPT ![rp].count = @ + 1] /\ UNCHANGED promise
               ELSE LET pr == Cardinality(DOMAIN promise) + 1 IN
                    /\ map' = [k \in DOMAIN map \cup {rp} |-> IF k = rp THEN [count |-> 1, pr |-> pr] ELSE map[k]]
                    /\ promise' = [p \in DOMAIN promise \cup {pr} |-> IF p = pr THEN "pending" ELSE promise[p]]
    /\ UNCHANGED <<chain, threw, awaits, closed, owed, waiting>>

\* func() is done, well or not: the first entry goes on to run_post at once,
\* any other waits for the promise of the one before it.
FuncDone(o, ok) ==
    /\ phase[o] = "func"
    /\ threw' = IF ok THEN threw ELSE threw \cup {o}
    /\ IF key[o] = begin
       THEN phase' = [phase EXCEPT ![o] = "post"] /\ UNCHANGED awaits
       ELSE LET before == Max({k \in DOMAIN map : k < key[o]}) IN
            /\ phase' = [phase EXCEPT ![o] = "wait"]
            /\ awaits' = [awaits EXCEPT ![o] = map[before].pr]
    /\ UNCHANGED <<chain, key, map, promise, closed, owed, waiting>>

\* The promise is resolved. A value runs run_post; an exception goes past it
\* (.then), and the operation's entry keeps its count.
run_post(o) ==
    /\ phase[o] = "wait"
    /\ promise[awaits[o]] # "pending"
    /\ phase' = [phase EXCEPT ![o] = IF promise[awaits[o]] = "value" THEN "post" ELSE "failed"]
    /\ awaits' = [awaits EXCEPT ![o] = 0]
    /\ UNCHANGED <<chain, key, threw, map, promise, closed, owed, waiting>>

\* post() is done, or was not called because func() failed: the last one of an
\* entry erases it and resolves its promise.
PostDone(o, ok) ==
    LET k == key[o]
        failed == ~ok \/ o \in threw
    IN
    /\ phase[o] = "post"
    /\ phase' = [phase EXCEPT ![o] = IF failed THEN "failed" ELSE "done"]
    /\ IF map[k].count = 1
       THEN /\ map' = Erase(k)
            /\ promise' = [promise EXCEPT ![map[k].pr] = IF failed /\ chain THEN "exception" ELSE "value"]
       ELSE map' = [map EXCEPT ![k].count = @ - 1] /\ UNCHANGED promise
    /\ UNCHANGED <<chain, key, threw, awaits, closed, owed, waiting>>

\* Waits for the last entry at or below rp.
wait_for_pending(w, rp) ==
    LET upto == {k \in DOMAIN map : k <= rp} IN
    /\ waiting[w] = "new"
    /\ waiting' = [waiting EXCEPT ![w] = IF upto = {} THEN "done" ELSE "waiting"]
    /\ awaits' = [awaits EXCEPT ![w] = IF upto = {} THEN 0 ELSE map[Max(upto)].pr]
    /\ owed' = [owed EXCEPT ![w] = {o \in Active : key[o] <= rp}]
    /\ UNCHANGED <<chain, key, phase, threw, map, promise, closed>>

Waited(w) ==
    /\ waiting[w] = "waiting" /\ promise[awaits[w]] # "pending"
    /\ waiting' = [waiting EXCEPT ![w] = "done"]
    /\ UNCHANGED <<chain, key, phase, threw, awaits, map, promise, closed, owed>>

close ==
    /\ ~closed /\ closed' = TRUE
    /\ UNCHANGED <<chain, key, phase, threw, awaits, map, promise, owed, waiting>>

FlushQueueNext ==
    \/ \E o \in Ops, rp \in Positions : run_with_ordered_post_op(o, rp)
    \/ \E o \in Ops : run_post(o)
    \/ \E o \in Ops, ok \in BOOLEAN : FuncDone(o, ok) \/ PostDone(o, ok)
    \/ \E w \in Waiters : Waited(w) \/ \E rp \in Positions : wait_for_pending(w, rp)
    \/ close

FlushQueueSpec == FlushQueueInit /\ [][FlushQueueNext]_fqVars

\* Functions end, and the reactor runs the continuations of resolved futures.
FlushQueueFairness ==
    /\ \A o \in Ops : /\ WF_fqVars(run_post(o))
                      /\ WF_fqVars(\E ok \in BOOLEAN : FuncDone(o, ok))
                      /\ WF_fqVars(\E ok \in BOOLEAN : PostDone(o, ok))
    /\ \A w \in Waiters : WF_fqVars(Waited(w))

--------------------------------------------------------------------------------
(* Properties. *)

\* "post" only runs when all operations with lower keys are complete (the
\* promise in the comment on run_with_ordered_post_op, and its assertion that
\* the entry is the first one), and a wait for keys up to rp ends no earlier
\* than every operation with such a key that was active when it began: both
\* rest on one promise per entry, resolved by the last of its operations, in
\* the order of the keys, while operations join entries and entries are made.
PostInOrder ==
    /\ \A o \in Ops : phase[o] = "post" =>
          /\ key[o] \in DOMAIN map /\ key[o] = begin
          /\ \A p \in Active : key[p] >= key[o]
    /\ \A w \in Waiters : waiting[w] = "done" => owed[w] \cap Active = {}

\* Unless exceptions are chained, every operation that was taken up completes
\* and every wait ends, whatever fails.
OperationsComplete ==
    ~chain => /\ \A o \in Ops : phase[o] = "func" ~> phase[o] \in {"done", "failed"}
              /\ \A w \in Waiters : waiting[w] = "waiting" ~> waiting[w] = "done"
================================================================================
