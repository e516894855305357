-------------------------- MODULE FailureDetector --------------------------
(***************************************************************************)
(* The accrual failure detector (gms/failure_detector.cc): a window of the  *)
(* latest gaps between the reports of an endpoint, and its conviction when  *)
(* it has been silent for much longer than their mean.  The listener is the *)
(* gossiper, which marks a convicted endpoint down and one it hears of up.  *)
(*                                                                         *)
(* Time is in ticks and kept as ages: how long ago.  Ages beyond Cap are    *)
(* told apart by nothing in the code, so they stop there.  The clock is     *)
(* std::chrono::system_clock; it is taken not to be set back.               *)
(***************************************************************************)
EXTENDS Integers, Sequences, FiniteSetsExt, Functions

CONSTANTS
    Endpoints,
    InitialValue,  \* get_initial_value(), get_max_interval()
    SAMPLE_SIZE,
    Factor,        \* _phi / PHI_FACTOR, the multiple of the mean that convicts; 18.4 in the program
    MaxPause       \* get_max_local_pause()

VARIABLES
    samples,        \* _arrival_samples: endpoint |-> its window, as far as it has one
    age,            \* endpoint |-> now - _tlast
    last_interpret, \* _last_interpret, as an age, or <<>>
    last_paused,    \* _last_paused, as an age
    up,             \* the endpoints the listener takes for alive
    told,           \* history: the endpoints that said they were going
    gaps            \* history: endpoint |-> its latest gaps, latest first

fdVars == <<samples, age, last_interpret, last_paused, up, told, gaps>>

Cap == Factor * InitialValue + MaxPause + 1

EmptyWindow == [deque |-> <<>>, sum |-> 0]

(* bounded_stats_deque::add: the oldest gives way, and the sum is kept along *)
add(w, i) ==
    LET full == Len(w.deque) >= SAMPLE_SIZE
    IN [deque |-> Append(IF full THEN Tail(w.deque) ELSE w.deque, i),
        sum |-> w.sum - (IF full THEN Head(w.deque) ELSE 0) + i]

(* arrival_window::add: the first report stands for a long gap, a gap above the longest is ignored *)
arrival_window_add(w, gap) == IF gap <= InitialValue THEN add(w, gap) ELSE w

(* phi * PHI_FACTOR above the threshold, where phi = t / mean *)
phi_convicts(w, t) == t * Len(w.deque) > Factor * w.sum

FdInit ==
    /\ samples = [e \in {} |-> EmptyWindow] /\ age = [e \in Endpoints |-> Cap]
    /\ last_interpret = <<>> /\ last_paused = Cap /\ up = {} /\ told = {}
    /\ gaps = [e \in Endpoints |-> <<>>]

(* A report, after which the gossiper marks the endpoint alive; a reboot of one that was *)
(* down clears its window first (gossiper::notify_failure_detector)                      *)
report(e, reboot) ==
    LET known == e \in DOMAIN samples /\ ~reboot
        gap == IF known THEN age[e] ELSE InitialValue
        w == arrival_window_add(IF known THEN samples[e] ELSE EmptyWindow, gap)
        recent == <<gap>> \o (IF known THEN gaps[e] ELSE <<>>)
    IN /\ reboot => e \in DOMAIN samples \ up
       /\ samples' = [x \in DOMAIN samples \cup {e} |-> IF x = e THEN w ELSE samples[x]]
       /\ age' = [age EXCEPT ![e] = 0]
       /\ up' = up \cup {e} /\ told' = told \ {e}
       /\ gaps' = [gaps EXCEPT ![e] = IF gap <= InitialValue
                                      THEN SubSeq(recent, 1, Min({Len(recent), SAMPLE_SIZE})) ELSE @]
       /\ UNCHANGED <<last_interpret, last_paused>>

(* Assigning through a disengaged optional leaves it disengaged: no pause is ever seen *)
interpret(e) ==
    LET diff == IF last_interpret = <<>> THEN 0 ELSE last_interpret[1]
        convicted == last_paused >= MaxPause /\ phi_convicts(samples[e], age[e])
    IN /\ e \in DOMAIN samples
       /\ last_interpret' = IF last_interpret = <<>> THEN <<>> ELSE <<0>>
       /\ IF diff > MaxPause
          THEN last_paused' = 0 /\ up' = up
          ELSE last_paused' = last_paused /\ up' = IF convicted THEN up \ {e} ELSE up
       /\ UNCHANGED <<samples, age, told, gaps>>

(* A peer that announced its shutdown *)
force_conviction(e) ==
    /\ e \in up /\ up' = up \ {e} /\ told' = told \cup {e}
    /\ UNCHANGED <<samples, age, last_interpret, last_paused, gaps>>

(* An endpoint is evicted from the membership *)
remove(e) ==
    /\ e \in DOMAIN samples
    /\ samples' = Restrict(samples, DOMAIN samples \ {e})
    /\ up' = up \ {e} /\ told' = told \ {e} /\ gaps' = [gaps EXCEPT ![e] = <<>>]
    /\ UNCHANGED <<age, last_interpret, last_paused>>

Later(a) == IF a < Cap THEN a + 1 ELSE a

FdTick ==
    /\ age' = [e \in Endpoints |-> Later(age[e])] /\ last_paused' = Later(last_paused)
    /\ last_interpret' = IF last_interpret = <<>> THEN <<>> ELSE <<Later(last_interpret[1])>>
    /\ UNCHANGED <<samples, up, told, gaps>>

FdNext ==
    \/ \E e \in Endpoints, reboot \in BOOLEAN : report(e, reboot)
    \/ \E e \in Endpoints : interpret(e) \/ force_conviction(e) \/ remove(e)
    \/ FdTick

(* Time passes, and every round of the gossiper interprets every endpoint it knows *)
FdFairness == WF_fdVars(FdTick) /\ \A e \in Endpoints : WF_fdVars(interpret(e))

(* An endpoint that did not say it was going is marked down only when it has been silent *)
(* for more than Factor times the shortest of its latest gaps: the running sum of the    *)
(* window (bounded_stats_deque::add) never falls behind what it holds.                   *)
ConvictedWasSilent ==
    [][\A e \in up \ (up' \cup told') :
          e \in DOMAIN samples' => age[e] > Factor * Min(Range(gaps[e]))]_fdVars

(* An endpoint that is not heard of any more does not stay up: whatever gaps it had      *)
(* before, none above InitialValue counts, so its silence outgrows their mean            *)
(* (arrival_window::add, failure_detector::interpret).                                   *)
SilentMarkedDown ==
    \A e \in Endpoints : (<>[][\A reboot \in BOOLEAN : ~report(e, reboot)]_fdVars) => <>[](e \notin up)
=============================================================================
