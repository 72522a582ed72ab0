----------------------------- MODULE TimedExecutor -----------------------------
(***************************************************************************)
(* What addJob promises, with no worker, wheel or serializer in sight: a   *)
(* job that is added waits for its interval, less what the scheduler may   *)
(* be early, and is then executed, once, and never beside another job of   *)
(* its serializer.  JobSystem.tla is shown to implement it.                *)
(***************************************************************************)
EXTENDS Naturals, Sequences

CONSTANTS
    Requests,   \* the calls of addJob
    Intervals,  \* the intervals, in milliseconds, callers ask for
    Tolerance   \* a job is less than that early

VARIABLES
    added,      \* the requests that were accepted
    delay,      \* the time until each of them may start
    current,    \* the request being executed: <<>> or <<r>>
    finished    \* executed, in the order of their ends

vars == <<added, delay, current, finished>>

\* What is left to wait of an interval, or of the rest of one
DelayOf(i) == IF i < Tolerance THEN 0 ELSE i - Tolerance + 1

Init ==
    /\ added = {} /\ delay = [r \in Requests |-> 0]
    /\ current = <<>> /\ finished = <<>>

Add(r, i) ==
    /\ r \notin added /\ added' = added \cup {r}
    /\ delay' = [delay EXCEPT ![r] = DelayOf(i)]
    /\ UNCHANGED <<current, finished>>

\* A millisecond passes.
Tick ==
    /\ delay' = [r \in Requests |-> IF delay[r] > 0 THEN delay[r] - 1 ELSE 0]
    /\ UNCHANGED <<added, current, finished>>

Start(r) ==
    /\ r \in added /\ delay[r] = 0
    /\ \A i \in DOMAIN finished : finished[i] # r
    /\ current = <<>> /\ current' = <<r>>
    /\ UNCHANGED <<added, delay, finished>>

Finish ==
    /\ current # <<>> /\ current' = <<>>
    /\ finished' = finished \o current
    /\ UNCHANGED <<added, delay>>

Next ==
    \/ Tick \/ Finish
    \/ \E r \in Requests : Start(r) \/ \E i \in Intervals : Add(r, i)

Spec == Init /\ [][Next]_vars
===============================================================================
