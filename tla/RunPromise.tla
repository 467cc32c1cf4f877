----------------------------- MODULE RunPromise -----------------------------
(***************************************************************************)
(* What Flow.run promises its caller, with nothing about how it keeps it.  *)
(*                                                                         *)
(* A run is given a number of node visits.  Every node visited anywhere    *)
(* below the call, at whatever depth of nesting, is paid from that number. *)
(* A visit is governed by at most one cancel event, and once an event is   *)
(* set the visits it governs are over, save the single one that may        *)
(* already have passed the check.  The late visits of an event are counted *)
(* and the count is part of what is promised: a visit governed by a set    *)
(* event cannot pass for one that no event governs.  The call ends with a  *)
(* verdict, and the verdict is honest.                                     *)
(***************************************************************************)
EXTENDS Naturals

CONSTANTS Limits,    \* the max_steps values callers pass
          Events,    \* the cancel events
          NoEvent,   \* no cancel event governs the visit
          Verdicts   \* how a call can end

VARIABLES running,   \* a call is in progress
          left,      \* visits still paid for
          called,    \* cancel events that have been set
          late,      \* visits each event has governed after being set
          verdict    \* how the last call ended

vars == <<running, left, called, late, verdict>>

Init ==
  /\ running = FALSE
  /\ left = 0
  /\ called = {}
  /\ late = [e \in Events |-> 0]
  /\ verdict = "none"

Begin(n) ==
  /\ ~running
  /\ running' = TRUE
  /\ left' = n
  /\ verdict' = "none"
  /\ UNCHANGED <<called, late>>

Call(e) ==
  /\ called' = called \cup {e}
  /\ UNCHANGED <<running, left, late, verdict>>

\* A visit governed by e: e is not set yet, or this is its one late visit.
Visit(e) ==
  /\ running
  /\ left > 0
  /\ left' = left - 1
  /\ e \in called => late[e] = 0
  /\ late' = [x \in Events |-> IF x = e /\ e \in called THEN late[x] + 1
                                                        ELSE late[x]]
  /\ UNCHANGED <<running, called, verdict>>

\* A call blames the budget only when no visit is left, and cancellation
\* only when somebody asked for it.
Finish(v) ==
  /\ running
  /\ running' = FALSE
  /\ verdict' = v
  /\ v = "exhausted" => left = 0
  /\ v = "cancelled" => called # {}
  /\ UNCHANGED <<left, called, late>>

Next ==
  \/ \E n \in Limits : Begin(n)
  \/ \E e \in Events : Call(e)
  \/ \E e \in Events \cup {NoEvent} : Visit(e)
  \/ \E v \in Verdicts : Finish(v)

Spec == Init /\ [][Next]_vars
=============================================================================
