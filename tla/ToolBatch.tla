------------------------------ MODULE ToolBatch ------------------------------
(***************************************************************************)
(* What executing one batch of tool calls promises, whether by threads     *)
(* (ToolExecutor.execute_all) or by tasks (aexecute_all).                  *)
(*                                                                         *)
(* Calls are admitted group by group, in the model's order.  A group is a  *)
(* single serial call or a run of consecutive parallel ones; it is         *)
(* admitted when everything before it has a result, and never after the    *)
(* cancel event is set.  An admitted call runs at most once, and no more   *)
(* than MaxWorkers run at a time.                                          *)
(***************************************************************************)
EXTENDS Integers, FiniteSets

CONSTANTS MaxWorkers,   \* ToolExecutor.max_workers
          Batches       \* the batches asked for: sequences of call kinds

VARIABLES kinds,        \* the batch: kinds[i] says how call i must run
          admitted,     \* calls allowed to run
          status,       \* what has become of each call
          called,       \* the cancel event is set
          verdict       \* how the batch ended

vars == <<kinds, admitted, status, called, verdict>>

Calls == DOMAIN kinds

Running == {i \in Calls : status[i] = "running"}

Answered(i) == status[i] \in {"ok", "error"}

\* Calls i and j may be running at the same time.
Together(i, j) == \A k \in Calls : (i <= k /\ k <= j) \/ (j <= k /\ k <= i)
                                     => kinds[k] = "parallel"

Init ==
  /\ kinds \in Batches
  /\ admitted = {}
  /\ status = [i \in Calls |-> "idle"]
  /\ called = FALSE
  /\ verdict = "none"

Admit(S) ==
  /\ verdict = "none"
  /\ ~called
  /\ S # {} /\ S \cap admitted = {}
  /\ \A i, j \in S : i # j => Together(i, j)
  /\ \A i \in S, j \in Calls \ S : j < i => Answered(j)
  /\ admitted' = admitted \cup S
  /\ UNCHANGED <<kinds, status, called, verdict>>

Start(i) ==
  /\ i \in admitted
  /\ status[i] = "idle"
  /\ Cardinality(Running) < MaxWorkers
  /\ status' = [status EXCEPT ![i] = "running"]
  /\ UNCHANGED <<kinds, admitted, called, verdict>>

Finish(i, r) ==
  /\ status[i] = "running"
  /\ status' = [status EXCEPT ![i] = r]
  /\ UNCHANGED <<kinds, admitted, called, verdict>>

Cancel ==
  /\ called' = TRUE
  /\ UNCHANGED <<kinds, admitted, status, verdict>>

\* A batch that returns answers every call; one that blames the cancel event
\* was cancelled.
End(v) ==
  /\ verdict = "none"
  /\ v = "returned" => \A i \in Calls : Answered(i)
  /\ v = "cancelled" => called
  /\ verdict' = v
  /\ UNCHANGED <<kinds, admitted, status, called>>

Next ==
  \/ \E S \in SUBSET Calls : Admit(S)
  \/ \E i \in Calls : Start(i)
  \/ \E i \in Calls, r \in {"ok", "error", "abort"} : Finish(i, r)
  \/ Cancel
  \/ \E v \in {"returned", "cancelled", "aborted"} : End(v)

Spec == Init /\ [][Next]_vars
=============================================================================
