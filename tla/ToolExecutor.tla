----------------------------- MODULE ToolExecutor -----------------------------
(***************************************************************************)
(* ToolExecutor.execute_all (tools/executor.py): one batch of tool calls   *)
(* executed by the caller's thread and a ThreadPoolExecutor, and what      *)
(* ToolCallNode._complete (tools/nodes.py) writes of the results.          *)
(*                                                                         *)
(* The caller's thread walks the calls, keeps parallel ones in a batch,    *)
(* and flushes the batch - check the cancel event, submit every call, join *)
(* the futures in order - before a serial or unknown call, which it runs   *)
(* itself, and at the end.  The pool's threads take calls from its queue.  *)
(* Another thread may set the cancel event at any moment, and a tool may   *)
(* return, raise an Exception ("error") or raise a BaseException ("abort").*)
(* Arguments and the content of results are abstracted.                    *)
(***************************************************************************)
EXTENDS Integers, Sequences, FiniteSets

CONSTANTS MaxCalls,     \* bound: calls in a batch
          MaxWorkers    \* max_workers of the pool

ASSUME SizeAssumption == MaxCalls \in Nat \ {0} /\ MaxWorkers \in Nat \ {0}

Kinds == {"parallel", "serial", "unknown"}

Batches == UNION {[1..n -> Kinds] : n \in 1..MaxCalls}

VARIABLES
  kinds,       \* the tools the calls name: parallel, serial, not in tool_map
  pc,          \* the caller's thread
  at,          \* index of the for loop
  batch,       \* calls kept for the next flush
  futures,     \* submitted calls not joined yet
  queue,       \* the pool's work queue
  status,      \* what has become of each call
  results,     \* the results list, "None" where it has no result
  cancelled,   \* cancel_event.is_set()
  raising,     \* how the body of the with statement ended
  verdict,     \* how execute_all ended
  answers      \* tool messages _complete added to the history, in order

vars == <<kinds, pc, at, batch, futures, queue, status, results, cancelled,
          raising, verdict, answers>>

Calls == DOMAIN kinds

Finished(i) == status[i] \in {"ok", "error", "abort"}

Running == {i \in Calls : status[i] = "running"}

\* The calls the pool's threads are executing.
PoolBusy == {i \in Running : kinds[i] = "parallel"}

Init ==
  /\ kinds \in Batches
  /\ pc = "scan"
  /\ at = 1
  /\ batch = <<>>
  /\ futures = <<>>
  /\ queue = <<>>
  /\ status = [i \in Calls |-> "idle"]
  /\ results = [i \in Calls |-> "None"]
  /\ cancelled = FALSE
  /\ raising = "none"
  /\ verdict = "none"
  /\ answers = <<>>

-----------------------------------------------------------------------------
\* A call to a tool marked parallel waits for the next flush.
Keep ==
  /\ pc = "scan" /\ at <= Len(kinds)
  /\ kinds[at] = "parallel"
  /\ batch' = Append(batch, at)
  /\ at' = at + 1
  /\ UNCHANGED <<kinds, pc, futures, queue, status, results, cancelled, raising,
                 verdict, answers>>

\* Mutant: a serial call does not wait for the batch kept before it.
SerialAtOnce == IF at <= Len(kinds) THEN "check" ELSE "flush"

\* Mutant: the batch kept at the end is forgotten.
NoFinalFlush == IF at <= Len(kinds) THEN "flush" ELSE "join"

\* What the loop does at a serial call and after the last call: flush.
FlushNext == "flush"

Barrier ==
  /\ pc = "scan"
  /\ at <= Len(kinds) => kinds[at] # "parallel"
  /\ pc' = FlushNext
  /\ UNCHANGED <<kinds, at, batch, futures, queue, status, results, cancelled,
                 raising, verdict, answers>>

\* Mutant: the event is not checked between the flush and the serial call.
CheckedAtFlush == {"flush"}

\* Where check_cancelled is called.
Checked == {"flush", "check"}

\* check_cancelled raises FlowCancelled.
RaiseCancelled ==
  /\ pc \in Checked
  /\ cancelled
  /\ raising' = "cancelled"
  /\ pc' = "unwind"
  /\ UNCHANGED <<kinds, at, batch, futures, queue, status, results, cancelled,
                 verdict, answers>>

\* The event was not set: the whole batch is submitted.
Submit ==
  /\ pc = "flush" /\ ~cancelled
  /\ queue' = queue \o batch
  /\ futures' = batch
  /\ pc' = "join"
  /\ UNCHANGED <<kinds, at, batch, status, results, cancelled, raising, verdict,
                 answers>>

\* future.result() returns a result.
Join ==
  /\ pc = "join" /\ futures # <<>>
  /\ status[Head(futures)] \in {"ok", "error"}
  /\ results' = [results EXCEPT ![Head(futures)] = status[Head(futures)]]
  /\ futures' = Tail(futures)
  /\ UNCHANGED <<kinds, pc, at, batch, queue, status, cancelled, raising, verdict,
                 answers>>

\* The wait for a result ends the batch instead.
StopJoin ==
  /\ pc = "join" /\ futures # <<>>
  /\ raising' = "aborted"
  /\ pc' = "unwind"
  /\ UNCHANGED <<kinds, at, batch, futures, queue, status, results, cancelled,
                 verdict, answers>>

\* future.result() raises the tool's BaseException.
JoinRaises == StopJoin /\ status[Head(futures)] = "abort"

\* The caller's thread is interrupted while it waits for a result.
Interrupt == StopJoin

\* Every future is joined: on to the serial call, or to the end.
Joined ==
  /\ pc = "join" /\ futures = <<>>
  /\ batch' = <<>>
  /\ IF at > Len(kinds)
     THEN pc' = "unwind" /\ raising' = "returned"
     ELSE pc' = "check" /\ UNCHANGED raising
  /\ UNCHANGED <<kinds, at, futures, queue, status, results, cancelled, verdict,
                 answers>>

\* The check between the flush and a serial or unknown call passes.
CheckPasses ==
  /\ pc = "check"
  /\ "check" \in Checked => ~cancelled
  /\ pc' = "call"
  /\ UNCHANGED <<kinds, at, batch, futures, queue, status, results, cancelled,
                 raising, verdict, answers>>

\* The call starts, in the caller's thread.
CallInline ==
  /\ pc = "call"
  /\ status' = [status EXCEPT ![at] = "running"]
  /\ pc' = "inline"
  /\ UNCHANGED <<kinds, at, batch, futures, queue, results, cancelled, raising,
                 verdict, answers>>

\* It ended: its result is stored, or its BaseException propagates.
InlineEnds ==
  /\ pc = "inline" /\ Finished(at)
  /\ IF status[at] = "abort"
     THEN /\ raising' = "aborted"
          /\ pc' = "unwind"
          /\ UNCHANGED <<results, at>>
     ELSE /\ results' = [results EXCEPT ![at] = status[at]]
          /\ at' = at + 1
          /\ pc' = "scan"
          /\ UNCHANGED raising
  /\ UNCHANGED <<kinds, batch, futures, queue, status, cancelled, verdict,
                 answers>>

\* Mutant: leaving does not wait for the pool.
NoWait == TRUE

\* ThreadPoolExecutor.__exit__ is shutdown(wait=True).
PoolIdle == queue = <<>> /\ PoolBusy = {}

\* The first n results without those that are None, by the call they answer.
KeptUpTo[n \in 0..Len(kinds)] ==
  IF n = 0 THEN <<>>
  ELSE IF results[n] # "None" THEN Append(KeptUpTo[n - 1], n) ELSE KeptUpTo[n - 1]

\* Leaving the with statement.  A batch that returned goes to _complete,
\* which adds a tool message per result; an exception does not get there.
Leave ==
  /\ pc = "unwind" /\ PoolIdle
  /\ pc' = "done"
  /\ verdict' = raising
  /\ answers' = IF raising = "returned" THEN KeptUpTo[Len(kinds)] ELSE answers
  /\ UNCHANGED <<kinds, at, batch, futures, queue, status, results, cancelled,
                 raising>>

-----------------------------------------------------------------------------
\* Mutant: a thread dies of what a tool does not catch.
ThreadsDie ==
  Cardinality(PoolBusy \cup {i \in Calls : status[i] = "abort"}) < MaxWorkers

WorkerFree == Cardinality(PoolBusy) < MaxWorkers

\* A thread of the pool takes the next call.
Take ==
  /\ queue # <<>> /\ WorkerFree
  /\ status' = [status EXCEPT ![Head(queue)] = "running"]
  /\ queue' = Tail(queue)
  /\ UNCHANGED <<kinds, pc, at, batch, futures, results, cancelled, raising,
                 verdict, answers>>

\* ToolExecutor.execute ends.  A call that names no tool gets an error.
ToolEnds(i, r) ==
  /\ status[i] = "running"
  /\ kinds[i] = "unknown" => r = "error"
  /\ status' = [status EXCEPT ![i] = r]
  /\ UNCHANGED <<kinds, pc, at, batch, futures, queue, results, cancelled,
                 raising, verdict, answers>>

\* Another thread sets the cancel event.
SetCancel ==
  /\ ~cancelled /\ pc # "done"
  /\ cancelled' = TRUE
  /\ UNCHANGED <<kinds, pc, at, batch, futures, queue, status, results, raising,
                 verdict, answers>>

Caller ==
  \/ Keep \/ Barrier \/ RaiseCancelled \/ Submit \/ Join \/ JoinRaises
  \/ Joined \/ CheckPasses \/ CallInline \/ InlineEnds \/ Leave

Pool == Take \/ \E i \in Calls, r \in {"ok", "error", "abort"} : ToolEnds(i, r)

\* The batch is over.
Done == pc = "done" /\ Running = {} /\ UNCHANGED vars

Next == Caller \/ Interrupt \/ Pool \/ SetCancel \/ Done

Spec == Init /\ [][Next]_vars

\* The caller's thread and the pool's threads run, and tools end.
FairSpec == Spec /\ WF_vars(Caller) /\ WF_vars(Pool)

-----------------------------------------------------------------------------
\* The types the refinement below relies on.
TypeOK ==
  /\ kinds \in Batches
  /\ pc \in {"scan", "flush", "join", "check", "call", "inline", "unwind", "done"}
  /\ at \in 1..Len(kinds) + 1
  /\ batch \in Seq(Calls) /\ futures \in Seq(Calls) /\ queue \in Seq(Calls)
  /\ status \in [Calls -> {"idle", "running", "ok", "error", "abort"}]
  /\ results \in [Calls -> {"None", "ok", "error"}]
  /\ cancelled \in BOOLEAN
  /\ raising \in {"none", "returned", "cancelled", "aborted"}
  /\ verdict \in {"none", "returned", "cancelled", "aborted"}
  /\ answers \in Seq(Calls)

\* However the batch ends - returned, cancelled, aborted by one tool,
\* interrupted - no tool is still running when execute_all is left, none will
\* start, and the calls executed are a prefix of the batch.  One that returns
\* drops nothing: every call has its own result, and the history gets one tool
\* message per call in the model's order, although the code filters None
\* results away (executor.py:294-308, nodes.py:133-140).
EndsCleanly ==
  /\ pc = "done" =>
       \E k \in 0..Len(kinds) :
         \A i \in Calls : IF i <= k THEN Finished(i) ELSE status[i] = "idle"
  /\ verdict = "returned" => results = status /\ answers = [i \in 1..Len(kinds) |-> i]

\* What ToolBatch calls admitted: submitted, or past its check.
Admitted ==
  {i \in Calls : status[i] # "idle"}
    \cup {queue[k] : k \in DOMAIN queue}
    \cup (IF pc = "call" THEN {at} ELSE {})

Batch == INSTANCE ToolBatch WITH
  admitted <- Admitted,
  called   <- cancelled

\* execute_all keeps the promise of a batch: a serial call is an exclusive
\* barrier whatever the pool's threads have got to, a call runs once, and a set
\* event admits no more of them (executor.py:283-306).
KeepsBatch == Batch!Spec

\* Every batch ends, if tools do.
Terminates == <>(pc = "done")
=============================================================================
