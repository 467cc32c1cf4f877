-------------------------- MODULE AsyncToolExecutor --------------------------
(***************************************************************************)
(* ToolExecutor.aexecute_all (tools/executor.py): one batch of tool calls  *)
(* executed by tasks of an event loop.                                     *)
(*                                                                         *)
(* The batch kept between two serial calls is gathered in chunks of        *)
(* max_workers tasks.  A coroutine tool runs on the loop; a synchronous    *)
(* one runs in a thread its task waits for (asyncio.to_thread), which      *)
(* nothing can stop: if the task is cancelled, the thread is orphaned.     *)
(* Anybody may cancel the task that executes the batch while it awaits; a  *)
(* tool may let a CancelledError of its own escape ("abort").  A thread    *)
(* is taken to start at once.                                              *)
(***************************************************************************)
EXTENDS Integers, Sequences, FiniteSets

CONSTANTS MaxCalls,     \* bound: calls in a batch
          MaxWorkers    \* max_workers

ASSUME AsyncSizeAssumption == MaxCalls \in Nat \ {0} /\ MaxWorkers \in Nat \ {0}

Kinds == {"parallel", "serial", "unknown"}

Batches == UNION {[1..n -> Kinds] : n \in 1..MaxCalls}

VARIABLES
  kinds,       \* the tools the calls name: parallel, serial, not in tool_map
  blocking,    \* calls whose tool is not a coroutine function
  pc,          \* the task that executes the batch
  at,          \* index of the for loop
  batch,       \* calls kept for the next flush
  rest,        \* calls of the flush not gathered yet
  chunk,       \* calls gathered now
  status,      \* what has become of each call's task
  told,        \* calls whose task has been cancelled
  busy,        \* calls whose tool function is executing
  results,     \* the results list, "None" where it has no result
  cancelled,   \* cancel_event.is_set()
  asked,       \* the task has been cancelled and is about to raise
  verdict      \* how aexecute_all ended

vars == <<kinds, blocking, pc, at, batch, rest, chunk, status, told, busy, results,
          cancelled, asked, verdict>>

call == <<kinds, blocking>>

tasks == <<status, told, busy>>

Calls == DOMAIN kinds

InChunk == {chunk[k] : k \in DOMAIN chunk}

Answered(i) == status[i] \in {"ok", "error"}

Init ==
  /\ kinds \in Batches
  /\ blocking \in SUBSET {i \in Calls : kinds[i] # "unknown"}
  /\ pc = "scan"
  /\ at = 1
  /\ batch = <<>> /\ rest = <<>> /\ chunk = <<>>
  /\ status = [i \in Calls |-> "idle"]
  /\ told = {} /\ busy = {}
  /\ results = [i \in Calls |-> "None"]
  /\ cancelled = FALSE /\ asked = FALSE
  /\ verdict = "none"

-----------------------------------------------------------------------------
(* The task that executes the batch.                                       *)

\* A call to a tool marked parallel waits for the next flush.
Keep ==
  /\ pc = "scan" /\ at <= Len(kinds)
  /\ kinds[at] = "parallel"
  /\ batch' = Append(batch, at)
  /\ at' = at + 1
  /\ UNCHANGED <<call, pc, rest, chunk, tasks, results, cancelled, asked, verdict>>

\* Mutant: a serial call does not wait for the batch kept before it.
SerialAtOnce == IF at <= Len(kinds) THEN "check" ELSE "flush"

\* Mutant: the batch kept at the end is forgotten.
NoFinalFlush == IF at <= Len(kinds) THEN "flush" ELSE "chunks"

\* What the loop does at a serial call and after the last call: flush.
FlushNext == "flush"

Barrier ==
  /\ pc = "scan"
  /\ at <= Len(kinds) => kinds[at] # "parallel"
  /\ pc' = FlushNext
  /\ UNCHANGED <<call, at, batch, rest, chunk, tasks, results, cancelled, asked,
                 verdict>>

End(v) ==
  /\ pc' = "done"
  /\ verdict' = v

\* Mutant: the event is not checked between the flush and the serial call.
CheckedAtFlush == {"flush"}

\* Where check_cancelled is called.
Checked == {"flush", "check"}

\* check_cancelled raises FlowCancelled.
RaiseCancelled ==
  /\ pc \in Checked
  /\ cancelled
  /\ End("cancelled")
  /\ UNCHANGED <<call, at, batch, rest, chunk, tasks, results, cancelled, asked>>

CheckPasses ==
  /\ pc \in {"flush", "check"}
  /\ pc \in Checked => ~cancelled
  /\ IF pc = "flush" THEN pc' = "chunks" /\ rest' = batch
                     ELSE pc' = "call" /\ UNCHANGED rest
  /\ UNCHANGED <<call, at, batch, chunk, tasks, results, cancelled, asked, verdict>>

\* Mutant: the whole batch is gathered at once.
WholeBatch == Len(rest)

\* Mutant: only whole chunks are gathered.
WholeChunk == IF Len(rest) < MaxWorkers THEN 0 ELSE MaxWorkers

ChunkSize == IF Len(rest) < MaxWorkers THEN Len(rest) ELSE MaxWorkers

\* asyncio.gather makes a task of each call of the next chunk.
Gather ==
  /\ pc = "chunks" /\ rest # <<>>
  /\ chunk' = SubSeq(rest, 1, ChunkSize)
  /\ rest' = SubSeq(rest, ChunkSize + 1, Len(rest))
  /\ status' = [i \in Calls |->
                  IF \E k \in 1..ChunkSize : rest[k] = i THEN "ready" ELSE status[i]]
  /\ pc' = "gather"
  /\ UNCHANGED <<call, at, batch, told, busy, results, cancelled, asked, verdict>>

\* Mutant: a chunk is over when its first call has a result.
FirstAnswered == \E i \in InChunk : Answered(i)

AllAnswered == \A i \in InChunk : Answered(i)

\* gather returns the results of the chunk.
Gathered ==
  /\ pc = "gather" /\ ~asked
  /\ AllAnswered
  /\ results' = [i \in Calls |-> IF i \in InChunk THEN status[i] ELSE results[i]]
  /\ pc' = "chunks"
  /\ UNCHANGED <<call, at, batch, rest, chunk, tasks, cancelled, asked, verdict>>

\* gather raises the CancelledError of one call, and leaves the others alone.
GatherRaises ==
  /\ pc = "gather" /\ ~asked
  /\ \E i \in InChunk : status[i] = "abort"
  /\ End("aborted")
  /\ UNCHANGED <<call, at, batch, rest, chunk, tasks, results, cancelled, asked>>

\* Every chunk is gathered: on to the serial call, or to the end.
Flushed ==
  /\ pc = "chunks" /\ rest = <<>>
  /\ batch' = <<>>
  /\ IF at > Len(kinds) THEN End("returned") ELSE pc' = "check" /\ UNCHANGED verdict
  /\ UNCHANGED <<call, at, rest, chunk, tasks, results, cancelled, asked>>

\* A call starts.
Begin(i) ==
  /\ status' = [status EXCEPT ![i] = "running"]
  /\ busy' = busy \cup {i}

\* A serial or unknown call is awaited by this task itself.
CallInline ==
  /\ pc = "call"
  /\ Begin(at)
  /\ pc' = "inline"
  /\ UNCHANGED <<call, at, batch, rest, chunk, told, results, cancelled, asked,
                 verdict>>

\* It ended: its result is stored, even that of a tool that was cancelled and
\* returned all the same; or its CancelledError propagates.
InlineEnds ==
  /\ pc = "inline" /\ status[at] \in {"ok", "error", "abort"}
  /\ IF status[at] = "abort"
     THEN End("aborted") /\ UNCHANGED <<results, at, asked>>
     ELSE /\ results' = [results EXCEPT ![at] = status[at]]
          /\ at' = at + 1
          /\ pc' = "scan"
          /\ asked' = FALSE
          /\ UNCHANGED verdict
  /\ UNCHANGED <<call, batch, rest, chunk, tasks, cancelled>>

-----------------------------------------------------------------------------
(* The tasks of the calls, their threads, and the rest of the world.       *)

\* The task of a call takes its first step.
Start(i) ==
  /\ status[i] = "ready"
  /\ Begin(i)
  /\ UNCHANGED <<call, pc, at, batch, rest, chunk, told, results, cancelled, asked,
                 verdict>>

\* ToolExecutor.aexecute ends.  A call that names no tool gets an error, and
\* a coroutine that is cancelled may still return.
ToolEnds(i, r) ==
  /\ status[i] = "running" /\ i \notin told \cap blocking
  /\ kinds[i] = "unknown" => r = "error"
  /\ status' = [status EXCEPT ![i] = r]
  /\ busy' = busy \ {i}
  /\ UNCHANGED <<call, pc, at, batch, rest, chunk, told, results, cancelled, asked,
                 verdict>>

\* A cancelled task no longer waits for its thread.
StopWaiting(i) ==
  /\ status[i] = "running" /\ i \in told \cap blocking
  /\ status' = [status EXCEPT ![i] = "abort"]
  /\ UNCHANGED <<call, pc, at, batch, rest, chunk, told, busy, results, cancelled,
                 asked, verdict>>

\* A thread ends for which no task waits.
ThreadEnds(i) ==
  /\ i \in busy /\ status[i] = "abort"
  /\ busy' = busy \ {i}
  /\ UNCHANGED <<call, pc, at, batch, rest, chunk, status, told, results,
                 cancelled, asked, verdict>>

Awaited == IF pc = "gather" THEN InChunk ELSE {at}

\* The task is cancelled while it awaits, and with it the tasks it gathered:
\* they do not start, or get a CancelledError, which a coroutine tool may
\* handle.  The error for a name in no tool_map is returned without an await.
CancelTask ==
  /\ pc \in {"gather", "inline"} /\ ~asked
  /\ pc = "inline" => kinds[at] # "unknown"
  /\ asked' = TRUE
  /\ told' = told \cup {i \in Awaited : status[i] = "running"}
  /\ status' = [i \in Calls |->
                  IF i \in Awaited /\ status[i] = "ready" THEN "dropped" ELSE status[i]]
  /\ UNCHANGED <<call, pc, at, batch, rest, chunk, busy, results, cancelled,
                 verdict>>

\* A cancelled gather raises as soon as one of its tasks is cancelled, without
\* waiting for the others, or when all have ended.
Unwound ==
  /\ pc = "gather" /\ asked
  /\ \/ \E i \in InChunk : status[i] \in {"abort", "dropped"}
     \/ AllAnswered
  /\ End("aborted")
  /\ UNCHANGED <<call, at, batch, rest, chunk, tasks, results, cancelled, asked>>

\* Another thread or task sets the cancel event.
SetCancel ==
  /\ ~cancelled /\ pc # "done"
  /\ cancelled' = TRUE
  /\ UNCHANGED <<call, pc, at, batch, rest, chunk, tasks, results, asked, verdict>>

Caller ==
  \/ Keep \/ Barrier \/ RaiseCancelled \/ CheckPasses \/ Gather \/ Gathered
  \/ GatherRaises \/ Flushed \/ CallInline \/ InlineEnds \/ Unwound

Task ==
  \/ \E i \in Calls : Start(i)
  \/ \E i \in Calls, r \in {"ok", "error", "abort"} : ToolEnds(i, r)
  \/ \E i \in Calls : StopWaiting(i) \/ ThreadEnds(i)

\* The batch is over, and nothing of it is left.
Done ==
  /\ pc = "done" /\ busy = {}
  /\ \A i \in Calls : status[i] # "ready"
  /\ UNCHANGED vars

Next == Caller \/ Task \/ CancelTask \/ SetCancel \/ Done

Spec == Init /\ [][Next]_vars

\* The loop runs the tasks that are ready, and tools end.
FairSpec == Spec /\ WF_vars(Caller) /\ WF_vars(Task)

-----------------------------------------------------------------------------
\* The types the refinement below relies on.
TypeOK ==
  /\ kinds \in Batches /\ blocking \subseteq Calls
  /\ pc \in {"scan", "flush", "chunks", "gather", "check", "call", "inline", "done"}
  /\ at \in 1..Len(kinds) + 1
  /\ batch \in Seq(Calls) /\ rest \in Seq(Calls)
  /\ chunk \in Seq(Calls) /\ Len(chunk) <= MaxWorkers
  /\ status \in [Calls -> {"idle", "ready", "running", "ok", "error", "abort", "dropped"}]
  /\ told \subseteq Calls /\ busy \subseteq Calls
  /\ results \in [Calls -> {"None", "ok", "error"}]
  /\ cancelled \in BOOLEAN /\ asked \in BOOLEAN
  /\ verdict \in {"none", "returned", "cancelled", "aborted"}

\* No call that runs exclusively, a serial or unknown one, lies in i..j.
Together(i, j) == \A k \in Calls : i <= k /\ k <= j => kinds[k] = "parallel"

\* What may still be running when aexecute_all is left: nothing if it returned
\* or was stopped by the cancel event; if its task was cancelled, threads and
\* coroutines that have been told, but no call that is yet to start; and never
\* more than one chunk (executor.py:226-252, 331-337).  One that returns has
\* the result of every call, however many chunks it took, and whoever was
\* cancelled without heed.
Leftovers ==
  pc = "done" =>
    LET left == busy \cup {i \in Calls : status[i] \in {"ready", "running"}}
    IN /\ verdict \in {"returned", "cancelled"} => left = {}
       /\ verdict = "returned" => results = status
       /\ asked => left \subseteq told
       /\ \A i, j \in left : i < j => Together(i, j)
       /\ Cardinality(left) <= MaxWorkers

\* What ToolBatch calls admitted: in a chunk or waiting for one after the
\* check, or past the check of a serial call.
Admitted ==
  {i \in Calls : status[i] # "idle"}
    \cup {rest[k] : k \in DOMAIN rest}
    \cup (IF pc = "call" THEN {at} ELSE {})

\* A call runs until its tool function has ended, even if no task waits for
\* it; one whose task has not begun, or will never begin, has not started.
Status ==
  [i \in Calls |-> CASE i \in busy -> "running"
                     [] status[i] \in {"ready", "dropped"} -> "idle"
                     [] OTHER -> status[i]]

Batch == INSTANCE ToolBatch WITH
  admitted <- Admitted,
  status   <- Status,
  called   <- cancelled

\* aexecute_all keeps the promise of a batch, threads no task waits for
\* included: nothing starts before every call on the other side of a barrier
\* has its result and its tool function has ended (executor.py:340-348).
AsyncKeepsBatch == Batch!Spec

\* Every batch ends, if tools do.
AsyncTerminates == <>(pc = "done")
=============================================================================
