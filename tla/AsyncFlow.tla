------------------------------ MODULE AsyncFlow ------------------------------
(***************************************************************************)
(* Flow.arun and Node._aexec (core/node.py): a run in a task of an event   *)
(* loop, and the synchronous bodies it moves to worker threads.            *)
(*                                                                         *)
(* A body in the task may run an agent's flow on the same RunContext       *)
(* (Agent.aexec, Agent.arun) or wait for a function in a thread            *)
(* (asyncio.to_thread: a synchronous node, or a synchronous tool of        *)
(* ToolExecutor.aexecute).  That function may in turn call Agent.run on    *)
(* the context.  A "line" is the task or a thread; each has a stack of     *)
(* calls.  The ContextVars are the line's own, copied when a thread        *)
(* starts; active_message_scope and on_event are fields of the RunContext  *)
(* that all lines write.                                                   *)
(*                                                                         *)
(* The task may be cancelled while it awaits.  A thread cannot be: it goes *)
(* on as an orphan, next to whatever the host does then.                   *)
(*                                                                         *)
(* Which node follows which, cancel events of nested runs, step and node   *)
(* of the context and interrupts are as in FlowRun and left out here, as   *)
(* messages are, which AgentScopes models: any node may be the last of its *)
(* flow.                                                                   *)
(***************************************************************************)
EXTENDS Integers, Sequences, FiniteSets

CONSTANTS
  Agents,      \* the agents, each with a message scope of its own
  NoAgent,     \* no agent: a bare Flow, or no scope
  Traced,      \* agents whose runs are given trace=True
  Task,        \* the task of the event loop
  Threads,     \* the worker threads
  NoThread,    \* the task waits for no thread
  HostCaps,    \* max_steps of the host's calls
  Gives,       \* whether the host passes a cancel event
  InnerCap,    \* max_steps of a nested run
  Retries,     \* max_retries of every node
  MaxCalls,    \* bound: nested runs and offloads of one execution of a body
  MaxRuns      \* bound: calls of arun made by the host

ASSUME AsyncNames ==
  /\ NoAgent \notin Agents /\ Traced \subseteq Agents
  /\ Task \notin Threads /\ NoThread \notin Threads \cup {Task}

ASSUME AsyncNumbers ==
  /\ HostCaps \subseteq Nat \ {0} /\ InnerCap \in Nat \ {0} /\ Gives \subseteq BOOLEAN
  /\ Retries \in Nat \ {0} /\ MaxCalls \in Nat /\ MaxRuns \in Nat

Lines == {Task} \cup Threads

VARIABLES
  stacks,      \* the calls in progress of each line, outermost first
  exc,         \* the exception that propagates in each line
  awaited,     \* the thread the task waits for
  ctx,         \* the RunContext: active_message_scope and on_event
  book,        \* the host's calls: budget, cancel event passed; observer: visits
  of,          \* the host's call whose ContextVars each line has
  isSet,       \* the cancel event is set
  owed,        \* observer: runs of each line that have had no verdict event
  late,        \* observer: nodes each line started with the event of its call set
  orphaned     \* a thread has been orphaned

vars == <<stacks, exc, awaited, ctx, book, of, isSet, owed, late, orphaned>>

PCs == {"boundary",   \* top of the for loop
        "admit",      \* cancel check passed, budget not consumed yet
        "exec",       \* in the node's body, or in a thread's function
        "waiting",    \* in a body that waits for a thread
        "calling",    \* in a body that runs a nested flow
        "returned", "raised",
        "leave"}      \* in the finally block

\* FlowCancelled, asyncio.CancelledError, and any Exception.
Excs == {"none", "cancelled", "task", "failed"}

Fields == [scope   : Agents \cup {NoAgent},
           onEvent : (Lines \X Nat) \cup {<<>>}]    \* the run that wrapped it

HostFields == [scope |-> NoAgent, onEvent |-> <<>>]

Frame == [call    : Nat,                  \* observer: the host's call it began with
          agent   : Agents \cup {NoAgent},
          step    : Nat,
          cap     : Nat,
          attempt : Nat,                  \* executions of aexec begun
          calls   : Nat,                  \* what this execution has called
          pc      : PCs,
          saved   : Fields]               \* what the finally blocks put back

Depth(l) == Len(stacks[l])

Top(l) == stacks[l][Depth(l)]

At(l, p) == stacks[l] # <<>> /\ Top(l).pc = p

SetTop(l, f) == stacks' = [stacks EXCEPT ![l][Depth(l)] = f]

\* The first frame of a thread stands for the function it was given.
InRun(l) == Depth(l) > IF l = Task THEN 0 ELSE 1

Orphans == {t \in Threads : stacks[t] # <<>>} \ {awaited}

Run(l) == book[of[l]]

\* The event the line inherited is set.
Governed(l) == Run(l).given /\ isSet

\* Observer, which follows the callers and not the ContextVars: the host's
\* call that has brought the line here, and whether its event is set.
CallOf(l) == Top(l).call

Overdue(l) == book[CallOf(l)].given /\ isSet

\* Mutant: the event is checked once, before the loop.
CancelDueOnEntry(l) == Top(l).step = 1 /\ Governed(l)

\* The check at the top of the loop.
CancelDue(l) == Governed(l)

\* Mutant: consume compares before it counts the visit it grants.
OneStepMore(l) == Run(l).remaining >= 0

\* _StepBudget.consume finds a step left.
HasSteps(l) == Run(l).remaining > 0

Init ==
  /\ stacks = [l \in Lines |-> <<>>]
  /\ exc = [l \in Lines |-> "none"]
  /\ awaited = NoThread
  /\ ctx = HostFields
  /\ book = <<>>
  /\ of = [l \in Lines |-> 0]
  /\ isSet = FALSE
  /\ owed = [l \in Lines |-> 0]
  /\ late = [l \in Lines |-> 0]
  /\ orphaned = FALSE

-----------------------------------------------------------------------------
(* Entering and leaving a run.                                             *)

NewFrame(a, cap, c) ==
  [call |-> c, agent |-> a, step |-> 1, cap |-> cap, attempt |-> 0, calls |-> 0,
   pc |-> "boundary", saved |-> ctx]

\* use_message_scope, and on_event wrapped where the run is traced.
Entered(a, l, d) ==
  [scope   |-> IF a = NoAgent THEN ctx.scope ELSE a,
   onEvent |-> IF a \in Traced THEN <<l, d>> ELSE ctx.onEvent]

\* Mutant: the message scope is not switched back.
ScopeStays(f) ==
  [scope   |-> ctx.scope,
   onEvent |-> IF f.agent \in Traced THEN f.saved.onEvent ELSE ctx.onEvent]

\* What the finally blocks of a run make of the fields.
Left(f) ==
  [scope   |-> IF f.agent = NoAgent THEN ctx.scope ELSE f.saved.scope,
   onEvent |-> IF f.agent \in Traced THEN f.saved.onEvent ELSE ctx.onEvent]

\* The host awaits arun of a flow or an agent, with a cancel event or without.
Host(a, cap, given) ==
  /\ stacks[Task] = <<>>
  /\ Len(book) < MaxRuns
  /\ book' = Append(book, [limit |-> cap, remaining |-> cap, visits |-> 0,
                           given |-> given])
  /\ of' = [of EXCEPT ![Task] = Len(book) + 1]
  /\ stacks' = [stacks EXCEPT ![Task] = <<NewFrame(a, cap, Len(book) + 1)>>]
  /\ ctx' = Entered(a, Task, 1)
  /\ owed' = [owed EXCEPT ![Task] = 1]
  /\ UNCHANGED <<exc, awaited, isSet, late, orphaned>>

\* The body calls once more, and waits as p says.
Calling(f, p) == [f EXCEPT !.pc = p, !.calls = @ + 1]

\* A body runs an agent on the context of its run.
Nest(l, a) ==
  /\ At(l, "exec") /\ Top(l).calls < MaxCalls
  /\ stacks' = [stacks EXCEPT ![l] =
       Append([@ EXCEPT ![Depth(l)] = Calling(Top(l), "calling")],
              NewFrame(a, InnerCap, CallOf(l)))]
  /\ ctx' = Entered(a, l, Depth(l) + 1)
  /\ owed' = [owed EXCEPT ![l] = @ + 1]
  /\ UNCHANGED <<exc, awaited, book, of, isSet, late, orphaned>>

\* A nested run is left, and the body that called it goes on; it lets the
\* exception propagate, or - a tool's - turns it into an error result.
LeaveNested(l) ==
  /\ At(l, "leave") /\ Depth(l) > 1
  /\ LET d == Depth(l) - 1
         Resume(p) == stacks' = [stacks EXCEPT ![l] = [SubSeq(@, 1, d) EXCEPT ![d].pc = p]]
     IN  \/ exc[l] # "none" /\ Resume("raised") /\ UNCHANGED exc
         \/ exc[l] # "task" /\ Resume("exec") /\ exc' = [exc EXCEPT ![l] = "none"]
  /\ ctx' = Left(Top(l))
  /\ UNCHANGED <<awaited, book, of, isSet, owed, late, orphaned>>

LeaveHost ==
  /\ At(Task, "leave") /\ Depth(Task) = 1
  /\ stacks' = [stacks EXCEPT ![Task] = <<>>]
  /\ exc' = [exc EXCEPT ![Task] = "none"]
  /\ ctx' = Left(Top(Task))
  /\ UNCHANGED <<awaited, book, of, isSet, owed, late, orphaned>>

-----------------------------------------------------------------------------
(* One turn of the loop.                                                   *)

Verdict(l) == owed' = [owed EXCEPT ![l] = @ - 1]

\* The event is set: flow.cancel and FlowCancelled.
CancelAtBoundary(l) ==
  /\ At(l, "boundary") /\ Top(l).step <= Top(l).cap
  /\ CancelDue(l)
  /\ exc' = [exc EXCEPT ![l] = "cancelled"]
  /\ Verdict(l)
  /\ SetTop(l, [Top(l) EXCEPT !.pc = "leave"])
  /\ UNCHANGED <<awaited, ctx, book, of, isSet, late, orphaned>>

PassBoundary(l) ==
  /\ At(l, "boundary") /\ Top(l).step <= Top(l).cap
  /\ ~CancelDue(l)
  /\ SetTop(l, [Top(l) EXCEPT !.pc = "admit"])
  /\ UNCHANGED <<exc, awaited, ctx, book, of, isSet, owed, late, orphaned>>

\* consume, under its lock, and the first execution of the node.
Admit(l) ==
  /\ At(l, "admit")
  /\ HasSteps(l)
  /\ book' = [book EXCEPT ![of[l]].remaining = @ - 1, ![CallOf(l)].visits = @ + 1]
  /\ SetTop(l, [Top(l) EXCEPT !.pc = "exec", !.attempt = 1, !.calls = 0])
  /\ late' = IF Overdue(l) THEN [late EXCEPT ![l] = @ + 1] ELSE late
  /\ UNCHANGED <<exc, awaited, ctx, of, isSet, owed, orphaned>>

\* The budget or the for loop ran out: flow.error and FlowError.
Exceeded(l) ==
  /\ \/ At(l, "admit") /\ ~HasSteps(l)
     \/ At(l, "boundary") /\ Top(l).step > Top(l).cap
  /\ exc' = [exc EXCEPT ![l] = "failed"]
  /\ Verdict(l)
  /\ SetTop(l, [Top(l) EXCEPT !.pc = "leave"])
  /\ UNCHANGED <<awaited, ctx, book, of, isSet, late, orphaned>>

\* Mutant: CancelledError is retried like an Exception.
RetriedAll == {"failed", "task"}

\* What _aexec's second handler sees.
Retried == {"failed"}

\* Mutant: the attempt is not counted.
SameAttempt(f) == f.attempt

NextAttempt(f) == f.attempt + 1

HasRetry(l) == exc[l] \in Retried /\ Top(l).attempt < Retries

Retry(l) ==
  /\ At(l, "raised") /\ InRun(l)
  /\ HasRetry(l)
  /\ exc' = [exc EXCEPT ![l] = "none"]
  /\ SetTop(l, [Top(l) EXCEPT !.pc = "exec", !.attempt = NextAttempt(Top(l)),
                           !.calls = 0])
  /\ UNCHANGED <<awaited, ctx, book, of, isSet, owed, late, orphaned>>

\* The three handlers: node.cancel and flow.cancel for FlowCancelled and for
\* CancelledError, node.error and flow.error for the others.
NodeFails(l) ==
  /\ At(l, "raised") /\ InRun(l)
  /\ ~HasRetry(l)
  /\ Verdict(l)
  /\ SetTop(l, [Top(l) EXCEPT !.pc = "leave"])
  /\ UNCHANGED <<exc, awaited, ctx, book, of, isSet, late, orphaned>>

\* Mutant: a flow that ends inside another has no flow.end.
SilentEnd(l) == IF Depth(l) > 1 THEN UNCHANGED owed ELSE Verdict(l)

EndVerdict(l) == Verdict(l)

\* node.end; the successor becomes current.
Route(l) ==
  /\ At(l, "returned") /\ InRun(l)
  /\ SetTop(l, [Top(l) EXCEPT !.pc = "boundary", !.step = @ + 1, !.attempt = 0,
                           !.calls = 0])
  /\ UNCHANGED <<exc, awaited, ctx, book, of, isSet, owed, late, orphaned>>

\* node.end; no successor is wired: flow.end.
End(l) ==
  /\ At(l, "returned") /\ InRun(l)
  /\ EndVerdict(l)
  /\ SetTop(l, [Top(l) EXCEPT !.pc = "leave"])
  /\ UNCHANGED <<exc, awaited, ctx, book, of, isSet, late, orphaned>>

-----------------------------------------------------------------------------
(* Bodies and threads.                                                     *)

Return(l) ==
  /\ At(l, "exec")
  /\ SetTop(l, [Top(l) EXCEPT !.pc = "returned"])
  /\ UNCHANGED <<exc, awaited, ctx, book, of, isSet, owed, late, orphaned>>

\* Any exception; or FlowCancelled, of a body that polls the event itself.
Raise(l, kind) ==
  /\ At(l, "exec")
  /\ kind = "cancelled" => Governed(l)
  /\ exc' = [exc EXCEPT ![l] = kind]
  /\ SetTop(l, [Top(l) EXCEPT !.pc = "raised"])
  /\ UNCHANGED <<awaited, ctx, book, of, isSet, owed, late, orphaned>>

\* Mutant: the thread has the ContextVars of the host's first call.
NoCopy(t) == [of EXCEPT ![t] = 1]

CopyContext(t) == [of EXCEPT ![t] = of[Task]]

\* asyncio.to_thread: a thread runs the function, the task waits for it.
Offload(t) ==
  /\ At(Task, "exec") /\ Top(Task).calls < MaxCalls
  /\ stacks[t] = <<>>
  /\ stacks' = [stacks EXCEPT
       ![Task][Depth(Task)] = Calling(Top(Task), "waiting"),
       ![t] = <<[NewFrame(NoAgent, 0, CallOf(Task)) EXCEPT !.pc = "exec"]>>]
  /\ of' = CopyContext(t)
  /\ awaited' = t
  /\ UNCHANGED <<exc, ctx, book, isSet, owed, late, orphaned>>

FunctionOver(t) == Depth(t) = 1 /\ Top(t).pc \in {"returned", "raised"}

\* Its ContextVars are gone with a function.
Forget(t) ==
  /\ of' = [of EXCEPT ![t] = 0]
  /\ late' = [late EXCEPT ![t] = 0]

\* The function ended: its exception, if any, is raised in the body, or a
\* tool's is made an error result; else the body goes on.
Join(t) ==
  /\ awaited = t
  /\ FunctionOver(t)
  /\ awaited' = NoThread
  /\ \/ /\ exc[t] # "none"
        /\ exc' = [exc EXCEPT ![t] = "none", ![Task] = exc[t]]
        /\ stacks' = [stacks EXCEPT ![t] = <<>>, ![Task][Depth(Task)].pc = "raised"]
     \/ /\ exc' = [exc EXCEPT ![t] = "none"]
        /\ stacks' = [stacks EXCEPT ![t] = <<>>, ![Task][Depth(Task)].pc = "exec"]
  /\ Forget(t)
  /\ UNCHANGED <<ctx, book, isSet, owed, orphaned>>

\* The function of an orphan ended: nobody asks how.
OrphanEnds(t) ==
  /\ awaited # t
  /\ stacks[t] # <<>> /\ FunctionOver(t)
  /\ stacks' = [stacks EXCEPT ![t] = <<>>]
  /\ exc' = [exc EXCEPT ![t] = "none"]
  /\ Forget(t)
  /\ UNCHANGED <<awaited, ctx, book, isSet, owed, orphaned>>

\* The task is cancelled while a body awaits - a thread, if it is waiting for
\* one - or _aexec sleeps before a retry.
CancelTask ==
  /\ \/ At(Task, "exec") \/ At(Task, "waiting")
     \/ At(Task, "raised") /\ HasRetry(Task)
  /\ exc' = [exc EXCEPT ![Task] = "task"]
  /\ SetTop(Task, [Top(Task) EXCEPT !.pc = "raised"])
  /\ awaited' = NoThread
  /\ orphaned' = (orphaned \/ awaited # NoThread)
  /\ UNCHANGED <<ctx, book, of, isSet, owed, late>>

SetCancel ==
  /\ ~isSet
  /\ \E r \in DOMAIN book : book[r].given
  /\ isSet' = TRUE
  /\ UNCHANGED <<stacks, exc, awaited, ctx, book, of, owed, late, orphaned>>

\* What the line does by itself.
Step(l) ==
  \/ CancelAtBoundary(l) \/ PassBoundary(l) \/ Admit(l) \/ Exceeded(l)
  \/ Retry(l) \/ NodeFails(l) \/ Route(l) \/ End(l) \/ LeaveNested(l)
  \/ Return(l)
  \/ \E kind \in {"cancelled", "failed"} : Raise(l, kind)
  \/ \E a \in Agents : Nest(l, a)

InTask == Step(Task) \/ LeaveHost \/ \E t \in Threads : Offload(t) \/ Join(t)

InThread(t) == Step(t) \/ OrphanEnds(t)

HostStep ==
  \E a \in Agents \cup {NoAgent}, cap \in HostCaps, given \in Gives :
    Host(a, cap, given)

\* The host makes no further call, and no thread is left.
Done ==
  /\ Len(book) = MaxRuns
  /\ \A l \in Lines : stacks[l] = <<>>
  /\ UNCHANGED vars

Next ==
  \/ HostStep
  \/ InTask
  \/ \E t \in Threads : InThread(t)
  \/ CancelTask
  \/ SetCancel
  \/ Done

Spec == Init /\ [][Next]_vars

\* The loop runs the task, every thread runs, and bodies end.
FairSpec == Spec /\ WF_vars(InTask) /\ \A t \in Threads : WF_vars(InThread(t))

-----------------------------------------------------------------------------
TypeOK ==
  /\ stacks \in [Lines -> Seq(Frame)]
  /\ exc \in [Lines -> Excs]
  /\ awaited \in Threads \cup {NoThread}
  /\ ctx \in Fields
  /\ book \in Seq([limit : Nat, remaining : Nat, visits : Nat, given : BOOLEAN])
  /\ of \in [Lines -> 0..Len(book)]
  /\ isSet \in BOOLEAN /\ orphaned \in BOOLEAN
  /\ owed \in [Lines -> Int]
  /\ late \in [Lines -> Nat]

\* A call of the host costs at most its max_steps visits, in the task, in all
\* threads and in the runs they nest, those of its orphans included, which may
\* visit when the call is over and next to a later one; and its budget pays
\* for these and for no others (node.py:472, 578-583; to_thread copies the
\* ContextVars).
BudgetOfOwnCall ==
  \A r \in DOMAIN book :
    /\ book[r].visits <= book[r].limit
    /\ book[r].visits = book[r].limit - book[r].remaining

\* Once the event of a host's call is set, the task and each thread begin at
\* most one more node for that call, orphans included, whatever calls the host
\* makes meanwhile (node.py:464).
CancelReachesThreads == \A l \in Lines : late[l] <= 1

\* A cancelled task unwinds: no node of it starts, no body is attempted again
\* and no tool's handler swallows the CancelledError, until the host has it
\* (node.py:106-118, 507-519, executor.py:235).
CancelledTaskUnwinds ==
  [][exc[Task] = "task" =>
       /\ exc'[Task] = "task" \/ stacks'[Task] = <<>>
       /\ Depth(Task)' <= Depth(Task)
       /\ \A i \in 1..Depth(Task)' :
            stacks'[Task][i].attempt = stacks[Task][i].attempt]_vars

\* Every run of the task and of the threads gives exactly one of flow.end,
\* flow.error and flow.cancel, also when it was cancelled or orphaned.
OneVerdictEach ==
  \A l \in Lines :
    owed[l] = Cardinality({d \in DOMAIN stacks[l] :
                (l = Task \/ d > 1) /\ stacks[l][d].pc # "leave"})

\* The scope the calls of a line ask for: that of the innermost agent.
ScopeOf(stack, outer) ==
  LET inside == {d \in DOMAIN stack : stack[d].agent # NoAgent}
  IN  IF inside = {} THEN outer
      ELSE stack[CHOOSE d \in inside : \A e \in inside : e <= d].agent

HostScope == ScopeOf(stacks[Task], NoAgent)

\* As long as no thread has been orphaned, the RunContext follows the calls:
\* the active scope is that of the innermost agent, be it run by the task or
\* by the thread it waits for, and nothing of a run remains after it
\* (node.py:562-567, context.py:261-266).
ContextFollowsCalls ==
  ~orphaned =>
    /\ ctx.scope = IF awaited = NoThread THEN HostScope
                   ELSE ScopeOf(stacks[awaited], HostScope)
    /\ stacks[Task] = <<>> => ctx = HostFields

\* use_message_scope's docstring (context.py:260), "Temporarily switch the
\* active message scope for the enclosed block", and Flow.arun's finally: once
\* every enclosed block has been left, by threads too, nothing is switched.
ContextGivenBack ==
  (\A l \in Lines : stacks[l] = <<>>) => ctx = HostFields

\* Every run of the host ends, and every orphan.
AsyncRunsEnd ==
  /\ stacks[Task] # <<>> ~> stacks[Task] = <<>>
  /\ \A t \in Threads : stacks[t] # <<>> ~> stacks[t] = <<>>
=============================================================================
