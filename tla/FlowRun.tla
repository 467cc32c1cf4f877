------------------------------- MODULE FlowRun -------------------------------
(***************************************************************************)
(* Flow.run (core/node.py), and the flows that node bodies run inside it.  *)
(*                                                                         *)
(* One interpreter thread walks a graph of nodes.  A node body may run     *)
(* another flow on the same RunContext - an Agent used as a node           *)
(* (Agent.exec), or a tool whose function calls Agent.run - so calls of    *)
(* Flow.run nest, and "stack" holds one frame per call in progress.  What  *)
(* the calls share is ambient: two ContextVars (_STEP_BUDGET and           *)
(* _FLOW_CANCEL), a third for the current RunContext, and fields of that   *)
(* RunContext (on_event, active_message_scope, step, node).  Any other     *)
(* thread may set a cancel event at any moment.                            *)
(*                                                                         *)
(* Payloads, messages and the text of events are abstracted.  Of the event *)
(* stream the model keeps what an observer reconstructs from it: the       *)
(* positions of the visits that are open ("open"), and how many Flow.run   *)
(* calls have not had their flow.end, flow.error or flow.cancel ("owed").  *)
(***************************************************************************)
EXTENDS Integers, Sequences

CONSTANTS
  Nodes,       \* the nodes of every graph, nested graphs included
  NoNode,      \* "no node": the end of a flow, no nested flow, no scope
  Actions,     \* the non-empty action strings, "default" among them
  Start,       \* the start node of the host's flow
  Succ,        \* Node.successors: Succ[n][a], NoNode where a is not wired
  Retries,     \* Node.max_retries
  Inner,       \* start node of the flow the body of n runs, or NoNode
  Cap,         \* max_steps of that nested flow
  Calls,       \* how many times one execution of n's body may run it
  Scopes,      \* nodes whose nested run is an Agent's: it switches scope
  Catchers,    \* nodes whose body turns a failed nested run into a result
               \* (ToolCallNode, through ToolExecutor.execute)
  Tracers,     \* nodes whose nested run is given trace=True
  OwnCancel,   \* nodes whose nested run is given its own cancel event
  Expose,      \* the action n's body returns after its nested run, or Inherit
  Inherit,     \* "expose the inner flow's final action"
  HostEvent,   \* the cancel event the host may pass
  NoEvent,     \* no cancel event
  NonString,   \* an action that is not a string
  RootCaps,    \* the max_steps values the host passes
  MaxRuns      \* bound: calls of Flow.run made by the host

Events == {HostEvent} \cup OwnCancel

ASSUME GraphAssumption ==
  /\ NoNode \notin Nodes
  /\ Start \in Nodes
  /\ "default" \in Actions
  /\ NonString \notin Actions \cup {""}
  /\ "" \notin Actions
  /\ Inherit \notin Actions
  /\ Succ \in [Nodes -> [Actions -> Nodes \cup {NoNode}]]

ASSUME NestingAssumption ==
  /\ Retries \in [Nodes -> Nat \ {0}]
  /\ Inner \in [Nodes -> Nodes \cup {NoNode}]
  /\ Cap \in [Nodes -> Nat \ {0}]
  /\ Calls \in [Nodes -> Nat \ {0}]
  /\ Expose \in [Nodes -> Actions \cup {Inherit}]
  /\ Scopes \subseteq Nodes /\ Catchers \subseteq Nodes
  /\ Tracers \subseteq Nodes /\ OwnCancel \subseteq Nodes
  /\ \A n \in Nodes : Inner[n] # NoNode /\ n \notin Catchers => Calls[n] = 1

ASSUME HostAssumption ==
  /\ HostEvent \notin Nodes
  /\ NoEvent \notin Nodes \cup {HostEvent}
  /\ RootCaps \subseteq Nat \ {0}
  /\ MaxRuns \in Nat

-----------------------------------------------------------------------------
VARIABLES
  stack,       \* the Flow.run calls in progress, outermost first
  env,         \* the ambient state the calls share
  budget,      \* the _StepBudget object of the outermost call
  pos,         \* <<RunContext.step, RunContext.node>>
  cancelled,   \* the cancel events that are set
  exc,         \* the exception propagating, "none" if none is
  outcome,     \* how the host's last call ended
  open,        \* observer: <<step, node>> of the visits seen to be open
  owed,        \* observer: calls whose flow.* verdict has not been seen
  visits,      \* nodes visited since the host's call began
  late,        \* visits each event governed after it was set
  runs         \* calls the host has made

vars == <<stack, env, budget, pos, cancelled, exc, outcome, open, owed,
          visits, late, runs>>

Excs == {"none", "cancelled", "exceeded", "exhausted", "failed", "interrupt"}

PCs == {"boundary",   \* top of the for loop
        "admit",      \* cancel check passed, budget not consumed yet
        "exec",       \* inside current.exec(payload)
        "calling",    \* inside a nested Flow.run
        "returned",   \* exec returned, its action not routed yet
        "raised",     \* exec raised, the handler not chosen yet
        "leave"}      \* in the finally block

\* A node has started and its closing event has not been emitted.
InFlight == {"exec", "calling", "returned", "raised"}

Env == [inRun   : BOOLEAN,                       \* get_current_context() is set
        shared  : BOOLEAN,                       \* _STEP_BUDGET is set
        cancel  : Events \cup {NoEvent},         \* _FLOW_CANCEL
        onEvent : Nat,                           \* RunContext.on_event: the
                                                 \* frame that wrapped it, or 0
        scope   : Nodes \cup {NoNode}]           \* active_message_scope

HostEnv == [inRun |-> FALSE, shared |-> FALSE, cancel |-> NoEvent,
            onEvent |-> 0, scope |-> NoNode]

Frame == [current : Nodes,
          step    : Nat,
          cap     : Nat \ {0},                   \* max_steps of this call
          attempt : Nat,                         \* executions of exec begun
          calls   : Nat,                         \* nested runs it has begun
          pc      : PCs,
          action  : Actions \cup {NonString},    \* last_action
          traced  : BOOLEAN,                     \* trace_options.enabled
          scope   : Nodes \cup {NoNode},         \* scope entered for this call
          given   : Events \cup {NoEvent},       \* the cancel argument
          cancel  : Events \cup {NoEvent},       \* cancel_event
          saved   : Env]                         \* what the finally puts back

Depth == Len(stack)

Top == stack[Depth]

At(p) == stack # <<>> /\ Top.pc = p

SetTop(f) == stack' = [stack EXCEPT ![Depth] = f]

\* What set_execution_context(step=step, node=node_name) stores.
Here(f) == <<f.step, f.current>>

\* Mutant: the loop does not set its position again after exec.
StaleClosingPos(f) == pos

\* The position an event carries that closes the visit of frame f.
ClosingPos(f) == Here(f)

\* The observer pairs a closing event with the innermost open visit.
CloseVisit(p) ==
  open' = IF open # <<>> /\ open[Len(open)] = p
          THEN SubSeq(open, 1, Len(open) - 1) ELSE open

IsSet(e) == e \in cancelled

\* Mutant: the event is checked once, before the loop.
CancelDueOnEntry == Top.step = 1 /\ IsSet(Top.cancel)

\* The check at the top of the loop.
CancelDue == IsSet(Top.cancel)

\* Mutant: consume compares before it counts the visit it grants.
OneStepMore == budget.remaining >= 0

\* Mutant: consume refuses the last step.
OneStepLess == budget.remaining > 1

\* _StepBudget.consume finds a step left.
HasSteps == budget.remaining > 0

\* Mutant: only the outermost call reports how it ended.
EmitOuterVerdict == owed' = IF Depth = 1 THEN owed - 1 ELSE owed

\* Each of flow.end, flow.error and flow.cancel is the verdict of one call.
EmitVerdict == owed' = owed - 1

-----------------------------------------------------------------------------
Init ==
  /\ stack = <<>>
  /\ env = HostEnv
  /\ budget = [limit |-> 0, remaining |-> 0]
  /\ pos = <<0, NoNode>>
  /\ cancelled = {}
  /\ exc = "none"
  /\ outcome = "none"
  /\ open = <<>>
  /\ owed = 0
  /\ visits = 0
  /\ late = [e \in Events |-> 0]
  /\ runs = 0

\* Entering Flow.run: an explicit event wins over the inherited one, a budget
\* is created only where none is shared, on_event is wrapped only when traced.
NewFrame(start, cap, ev, traced, scope) ==
  [current |-> start, step |-> 1, cap |-> cap, attempt |-> 0, calls |-> 0,
   pc |-> "boundary", action |-> "default", traced |-> traced, scope |-> scope,
   given |-> ev,
   cancel |-> IF ev = NoEvent THEN env.cancel ELSE ev,
   saved |-> env]

\* The environment inside frame f, running at depth d.
InnerEnv(f, d) ==
  [inRun |-> TRUE, shared |-> TRUE, cancel |-> f.cancel,
   onEvent |-> IF f.traced THEN d ELSE f.saved.onEvent,
   scope |-> IF f.scope = NoNode THEN f.saved.scope ELSE f.scope]

\* Mutant: the message scope is not switched back.
UnrestoredScope(f) ==
  [f.saved EXCEPT !.onEvent = IF f.traced THEN f.saved.onEvent ELSE env.onEvent,
                  !.scope = env.scope]

\* The environment frame f's finally blocks leave behind.
RestoredEnv(f) ==
  [f.saved EXCEPT !.onEvent = IF f.traced THEN f.saved.onEvent ELSE env.onEvent]

\* Mutant: every call creates a budget of its own.
OwnBudget(cap) == [limit |-> cap, remaining |-> cap]

\* The budget a call of Flow.run debits.
SharedBudget(cap) ==
  IF env.shared THEN budget ELSE [limit |-> cap, remaining |-> cap]

\* The host calls Flow.run outside any run.
HostRun(cap, ev, traced) ==
  /\ stack = <<>>
  /\ runs < MaxRuns
  /\ LET f == NewFrame(Start, cap, ev, traced, NoNode)
     IN  /\ stack' = <<f>>
         /\ env' = InnerEnv(f, 1)
  /\ budget' = SharedBudget(cap)
  /\ runs' = runs + 1
  /\ visits' = 0
  /\ open' = <<>>
  /\ owed' = 1
  /\ outcome' = "none"
  /\ UNCHANGED <<pos, cancelled, exc, late>>

\* Another thread sets a cancel event.
SetCancel(e) ==
  /\ cancelled' = cancelled \cup {e}
  /\ e \notin cancelled
  /\ UNCHANGED <<stack, env, budget, pos, exc, outcome, open, owed, visits,
                 late, runs>>

-----------------------------------------------------------------------------
\* The top of the loop: cancel_event is set, so flow.cancel and FlowCancelled.
CancelAtBoundary ==
  /\ At("boundary") /\ Top.step <= Top.cap
  /\ CancelDue
  /\ pos' = Here(Top)
  /\ exc' = "cancelled"
  /\ EmitVerdict
  /\ SetTop([Top EXCEPT !.pc = "leave"])
  /\ UNCHANGED <<env, budget, cancelled, outcome, open, visits, late, runs>>

PassBoundary ==
  /\ At("boundary") /\ Top.step <= Top.cap
  /\ ~CancelDue
  /\ pos' = Here(Top)
  /\ SetTop([Top EXCEPT !.pc = "admit"])
  /\ UNCHANGED <<env, budget, cancelled, exc, outcome, open, owed, visits,
                 late, runs>>

\* shared_budget.consume() succeeds; node.start; the first attempt begins.
Admit ==
  /\ At("admit")
  /\ HasSteps
  /\ budget' = [budget EXCEPT !.remaining = @ - 1]
  /\ open' = Append(open, pos)
  /\ SetTop([Top EXCEPT !.pc = "exec", !.attempt = 1, !.calls = 0])
  /\ visits' = visits + 1
  /\ late' = [e \in Events |->
                IF e = Top.cancel /\ IsSet(e) THEN late[e] + 1 ELSE late[e]]
  /\ UNCHANGED <<env, pos, cancelled, exc, outcome, owed, runs>>

\* shared_budget.consume() fails: flow.error and FlowError.
Exhausted ==
  /\ At("admit")
  /\ ~HasSteps
  /\ exc' = "exhausted"
  /\ EmitVerdict
  /\ SetTop([Top EXCEPT !.pc = "leave"])
  /\ UNCHANGED <<env, budget, pos, cancelled, outcome, open, visits, late, runs>>

\* The for loop ran out: flow.error and FlowError.
Overrun ==
  /\ At("boundary") /\ Top.step > Top.cap
  /\ exc' = "exceeded"
  /\ EmitVerdict
  /\ SetTop([Top EXCEPT !.pc = "leave"])
  /\ UNCHANGED <<env, budget, pos, cancelled, outcome, open, visits, late, runs>>

-----------------------------------------------------------------------------
\* A body of the user's, or one whose nested runs it need not make.
FreeBody(n) == Inner[n] = NoNode \/ n \in Catchers

\* exec returns <<a, payload>>; "" is normalised to "default".
Return(a) ==
  /\ At("exec") /\ FreeBody(Top.current)
  /\ SetTop([Top EXCEPT !.pc = "returned",
                        !.action = IF a = "" THEN "default" ELSE a])
  /\ UNCHANGED <<env, budget, pos, cancelled, exc, outcome, open, owed, visits,
                 late, runs>>

\* exec raises: an ordinary exception, or - a body that itself polls the
\* ambient event, as ToolExecutor.execute_all does - FlowCancelled.
Raise(kind) ==
  /\ At("exec")
  /\ kind = "cancelled" => FreeBody(Top.current) /\ IsSet(env.cancel)
  /\ exc' = kind
  /\ SetTop([Top EXCEPT !.pc = "raised"])
  /\ UNCHANGED <<env, budget, pos, cancelled, outcome, open, owed, visits,
                 late, runs>>

\* The body runs a nested flow on the current context.
Nest ==
  /\ At("exec")
  /\ LET n == Top.current
         f == NewFrame(Inner[n], Cap[n],
                       IF n \in OwnCancel THEN n ELSE NoEvent,
                       n \in Tracers,
                       IF n \in Scopes THEN n ELSE NoNode)
     IN  /\ Inner[n] # NoNode
         /\ Top.calls < Calls[n]
         /\ stack' = Append([stack EXCEPT ![Depth] =
                               [Top EXCEPT !.pc = "calling", !.calls = @ + 1]], f)
         /\ env' = InnerEnv(f, Depth + 1)
         /\ budget' = SharedBudget(Cap[n])
  /\ owed' = owed + 1
  /\ UNCHANGED <<pos, cancelled, exc, outcome, open, visits, late, runs>>

\* KeyboardInterrupt or another BaseException surfaces anywhere in the loop:
\* no handler of the loop sees it and no event is emitted.
Interrupt ==
  /\ stack # <<>> /\ Top.pc # "leave"
  /\ exc' = "interrupt"
  /\ SetTop([Top EXCEPT !.pc = "leave"])
  /\ UNCHANGED <<env, budget, pos, cancelled, outcome, open, owed, visits,
                 late, runs>>

-----------------------------------------------------------------------------
\* Mutant: FlowCancelled is retried as any Exception.
RetriableAll == {"exceeded", "exhausted", "failed", "cancelled"}

\* What _exec's second handler sees.
Retriable == {"exceeded", "exhausted", "failed"}

\* Mutant: the attempt is not counted.
SameAttempt(f) == f.attempt

NextAttempt(f) == f.attempt + 1

\* Node._exec: FlowCancelled is re-raised, any other Exception is retried
\* while attempts are left.
Retry ==
  /\ At("raised")
  /\ exc \in Retriable
  /\ Top.attempt < Retries[Top.current]
  /\ exc' = "none"
  /\ SetTop([Top EXCEPT !.pc = "exec", !.attempt = NextAttempt(Top), !.calls = 0])
  /\ UNCHANGED <<env, budget, pos, cancelled, outcome, open, owed, visits,
                 late, runs>>

\* except FlowCancelled: node.cancel, flow.cancel, raise.
NodeCancel ==
  /\ At("raised")
  /\ exc = "cancelled"
  /\ pos' = ClosingPos(Top)
  /\ CloseVisit(ClosingPos(Top))
  /\ EmitVerdict
  /\ SetTop([Top EXCEPT !.pc = "leave"])
  /\ UNCHANGED <<env, budget, cancelled, exc, outcome, visits, late, runs>>

\* except Exception: node.error, flow.error, raise - the last attempt failed,
\* or exec returned an action that is not a string, which is never retried.
NodeError ==
  /\ \/ /\ At("raised")
        /\ exc \in Retriable /\ Top.attempt >= Retries[Top.current]
        /\ exc' = exc
     \/ /\ At("returned") /\ Top.action = NonString
        /\ exc' = "failed"
  /\ pos' = ClosingPos(Top)
  /\ CloseVisit(ClosingPos(Top))
  /\ EmitVerdict
  /\ SetTop([Top EXCEPT !.pc = "leave"])
  /\ UNCHANGED <<env, budget, cancelled, outcome, visits, late, runs>>

\* node.end, and the successor becomes current.
Route ==
  /\ At("returned") /\ Top.action # NonString
  /\ LET next == Succ[Top.current][Top.action]
     IN  /\ next # NoNode
         /\ SetTop([Top EXCEPT !.pc = "boundary", !.current = next,
                               !.step = @ + 1])
  /\ pos' = ClosingPos(Top)
  /\ CloseVisit(ClosingPos(Top))
  /\ UNCHANGED <<env, budget, cancelled, exc, outcome, owed, visits, late, runs>>

\* node.end, then - no successor is wired - flow.end and return.
End ==
  /\ At("returned") /\ Top.action # NonString
  /\ Succ[Top.current][Top.action] = NoNode
  /\ pos' = <<Top.step, NoNode>>
  /\ CloseVisit(ClosingPos(Top))
  /\ EmitVerdict
  /\ SetTop([Top EXCEPT !.pc = "leave"])
  /\ UNCHANGED <<env, budget, cancelled, exc, outcome, visits, late, runs>>

-----------------------------------------------------------------------------
\* The body resumed after its nested run g: a catcher goes on whatever
\* happened, short of a BaseException; an Agent exposes an action or fails.
Resumed(f, g) ==
  CASE exc = "interrupt" -> [f EXCEPT !.pc = "leave"]
    [] exc # "interrupt" /\ f.current \in Catchers -> [f EXCEPT !.pc = "exec"]
    [] exc = "none" /\ f.current \notin Catchers ->
         [f EXCEPT !.pc = "returned",
                   !.action = IF Expose[f.current] = Inherit
                              THEN g.action ELSE Expose[f.current]]
    [] OTHER -> [f EXCEPT !.pc = "raised"]

\* The finally block of a nested call, and the return into the body.
LeaveNested ==
  /\ At("leave") /\ Depth > 1
  /\ LET f == stack[Depth - 1]
     IN  /\ stack' = [SubSeq(stack, 1, Depth - 1) EXCEPT
                        ![Depth - 1] = Resumed(f, Top)]
         /\ exc' = IF f.current \in Catchers /\ exc # "interrupt"
                   THEN "none" ELSE exc
  /\ env' = RestoredEnv(Top)
  /\ UNCHANGED <<budget, pos, cancelled, outcome, open, owed, visits, late, runs>>

\* The finally block of the host's call, and the return to the host.
LeaveHost ==
  /\ At("leave") /\ Depth = 1
  /\ stack' = <<>>
  /\ env' = RestoredEnv(Top)
  /\ outcome' = IF exc = "none" THEN "end" ELSE exc
  /\ exc' = "none"
  /\ UNCHANGED <<budget, pos, cancelled, open, owed, visits, late, runs>>

\* Steps the interpreter takes by itself.
Interpreter ==
  \/ CancelAtBoundary \/ PassBoundary \/ Admit \/ Exhausted \/ Overrun
  \/ Retry \/ NodeCancel \/ NodeError \/ Route \/ End
  \/ LeaveNested \/ LeaveHost

\* Steps of the code in a node's body.
Body ==
  \/ \E a \in Actions \cup {"", NonString} : Return(a)
  \/ \E kind \in {"failed", "cancelled"} : Raise(kind)
  \/ Nest

HostStep ==
  \E cap \in RootCaps, ev \in {HostEvent, NoEvent}, traced \in BOOLEAN :
    HostRun(cap, ev, traced)

\* The host makes no further call.
HostDone == stack = <<>> /\ runs = MaxRuns /\ UNCHANGED vars

Next ==
  \/ HostStep
  \/ Interpreter
  \/ Body
  \/ Interrupt
  \/ \E e \in Events : SetCancel(e)
  \/ HostDone

Spec == Init /\ [][Next]_vars

\* A node's body returns or raises, and the interpreter keeps running.
Fairness == WF_vars(Interpreter \/ Body)

FairSpec == Spec /\ Fairness

-----------------------------------------------------------------------------
\* The type of every variable.
TypeOK ==
  /\ stack \in Seq(Frame)
  /\ env \in Env
  /\ budget \in [limit : Nat, remaining : Nat]
  /\ pos \in Nat \X (Nodes \cup {NoNode})
  /\ cancelled \subseteq Events
  /\ exc \in Excs
  /\ outcome \in Excs \cup {"end"}
  /\ open \in Seq(Nat \X (Nodes \cup {NoNode}))
  /\ owed \in Int
  /\ visits \in Nat
  /\ late \in [Events -> Nat]
  /\ runs \in Nat

\* One budget for the whole call: the nodes visited at every depth, retried
\* and swallowed nested runs included, and what remains always add up to the
\* max_steps the host passed (node.py:303-309, _StepBudget).
BudgetExact ==
  stack # <<>> =>
    /\ budget.limit = stack[1].cap
    /\ visits + budget.remaining = budget.limit

\* The shared budget bounds recursion: however a flow nests itself, Flow.run
\* calls never go deeper than the max_steps the host passed, plus the call
\* that finds the budget empty.
NestingBounded == stack # <<>> => Depth <= stack[1].cap + 1

\* Every ambient binding follows the call stack: inside a call it is the
\* innermost binding made by a call in progress, and each finally restores
\* exactly what the enclosing body had, and a call is cancelled by its own
\* event if it was given one and by its caller's otherwise.  So a finished run - even one ended by
\* an interrupt - leaves the host's environment untouched (node.py:408-413,
\* context.py:266).
DynamicScope ==
  /\ stack = <<>> => env = HostEnv
  /\ stack # <<>> => stack[1].saved = HostEnv /\ env = InnerEnv(Top, Depth)
  /\ \A i \in 1..Depth - 1 : stack[i + 1].saved = InnerEnv(stack[i], i)
  /\ \A i \in 1..Depth : stack[i].cancel =
        IF stack[i].given # NoEvent THEN stack[i].given
        ELSE IF i = 1 THEN NoEvent ELSE stack[i - 1].cancel

\* Cancellation is prompt: after an event is set it governs the start of at
\* most one more node - the one that had passed the check - over all nested
\* and all later runs it governs (node.py:320-328).
CancelPrompt == \A e \in Events : late[e] <= 1

\* An event stream is well bracketed: an observer that pairs each node.end,
\* node.error or node.cancel with the innermost open node.start finds the
\* same step and node in both, though nested runs overwrite the context's
\* position in between (node.py:350, 365, 373).
WellBracketed ==
  LET inFlight == IF stack # <<>> /\ Top.pc \in InFlight THEN Depth ELSE Depth - 1
  IN  exc # "interrupt" /\ outcome # "interrupt" =>
        /\ stack = <<>> => open = <<>>
        /\ stack # <<>> => open = [i \in 1..inFlight |-> Here(stack[i])]

\* Every call of Flow.run emits exactly one of flow.end, flow.error and
\* flow.cancel before its finally block, whatever happened in nested calls.
OneVerdict ==
  exc # "interrupt" /\ outcome # "interrupt" =>
    owed = IF stack = <<>> THEN 0
           ELSE IF Top.pc = "leave" THEN Depth - 1 ELSE Depth

\* A propagating FlowCancelled ends the calls it passes through: until a
\* tool's handler catches it no node starts and no body is attempted again,
\* even where the node has retries left (node.py:88).
CancelUnwinds ==
  [][exc = "cancelled" =>
       /\ visits' = visits
       /\ Len(stack') <= Depth
       /\ \A i \in 1..Len(stack') : stack'[i].attempt = stack[i].attempt]_vars

\* What the call promises its caller.
Promise == INSTANCE RunPromise WITH
  Limits  <- RootCaps,
  Verdicts <- Excs \cup {"end"},
  running <- stack # <<>>,
  left    <- budget.remaining,
  called  <- cancelled,
  late    <- late,
  verdict <- outcome

\* Flow.run keeps RunPromise: the visits of all depths are paid from one
\* budget, a set event governs at most one late visit, and a run blames the
\* budget or the cancellation only with cause.
KeepsPromise == Promise!Spec

\* Every call returns or raises: no wiring, nesting, retry or swallowed
\* failure makes a run go on for ever, max_steps being finite.
Terminates == stack # <<>> ~> stack = <<>>
=============================================================================
