----------------------------- MODULE EventStream -----------------------------
(***************************************************************************)
(* The event stream of a RunContext (core/context.py): emit, observe and   *)
(* notify, called by the thread that drives a flow and by the threads of   *)
(* its tools; the subscribers they call, outside the lock; the runs that   *)
(* put a subscriber of their own in between to collect a trace; and what   *)
(* ModelNode and ToolCallNode tell, with the usage they record.            *)
(*                                                                         *)
(* A subscriber may raise, or emit an event itself.  An event is its       *)
(* position in "made".  Of its fields its kind is kept, and the tool call  *)
(* or run it is of.  A run visits model, tool and agent nodes in any       *)
(* order; FlowRun has the interpreter, ToolExecutor the batch.             *)
(***************************************************************************)
EXTENDS Integers, Sequences, FiniteSets, SequencesExt, RunUsage

CONSTANTS Flow, Workers, NoThread,  \* the driving thread, those of tools (integers)
          Listeners,                \* what the host subscribes to
          RetainPayloads,           \* ToolCallNode.retain_event_payloads
          Reported,                 \* what the provider reports with an answer
          MaxRuns, MaxVisits,       \* bounds: runs, and visits of each
          MaxWork,                  \* bound: runs and tool calls together
          MaxActs                   \* bound: what goes differently (acts)

ASSUME ThreadAssumption ==
  /\ Workers \subseteq Int /\ IsFiniteSet(Workers)
  /\ Flow \notin Workers /\ NoThread \notin Workers \cup {Flow}

ASSUME HostAssumption ==
  Listeners \subseteq SUBSET {"event", "observation"} /\ Reported \subseteq Reports

ASSUME RetainAssumption == RetainPayloads \in BOOLEAN

ASSUME EventBoundAssumption == {MaxRuns, MaxVisits, MaxWork, MaxActs} \subseteq Nat

Threads == Workers \cup {Flow}
RunIds == 1..MaxRuns

VARIABLES
  sequence,   \* context._sequence
  lock,       \* who holds context._event_lock
  made,       \* the events made, retained or not
  events,     \* context.events
  observed,   \* context.on_observation is set
  hosted,     \* the host has set context.on_event
  on_event,   \* whom context.on_event calls, the host or a run, in order
  calling,    \* each thread's calls of emit, observe, notify, innermost last
  runs,       \* runs in progress, innermost last
  started,    \* how many runs there were
  usage,      \* context.usage
  called,     \* tool calls so far
  queue, open,   \* of the batch: calls that wait for a thread; not ended
  working,    \* each worker's tool call, and the runs it is of
  heard,      \* what the host's on_event was called with
  traces,     \* each run's trace_events
  refused,    \* events during whose delivery somebody raised
  acts,       \* how often a subscriber raised or emitted an event itself, or
              \* a cancelled run left a tool behind in its thread
  left        \* how each run was left

stream == <<sequence, lock, made, events>>
hosts == <<observed, hosted, heard, traces>>
tools == <<called, queue, open, working>>
vars == <<stream, hosts, on_event, calling, runs, started, usage, tools,
          refused, acts, left>>

-----------------------------------------------------------------------------
(* What is told.                                                           *)

Emitted == {"start", "end", "verdict", "request", "response", "message",
            "call", "result", "artifact"}
Notified == {"delta", "progress"}
Kinds == Emitted \cup Notified \cup {"payload"}

\* The categories a trace has by default are flow, node, tool and model.
Included(kind) == kind \notin {"message", "artifact"}

Tell(kind, of) == [kind |-> kind, of |-> of]

\* ModelNode.exec: request, deltas, answer, history, usage.
ModelBody ==
  <<Tell("payload", 0), Tell("request", 0), Tell("delta", 0), Tell("answer", 0),
    Tell("message", 0), Tell("record", 0), Tell("payload", 0), Tell("response", 0)>>

\* All the kinds for the first call, then for the next.
Each(ids, kinds) ==
  LET m == Len(kinds)
  IN [n \in 1..Len(ids) * m |->
        Tell(kinds[1 + ((n - 1) % m)], ids[1 + ((n - 1) \div m)])]

\* The full data goes with the event, or in an observation after it.
Full(kind) == IF RetainPayloads THEN <<kind>> ELSE <<kind, "payload">>

\* Mutant: ToolCallNode announces each call with its result.
AnnouncedLate(ids) ==
  Each(ids, <<"submit">>) \o <<Tell("join", 0)>>
  \o Each(ids, Full("call") \o Full("result")) \o Each(ids, <<"message">>)

\* ToolCallNode.exec: every call announced, the batch, its results in the
\* calls' order, and the history.
ToolBody(ids) ==
  Each(ids, Full("call")) \o Each(ids, <<"submit">>) \o <<Tell("join", 0)>>
  \o Each(ids, Full("result")) \o Each(ids, <<"message">>)

AgentBody == <<Tell("agent", 0)>>

-----------------------------------------------------------------------------
(* A call of emit, observe or notify, step by step.                        *)

Call(t, kind, of) ==
  [kind |-> kind, of |-> of, at |-> "lock", read |-> 0, event |-> 0, to |-> <<>>]

Current(t) == Last(calling[t])

Step(t, at) == calling[t] # <<>> /\ Current(t).at = at

\* The call of t goes on as c, or returns.
Becomes(t, c) ==
  [calling EXCEPT ![t] = Front(@) \o IF c.at = "return" THEN <<>> ELSE <<c>>]

\* The runs an event is of: those in progress, or a tool's.
InProgress == {runs[n].id : n \in DOMAIN runs}

RunsOf(t) == IF t = Flow THEN InProgress ELSE working[t].for

\* observe and notify return at once if nobody listens.
Unheard(kind) ==
  \/ kind = "payload" /\ ~observed
  \/ kind \in Notified /\ on_event = <<>>

Calls(t, kind, of) ==
  calling' = [calling EXCEPT ![t] = IF Unheard(kind) THEN <<>> ELSE <<Call(t, kind, of)>>]

\* Mutant: no lock.
AlwaysFree == TRUE

LockFree == lock = NoThread

\* The lock is taken, and _sequence read ...
Acquire(t) ==
  /\ Step(t, "lock") /\ LockFree
  /\ lock' = t
  /\ calling' = Becomes(t, [Current(t) EXCEPT !.at = "number", !.read = sequence])
  /\ UNCHANGED <<sequence, made, events, hosts, on_event, runs, started, usage, tools,
                 refused, acts, left>>

\* Mutant: the lock is held until the event is delivered.
StillHeld == lock

Released == NoThread

AfterLock(kind) ==
  IF kind \notin Notified /\ observed THEN "observe" ELSE "call"

\* ... and written; the event is made, and retained if it is emitted.
Number(t) ==
  LET c == Current(t)
      id == Len(made) + 1
  IN /\ Step(t, "number")
     /\ sequence' = c.read + 1
     /\ made' = Append(made, [seq |-> c.read + 1, kind |-> c.kind, of |-> c.of, by |-> t,
                              for |-> RunsOf(t),
                              inside |-> {calling[t][n].event : n \in 1..Len(calling[t]) - 1}])
     /\ events' = IF c.kind \in Emitted THEN Append(events, id) ELSE events
     /\ lock' = Released
     /\ calling' = Becomes(t, [c EXCEPT !.event = id,
                                        !.at = AfterLock(c.kind)])
     /\ UNCHANGED <<hosts, on_event, runs, started, usage, tools, refused, acts, left>>

Act(n) == acts + n <= MaxActs /\ acts' = acts + n

\* Somebody else's code is called with the event, on_observation, on_event, or
\* that of a run's TraceOptions, which gets the categories it includes.
Heard(t) ==
  LET c == Current(t) IN
  Step(t, "observe") \/ (Step(t, "deliver") /\ (Head(c.to) = 0 \/ Included(c.kind)))

\* The call goes on as c, maybe after the subscriber has emitted an event.
Hears(t, c) ==
  \/ calling' = Becomes(t, c) /\ UNCHANGED acts
  \/ /\ Heard(t) /\ Act(1)
     /\ calling' = [calling EXCEPT ![t] = Append(Append(Front(@), c), Call(t, "artifact", 0))]

\* on_observation
Observe(t) ==
  /\ Step(t, "observe")
  /\ Hears(t, [Current(t) EXCEPT !.at = IF Current(t).kind = "payload" THEN "return" ELSE "call"])
  /\ UNCHANGED <<stream, hosts, on_event, runs, started, usage, tools, refused, left>>

\* emit looks whether on_event is set, and calls it; notify, that looked when
\* it began, just calls it (Raise has what comes if it is gone by now).
Read(t) ==
  /\ Step(t, "call")
  /\ \/ /\ on_event # <<>>
        /\ calling' = Becomes(t, [Current(t) EXCEPT !.at = "deliver", !.to = on_event])
     \/ /\ on_event = <<>> /\ Current(t).kind \in Emitted
        /\ calling' = Becomes(t, [Current(t) EXCEPT !.at = "return"])
  /\ UNCHANGED <<stream, hosts, on_event, runs, started, usage, tools, refused, acts, left>>

\* Each traced run's on_event calls the one before it, then collects.
Collect(t) ==
  LET c == Current(t)
      who == Head(c.to)
  IN /\ Step(t, "deliver")
     /\ heard' = IF who = 0 THEN Append(heard, c.event) ELSE heard
     /\ traces' = IF who = 0 THEN traces ELSE [traces EXCEPT ![who] = Append(@, c.event)]

Deliver(t) ==
  LET c == Current(t) IN
  /\ Collect(t)
  /\ Hears(t, [c EXCEPT !.to = Tail(@), !.at = IF Tail(c.to) = <<>> THEN "return" ELSE @])
  /\ UNCHANGED <<stream, observed, hosted, on_event, runs, started, usage, tools, refused, left>>

\* After an event of its own, the subscriber of one that needs no more.
Return(t) ==
  /\ Step(t, "return")
  /\ calling' = Becomes(t, Current(t))
  /\ UNCHANGED <<stream, hosts, on_event, runs, started, usage, tools, refused, acts, left>>

-----------------------------------------------------------------------------
(* A run.                                                                  *)

Idle == calling[Flow] = <<>> /\ runs # <<>>

Top == Last(runs)

WithTop(f) == Append(Front(runs), f)

\* Mutant: flow.error comes before node.error.
VerdictFirst(f) ==
  [f EXCEPT !.over = TRUE, !.how = "raised", !.todo = <<Tell("verdict", f.id), Tell("end", f.id)>>]

\* An exception left the node's body: node.error, flow.error (or .cancel).
Failed(f) ==
  [f EXCEPT !.over = TRUE, !.how = "raised", !.todo = <<Tell("end", f.id), Tell("verdict", f.id)>>]

\* One that a subscriber raised elsewhere passes through the run.
Cut(f) == [f EXCEPT !.over = TRUE, !.how = "raised", !.cut = TRUE, !.todo = <<>>]

OfInterpreter(kind) == kind \in {"start", "end", "verdict"}

\* Everybody inside whom t is: their calls end, and what called them fails.
\* A tool's exception is its result.  One left behind by its run may find
\* on_event gone that it has just seen.
Raise(t) ==
  /\ \/ Heard(t) /\ Act(1) /\ Collect(t)
     \/ Step(t, "observe") /\ Act(1) /\ UNCHANGED <<heard, traces>>
     \/ /\ Step(t, "call") /\ on_event = <<>> /\ Current(t).kind \in Notified
        /\ UNCHANGED <<acts, heard, traces>>
  /\ refused' = refused \cup {calling[t][n].event : n \in DOMAIN calling[t]}
  /\ calling' = [calling EXCEPT ![t] = <<>>]
  /\ runs' = IF t # Flow THEN runs
             ELSE WithTop(IF OfInterpreter(calling[t][1].kind) THEN Cut(Top)
                          ELSE Failed(Top))
  /\ UNCHANGED <<stream, observed, hosted, on_event, started, usage, tools, left>>

\* Mutant: the run's on_event forgets the one before it.
Replaced(before, id) == <<id>>

Chained(before, id) == Append(before, id)

Due(kind) == Idle /\ Top.todo # <<>> /\ Head(Top.todo).kind = kind

Done == [Top EXCEPT !.todo = Tail(@)]

MayStart == started < MaxRuns /\ started + called < MaxWork

\* Flow.run, called by the host or by a node.
Enter(traced) ==
  LET id == started + 1
      run == [id |-> id, traced |-> traced, before |-> on_event, since |-> usage,
              todo |-> <<>>, over |-> FALSE, visits |-> 0, reports |-> <<>>,
              report |-> {}, how |-> "end", cut |-> FALSE]
  IN /\ calling[Flow] = <<>> /\ MayStart
     /\ \/ runs = <<>> /\ runs' = <<run>>
        \/ Due("agent") /\ runs' = Append(WithTop(Done), run)
     /\ started' = id
     /\ on_event' = IF traced THEN Chained(on_event, id) ELSE on_event
     /\ UNCHANGED <<stream, hosts, calling, usage, tools, refused, acts, left>>

Between == Idle /\ Top.todo = <<>> /\ ~Top.over

\* The next node, with what it will tell if nothing goes wrong.
Visit(body) ==
  /\ Between /\ Top.visits < MaxVisits
  /\ runs' = WithTop([Top EXCEPT !.visits = @ + 1,
                       !.todo = <<Tell("start", Top.id)>> \o body \o <<Tell("end", Top.id)>>])
  /\ UNCHANGED <<stream, hosts, on_event, calling, started, usage, queue, open, working,
                 refused, acts, left>>

VisitModel == Visit(ModelBody) /\ UNCHANGED called

VisitAgent == MayStart /\ Visit(AgentBody) /\ UNCHANGED called

VisitTools ==
  \E n \in 1..MaxWork - started - called :
    Visit(ToolBody([k \in 1..n |-> called + k])) /\ called' = called + n

\* No successor is wired; or the budget is exhausted, or the run cancelled,
\* between nodes.
Conclude(how) ==
  /\ Between /\ (how = "end" => Top.visits > 0)
  /\ runs' = WithTop([Top EXCEPT !.over = TRUE, !.how = how, !.todo = <<Tell("verdict", Top.id)>>])
  /\ UNCHANGED <<stream, hosts, on_event, calling, started, usage, tools, refused, acts, left>>

\* Mutant: on_event is cleared.
Cleared(before) == <<>>

Restored(before) == before

\* What the options of a trace include, in the order in which it was collected.
Selected(trace) ==
  LET UpTo[n \in 0..Len(trace)] ==
        IF n = 0 THEN <<>>
        ELSE IF Included(made[trace[n]].kind) THEN Append(UpTo[n - 1], trace[n])
        ELSE UpTo[n - 1]
  IN  UpTo[Len(trace)]

\* What Leave hands to the host; trace is of a run that ends by itself, and the
\* usage of one that raised is for the host to look up.
Outcome(f) ==
  [id |-> f.id, how |-> f.how, cut |-> f.cut, traced |-> f.traced,
   trace |-> Selected(traces[f.id]),
   usage |-> ToDict(Since(usage, f.since)), reports |-> f.reports]

\* The run ends, in whatever way; the node that called it fails with it.
\* (Retries are in FlowRun.)
Leave ==
  /\ Idle /\ Top.todo = <<>> /\ Top.over
  /\ on_event' = IF Top.traced THEN Restored(Top.before) ELSE on_event
  /\ left' = left \cup {Outcome(Top)}
  /\ runs' = IF Len(runs) = 1 \/ Top.how = "end" THEN Front(runs)
             ELSE Append(Front(Front(runs)), Failed(Last(Front(runs))))
  /\ UNCHANGED <<stream, hosts, calling, started, usage, tools, refused, acts>>

-----------------------------------------------------------------------------
(* What a node does next.                                                  *)

Says ==
  /\ Idle /\ Top.todo # <<>> /\ Head(Top.todo).kind \in Kinds
  /\ runs' = WithTop(Done)
  /\ Calls(Flow, Head(Top.todo).kind, Head(Top.todo).of)
  /\ UNCHANGED <<stream, hosts, on_event, started, usage, tools, refused, acts, left>>

\* The model answers; the report counts for the runs around this one too.
Answer ==
  /\ Due("answer")
  /\ \E r \in Reported :
       runs' = [n \in DOMAIN runs |->
                  LET f == WithTop(Done)[n]
                  IN [f EXCEPT !.reports = Append(@, r),
                               !.report = IF n = Len(runs) THEN r ELSE @]]
  /\ UNCHANGED <<stream, hosts, on_event, calling, started, usage, tools, refused, acts, left>>

Record ==
  /\ Due("record")
  /\ runs' = WithTop(Done)
  /\ usage' = Recorded(usage, Top.report)
  /\ UNCHANGED <<stream, hosts, on_event, calling, started, tools, refused, acts, left>>

Runs(f) ==
  /\ runs' = WithTop(f)
  /\ UNCHANGED <<stream, hosts, on_event, calling, started, usage, refused, acts, left>>

Submit ==
  /\ Due("submit")
  /\ Runs(Done)
  /\ queue' = Append(queue, Head(Top.todo).of) /\ open' = open \cup {Head(Top.todo).of}
  /\ UNCHANGED <<called, working>>

Join ==
  /\ Due("join") /\ open = {}
  /\ Runs(Done)
  /\ UNCHANGED tools

Resting == [call |-> 0, for |-> {}, told |-> FALSE]

\* The task is cancelled: what waits is dropped, and tools that run in threads
\* go on without it.
Abandon ==
  /\ Due("join") \/ Due("answer")
  /\ Act(Cardinality({w \in Workers : working[w] # Resting}))
  /\ runs' = WithTop(Failed(Top))
  /\ queue' = <<>> /\ open' = {}
  /\ UNCHANGED <<stream, hosts, on_event, calling, started, usage, called, working, refused, left>>

Works == UNCHANGED <<stream, hosts, on_event, runs, started, usage, called, refused, acts, left>>

StartTool(w) ==
  /\ working[w] = Resting /\ queue # <<>>
  /\ \A v \in Workers : v < w => working[v] # Resting  \* they are alike
  /\ working' = [working EXCEPT ![w] = [Resting EXCEPT !.call = Head(queue), !.for = InProgress]]
  /\ queue' = Tail(queue)
  /\ Works /\ UNCHANGED <<calling, open>>

Progress(w) ==
  /\ working[w] # Resting /\ ~working[w].told
  /\ working' = [working EXCEPT ![w].told = TRUE]
  /\ Calls(w, "progress", working[w].call)
  /\ Works /\ UNCHANGED <<queue, open>>

EndTool(w) ==
  /\ working[w] # Resting /\ calling[w] = <<>>
  /\ working' = [working EXCEPT ![w] = Resting]
  /\ open' = open \ {working[w].call}
  /\ Works /\ UNCHANGED <<calling, queue>>

-----------------------------------------------------------------------------
Init ==
  /\ sequence = 0 /\ lock = NoThread /\ made = <<>> /\ events = <<>>
  /\ \E what \in Listeners : observed = ("observation" \in what) /\ hosted = ("event" \in what)
  /\ on_event = IF hosted THEN <<0>> ELSE <<>>
  /\ calling = [t \in Threads |-> <<>>]
  /\ runs = <<>> /\ started = 0 /\ usage = Zero
  /\ called = 0 /\ queue = <<>> /\ open = {} /\ working = [w \in Workers |-> Resting]
  /\ heard = <<>> /\ traces = [id \in RunIds |-> <<>>]
  /\ refused = {} /\ acts = 0 /\ left = {}

InCall(t) ==
  Acquire(t) \/ Number(t) \/ Observe(t) \/ Read(t) \/ Deliver(t)
  \/ Return(t) \/ Raise(t)

InFlow ==
  \/ \E traced \in BOOLEAN : Enter(traced)
  \/ VisitModel \/ VisitAgent \/ VisitTools
  \/ \E how \in {"end", "raised"} : Conclude(how)
  \/ Leave \/ Says \/ Answer \/ Record \/ Submit \/ Join \/ Abandon

InTool(w) == StartTool(w) \/ Progress(w) \/ EndTool(w)

\* The host may stop when nothing is in progress.
Stop ==
  /\ runs = <<>> /\ \A t \in Threads : calling[t] = <<>>
  /\ UNCHANGED vars

Next ==
  \/ \E t \in Threads : InCall(t)
  \/ InFlow
  \/ \E w \in Workers : InTool(w)
  \/ Stop

Spec == Init /\ [][Next]_vars

-----------------------------------------------------------------------------
(* Properties.                                                             *)

Places == {"lock", "number", "observe", "call", "deliver", "return"}

Subscribers == {0} \cup RunIds

CallType == [kind : Kinds, of : Nat, at : Places, read : Nat, event : Nat,
             to : Seq(Subscribers)]

Item == [kind : Kinds \cup {"answer", "record", "agent", "submit", "join"}, of : Nat]

RunType ==
  [id : RunIds, traced : BOOLEAN, before : Seq(Subscribers), since : Usages,
   todo : Seq(Item), over : BOOLEAN, visits : Nat, reports : Seq(Reports),
   report : Reports, how : {"end", "raised"}, cut : BOOLEAN]

EventType == [seq : Nat, kind : Kinds, of : Nat, by : Threads, for : SUBSET RunIds,
              inside : SUBSET Nat]

\* Whom an event is to reach outside the first n runs in progress, and in them.
Listening(n) ==
  IF n = 0 THEN IF hosted THEN <<0>> ELSE <<>>
  ELSE IF runs[n].traced THEN Append(runs[n].before, runs[n].id) ELSE runs[n].before

StreamOK ==
  /\ sequence \in Nat /\ lock \in Threads \cup {NoThread}
  /\ made \in Seq(EventType) /\ events \in Seq(1..Len(made))
  /\ heard \in Seq(1..Len(made)) /\ traces \in [RunIds -> Seq(1..Len(made))]
  /\ refused \subseteq 0..Len(made)
  /\ observed \in BOOLEAN /\ hosted \in BOOLEAN /\ acts \in 0..MaxActs

CallsOK == calling \in [Threads -> Seq(CallType)]

\* on_event is the host's and that of each traced run in progress, innermost
\* last, and each run remembers that of the ones around it.
RunsOK ==
  /\ on_event \in Seq(Subscribers) /\ on_event = Listening(Len(runs))
  /\ runs \in Seq(RunType) /\ started \in 0..MaxRuns /\ usage \in Usages
  /\ \A n \in 1..Len(runs) : runs[n].before = Listening(n - 1)
  /\ \A o \in left : o.id \in RunIds /\ o.how \in {"end", "raised"}

ToolsOK ==
  /\ called \in Nat /\ queue \in Seq(1..called) /\ open \subseteq 1..called
  /\ working \in [Workers -> [call : 0..called, for : SUBSET RunIds, told : BOOLEAN]]

\* Type invariant.
TypeOK == StreamOK /\ CallsOK /\ RunsOK /\ ToolsOK

\* The events of some kinds, of one call or run.
Said(kinds, of) == {k \in DOMAIN made : made[k].kind \in kinds /\ made[k].of = of}

OnceEach(s) == Cardinality(Range(s)) = Len(s)

\* context.py:157-166, 302-307: "a host can order events even when parallel
\* tools report progress" (README.md:267).  Events are made under the lock, so
\* their numbers grow; ToolCallNode announces a call before its tool can
\* report progress, and has its result after that.
OrderedBySeq ==
  \A k \in DOMAIN made :
    /\ k > 1 => made[k - 1].seq < made[k].seq
    /\ made[k].kind = "call" => Said({"progress", "result"}, made[k].of) \cap 1..k = {}
    /\ made[k].kind = "progress" => Said({"result"}, made[k].of) \cap 1..k = {}

Delivering == UNION {{calling[t][n].event : n \in DOMAIN calling[t]} : t \in Threads}

\* context.py:157-171, 213-225: whatever was made, delivered in full and not
\* raised upon has reached the host's on_event once, traced runs coming and
\* going in between.  A thread's events come in their order, but for one that
\* a subscriber emitted while it was told of an earlier one (context.py:167:
\* the lock is free by then).
HostHearsAll ==
  hosted =>
    /\ OnceEach(heard)
    /\ \A e \in (DOMAIN made) \ (Delivering \cup refused \cup Range(heard)) :
         made[e].kind = "payload"
    /\ \A n \in DOMAIN heard :
         LET e == heard[n]  latest == Last(heard)
         IN made[e].by = made[latest].by /\ made[e].seq > made[latest].seq =>
              latest \in made[e].inside

\* node.py:287-300, 387-391: the trace of a run that ended has each of its own
\* events once, those of the runs inside it and of its tools' threads among
\* them, if nobody raised upon it; others' only from the tools that a cancelled
\* run left behind in their threads.
TraceOfRun ==
  \A o \in left : o.how = "end" /\ o.traced =>
    LET own == {e \in DOMAIN made : o.id \in made[e].for}
    IN /\ OnceEach(o.trace)
       /\ \A e \in own \ (refused \cup Range(o.trace)) :
            made[e].kind = "payload" \/ ~Included(made[e].kind)
       /\ \A e \in Range(o.trace) \ own : made[e].by \in Workers

\* node.py:286, 393 and README.md:273: the usage of a run is that of its own
\* answers and of the runs inside it, on a context that others used before,
\* and a total is given only if every answer came with it.  The same goes for
\* what context.usage has got of a run that raised, except when a subscriber
\* raised on a message: the history has it then, and the usage not
\* (llm/nodes.py:118-125).
UsageOfRun ==
  \A o \in left :
    (\A e \in refused : o.id \in made[e].for => made[e].kind # "message")
      => o.usage = Truth(o.reports)

\* node.py:351-410: every run tells its verdict, once, and says nothing after
\* it; a subscriber that raises outside a node's body can take it away
\* (context.py:170).  So can an interrupt, which is FlowRun's.
VerdictUnlessRaised ==
  \A o \in left :
    LET v == {n \in DOMAIN events :
                made[events[n]].kind = "verdict" /\ made[events[n]].of = o.id}
    IN /\ Cardinality(v) <= 1
       /\ ~o.cut => v # {}
       /\ \A n \in v : \A m \in n + 1..Len(events) :
            o.id \in made[events[m]].for /\ made[events[m]].by = Flow =>
              events[n] \in made[events[m]].inside

\* context.py:127-131, 157-171: who waits for the lock, that is not reentrant,
\* waits for another thread, that releases it in its next step and calls nobody
\* before: subscribers may call the context again.
NobodyWaitsForLong ==
  \A t \in Threads : Step(t, "lock") /\ lock # NoThread =>
    lock # t /\ Step(lock, "number")

=============================================================================
