# agent-core-runtime in TLA+

TLA+ specifications of `agent_core` (`src/src/agent_core`), model-checked with TLC, with theorems checked by TLAPS.
Paths below are relative to `src/src/agent_core` unless they start with `docs/`, `tests/` or a file of the repository's root.

## The system

An application builds a graph of nodes and runs it as a flow; the flow's bodies call models and tools.

| Component | State | Operations | Interacts with |
|---|---|---|---|
| Flow interpreter, `core/node.py` | current node, step, `last_action`, `path`; ambient `_STEP_BUDGET`, `_FLOW_CANCEL` (ContextVars) | `Flow.run`, `Flow.arun`, `Node._exec`/`_aexec` (retries), `_StepBudget.consume` | node bodies, which may run further flows; `RunContext` (events, `step`, `node`, `on_event`) |
| `RunContext`, `core/context.py` | `messages`, `message_scopes`, `active_message_scope`, `events`, `_sequence`, `usage`, `on_event`, `on_observation`, `step`, `node`, `metadata`, `artifacts` | `emit`, `observe`, `notify`, `add_message`, `get_messages`, `use_message_scope` | everything: it is shared by all runs of a session |
| `RunUsage`, `core/context.py` | six counters | `record`, `snapshot`, `since`, `to_dict` | model nodes record, runs take differences |
| `Agent`, `agent.py` | a scope name, an instruction marker | `new_context`, `chat`, `run`, `exec` and async forms; adopts ambient messages | runs its flow inside its scope, itself a node of outer flows |
| `ToolExecutor`, `tools/executor.py` | `tool_map`, `max_workers`; per batch: results, futures, the pool | `execute`, `execute_all`, `aexecute_all`, `parse_tool_calls` | a thread pool or the event loop; tools, which may run agents; the cancel event |
| `ToolCallNode`, `tools/nodes.py` | none of its own | `exec`: announce, execute, append results to the history | `ToolExecutor`, `RunContext` |
| `ModelNode`, router, guard, `llm/nodes.py` | the payload: assistant message, guard's window | one model call; route on tool calls; stop a loop that repeats itself | `RunContext` scope (prompt and history), model client |
| `LLM`, `llm/client.py` | streaming accumulators: calls by slot, `last_slot`, `position_slots` | one request, merging of streamed fragments, normalising call ids | OpenAI-compatible client (external) |
| `Tool`, `tools/base.py` | none | schema from a signature, call with arguments | `ToolExecutor` |
| trace, `core/trace.py` | a list of events per run | category filter, printing | `Flow.run` through `on_event` |
| command line, `__main__.py` | one context, reused by each line read | `chat`, and survival of an interrupt | `Agent` |

### What is hard in it

* **Nesting.** A node body may be an agent, whose flow runs nodes, one of which is a tool node whose tool runs an agent - of the same graph, if it likes. All the calls share one budget, one context and, unless replaced, one cancel event. What each changes (three ContextVars, `on_event`, the active scope) must be put back on every way out.
* **Other threads.** A cancel event may be set at any moment: between a check and what it guards, or while a pool executes tools. The threads of the pool finish in any order.
* **Failure at each level.** A failure is retried by `_exec`, turned into a result by `ToolExecutor.execute`, or goes up; a cancellation must not be retried; an interrupt passes all handlers but the `finally` blocks.
* **Subscribers.** `emit`, `observe` and `notify` number an event under a lock and call the host's subscribers after it is released, from whatever thread tells it. A subscriber may raise, into the middle of a node or of the interpreter, or call the context again. Traced runs put a subscriber of their own in between for as long as they last.
* **A stream that does not say what it means.** Providers leave out indexes and ids of tool calls, repeat ids, or send again what they have sent; calls are put together by guessing, and ids replaced after the message is in the history.
* **One history, many readers.** Agents share a context and take turns and nest on it, while the host adds messages between runs.

### What makes it correct

* flow interpreter: the total work of a host's call is bounded by its `max_steps`; cancellation is prompt and is not retried; every visit and run is closed in the event stream, once; nothing leaks out of a run; every run ends.
* tool batches: barriers hold, every call has one result and in the model's order, nothing runs after the batch is left, no call starts that the cancel check did not admit, every batch ends.
* event stream: numbers order the events as they were made; the host hears each event once; a run's trace has its own events, its verdict is told once and last, and its usage is that of its own answers; nobody waits for the lock for long.
* tool calls of a message: each is put together of its own fragments and of all of them, and is answered under the id the history has for it.
* scopes: an agent's model sees its own conversation complete and in order, and nobody else's; nothing that was added to the context is lost.

## Modules

| Module | Models | State and actions |
|---|---|---|
| `RunPromise` | what a caller of `Flow.run` may rely on, abstractly: paid visits, at most one late visit per cancel event, an honest verdict | `left` of the budget, the events `called`, `late`, which counts the visits each event has governed since, `verdict` |
| `FlowRun` | `Flow.run`, `Node._exec`, `_StepBudget`, the entry of `Agent.run`/`exec` | `stack` has a frame per call in progress; `env` is the ambient state; one action per step of the loop (cancel check, `consume`, body, return, raise, retry, close, route, leave) |
| `MCFlowRun` | one graph of four nodes that nests in itself, for TLC | - |
| `FlowRunProofs` | theorems about `FlowRun` | - |
| `AsyncFlow` | `Flow.arun`, `Node._aexec`, `asyncio.to_thread` bodies | a stack per *line* (the task, each worker thread); `ctx` has the fields of the shared `RunContext`; `of` says whose ContextVars a line has; the loop's steps as in `FlowRun`, and `Offload`, `Join`, `CancelTask`, `OrphanEnds` |
| `AsyncFlowProofs` | theorems about `AsyncFlow` | - |
| `ToolBatch` | what executing a batch of tool calls promises, abstractly | - |
| `ToolExecutor` | `ToolExecutor.execute_all` and `ToolCallNode._complete` | the caller's thread `pc`, the pool's `queue`, `status` of each call |
| `ToolExecutorProofs` | theorems about `ToolExecutor`, its refinement of `ToolBatch` among them | - |
| `AsyncToolExecutor` | `ToolExecutor.aexecute_all`, `aexecute` | the executing task's `pc`, `chunk` gathered and `rest` to be gathered, `status` of each call's task, `busy` tool functions, `told` (cancelled) tasks |
| `AsyncToolExecutorProofs` | theorems about `AsyncToolExecutor`, its refinement of `ToolBatch` among them | - |
| `AgentScopes` | `Agent`'s entry points, adoption, instructions; `RunContext.add_message`, `get_messages`, `use_message_scope`; the prompt of `ModelNode` | `messages`, `scopes`, `active` as in `RunContext`; `stack` of agent runs; an action per entry point, and for entries that a subscriber cuts short (`PrepareRaises`, `ChatRaises`); the observer `cut` remembers whose instructions it was raised at |
| `AgentScopesProofs` | theorems about `AgentScopes` | - |
| `ToolLoop` | the standard chat loop: `ModelNode._finish`, `ToolRouterNode`, `ToolCallNode`, `ToolLoopGuardNode` | the payload: `calls`, `outcomes`, `enabled`, the guard's `rounds` (window) and `warned`; `history` (open calls, broken pairing) |
| `MCToolLoop` | symmetry of signatures and outcomes, for TLC | - |
| `ToolLoopProofs` | theorems about `ToolLoop` | - |
| `RunUsage` | `RunUsage.record`, `since`, `to_dict`, as operators | - |
| `EventStream` | `RunContext.emit`, `observe`, `notify`; the subscribers; `Flow.run`'s trace, verdict and usage; what `ModelNode` and `ToolCallNode` tell, and the progress of tools | `calling` has each thread's calls of `emit` and the like, innermost last, which go step by step (`Acquire`, `Number`, `Observe`, `Read`, `Deliver`, `Return`, `Raise`); `on_event` is the chain of subscribers; `runs` has a frame per run with `todo`, what its node has yet to tell and do |
| `EventStreamProofs` | theorems about `EventStream`, one for each of its properties: types and the chain of subscribers, the lock, the order of a tool call's events, what the host hears, the verdicts, the usage and the traces of runs | - |
| `MCEventStream` | listeners and usage reports, for TLC | - |
| `ToolCallStream` | `_StreamToolCallMerger`, `_merge_fragment`, `_unique_tool_call_id`, `ToolExecutor.parse_tool_calls`, with the provider around them | the merger's `calls`, `last_slot`, `position_slots`; `items`, the list the history holds; `answers`; an action per fragment merged and per id given; the observers `place` and `strayed` remember which call came last at a position, and whether a fragment came where its call is not looked for |
| `ToolCallStreamProofs` | theorems about `ToolCallStream` | - |
| `MCToolCallStream` | texts and ids, for TLC | - |

`ToolExecutor` and `AsyncToolExecutor` are shown to implement `ToolBatch`, `FlowRun` to implement `RunPromise`, each through a refinement mapping (`INSTANCE ... WITH`).
Definitions whose comment starts with "Mutant:" are plausible bugs of a definition after them. No behaviour uses them: they are there to be put in its place, to see that the property named with them in `PROJECT.json` notices.

How the modules abstract:

* `FlowRun` keeps the control of the loop and of `_exec` and takes the graph (`Succ`), what bodies nest (`Inner`) and their parameters as constants. A body returns, raises or nests as it likes within them.
  Of the event stream it keeps what an observer can rebuild: open visits and verdicts due.
* `AsyncFlow` forgets the graph (any node may be the last) and adds the lines of control. A function given to `asyncio.to_thread` is taken to start at once. Routing, own cancel events of nested runs, the position (`step`, `node`) in events and interrupts are those of `FlowRun`.
* The two executors keep every call's fate and abstract names, arguments and texts to the kind of the call (`parallel`, `serial`, `unknown`).
* `AgentScopes` keeps of a message whom it was written for and whether it is an instruction. Its position in `context.messages` is its identity, as `id()` is in the code. History seeded through a payload key is one message. A subscriber may raise at any message an entry point adds: `add_message` calls `emit` after the message is in the history and before `_prepare_context` sets its marker (`agent.py:315-316`). An interrupt at that point has the same effect; elsewhere inside these methods (between the two appends of `add_message`, inside the adoption loop) it is not modelled.
* `EventStream` keeps of an event its kind and the run or call it is of. A thread may be interrupted between any two steps of `emit`: reading the number, writing it, and calling each subscriber. A run visits nodes in any order, each telling what its class tells; what makes the interpreter go from one node to the next is `FlowRun`'s, and the batch is the executors'. `acts` counts what goes differently: a subscriber that raises or that emits an event itself (setting an artifact, say), a cancelled run that leaves a tool behind in its thread.
* `RunUsage` counts one token per report that has tokens: what is checked is *which* reports are counted, and when a total may be given.
* `ToolCallStream` takes texts as sequences of tokens and ids as sequences of strings. The provider gives each fragment an index, or none, or does not stream at all. Which calls share a chunk, at which position each comes, how texts are cut and which fragments carry the id is up to it; without an index, calls are numbered in the order in which they begin. `strayed` becomes true with the first fragment that is not `AtPlace`: a call that has begun is looked for at the position of its last fragment, unless another call came there since, and a new call at a new position, or at one whose last call has another id. One bound is in the guard of `Send` (`Brief`): from then on fragments bring all the rest of their call and nothing again, and so do, with an index, fragments at any position of a chunk but the first, since the merger does not look at the position of a fragment that has an index. No proof uses it.
* `ToolLoop` keeps of a call its signature and of a result whether it is the same as another. `Mixed` is the empty result that `_tool_round` records for a signature whose results differ in a round. The pairing of calls and tool messages in the history is kept as a count of open calls and a flag. Calls that are not mappings, the normalisation of ids and `loop_guard=False` are left out.

## Runs

| Run | Question | Bounds, and why they are enough |
|---|---|---|
| `flow_run` | is the interpreter safe, does it keep `RunPromise`, and does every call end? | two host calls, so that leftovers of the first meet the second; `max_steps` 1, 3, 6, 9: the local cap (2) runs out first, the shared budget does, or neither; a graph in which every feature nests in every other |
| `async_flow` | one verdict per run, an unswallowed `CancelledError`, a context that follows the calls; do runs and orphans end? | one host call of up to three visits: task, thread, and an agent in the thread; two attempts per node; one nested call or thread per execution of a body |
| `async_flow_again` | who pays for an orphan, and does a cancel event reach it? | two host calls, with an event or without, so that the second runs next to an orphan of the first; three visits each, two in a nested run: a thread may begin two nodes after the event is set, and may not. One call leaves at most one orphan, for a cancelled task unwinds |
| `async_flow_scope` | *violated*: see Findings | one host call of two visits |
| `tool_executor` | orderly exits with complete results, `ToolBatch` and with it the barriers; does every batch end? | all batches of up to five calls on two threads: more parallel calls than threads next to a barrier, and barriers on either side |
| `async_tool_executor` | the same of tasks, and what may be left running | all batches of up to four calls in chunks of two: a full and a short chunk, a barrier |
| `agent_scopes` | isolation, completeness and order of prompts | two agents, one with instructions; five messages, three runs deep: an agent inside another inside itself, with messages before, between and after, and subscribers that raise |
| `agent_scopes_ambient` | *violated*: see Findings | the same |
| `tool_loop` | pairing of calls and answers, the guard | window of three (the default), messages of up to three calls with two signatures: a signature fills its window by rounds or within one message |
| `event_stream` | numbering, delivery, traces, verdicts, usage, the lock | a thread that drives the flow and two of a pool; two runs, one after or inside the other, each traced or not, of one visit each; three runs and tool calls together, so two tools of a batch tell progress at once; one act, anywhere; a host that listens to everything or nothing. Two runs suffice for a subscriber to be put in front of another and taken away, and for usage before, inside and after a run |
| `tool_call_stream` | are calls put together of their fragments, and answered under their ids? | up to three calls: two that share a chunk and one that comes later or in between; chunks of up to two fragments, of any calls at any position; ids missing, equal, and equal to one that is made up; texts of two tokens, sent in one piece, in pieces, or again |
| `tool_call_stream_nested` | *violated*: see Findings | one call of five tokens, two equal ones among them |

Every counter is finite in the code too (`max_steps`, `max_retries`, `window`, the length of a batch), except those with a bound of their own: `MaxRuns`, `MaxCalls` in `AsyncFlow` (what one execution of a body calls), `MaxMessages`, `MaxDepth`, and in `EventStream` `MaxRuns`, `MaxVisits`, `MaxWork` and `MaxActs`.
In `ToolLoop`, `streak` is an observer's count and is bounded by the guard itself, which `StuckModelStops` shows.
Only `AgentScopes` and `ToolLoop` have no final state; elsewhere the end is a stuttering step (`HostDone`, `Done`, `Stop`, `Answered`) whose guard says that nothing is left, so deadlock is checked in every run.

### Fairness

Liveness assumes that what the operating system and the event loop schedule does run, and that code which is not this package's ends:

* `FlowRun`: weak fairness of the interpreter and of node bodies together. One thread runs both. A body that loops for ever is outside the claim, and so is one that waits for a host that never answers.
* `AsyncFlow`: of the task and of each worker thread. The loop resumes a task whose awaited future is done.
* `ToolExecutor`: of the caller's thread and of the pool. Some thread of the pool takes the next queued call, and tools end.
* `AsyncToolExecutor`: of the executing task, and of the tasks of the calls together.

`EventStream` and `ToolCallStream` state no fairness. That an event is delivered in the end is there a matter of nobody waiting for ever, which is a safety property: `NobodyWaitsForLong`, and the absence of deadlock.

Nothing is assumed of cancel events, of the cancellation of a task, or of the host: they may or may not happen.

## Findings

1. `async_flow_scope`, `ContextGivenBack`. A task is cancelled while a synchronous body in a worker thread runs an agent on the context. The outer agent's run puts the host's scope back; the orphaned thread, when it leaves its own agent's run, puts the outer agent's scope back *after* that (`core/context.py:261-266`). From then on `active_message_scope` is the outer agent's, with no run in progress. `ContextFollowsCalls` is the other side: it holds as long as no thread has been orphaned.
2. `agent_scopes_ambient`, `FullConversation`. The host adds a message outside any scope, one agent starts and adopts it, and the next agent to start is not given it: what another agent has adopted is taken for that agent's own (`agent.py:297-305`). `docs/api.md:233-236` and `CHANGELOG.md:53-55` say of each agent that it adopts what is unscoped, and the method that the model sees the full conversation (`agent.py:290-293`). `MessagesKept` is the other side: while agents run, each ambient message is in the scope of some agent.
3. `tool_call_stream_nested`, `DeltasAdded`. `_merge_fragment` takes a fragment that begins with all that came before for a repetition of it (`llm/client.py:368`). In a standard stream it may be a delta: of the arguments `{"a":{"a":1}}`, sent as `{"a":` and `{"a":1}}`, only `{"a":1}}` is left, which does not parse, and the tool is called without arguments. `Reassembled` is the other side: it holds, repetitions included, as long as no text has its beginning again inside and no fragment strays. `FlatTextsReassembled` proves it for texts whose first token does not come again.

Other things to know, which no run of its own shows:

* Without an index, a fragment that comes where its call is not looked for is not put into its call. With an id that is not that of the position's last call, or at a position that is new, it makes a call of its own (`llm/client.py:309-317`): fragments of a, b and a again, with ids and one to a chunk, become three calls. Without an id it is merged into whatever call came last at its position, or makes a new one (`llm/client.py:323-326`). The code expects this and hopes that providers "usually preserve the ordinal position of each call" (`llm/client.py:299-302`); `Reassembled` is about those that do, and `AnswersNameCalls` about all: the calls that come out, split or mixed as they may be, are answered under ids of their own. A call is never found by its id alone: the lookup (`llm/client.py:318-322`) is reached only at position 0 when nothing is mapped to it, and the first fragment of all has mapped it, so that there is no call yet to be found.
* A subscriber that raises when an agent's instructions are added leaves them in the scope without the marker (`agent.py:315-316`). The agent's next entry adds them again: `HistoryInOrder` excepts the agents in `cut` from having them once, not from having them in front.
* A subscriber that raises on the message an answer adds to the history leaves that answer without usage (`llm/nodes.py:118-125`), although every request is to be accumulated (`README.md:273`): the exception in `UsageOfRun`.
* A cancelled batch leaves the assistant's tool calls in the history without tool messages (`tools/nodes.py:43`): the exception `cut` in `HistoryPaired`.
* A signature called `window` times in one message is warned about by its count alone, though its results differ (`llm/nodes.py:367-371`), and as the result recorded is then empty, the guard does not halt on it (`llm/nodes.py:358`). The class and the warning speak of repetition without a changed result (`llm/nodes.py:276`, `319`). `HaltAfterWarning` says that a halt is about a result that did repeat.

## Proofs

A theorem is about every value of the constants that the named assumptions of its component's module admit (`GraphAssumption`, `NestingAssumption`, `HostAssumption` of `FlowRun`; `AsyncNames` and `AsyncNumbers` of `AsyncFlow`; `LoopAssumption`; `SizeAssumption` and `AsyncSizeAssumption` of the executors; `ThreadAssumption`, `HostAssumption`, `RetainAssumption`, `EventBoundAssumption` of `EventStream`; `AgentAssumption` of `AgentScopes`; `StreamAssumption` of `ToolCallStream`), and assumes nothing else unless it says so. The bounds of the runs are constants, so a theorem holds for any of them.

`FlowRunProofs`. Most actions only edit the innermost frame; `LocalStepLemma` says so once, and that they keep the bindings of the call. The other three push or pop a frame (`PushLemma`, `PopLemma`). Each invariant then needs one case for local steps and one per push or pop.

* `TypeCorrect`: `TypeOK` is inductive.
* `AmbientFollowsStack`: `DynamicScope` is inductive with `TypeOK`. It has to speak of *every* frame, not only of the innermost: what a finally block restores is what the frame saved, so `LeaveNested` is right only if `saved` of each frame is the environment inside the one below it.
* `BudgetHolds`: `BudgetExact` is inductive, `NestingBounded` (which follows, and no run checks on its own) is not. `Paid` is added: a call in progress has paid a visit for every frame but the innermost, and for the innermost while its node is in flight. Depth is then bounded by visits, and visits by the budget.
* `CancellationIsPrompt`: `CancelPrompt` is strengthened to `LateInv`: an event that has governed its late visit is set and no frame is *armed* with it, that is past its check and not yet admitted. A set event arms nobody. No run checks it on its own: `KeepsPromise` says the same of the promise's `late`, which the refinement maps to the counts of `FlowRun`.
* `EventsAreBracketed`: `WellBracketed` and `OneVerdict` together are inductive with `ControlInv`, which says when an exception is in flight at all, that a visit about to start has the position the loop has set, and that no verdict is left over. The edits of the innermost frame fall into five kinds, by what they tell the observer (`Continues`, `Starts`, `Closes`, `Fails`, `Breaks`), and the invariants need one case for each kind instead of one for each action.
* `EveryCallEndsOnce` is the half of it about `OneVerdict`. `CancellationUnwinds` proves the action property `CancelUnwinds`: with these invariants, an exception "cancelled" is in flight only where no action that visits, nests or retries is enabled.
* `FlowKeepsPromise`: every step is a step of `RunPromise` or a stutter under the mapping. It needs the invariants above for `Visit` and `HonestInv` for `Finish`: an exception "exhausted" that propagates means an empty budget, "cancelled" means an event was set.

`AsyncFlowProofs`. The inductive invariant of the control is `TypeOK /\ StackInv /\ WaitInv /\ ExcInv`: only the innermost call of a line is not "calling", only the task waits and exactly while a thread is awaited, which has the task's ContextVars, and an exception is in flight only at a body's raise or a run's end. Steps that edit the innermost call of one line are treated at once (`Local`, `LocalKeeps`); `Host`, `Nest`, `LeaveNested`, `Offload`, `Join` and the ends of a line have a lemma each that says what becomes of the stacks (`NestShape`, `JoinShape` and so on).

* `AsyncFlowTypeCorrect`: `TypeOK`.
* `OwnBudgets` (`BudgetOfOwnCall`): the property tells whose visit it is by the frames, in which each call hands on the host's call it is made for (`CallOf`), and the code by the ContextVars a thread was given, `of`. `CallInv` says that the two agree for every frame of every line, orphans included, also while the host calls again; a `Join`, a `Host` or an `Offload` that left a line with another's ContextVars would break it. From it follows that what is left of a call's budget and what was visited for the call make up its `max_steps` (`PaidInv`).
* `CancelIsPromptEverywhere` (`CancelReachesThreads`): likewise, `late` counts by the frames (`Overdue`) and the check reads the ContextVars (`Governed`). With `CallInv` it is as in `FlowRun`: a line that has used up its late visit is not past the check of a set event (`LateInv`).
* `EveryRunEndsOnce` (`OneVerdictEach`): the number of runs of a line that owe a verdict is written as arithmetic on the depth of its stack (`OwedInv`), which each push and pop keeps; `CountedOnce` then shows that it is the cardinality the property speaks of.
* `CancellationReachesHost` proves the action property `CancelledTaskUnwinds` step by step from the invariant of the control: with an exception in flight the task is at a body's raise or a run's end, where a `CancelledError` only goes on.
* `ContextKept` (`ContextFollowsCalls`): until a thread is orphaned the calls of the task and of the thread it waits for are one chain, each of which saved what the context had inside the one before it, and the context is what the last of them installed (`ContextInv`). As in `AmbientFollowsStack`, this has to be said of every call. `ScopeOfChain` shows, by induction over the depth, that the scope inside such a chain is that of its innermost agent. Finding 1 is what happens without the condition: an orphan's chain is no longer part of the task's.

`ToolLoopProofs`. `HistoryPaired`, `NoToolsAfterHalt`, `StuckModelStops` and `HaltAfterWarning` follow from one inductive invariant, `IInv`. The interesting part relates the observer's `streak` to the guard's memory: the window shows a streak as far back as it reaches (`WindowShows`), a streak as long as the window has been warned about (`LongIsWarned`), and a warning is about the round just before (`WarningIsFresh`). `Stripped` and `Settled` say that a reply of a turn without tools is stripped before it is routed, and that no call is open between turns unless one was cut off.

`ToolExecutorProofs`. `TypeCorrect`, `BatchEndsCleanly` (`EndsCleanly`) and `ExecutorKeepsBatch` (`KeepsBatch`, the refinement of `ToolBatch`). The invariant, `BatchInv`, says that the batch is always a matter of two prefixes: the first calls up to some `s` have started and the next wait in the pool's queue (`Started`), the first up to some `j` have their results stored and the next are waited for (`Stored`), with what has been handed over determined by the caller's place. The refinement then maps each step to a step of `ToolBatch` or a stutter. `Leave` filters the queue; the module defines the filter as a recursive function (`KeptUpTo`), and what it keeps is proved by induction over the length.

The library's induction theorems take an operator as a parameter and cannot be used. `SetInduction` is in their place: a set of numbers that has 0 and with each number the next has them all, which follows from `WFMin` (a non-empty set of naturals has a least element), a theorem without such a parameter. The recursive function is taken apart as the value of a `CHOOSE` that some function satisfies.

`AsyncToolExecutorProofs`. `AsyncTypeCorrect`, `LittleIsLeft` (`Leftovers`) and `AsyncExecutorKeepsBatch` (`AsyncKeepsBatch`), along the same lines. Here one position says it: the first `j` calls have ended and are stored, the next `w` are the chunk that is gathered or the call that is awaited, and no other has been touched (`InOrder`, `Position`). `TaskInv` says which functions may still run: those of tasks that run, or that were told to stop.

`EventStreamProofs`. The inductive invariant is `TypeOK /\ CallInv /\ TodoInv`.

* `StreamTypeCorrect`: `TypeOK` includes what is easy to get wrong about `on_event`: that it is at any time the host's subscriber followed by those of the traced runs in progress, and that each run remembers the chain as it was before it. Entering and leaving a run need that of *all* runs in progress, for leaving restores what the run remembered.
* `LockIsBrief`: `CallInv` says that who numbers an event holds the lock, that nobody else does, that the number it has read is still the current one, and that only the innermost call of a thread has yet to number its event. So `sequence` is the number of events made, although reading and writing it are two steps, and the lock's holder is about to release it.
* `EventsAreOrdered`: `OrderedBySeq`. That numbers grow follows from `CallInv`. That a tool call's announcement precedes its progress, and progress its result, is a matter of four actors: what the flow has yet to tell (`todo`), the queue, the threads of the tools, and the calls of `emit` under way. `LifeInv` says of each tool call where it is in its life: while its announcement or its submission is still to come it has no thread and has reported nothing; while it waits for a thread or has one, its result is not told, is not about to be told, and comes after the join, for which the call is still open. It needs `Shape`, that what a node has left to tell of calls is in the right order, which is shown of `ToolBody` for batches of any size and kept by telling the first thing of it (`TailTold`).
* `HostIsTold`: `HostHearsAll`. The host is the first of every chain of subscribers that a call of `emit` takes with it (`CallInv`, and the theorem about `TypeOK` for the chains), so a call that is past its first subscriber has told the host and one that is not has not: `Reaches`. `Accounted` says that an event made is in delivery, was raised upon, was heard by the host or is a payload, which is only for observers (`context.py:173-196`). That nothing is heard twice (`HeardOnce`) follows, for a number is delivered by one call. The order needs `Nested`: the calls of `emit` in progress in one thread lie inside one another, and whatever the thread made since one of them began is inside it, so when the host hears an event after a later one of the same thread, the later one was made inside the delivery of the event (`LastHeard`).
* `RunsTellTheirVerdict`: `VerdictUnlessRaised`. `Course` says where a run is between its end and its verdict: over and cut off by a subscriber, or with the verdict as the last thing it has to tell, about to tell it, or told, and never two of these. For a nested run this has to survive that of the run inside it (`RunsInTurn`: only the innermost run may be over), and an exception that passes through: what a subscriber raises inside the interpreter's own events cuts the run off, and one inside a node's body makes it fail, which is possible only before the verdict is told (`FlowOK`). That the events retained are in order (`Retained`) makes what comes after the verdict in `events` also made after it.
* `UsageIsOfTheRun`: `UsageOfRun`. What a run says it used is a difference of counters that nested and earlier runs change too, so the invariant (`UsageInv`) speaks of every run in progress: what was reported since it began is what the counters have gained since (`Tallied`, `Counts`), but for the one answer that was given and is not recorded yet (`Owing`). An answer of an inner run counts for all those around it. Between an answer and its record only the message is told (`Shaped`, `TellingOK`): so an exception in between is one raised on a message, which spoils the runs it is of (`Spoiled`), and whatever else ends a run does so when nothing is owed.
* `TracesAreOfTheRun`: `TraceOfRun`. Three invariants, one on the other. `BatchInv` says whose work a tool in a thread does: that of all runs in progress, for a call the batch still has open, or it was left behind by runs that are about to fail, or have (`WorkerOK`); and a batch is joined before its node tells anything else (`Batches`, `Joining`). So a run that ends by itself has no tool at work. `CollectInv` says where each event is on its way: an event of a run that collects is in delivery, was raised upon, is a payload, or the run has it (`EventOK`); a call of `emit` has each collecting run of its event still before it, or behind it, once (`Collects`), because the chain of subscribers links each traced run in progress, once (`ChainLinked`); and a trace has nothing twice, and of the flow's own events those of its run (`TraceOK`). `LeftTraced` is the property itself with what keeps it true afterwards: whatever is made once a run has ended is not of it. What `Flow.run` selects of a trace is a recursive function (`Selected`), taken apart as `KeptUpTo` is; `SelectedIs` says that it keeps each included event, once.

`AgentScopesProofs`. An entry point of an agent changes the context in up to three ways, one after the other: a turn is added, the instructions are, and the ambient messages are adopted. `Sound` says of a context, between any two of them, what the properties need: positions in a scope are of messages (`Sorted`), no message is in two scopes (`Apart`), a scope has all that was written for its agent and else only adopted messages (`Owned`), an agent's own messages and the adopted ones are each in order (`Ordered`), and instructions are at the front of their agent's scope and, but for agents in `cut`, nowhere else (`InFront`, `MarkedOnce`). Adoption is where this could go wrong, for what it appends is older than what may be there: `AmbientLast` says that a message nobody has adopted is newer than all an agent has adopted. `TurnAdded`, `Prepared` and `Adopted` keep all of it, and only append (`Continues`), whatever the order in which the entry points use them.

The adoption loop is a recursive function over the messages. As `KeptUpTo` is in `ToolExecutorProofs`, it is taken apart as the value of a `CHOOSE` (`Passes`), and what it returns is shown by induction (`Filtered`): the messages that are neither known nor foreign, each once and in their order.

* `ScopesTypeCorrect`: `TypeOK`; `AgentsAreIsolated`: `PromptIsolated`; `NoMessageIsLost`: `MessagesKept`; `HistoriesAreInOrder`: `HistoryInOrder`. Beside `Sound` they need that the active scope is that of the innermost run and that each run remembers the one below (`Returns`), that an agent that may write has its instructions (`AllReady`), and that while an agent runs no message is without a scope (`AllHeld`).
* An entry that a subscriber cuts short leaves the context between two of its steps: `InstructedSound` shows that adding the instructions keeps `Sorted`, before the marker says so, and `CutShortSound` that with `cut` it keeps `Sound`. That is why `MarkedOnce` ties a scope that is not empty to the marker *or* to `cut`.
* `PromptsOnlyGrow`: `PromptsGrow`, an action property, from `Continues`.

`ToolCallStreamProofs`. The invariant has a part for each stage a call goes through: what the provider has sent of it (`Asked`, `Progress`, `Chunk`), what the merger has (`Slots`, `Filled`, and as long as nothing strayed `Merged`), the items added to the history (`ItemInv`), and the answers (`AnswerInv`).

That a fragment lands in the slot of its call (`SlotIsOwn`) needs nothing with an index. Without one it is a matter of where the call is looked for: as long as nothing strayed, each position has the slot of the call that came last at it, and the first of all fragments came at position 0 (`Placed`); a call that begins is the next one (`InTurn`, `CallIsNext`), and so is the slot it is given. `FragmentMerged` then says what merging does with a fragment that goes on where the call is, or repeats it from its beginning: after either the slot has the text as far as the fragment goes. Of a fragment that strays only this is left: its slot is one there is or the next one (`SlotIsThere`), so the slots stay without gaps (`Filled`) and each becomes one item.

An id made up by `_unique_tool_call_id` is new by the pigeonhole principle (`UniqueIdIsNew`): there is one candidate more than there are ids taken, and all differ in length (`CandidateLengths`).

* `EveryCallIsNamed`: `AnswersNameCalls`, for any ids, any texts and any order of fragments. A call is answered under the id its item has, no two under one, and if the provider's ids are distinct and nothing strayed they are kept.
* `FlatTextsReassembled`: `Reassembled`, under the hypothesis `FlatTexts`: no text has its first token again later on. Without a hypothesis it is false: finding 3. The hypothesis is about what the model may write; about how it is sent, the property itself says `~strayed`. Repetitions are included.

Every invariant, action property and refinement that a run finds to hold is stated by a theorem (`Reassembled` under a hypothesis). Only model-checked is liveness (`Terminates`, `AsyncTerminates`, `AsyncRunsEnd`), which is beyond the prover.

## Not modelled

* In `EventStream`: an asynchronous model that runs on in a thread after its run is gone, the events of router and guard (which tell as a model node does), retries (in `FlowRun`), and `on_event` replaced by the host in the middle of a run.
* In `ToolCallStream`: the type and the name of a call (merged as its arguments are), text deltas, and items of `tool_calls` that are no mappings.
* Several tasks or pool threads that run flows at once on one `RunContext`: excluded by the design (`docs/agent-core.md:103`). On contexts of their own they would share budget and cancel event; `_StepBudget.consume` is under a lock and is one step in `AsyncFlow`.
* A body that catches `CancelledError` itself; the package has none (`tools/executor.py:235` re-raises it).
* The HTTP client, JSON schemas of tools, conversion of arguments, trace printing, the command line's reading and printing: I/O and pure data conversion.

## Plan

1. Done: `RunPromise`, `FlowRun` with its proofs; `ToolBatch`, `ToolExecutor`, `AsyncToolExecutor`; `AgentScopes`; `ToolLoop` with its proofs; `AsyncFlow`; `RunUsage`, `EventStream`; `ToolCallStream`.
2. Done: proofs about `FlowRun`, `AsyncFlow`, `ToolLoop`, both executors, `AgentScopes`, `ToolCallStream`, and of `EventStream` its types, the lock, the order of events, their delivery to the host, and the verdicts, the usage and the traces of runs.
