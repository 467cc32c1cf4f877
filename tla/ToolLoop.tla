------------------------------- MODULE ToolLoop -------------------------------
(***************************************************************************)
(* The standard chat loop of an Agent (llm/nodes.py, tools/nodes.py):      *)
(*                                                                         *)
(*   ModelNode -> ToolRouterNode -> ToolCallNode -> ToolLoopGuardNode -+   *)
(*       ^             | final                                         |   *)
(*       |             v                    continue, warn, halt       |   *)
(*       +-------------------------------------------------------------+   *)
(*                                                                         *)
(* turn after turn on one context.  A call is its signature (tool and      *)
(* arguments), a result its outcome (content and is_error); ids pair them  *)
(* and are not modelled.  Of the history the model keeps what a provider   *)
(* demands of it: that the calls of an assistant message are answered by   *)
(* the tool messages right after it.  A node may raise, and the flow may   *)
(* end at a node boundary, at any moment (FlowRun, ToolExecutor).          *)
(***************************************************************************)
EXTENDS Integers, Sequences, FiniteSets

CONSTANTS Signatures,   \* calls the model makes
          Outcomes,     \* results the tools give
          Mixed,        \* "": a signature that had several results in a round
          MaxCalls,     \* bound: calls of one assistant message
          Window        \* ToolLoopGuardNode.window

ASSUME LoopAssumption ==
  /\ Mixed \notin Outcomes
  /\ MaxCalls \in Nat
  /\ Window \in Nat /\ Window >= 2

VARIABLES
  pc,        \* the node that runs next, "idle" between turns
  calls,     \* tool_calls of state[assistant_key]
  outcomes,  \* state[results_key]
  enabled,   \* state[TOOLS_ENABLED]
  rounds,    \* state[LOOP_GUARD]["rounds"]
  warned,    \* state[LOOP_GUARD]["warned"]
  action,    \* what the guard decided last in this turn
  history,   \* the agent's message scope
  cut,       \* observer: a turn has ended before its calls were answered
  streak     \* observer: for how many rounds up to the last one each
             \* signature has had one and the same result

vars == <<pc, calls, outcomes, enabled, rounds, warned, action, history, cut,
          streak>>

payload == <<calls, outcomes, enabled, rounds, warned, action>>

Replies == UNION {[1..n -> Signatures] : n \in 0..MaxCalls}

\* What a round, and a warning, says of the signatures in it.
Results == UNION {[S -> Outcomes \cup {Mixed}] : S \in SUBSET Signatures}

NoResults == [s \in {} |-> Mixed]

-----------------------------------------------------------------------------
(* RunContext.add_message: "open" calls of the last assistant message have *)
(* no tool message yet, and a history is "broken" once another message     *)
(* follows them.                                                           *)

Said(h, n) == [open |-> n, broken |-> h.broken \/ h.open > 0]

\* Mutant: a tool message per outcome, as if equal ones were one message.
MergedAnswers(h, rs) ==
  [h EXCEPT !.open = @ - Cardinality({rs[i] : i \in DOMAIN rs})]

Answers(h, rs) == [h EXCEPT !.open = @ - Len(rs)]

-----------------------------------------------------------------------------
Init ==
  /\ pc = "idle"
  /\ calls = <<>> /\ outcomes = <<>>
  /\ enabled = TRUE
  /\ rounds = <<>> /\ warned = NoResults
  /\ action = "none"
  /\ history = [open |-> 0, broken |-> FALSE]
  /\ cut = FALSE
  /\ streak = [s \in Signatures |-> 0]

\* Agent.chat: the user's message, and a new payload.  The caller may put
\* TOOLS_ENABLED in it.
Chat(tools) ==
  /\ pc = "idle"
  /\ pc' = "model"
  /\ history' = Said(history, 0)
  /\ enabled' = tools
  /\ calls' = <<>> /\ outcomes' = <<>>
  /\ rounds' = <<>> /\ warned' = NoResults
  /\ action' = "none"
  /\ streak' = [s \in Signatures |-> 0]
  /\ UNCHANGED cut

\* Mutant: the reply's calls are kept although tools are disabled.
KeptCalls(reply) == reply

\* ModelNode drops the calls of a model that was not to call any.
AllowedCalls(reply) == IF enabled THEN reply ELSE <<>>

\* The model answers, with tool calls or without.
Model(reply) ==
  /\ pc = "model"
  /\ calls' = AllowedCalls(reply)
  /\ history' = Said(history, Len(AllowedCalls(reply)))
  /\ pc' = "router"
  /\ UNCHANGED <<outcomes, enabled, rounds, warned, action, cut, streak>>

\* ToolRouterNode: "tool_call", or "final" and the end of the turn.
Route ==
  /\ pc = "router"
  /\ pc' = IF calls # <<>> THEN "tools" ELSE "idle"
  /\ UNCHANGED <<payload, history, cut, streak>>

\* ToolCallNode: the batch is executed, then all the messages are added.
CallTools(rs) ==
  /\ pc = "tools"
  /\ outcomes' = rs
  /\ history' = Answers(history, rs)
  /\ pc' = "guard"
  /\ UNCHANGED <<calls, enabled, rounds, warned, action, cut, streak>>

-----------------------------------------------------------------------------
(* ToolLoopGuardNode.                                                      *)

Made == {calls[i] : i \in DOMAIN calls}

Count(s) == Cardinality({i \in DOMAIN calls : calls[i] = s})

Had(s) == {outcomes[i] : i \in {j \in DOMAIN calls : calls[j] = s}}

\* _tool_round
Current ==
  [s \in Made |-> IF Cardinality(Had(s)) = 1 THEN CHOOSE o \in Had(s) : TRUE
                                             ELSE Mixed]

\* Mutant: one round too many is kept.
WiderWindow(seq) ==
  IF Len(seq) <= Window + 1 THEN seq ELSE SubSeq(seq, Len(seq) - Window, Len(seq))

Last(seq) ==
  IF Len(seq) <= Window THEN seq
                        ELSE SubSeq(seq, Len(seq) - Window + 1, Len(seq))

Rounds == Last(Append(rounds, Current))

\* A signature has the result again that it was warned about.
Repeated ==
  \E s \in Made : /\ Current[s] # Mixed
                  /\ s \in DOMAIN warned /\ warned[s] = Current[s]

\* Mutant: a window is not full before there is one round more.
LateWindow == Window + 1

FullWindow == Window

\* A signature had the same result in every round of the window.
Unchanged(s) ==
  /\ Len(Rounds) = FullWindow
  /\ Current[s] # Mixed
  /\ \A k \in DOMAIN Rounds : s \in DOMAIN Rounds[k] /\ Rounds[k][s] = Current[s]

Stalled == {s \in Made : Count(s) >= Window \/ Unchanged(s)}

\* Mutant: warnings are not forgotten when the model makes progress.
StillWarned == warned

Forgotten == NoResults

NextStreak ==
  [s \in Signatures |->
     IF s \notin Made \/ Current[s] = Mixed THEN 0
     ELSE IF rounds # <<>> /\ s \in DOMAIN rounds[Len(rounds)]
               /\ rounds[Len(rounds)][s] = Current[s]
          THEN streak[s] + 1
          ELSE 1]

Halt ==
  /\ Repeated
  /\ action' = "halt"
  /\ enabled' = FALSE
  /\ history' = Said(history, 0)
  /\ UNCHANGED warned

Warn ==
  /\ ~Repeated /\ Stalled # {}
  /\ action' = "warn"
  /\ history' = Said(history, 0)
  /\ warned' = [s \in Stalled |-> Current[s]]
  /\ UNCHANGED enabled

Continue ==
  /\ ~Repeated /\ Stalled = {}
  /\ action' = "continue"
  /\ warned' = Forgotten
  /\ UNCHANGED <<enabled, history>>

Guard ==
  /\ pc = "guard"
  /\ Halt \/ Warn \/ Continue
  /\ rounds' = Rounds
  /\ streak' = NextStreak
  /\ pc' = "model"
  /\ UNCHANGED <<calls, outcomes, cut>>

\* An exception of a node, of the interpreter or of the executor ends the
\* turn; messages already added stay.
Raise ==
  /\ pc # "idle"
  /\ pc' = "idle"
  /\ cut' = (cut \/ history.open > 0)
  /\ UNCHANGED <<payload, history, streak>>

Next ==
  \/ \E tools \in BOOLEAN : Chat(tools)
  \/ \E reply \in Replies : Model(reply)
  \/ Route
  \/ \E rs \in [DOMAIN calls -> Outcomes] : CallTools(rs)
  \/ Guard
  \/ Raise

Spec == Init /\ [][Next]_vars

-----------------------------------------------------------------------------
TypeOK ==
  /\ pc \in {"idle", "model", "router", "tools", "guard"}
  /\ calls \in Replies
  /\ outcomes \in UNION {[1..n -> Outcomes] : n \in 0..MaxCalls}
  /\ pc = "guard" => Len(outcomes) = Len(calls)
  /\ enabled \in BOOLEAN
  /\ rounds \in Seq(Results) /\ Len(rounds) <= Window
  /\ warned \in Results
  /\ action \in {"none", "continue", "warn", "halt"}
  /\ history \in [open : 0..MaxCalls, broken : BOOLEAN]
  /\ cut \in BOOLEAN
  /\ streak \in [Signatures -> Nat]

\* A model is never sent a history in which a call has no tool message, or
\* tool messages are not next to their call - unless a turn was cut off
\* between the two; nor is a reply routed with any call left open
\* (tools/nodes.py:133-140, llm/nodes.py:105-118, 392-398).
HistoryPaired ==
  /\ ~cut => ~history.broken
  /\ pc \in {"guard", "model"} => history.open = 0
  /\ pc \in {"router", "tools"} => history.open = Len(calls)

\* Once the guard has halted, or the caller has disabled tools, no tool is
\* executed until the next turn, whatever the model answers
\* (llm/nodes.py:105-107, 325-326).
NoToolsAfterHalt == ~enabled => pc \in {"idle", "model", "router"}

\* A model that keeps making a call with the same result, among whatever
\* other calls, is stopped in the round after its warning (llm/nodes.py:337-390).
StuckModelStops ==
  \A s \in Signatures :
    /\ streak[s] <= Window + 1
    /\ streak[s] > Window => ~enabled

\* The guard halts in the round after a warning, only if it repeats what was
\* warned about (llm/nodes.py:357-365, 381-389).
HaltAfterWarning ==
  [][pc = "guard" /\ action' = "halt" =>
       action = "warn" /\ \E s \in Signatures : streak'[s] >= 2]_vars
=============================================================================
