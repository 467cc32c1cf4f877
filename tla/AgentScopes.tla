----------------------------- MODULE AgentScopes -----------------------------
(***************************************************************************)
(* Message scopes (agent.py, core/context.py, llm/nodes.py): the agents    *)
(* that share one RunContext, what each writes to its message scope, what  *)
(* it adopts of the unscoped ("ambient") messages when a run starts, and   *)
(* the prompt its model nodes read.                                        *)
(*                                                                         *)
(* A message is its position in context.messages; of its content only the  *)
(* agent it was written for and whether it is the agent's instructions are *)
(* kept.  One thread drives the context (docs/agent-core.md:103): agents   *)
(* nest as calls do, and a node or tool body may add messages and start    *)
(* further runs at any moment.  How a run ends, by return or exception,    *)
(* makes no difference to the scopes.  A subscriber of the context may     *)
(* raise at each message that is added; an interrupt inside one of these   *)
(* methods, between two of its statements, is not modelled.                *)
(***************************************************************************)
EXTENDS Integers, Sequences, FiniteSets

CONSTANTS Agents,        \* the agents that use the context
          Instructed,    \* those with instructions
          None,          \* no scope
          MaxMessages,   \* bound: messages of the context
          MaxDepth       \* bound: agent runs in progress

ASSUME AgentAssumption == Instructed \subseteq Agents /\ None \notin Agents

VARIABLES
  home,       \* the scope the context was created with
  messages,   \* context.messages: whom each was written for, and as what
  scopes,     \* context.message_scopes
  active,     \* context.active_message_scope
  marked,     \* agents whose instruction marker is in context.metadata
  cut,        \* observer: agents whose instructions a subscriber raised at
  stack,      \* agent runs in progress: the agent, and the scope to restore
  prompt      \* the last messages a model node sent, and for whom

vars == <<home, messages, scopes, active, marked, cut, stack, prompt>>

Scopes == Agents \cup {None}

Message == [by : Scopes, role : {"system", "turn"}]

\* Whom the code now running works for.
Author == IF stack = <<>> THEN home ELSE stack[Len(stack)].agent

-----------------------------------------------------------------------------
(* RunContext.add_message and get_messages.  A context is the record of    *)
(* its messages, its scopes and the markers of its metadata (and of cut).  *)

\* Mutant: the identity of a message is the one before it.
LastMessage(c) == Len(c.messages)

NewMessage(c) == Len(c.messages) + 1

AddTo(c, scope, by, role) ==
  [c EXCEPT !.messages = Append(@, [by |-> by, role |-> role]),
            !.scopes = [s \in Agents |->
                          IF s = scope THEN Append(@[s], NewMessage(c)) ELSE @[s]]]

Room(c) == Len(c.messages) <= MaxMessages

Context == [messages |-> messages, scopes |-> scopes, marked |-> marked, cut |-> cut]

GetMessages(c, scope) ==
  IF scope = None THEN [k \in 1..Len(c.messages) |-> k] ELSE c.scopes[scope]

-----------------------------------------------------------------------------
(* Agent._prepare_context and Agent._adopt_global_messages.                *)

\* Mutant: the marker is not left in the metadata.
Unmarked(c, a) == c

Marked(c, a) == [c EXCEPT !.marked = @ \cup {a}]

\* Whether the agent has to add its instructions, and how it does.
Unprepared(c, a) == a \in Instructed /\ a \notin c.marked

Instruct(c, a) == AddTo(c, a, a, "system")

Prepared(c, a) == IF Unprepared(c, a) THEN Marked(Instruct(c, a), a) ELSE c

\* add_message has added the instructions and a subscriber raises: the line
\* that sets the marker is not reached.
CutShort(c, a) == [Instruct(c, a) EXCEPT !.cut = @ \cup {a}]

Holds(c, a) == {c.scopes[a][n] : n \in DOMAIN c.scopes[a]}

\* Mutant: what the scope holds already is adopted again.
NoneKnown(c, a) == {}

Known(c, a) == Holds(c, a)

\* Mutant: what others hold is not left out.
NoneForeign(c, a) == {}

Foreign(c, a) == UNION {Holds(c, b) : b \in Agents \ {a}}

\* Those of the first n messages that are in no scope, in their order.
Adoptable(c, a) ==
  LET UpTo[n \in 0..Len(c.messages)] ==
        IF n = 0 THEN <<>>
        ELSE IF n \in Known(c, a) \cup Foreign(c, a) THEN UpTo[n - 1]
        ELSE Append(UpTo[n - 1], n)
  IN  UpTo[Len(c.messages)]

\* Mutant: a scope that has messages adopts none.
AdoptOnce(c, a) == IF c.scopes[a] = <<>> THEN Adoptable(c, a) ELSE <<>>

\* Mutant: the ambient messages go before what the scope holds.
AdoptInFront(c, a) == [c EXCEPT !.scopes[a] = Adoptable(c, a) \o @]

ToAdopt(c, a) == Adoptable(c, a)

Adopted(c, a) == [c EXCEPT !.scopes[a] = @ \o ToAdopt(c, a)]

-----------------------------------------------------------------------------
Become(c) ==
  /\ Room(c)
  /\ messages' = c.messages
  /\ scopes' = c.scopes
  /\ marked' = c.marked
  /\ cut' = c.cut

Empty ==
  [messages |-> <<>>, scopes |-> [a \in Agents |-> <<>>], marked |-> {}, cut |-> {}]

\* RunContext(), or the new_context() of an agent.
Init ==
  /\ home \in Scopes
  /\ active = home
  /\ \E c \in {IF home = None THEN Empty ELSE Prepared(Empty, home)} :
       messages = c.messages /\ scopes = c.scopes /\ marked = c.marked /\ cut = c.cut
  /\ stack = <<>>
  /\ prompt = [for |-> None, sent |-> <<>>]

\* context.add_message without a scope: by the host between runs, and by
\* model nodes, tool nodes, tools and other bodies in a run.
AddMessage ==
  /\ Become(AddTo(Context, active, Author, "turn"))
  /\ UNCHANGED <<home, active, stack, prompt>>

\* ModelNode._messages: history that comes in the payload is imported if the
\* scope is empty, and the scope is the prompt.
AskModel(seeded) ==
  LET c == IF GetMessages(Context, active) = <<>> /\ seeded
           THEN AddTo(Context, active, Author, "turn")
           ELSE Context
  IN /\ Become(c)
     /\ prompt' = [for |-> Author, sent |-> GetMessages(c, active)]
     /\ UNCHANGED <<home, active, stack>>

\* use_message_scope, and what follows in it.
Enter(c, a) ==
  /\ Len(stack) < MaxDepth
  /\ Become(Adopted(c, a))
  /\ stack' = Append(stack, [agent |-> a, previous |-> active])
  /\ active' = a
  /\ UNCHANGED <<home, prompt>>

\* Agent.run and Agent.exec, by the host, a node or a tool.
Run(a) == Enter(Prepared(Context, a), a)

\* Agent.chat adds the user's message before it calls run.
Chat(a) == Enter(Prepared(AddTo(Prepared(Context, a), a, a, "turn"), a), a)

\* A subscriber raises at the instructions, or at the user's message of chat,
\* and no run is entered.
PrepareRaises(a) ==
  /\ Unprepared(Context, a)
  /\ Become(CutShort(Context, a))
  /\ UNCHANGED <<home, active, stack, prompt>>

ChatRaises(a) ==
  /\ Become(AddTo(Prepared(Context, a), a, a, "turn"))
  /\ UNCHANGED <<home, active, stack, prompt>>

\* Mutant: the scope is not restored.
Unrestored == active

Restored == stack[Len(stack)].previous

\* The innermost run returns or raises.
Leave ==
  /\ stack # <<>>
  /\ active' = Restored
  /\ stack' = SubSeq(stack, 1, Len(stack) - 1)
  /\ UNCHANGED <<home, messages, scopes, marked, cut, prompt>>

Next ==
  \/ AddMessage
  \/ \E seeded \in BOOLEAN : AskModel(seeded)
  \/ \E a \in Agents : Run(a)
  \/ \E a \in Agents : Chat(a)
  \/ \E a \in Agents : PrepareRaises(a)
  \/ \E a \in Agents : ChatRaises(a)
  \/ Leave

Spec == Init /\ [][Next]_vars

-----------------------------------------------------------------------------
Ids == 1..Len(messages)

TypeOK ==
  /\ home \in Scopes /\ active \in Scopes
  /\ messages \in Seq(Message)
  /\ scopes \in [Agents -> Seq(Ids)]
  /\ marked \subseteq Instructed /\ cut \subseteq Instructed
  /\ stack \in Seq([agent : Agents, previous : Scopes])
  /\ prompt.for \in Scopes /\ prompt.sent \in Seq(Ids)

\* What an agent's model is sent was written for that agent, or for none:
\* nothing of another agent's prompt or history leaks into it, however the
\* runs nest and end (README.md:287, agent.py:286-307, context.py:258-266).
PromptIsolated ==
  prompt.for # None =>
    \A n \in DOMAIN prompt.sent :
      messages[prompt.sent[n]].by \in {prompt.for, None}

\* No message is lost, doubled or put where it does not belong, however often
\* and in whatever order agents start: a scope holds a message once, one
\* written for an agent is in no other's scope, and while agents run each
\* ambient message is in the scope of some agent (agent.py:295-307).
MessagesKept ==
  /\ \A a \in Agents : \A m, n \in DOMAIN scopes[a] : scopes[a][m] = scopes[a][n] => m = n
  /\ \A a, b \in Agents : \A k \in Holds(Context, a) : messages[k].by = b => a = b
  /\ stack # <<>> =>
       \A k \in Ids : messages[k].by = None => \E a \in Agents : k \in Holds(Context, a)

\* The model of the agent that runs sees the full conversation: all that was
\* added outside any scope before it started (docs/api.md:233-236,
\* agent.py:286-293).  The code gives it to the first agent that starts, and
\* to the next one no more.
FullConversation ==
  stack # <<>> => \A k \in Ids : messages[k].by = None => k \in Holds(Context, Author)

\* What is in a scope and was written for an author is in the order written.
InOrder(a, by) ==
  \A m, n \in DOMAIN scopes[a] :
    m < n /\ messages[scopes[a][m]].by = by /\ messages[scopes[a][n]].by = by
      => scopes[a][m] < scopes[a][n]

\* Where the instructions of an agent stand in its scope.
Instructions(a) ==
  {n \in DOMAIN scopes[a] : messages[scopes[a][n]].role = "system"}

\* A scope has every message written for its agent, in the order written, and
\* what it adopted is in the order written too, although an agent is entered,
\* left and entered again while others write (context.py:235-239).  Its
\* instructions are in front of all the agent has read or written, whichever
\* of new_context, chat, run and exec came first, and are there once, unless
\* a subscriber raised while they were added (agent.py:309-317).
HistoryInOrder ==
  \A a \in Agents :
    /\ \A k \in Ids : messages[k].by = a => k \in Holds(Context, a)
    /\ InOrder(a, a) /\ InOrder(a, None)
    /\ a \in Instructed /\ scopes[a] # <<>> => 1 \in Instructions(a)
    /\ a \notin cut => Instructions(a) \subseteq {1}
    /\ a \notin Instructed => Instructions(a) = {}

Extends(t, s) == Len(s) <= Len(t) /\ \A n \in DOMAIN s : t[n] = s[n]

\* A prompt is extended at its end and nowhere else, one agent's at a time,
\* and a message is never taken out or moved (agent.py:303-307).
PromptsGrow ==
  [][/\ \A a \in Agents : Extends(scopes'[a], scopes[a])
     /\ \A a, b \in Agents : scopes'[a] # scopes[a] /\ scopes'[b] # scopes[b] => a = b]_vars
=============================================================================
