--------------------------- MODULE AsyncFlowProofs ---------------------------
(***************************************************************************)
(* Theorems about AsyncFlow, for any number of threads, agents, calls of   *)
(* the host and sizes of budgets and bodies.                               *)
(***************************************************************************)
EXTENDS AsyncFlow, FiniteSetTheorems, SequenceTheorems, WellFoundedInduction, TLAPS

-----------------------------------------------------------------------------
(* The invariant.                                                          *)

\* Where a thread's function may be: it is no run.
FunctionPCs == {"exec", "calling", "returned", "raised"}

\* Only the innermost call of a line does something, the others wait for it.
StackInv ==
  \A l \in Lines : stacks[l] # <<>> =>
    /\ \A d \in 1..Depth(l) - 1 : stacks[l][d].pc = "calling"
    /\ Top(l).pc # "calling"
    /\ l # Task => stacks[l][1].pc \in FunctionPCs /\ stacks[l][1].agent = NoAgent
    /\ of[l] \in 1..Len(book)

\* The task waits for a thread that runs a function on the task's ContextVars;
\* other threads run only if the task was cancelled while it waited.
WaitInv ==
  /\ \A l \in Lines : At(l, "waiting") => l = Task
  /\ awaited # NoThread <=> At(Task, "waiting")
  /\ awaited # NoThread => stacks[awaited] # <<>> /\ of[awaited] = of[Task]
  /\ stacks[Task] # <<>> => of[Task] = Len(book)
  /\ ~orphaned => \A t \in Threads : t # awaited => stacks[t] = <<>>

\* An exception propagates only out of a body and out of a run.
ExcInv == \A l \in Lines : exc[l] # "none" => At(l, "raised") \/ At(l, "leave")

\* A line has the ContextVars of the host's call that brought it where it is.
CallInv == \A l \in Lines : \A d \in 1..Depth(l) : stacks[l][d].call = of[l]

\* What is left of a budget and what was visited make up what the host gave.
PaidInv == \A r \in DOMAIN book : book[r].visits + book[r].remaining = book[r].limit

\* A line whose set event has governed a visit is at no other one's door, and
\* one whose event is not set has no such visit.
LateInv ==
  \A l \in Lines :
    /\ late[l] <= 1
    /\ late[l] = 1 => isSet /\ (At(l, "admit") => ~Governed(l))

\* What the RunContext has inside the d-th call of a line.
Within(f, l, d) ==
  [scope   |-> IF f.agent = NoAgent THEN f.saved.scope ELSE f.agent,
   onEvent |-> IF f.agent \in Traced THEN <<l, d>> ELSE f.saved.onEvent]

InnerOf(l) == Within(Top(l), l, Depth(l))

\* Each call saved what the RunContext had inside the one before it.
Chained(l) ==
  \A d \in 1..Depth(l) - 1 : stacks[l][d + 1].saved = Within(stacks[l][d], l, d)

\* Until a thread is orphaned, the task and the thread it waits for are one
\* chain of calls, at whose end the RunContext is.
ContextInv ==
  ~orphaned =>
    /\ \A l \in Lines : Chained(l)
    /\ stacks[Task] # <<>> => stacks[Task][1].saved = HostFields
    /\ awaited # NoThread =>
         stacks[awaited][1].saved = InnerOf(Task) /\ ctx = InnerOf(awaited)
    /\ awaited = NoThread =>
         ctx = IF stacks[Task] = <<>> THEN HostFields ELSE InnerOf(Task)

-----------------------------------------------------------------------------
(* Stacks and frames.                                                      *)

LEMMA Names ==
  /\ Task \in Lines /\ Threads \subseteq Lines /\ Lines = {Task} \cup Threads
  /\ \A t \in Threads : t # Task /\ t # NoThread
  /\ NoAgent \notin Agents
BY AsyncNames DEF Lines

LEMMA LineType ==
  ASSUME TypeOK, NEW l \in Lines, stacks[l] # <<>>
  PROVE  /\ stacks[l] \in Seq(Frame)
         /\ Depth(l) \in Nat \ {0} /\ Depth(l) = Len(stacks[l])
         /\ Top(l) = stacks[l][Depth(l)] /\ Top(l) \in Frame
         /\ \A d \in 1..Depth(l) : stacks[l][d] \in Frame
<1>1. stacks[l] \in Seq(Frame)
  BY DEF TypeOK
<1>2. Len(stacks[l]) \in Nat \ {0}
  BY <1>1, EmptySeq
<1>3. \A d \in 1..Len(stacks[l]) : stacks[l][d] \in Frame
  BY <1>1, ElementOfSeq
<1>. QED
  BY <1>1, <1>2, <1>3 DEF Top, Depth

\* The same call of the same run.
SameCall(f, g) == f.agent = g.agent /\ f.saved = g.saved /\ f.call = g.call

LEMMA MoveFrame ==
  ASSUME NEW g \in Frame, NEW p \in PCs
  PROVE  LET f == [g EXCEPT !.pc = p]
         IN  f \in Frame /\ SameCall(f, g) /\ f.pc = p /\ f.attempt = g.attempt
BY DEF Frame, SameCall

LEMMA VisitFrame ==
  ASSUME NEW g \in Frame, NEW p \in PCs, NEW n \in Nat
  PROVE  LET f == [g EXCEPT !.pc = p, !.attempt = n, !.calls = 0]
         IN  f \in Frame /\ SameCall(f, g) /\ f.pc = p
BY DEF Frame, SameCall

LEMMA RouteFrame ==
  ASSUME NEW g \in Frame, NEW p \in PCs
  PROVE  LET f == [g EXCEPT !.pc = p, !.step = @ + 1, !.attempt = 0, !.calls = 0]
         IN  f \in Frame /\ SameCall(f, g) /\ f.pc = p
<1>1. PICK n \in Nat : n = g.step + 1
  BY DEF Frame
<1>2. [g EXCEPT !.pc = p, !.step = @ + 1, !.attempt = 0, !.calls = 0]
        = [g EXCEPT !.pc = p, !.step = n, !.attempt = 0, !.calls = 0]
  BY <1>1 DEF Frame
<1>. QED
  BY <1>2 DEF Frame, SameCall

LEMMA CallFrame ==
  ASSUME NEW g \in Frame, NEW p \in PCs
  PROVE  LET f == Calling(g, p)
         IN  f \in Frame /\ SameCall(f, g) /\ f.pc = p /\ f.attempt = g.attempt
<1>1. PICK n \in Nat : n = g.calls + 1
  BY DEF Frame
<1>2. Calling(g, p) = [g EXCEPT !.pc = p, !.calls = n]
  BY <1>1 DEF Frame, Calling
<1>. QED
  BY <1>2 DEF Frame, SameCall

LEMMA PCNames ==
  {"boundary", "admit", "exec", "waiting", "calling", "returned", "raised", "leave"} \subseteq PCs
BY DEF PCs

LEMMA FieldsType ==
  ASSUME TypeOK
  PROVE  /\ HostFields \in Fields
         /\ \A a \in Agents \cup {NoAgent}, l \in Lines, d \in Nat : Entered(a, l, d) \in Fields
         /\ \A f \in Frame : Left(f) \in Fields
<1>1. ctx \in Fields
  BY DEF TypeOK
<1>2. HostFields \in Fields
  BY DEF HostFields, Fields
<1>3. ASSUME NEW a \in Agents \cup {NoAgent}, NEW l \in Lines, NEW d \in Nat
      PROVE  Entered(a, l, d) \in Fields
  BY <1>1 DEF Entered, Fields
<1>4. ASSUME NEW f \in Frame  PROVE Left(f) \in Fields
  BY <1>1 DEF Left, Fields, Frame
<1>. QED
  BY <1>2, <1>3, <1>4

LEMMA NewFrameType ==
  ASSUME TypeOK, NEW a \in Agents \cup {NoAgent}, NEW cap \in Nat, NEW c \in Nat
  PROVE  /\ NewFrame(a, cap, c) \in Frame /\ NewFrame(a, cap, c).agent = a
         /\ NewFrame(a, cap, c).saved = ctx /\ NewFrame(a, cap, c).pc = "boundary"
         /\ NewFrame(a, cap, c).call = c
BY PCNames DEF NewFrame, Frame, TypeOK

\* The stacks after one of them changed.
LEMMA OneStack ==
  ASSUME TypeOK, NEW l \in Lines, NEW s \in Seq(Frame), stacks' = [stacks EXCEPT ![l] = s]
  PROVE  /\ stacks' \in [Lines -> Seq(Frame)] /\ stacks'[l] = s
         /\ \A k \in Lines \ {l} : stacks'[k] = stacks[k]
BY DEF TypeOK

LEMMA EditTop ==
  ASSUME TypeOK, NEW l \in Lines, stacks[l] # <<>>, NEW f \in Frame, SetTop(l, f)
  PROVE  /\ stacks' \in [Lines -> Seq(Frame)]
         /\ stacks'[l] # <<>> /\ Len(stacks'[l]) = Depth(l) /\ stacks'[l][Depth(l)] = f
         /\ \A d \in 1..Depth(l) - 1 : stacks'[l][d] = stacks[l][d]
         /\ \A k \in Lines \ {l} : stacks'[k] = stacks[k]
<1>. DEFINE s == [stacks[l] EXCEPT ![Depth(l)] = f]
<1>1. stacks' = [stacks EXCEPT ![l] = s]
  BY DEF SetTop
<1>2. /\ stacks[l] \in Seq(Frame) /\ Depth(l) \in Nat \ {0} /\ Depth(l) = Len(stacks[l])
  BY LineType
<1>3. /\ s \in Seq(Frame) /\ Len(s) = Depth(l) /\ s[Depth(l)] = f
      /\ \A d \in 1..Depth(l) - 1 : s[d] = stacks[l][d]
  BY <1>2, ExceptSeq
<1>. HIDE DEF s
<1>4. s # <<>>
  BY <1>2, <1>3
<1>. QED
  BY <1>1, <1>3, <1>4, OneStack

-----------------------------------------------------------------------------
(* What the actions do to the stacks.                                      *)

IInv == TypeOK /\ StackInv /\ WaitInv /\ ExcInv /\ CallInv

\* A step of a line in its innermost call: f is that call and x the exception
\* after it.  The cancelled task no longer waits.
Local(l, f, x) ==
  /\ stacks[l] # <<>> /\ Top(l).pc \notin {"leave", "calling"}
  /\ f \in Frame /\ x \in Excs /\ SameCall(f, Top(l))
  /\ f.pc \notin {"calling", "waiting"}
  /\ ~InRun(l) => f.pc \in FunctionPCs
  /\ f.pc = "admit" => ~Governed(l)
  /\ x # "none" => f.pc \in {"raised", "leave"}
  /\ SetTop(l, f)
  /\ exc' = [exc EXCEPT ![l] = x]
  /\ owed' = IF f.pc = "leave" THEN [owed EXCEPT ![l] = @ - 1] ELSE owed
  /\ awaited' = IF Top(l).pc = "waiting" THEN NoThread ELSE awaited
  /\ orphaned' = IF Top(l).pc = "waiting" THEN TRUE ELSE orphaned
  /\ UNCHANGED <<ctx, of, isSet>>

\* The visit it pays, if any.
Visits(l, f) ==
  /\ Top(l).pc = "admit" /\ f.pc = "exec" /\ HasSteps(l)
  /\ book' = [book EXCEPT ![of[l]].remaining = @ - 1, ![of[l]].visits = @ + 1]
  /\ late' = IF Governed(l) THEN [late EXCEPT ![l] = @ + 1] ELSE late

Pays(l, f) == UNCHANGED <<book, late>> \/ Visits(l, f)

\* Which line does it.
LocalStep(l) == \E f, x : Local(l, f, x) /\ Pays(l, f)

\* What a line does in its innermost call.
Inner(l) ==
  \/ CancelAtBoundary(l) \/ PassBoundary(l) \/ Admit(l) \/ Exceeded(l)
  \/ Retry(l) \/ NodeFails(l) \/ Route(l) \/ End(l) \/ Return(l)
  \/ \E kind \in {"cancelled", "failed"} : Raise(l, kind)

\* Who is not where a function may be is in a run.
LEMMA RunKnown ==
  ASSUME IInv, NEW l \in Lines, stacks[l] # <<>>, Top(l).pc \notin FunctionPCs
  PROVE  InRun(l)
<1>1. Depth(l) \in Nat \ {0} /\ Top(l) = stacks[l][Depth(l)]
  BY LineType DEF IInv
<1>2. l # Task => Depth(l) # 1
  BY <1>1 DEF IInv, StackInv
<1>. QED
  BY <1>1, <1>2 DEF InRun

\* No exception propagates elsewhere than out of a body or a run.
LEMMA NoExc ==
  ASSUME IInv, NEW l \in Lines, Top(l).pc \notin {"raised", "leave"}
  PROVE  exc[l] = "none"
BY DEF IInv, ExcInv, At

LEMMA KeptExc ==
  ASSUME IInv, NEW l \in Lines
  PROVE  /\ exc[l] \in Excs /\ exc = [exc EXCEPT ![l] = exc[l]]
         /\ "none" \in Excs /\ "cancelled" \in Excs /\ "failed" \in Excs /\ "task" \in Excs
BY DEF IInv, TypeOK, Excs

\* What the observer follows is what the ContextVars say.
LEMMA CallKnown ==
  ASSUME IInv, NEW l \in Lines, stacks[l] # <<>>
  PROVE  CallOf(l) = of[l] /\ (Overdue(l) <=> Governed(l))
<1>1. Depth(l) \in 1..Depth(l) /\ Top(l) = stacks[l][Depth(l)]
  BY LineType DEF IInv
<1>2. CallOf(l) = of[l]
  BY <1>1 DEF CallOf, IInv, CallInv
<1>. QED
  BY <1>2 DEF Overdue, Governed, Run

LEMMA InnerIsLocal ==
  ASSUME IInv, NEW l \in Lines, Inner(l)
  PROVE  LocalStep(l)
<1>. DEFINE g == Top(l)
<1>1. stacks[l] # <<>>
  BY DEF Inner, At, CancelAtBoundary, PassBoundary, Admit, Exceeded, Retry, NodeFails,
         Route, End, Return, Raise
<1>2. g \in Frame
  BY <1>1, LineType DEF IInv
<1>3. /\ exc[l] \in Excs /\ exc = [exc EXCEPT ![l] = exc[l]]
      /\ {"none", "cancelled", "failed", "task"} \subseteq Excs
  BY KeptExc
<1>. HIDE DEF g
<1>. DEFINE leave == [g EXCEPT !.pc = "leave"]
<1>4. leave \in Frame /\ SameCall(leave, g) /\ leave.pc = "leave"
  BY <1>2, MoveFrame, PCNames
<1>5. CASE CancelAtBoundary(l)
  <2>1. g.pc = "boundary" /\ SetTop(l, leave)
    BY <1>5 DEF CancelAtBoundary, At, g
  <2>2. Local(l, leave, "cancelled")
    BY <1>1, <1>3, <1>4, <1>5, <2>1, RunKnown
       DEF CancelAtBoundary, Local, Verdict, FunctionPCs, g
  <2>. QED
    BY <1>5, <2>2 DEF CancelAtBoundary, LocalStep, Pays
<1>6. CASE PassBoundary(l)
  <2>. DEFINE f == [g EXCEPT !.pc = "admit"]
  <2>1. g.pc = "boundary" /\ SetTop(l, f)
    BY <1>6 DEF PassBoundary, At, g
  <2>2. f \in Frame /\ SameCall(f, g) /\ f.pc = "admit"
    BY <1>2, MoveFrame, PCNames
  <2>3. exc[l] = "none"
    BY <2>1, NoExc DEF g
  <2>. HIDE DEF f
  <2>4. Local(l, f, "none")
    BY <1>1, <1>3, <1>6, <2>1, <2>2, <2>3, RunKnown
       DEF PassBoundary, CancelDue, Local, FunctionPCs, g
  <2>. QED
    BY <1>6, <2>4 DEF PassBoundary, LocalStep, Pays
<1>7. CASE Admit(l)
  <2>. DEFINE f == [g EXCEPT !.pc = "exec", !.attempt = 1, !.calls = 0]
  <2>1. g.pc = "admit" /\ SetTop(l, f)
    BY <1>7 DEF Admit, At, g
  <2>2. f \in Frame /\ SameCall(f, g) /\ f.pc = "exec"
    BY <1>2, VisitFrame, PCNames
  <2>3. exc[l] = "none"
    BY <2>1, NoExc DEF g
  <2>. HIDE DEF f
  <2>4. Local(l, f, "none")
    BY <1>1, <1>3, <1>7, <2>1, <2>2, <2>3, RunKnown DEF Admit, Local, FunctionPCs, g
  <2>5. Visits(l, f)
    BY <1>1, <1>7, <2>1, <2>2, CallKnown DEF Admit, Visits, g
  <2>. QED
    BY <2>4, <2>5 DEF LocalStep, Pays
<1>8. CASE Exceeded(l)
  <2>1. g.pc \in {"admit", "boundary"} /\ SetTop(l, leave)
    BY <1>8 DEF Exceeded, At, g
  <2>2. Local(l, leave, "failed")
    BY <1>1, <1>3, <1>4, <1>8, <2>1, RunKnown DEF Exceeded, Local, Verdict, FunctionPCs, g
  <2>. QED
    BY <1>8, <2>2 DEF Exceeded, LocalStep, Pays
<1>9. CASE Retry(l)
  <2>. DEFINE f == [g EXCEPT !.pc = "exec", !.attempt = NextAttempt(g), !.calls = 0]
  <2>1. g.pc = "raised" /\ SetTop(l, f)
    BY <1>9 DEF Retry, At, g
  <2>2. f \in Frame /\ SameCall(f, g) /\ f.pc = "exec"
    <3>1. PICK n \in Nat : n = NextAttempt(g)
      BY <1>2 DEF NextAttempt, Frame
    <3>. QED
      BY <1>2, <3>1, VisitFrame, PCNames
  <2>. HIDE DEF f
  <2>3. Local(l, f, "none")
    BY <1>1, <1>3, <1>9, <2>1, <2>2 DEF Retry, Local, FunctionPCs, g
  <2>. QED
    BY <1>9, <2>3 DEF Retry, LocalStep, Pays
<1>10. CASE NodeFails(l)
  <2>1. g.pc = "raised" /\ SetTop(l, leave)
    BY <1>10 DEF NodeFails, At, g
  <2>2. Local(l, leave, exc[l])
    BY <1>1, <1>3, <1>4, <1>10, <2>1 DEF NodeFails, Local, Verdict, g
  <2>. QED
    BY <1>10, <2>2 DEF NodeFails, LocalStep, Pays
<1>11. CASE Route(l)
  <2>. DEFINE f == [g EXCEPT !.pc = "boundary", !.step = @ + 1, !.attempt = 0, !.calls = 0]
  <2>1. g.pc = "returned" /\ SetTop(l, f)
    BY <1>11 DEF Route, At, g
  <2>2. f \in Frame /\ SameCall(f, g) /\ f.pc = "boundary"
    BY <1>2, RouteFrame, PCNames
  <2>3. exc[l] = "none"
    BY <2>1, NoExc DEF g
  <2>. HIDE DEF f
  <2>4. Local(l, f, "none")
    BY <1>1, <1>3, <1>11, <2>1, <2>2, <2>3 DEF Route, Local, FunctionPCs, g
  <2>. QED
    BY <1>11, <2>4 DEF Route, LocalStep, Pays
<1>12. CASE End(l)
  <2>1. g.pc = "returned" /\ SetTop(l, leave)
    BY <1>12 DEF End, At, g
  <2>2. exc[l] = "none"
    BY <2>1, NoExc DEF g
  <2>3. Local(l, leave, "none")
    BY <1>1, <1>3, <1>4, <1>12, <2>1, <2>2 DEF End, EndVerdict, Local, Verdict, g
  <2>. QED
    BY <1>12, <2>3 DEF End, LocalStep, Pays
<1>13. CASE Return(l)
  <2>. DEFINE f == [g EXCEPT !.pc = "returned"]
  <2>1. g.pc = "exec" /\ SetTop(l, f)
    BY <1>13 DEF Return, At, g
  <2>2. f \in Frame /\ SameCall(f, g) /\ f.pc = "returned"
    BY <1>2, MoveFrame, PCNames
  <2>3. exc[l] = "none"
    BY <2>1, NoExc DEF g
  <2>. HIDE DEF f
  <2>4. Local(l, f, "none")
    BY <1>1, <1>3, <1>13, <2>1, <2>2, <2>3 DEF Return, Local, FunctionPCs, g
  <2>. QED
    BY <1>13, <2>4 DEF Return, LocalStep, Pays
<1>14. ASSUME NEW kind \in {"cancelled", "failed"}, Raise(l, kind)
       PROVE  LocalStep(l)
  <2>. DEFINE f == [g EXCEPT !.pc = "raised"]
  <2>1. g.pc = "exec" /\ SetTop(l, f)
    BY <1>14 DEF Raise, At, g
  <2>2. f \in Frame /\ SameCall(f, g) /\ f.pc = "raised"
    BY <1>2, MoveFrame, PCNames
  <2>. HIDE DEF f
  <2>3. Local(l, f, kind)
    BY <1>1, <1>3, <1>14, <2>1, <2>2 DEF Raise, Local, FunctionPCs, g
  <2>. QED
    BY <1>14, <2>3 DEF Raise, LocalStep, Pays
<1>. QED
  BY <1>5, <1>6, <1>7, <1>8, <1>9, <1>10, <1>11, <1>12, <1>13, <1>14 DEF Inner

LEMMA CancelIsLocal ==
  ASSUME IInv, CancelTask
  PROVE  \E f : Local(Task, f, "task") /\ UNCHANGED <<book, late>>
<1>. DEFINE g == Top(Task)
            f == [g EXCEPT !.pc = "raised"]
<1>1. stacks[Task] # <<>> /\ g.pc \in {"exec", "waiting", "raised"} /\ SetTop(Task, f)
  BY DEF CancelTask, At
<1>2. g \in Frame
  BY <1>1, LineType, Names DEF IInv
<1>3. f \in Frame /\ SameCall(f, g) /\ f.pc = "raised"
  BY <1>2, MoveFrame, PCNames
<1>4. /\ awaited # NoThread <=> g.pc = "waiting"
      /\ orphaned \in BOOLEAN
  BY <1>1 DEF IInv, WaitInv, At, TypeOK
<1>5. /\ awaited' = IF g.pc = "waiting" THEN NoThread ELSE awaited
      /\ orphaned' = IF g.pc = "waiting" THEN TRUE ELSE orphaned
  BY <1>4 DEF CancelTask
<1>. HIDE DEF f
<1>6. exc' = [exc EXCEPT ![Task] = "task"] /\ UNCHANGED <<ctx, book, of, isSet, owed, late>>
  BY DEF CancelTask
<1>7. "task" \in Excs
  BY DEF Excs
<1>. QED
  BY <1>1, <1>3, <1>5, <1>6, <1>7 DEF Local, FunctionPCs

-----------------------------------------------------------------------------
(* Types, and where exceptions and waiting are.                            *)

Account == [limit : Nat, remaining : Nat, visits : Nat, given : BOOLEAN]

\* Paying for a visit moves a step of the budget to the visits.
LEMMA BookKept ==
  ASSUME IInv, NEW l \in Lines, stacks[l] # <<>>, NEW f, Pays(l, f)
  PROVE  /\ book' \in Seq(Account) /\ Len(book') = Len(book)
         /\ \A r \in 1..Len(book) :
              /\ book'[r].given = book[r].given /\ book'[r].limit = book[r].limit
              /\ book'[r].visits + book'[r].remaining = book[r].visits + book[r].remaining
<1>1. book \in Seq(Account) /\ of[l] \in 1..Len(book)
  BY DEF IInv, TypeOK, StackInv, Account
<1>2. \A r \in 1..Len(book) : book[r] \in Account
  BY <1>1, ElementOfSeq
<1>3. CASE UNCHANGED book
  BY <1>1, <1>3
<1>4. CASE Visits(l, f)
  <2>1. PICK r \in 1..Len(book), b \in Account : r = of[l] /\ b = book[r]
    BY <1>1, <1>2
  <2>2. PICK rest \in Nat, more \in Nat : rest = b.remaining - 1 /\ more = b.visits + 1
    BY <1>4, <2>1 DEF Visits, HasSteps, Run, Account
  <2>3. PICK c \in Account : c = [b EXCEPT !.remaining = rest, !.visits = more]
    BY DEF Account
  <2>4. book' = [book EXCEPT ![r] = c]
    BY <1>4, <2>1, <2>2, <2>3 DEF Visits
  <2>5. /\ c.given = b.given /\ c.limit = b.limit
        /\ c.visits + c.remaining = b.visits + b.remaining
    <3>1. /\ c.given = b.given /\ c.limit = b.limit /\ c.visits = more /\ c.remaining = rest
      BY <2>3 DEF Account
    <3>2. b.visits \in Nat /\ b.remaining \in Nat
      BY DEF Account
    <3>. QED
      BY <2>2, <3>1, <3>2
  <2>6. /\ book' \in Seq(Account) /\ Len(book') = Len(book)
        /\ \A q \in 1..Len(book) : book'[q] = IF q = r THEN c ELSE book[q]
    BY <1>1, <2>4, ExceptSeq
  <2>. QED
    BY <2>1, <2>5, <2>6
<1>. QED
  BY <1>3, <1>4 DEF Pays

\* A local step seen from every line.
LEMMA LocalShape ==
  ASSUME IInv, NEW l \in Lines, NEW f, NEW x, Local(l, f, x)
  PROVE  /\ stacks' \in [Lines -> Seq(Frame)] /\ stacks'[l] # <<>>
         /\ Depth(l) \in Nat \ {0} /\ Depth(l)' = Depth(l) /\ Top(l)' = f
         /\ \A d \in 1..Depth(l) - 1 : stacks'[l][d] = stacks[l][d]
         /\ \A k \in Lines \ {l} :
              stacks'[k] = stacks[k] /\ Depth(k)' = Depth(k) /\ Top(k)' = Top(k)
<1>1. stacks[l] # <<>> /\ f \in Frame /\ SetTop(l, f)
  BY DEF Local
<1>2. /\ stacks' \in [Lines -> Seq(Frame)]
      /\ stacks'[l] # <<>> /\ Len(stacks'[l]) = Depth(l) /\ stacks'[l][Depth(l)] = f
      /\ \A d \in 1..Depth(l) - 1 : stacks'[l][d] = stacks[l][d]
      /\ \A k \in Lines \ {l} : stacks'[k] = stacks[k]
  BY <1>1, EditTop DEF IInv
<1>3. Depth(l) \in Nat \ {0}
  BY <1>1, LineType DEF IInv
<1>. QED
  BY <1>2, <1>3 DEF Depth, Top

LEMMA LocalTypes ==
  ASSUME IInv, NEW l \in Lines, NEW f, NEW x, Local(l, f, x), Pays(l, f)
  PROVE  TypeOK'
<1>1. stacks' \in [Lines -> Seq(Frame)]
  BY LocalShape
<1>2. book' \in Seq(Account) /\ Len(book') = Len(book)
  BY BookKept DEF Local
<1>3. exc' \in [Lines -> Excs] /\ owed' \in [Lines -> Int]
  BY DEF Local, IInv, TypeOK
<1>4. awaited' \in Threads \cup {NoThread} /\ orphaned' \in BOOLEAN
  BY DEF Local, IInv, TypeOK
<1>5. late' \in [Lines -> Nat]
  <2>1. late \in [Lines -> Nat]
    BY DEF IInv, TypeOK
  <2>. QED
    BY <2>1 DEF Pays, Visits
<1>6. ctx' \in Fields /\ isSet' \in BOOLEAN /\ of' \in [Lines -> 0..Len(book')]
  BY <1>2 DEF Local, IInv, TypeOK
<1>. QED
  BY <1>1, <1>2, <1>3, <1>4, <1>5, <1>6 DEF TypeOK, Account

LEMMA LocalStack ==
  ASSUME IInv, NEW l \in Lines, NEW f, NEW x, Local(l, f, x), Pays(l, f)
  PROVE  StackInv'
<1>1. /\ stacks'[l] # <<>>
      /\ Depth(l) \in Nat \ {0} /\ Depth(l)' = Depth(l) /\ Top(l)' = f
      /\ \A d \in 1..Depth(l) - 1 : stacks'[l][d] = stacks[l][d]
      /\ \A k \in Lines \ {l} :
           stacks'[k] = stacks[k] /\ Depth(k)' = Depth(k) /\ Top(k)' = Top(k)
  BY LocalShape
<1>2. stacks[l] # <<>> /\ f.pc # "calling" /\ of' = of /\ Len(book') = Len(book)
  BY BookKept DEF Local
<1>3. ASSUME NEW k \in Lines \ {l}, stacks'[k] # <<>>
      PROVE  /\ \A d \in 1..Depth(k)' - 1 : stacks'[k][d].pc = "calling"
             /\ Top(k)'.pc # "calling"
             /\ k # Task => stacks'[k][1].pc \in FunctionPCs /\ stacks'[k][1].agent = NoAgent
             /\ of'[k] \in 1..Len(book')
  BY <1>1, <1>2, <1>3 DEF IInv, StackInv
<1>4. \A d \in 1..Depth(l)' - 1 : stacks'[l][d].pc = "calling"
  BY <1>1, <1>2 DEF IInv, StackInv
<1>5. of'[l] \in 1..Len(book')
  BY <1>2 DEF IInv, StackInv
<1>6. ASSUME l # Task
      PROVE  stacks'[l][1].pc \in FunctionPCs /\ stacks'[l][1].agent = NoAgent
  <2>1. stacks[l][1].pc \in FunctionPCs /\ stacks[l][1].agent = NoAgent
    BY <1>2, <1>6 DEF IInv, StackInv
  <2>2. CASE Depth(l) = 1
    <3>1. Top(l) = stacks[l][1] /\ stacks'[l][1] = f
      BY <1>1, <2>2 DEF Top
    <3>2. f.pc \in FunctionPCs /\ f.agent = Top(l).agent
      BY <1>6, <2>2 DEF Local, InRun, SameCall
    <3>. QED
      BY <2>1, <3>1, <3>2
  <2>3. CASE Depth(l) # 1
    <3>1. 1 \in 1..Depth(l) - 1
      BY <1>1, <2>3
    <3>. QED
      BY <1>1, <2>1, <3>1
  <2>. QED
    BY <2>2, <2>3
<1>. QED
  BY <1>1, <1>2, <1>3, <1>4, <1>5, <1>6 DEF StackInv

LEMMA LocalWaits ==
  ASSUME IInv, NEW l \in Lines, NEW f, NEW x, Local(l, f, x), Pays(l, f)
  PROVE  WaitInv'
<1>1. /\ stacks'[l] # <<>> /\ Top(l)' = f
      /\ \A k \in Lines \ {l} : stacks'[k] = stacks[k] /\ Top(k)' = Top(k)
  BY LocalShape
<1>2. /\ stacks[l] # <<>> /\ f.pc # "waiting" /\ of' = of /\ Len(book') = Len(book)
      /\ awaited' = IF Top(l).pc = "waiting" THEN NoThread ELSE awaited
      /\ orphaned' = IF Top(l).pc = "waiting" THEN TRUE ELSE orphaned
  BY BookKept DEF Local
<1>3. Task \in Lines /\ Threads \subseteq Lines
  BY Names
<1>4. Top(l).pc = "waiting" => l = Task
  BY <1>2 DEF IInv, WaitInv, At
<1>5. \A k \in Lines : At(k, "waiting")' => k # l /\ At(k, "waiting")
  BY <1>1, <1>2 DEF At
<1>6. l # Task => (At(Task, "waiting")' <=> At(Task, "waiting"))
  BY <1>1, <1>3 DEF At
<1>7. \A k \in Lines : stacks'[k] # <<>> <=> stacks[k] # <<>>
  BY <1>1, <1>2
<1>8. awaited' # NoThread <=> At(Task, "waiting")'
  <2>1. awaited # NoThread <=> At(Task, "waiting")
    BY DEF IInv, WaitInv
  <2>2. CASE l = Task
    BY <1>2, <1>3, <1>5, <2>1, <2>2 DEF At
  <2>3. CASE l # Task
    BY <1>2, <1>4, <1>6, <2>1, <2>3
  <2>. QED
    BY <2>2, <2>3
<1>9. awaited' # NoThread => awaited' = awaited /\ awaited \in Lines
  BY <1>2, <1>3 DEF IInv, TypeOK
<1>10. ~orphaned' => ~orphaned /\ awaited' = awaited
  BY <1>2
<1>11. \A k \in Lines : At(k, "waiting")' => k = Task
  BY <1>5 DEF IInv, WaitInv
<1>12. awaited' # NoThread => stacks'[awaited'] # <<>> /\ of'[awaited'] = of'[Task]
  BY <1>2, <1>7, <1>9 DEF IInv, WaitInv
<1>13. stacks'[Task] # <<>> => of'[Task] = Len(book')
  BY <1>2, <1>3, <1>7 DEF IInv, WaitInv
<1>14. ~orphaned' => \A t \in Threads : t # awaited' => stacks'[t] = <<>>
  BY <1>3, <1>7, <1>10 DEF IInv, WaitInv
<1>. QED
  BY <1>8, <1>11, <1>12, <1>13, <1>14 DEF WaitInv

LEMMA LocalExc ==
  ASSUME IInv, NEW l \in Lines, NEW f, NEW x, Local(l, f, x), Pays(l, f)
  PROVE  ExcInv'
<1>1. /\ stacks'[l] # <<>> /\ Top(l)' = f
      /\ \A k \in Lines \ {l} : stacks'[k] = stacks[k] /\ Top(k)' = Top(k)
  BY LocalShape
<1>2. exc'[l] = x /\ (x # "none" => f.pc \in {"raised", "leave"})
      /\ \A k \in Lines \ {l} : exc'[k] = exc[k]
  BY DEF Local, IInv, TypeOK
<1>. QED
  BY <1>1, <1>2 DEF ExcInv, IInv, At

LEMMA LocalCall ==
  ASSUME IInv, NEW l \in Lines, NEW f, NEW x, Local(l, f, x)
  PROVE  CallInv'
<1>1. /\ Depth(l) \in Nat \ {0} /\ Depth(l)' = Depth(l) /\ stacks'[l][Depth(l)] = f
      /\ \A d \in 1..Depth(l) - 1 : stacks'[l][d] = stacks[l][d]
      /\ \A k \in Lines \ {l} : stacks'[k] = stacks[k] /\ Depth(k)' = Depth(k)
  BY LocalShape DEF Top
<1>2. of' = of /\ f.call = Top(l).call /\ Top(l) = stacks[l][Depth(l)]
  BY DEF Local, SameCall, Top
<1>3. ASSUME NEW d \in 1..Depth(l)  PROVE stacks'[l][d].call = of[l]
  BY <1>1, <1>2 DEF IInv, CallInv
<1>. QED
  BY <1>1, <1>2, <1>3 DEF IInv, CallInv

LEMMA LocalKeeps ==
  ASSUME IInv, NEW l \in Lines, NEW f, NEW x, Local(l, f, x), Pays(l, f)
  PROVE  IInv'
BY LocalTypes, LocalStack, LocalWaits, LocalExc, LocalCall DEF IInv

-----------------------------------------------------------------------------
(* Entering and leaving runs.                                              *)

LEMMA HostShape ==
  ASSUME IInv, NEW a \in Agents \cup {NoAgent}, NEW cap \in HostCaps, NEW given \in Gives,
         Host(a, cap, given)
  PROVE  /\ stacks' \in [Lines -> Seq(Frame)] /\ stacks'[Task] # <<>>
         /\ Depth(Task)' = 1 /\ Top(Task)'.call = Len(book) + 1 /\ Top(Task)' \in Frame
         /\ Top(Task)'.pc = "boundary" /\ Top(Task)'.agent = a /\ Top(Task)'.saved = ctx
         /\ stacks'[Task][1] = Top(Task)'
         /\ \A k \in Lines \ {Task} :
              stacks'[k] = stacks[k] /\ Depth(k)' = Depth(k) /\ Top(k)' = Top(k)
         /\ stacks[Task] = <<>> /\ awaited = NoThread
         /\ book' \in Seq(Account) /\ Len(book') = Len(book) + 1
         /\ \A r \in 1..Len(book) : book'[r] = book[r]
         /\ book'[Len(book) + 1] =
              [limit |-> cap, remaining |-> cap, visits |-> 0, given |-> given]
<1>1. /\ TypeOK /\ Task \in Lines /\ cap \in Nat /\ given \in BOOLEAN
      /\ Len(book) + 1 \in Nat
  BY Names, AsyncNumbers DEF IInv, TypeOK
<1>14. PICK c \in Nat : c = Len(book) + 1
  BY <1>1
<1>2. PICK f \in Frame : f = NewFrame(a, cap, c)
  BY <1>1, NewFrameType
<1>3. f.pc = "boundary" /\ f.agent = a /\ f.saved = ctx /\ f.call = c
  BY <1>1, <1>2, NewFrameType
<1>4. PICK s : s = Append(<<>>, f)
  OBVIOUS
<1>5. s \in Seq(Frame) /\ s # <<>> /\ Len(s) = 1 /\ s[1] = f /\ s = <<f>>
  BY <1>4
<1>6. stacks' = [stacks EXCEPT ![Task] = s]
  BY <1>2, <1>5, <1>14 DEF Host
<1>7. /\ stacks' \in [Lines -> Seq(Frame)] /\ stacks'[Task] = s
      /\ \A k \in Lines \ {Task} : stacks'[k] = stacks[k]
  BY <1>1, <1>5, <1>6, OneStack
<1>8. Depth(Task)' = 1 /\ Top(Task)' = f
  BY <1>5, <1>7 DEF Depth, Top
<1>9. \A k \in Lines \ {Task} : Depth(k)' = Depth(k) /\ Top(k)' = Top(k)
  BY <1>7 DEF Depth, Top
<1>10. stacks[Task] = <<>> /\ awaited = NoThread
  BY DEF Host, IInv, WaitInv, At
<1>11. PICK b \in Account :
         b = [limit |-> cap, remaining |-> cap, visits |-> 0, given |-> given]
  BY <1>1 DEF Account
<1>12. book' = Append(book, b) /\ book \in Seq(Account)
  BY <1>11 DEF Host, IInv, TypeOK, Account
<1>13. /\ book' \in Seq(Account) /\ Len(book') = Len(book) + 1
       /\ \A r \in 1..Len(book) : book'[r] = book[r]
       /\ book'[Len(book) + 1] = b
  BY <1>12, AppendProperties
<1>. QED
  BY <1>2, <1>3, <1>5, <1>7, <1>8, <1>9, <1>10, <1>11, <1>13, <1>14

LEMMA HostKeeps ==
  ASSUME IInv, NEW a \in Agents \cup {NoAgent}, NEW cap \in HostCaps, NEW given \in Gives,
         Host(a, cap, given)
  PROVE  IInv'
<1>1. /\ stacks' \in [Lines -> Seq(Frame)] /\ stacks'[Task] # <<>>
      /\ Depth(Task)' = 1 /\ Top(Task)'.pc = "boundary"
      /\ Top(Task)'.call = Len(book) + 1 /\ stacks'[Task][1] = Top(Task)'
      /\ \A k \in Lines \ {Task} :
           stacks'[k] = stacks[k] /\ Depth(k)' = Depth(k) /\ Top(k)' = Top(k)
      /\ stacks[Task] = <<>> /\ awaited = NoThread
      /\ book' \in Seq(Account) /\ Len(book') = Len(book) + 1
  BY HostShape
<1>2. /\ of' = [of EXCEPT ![Task] = Len(book) + 1]
      /\ owed' = [owed EXCEPT ![Task] = 1]
      /\ UNCHANGED <<exc, awaited, isSet, late, orphaned>>
      /\ Task \in Lines /\ Threads \subseteq Lines /\ Len(book) \in Nat
  BY Names DEF Host, IInv, TypeOK
<1>3. of' \in [Lines -> 0..Len(book')] /\ of'[Task] = Len(book')
      /\ \A k \in Lines \ {Task} : of'[k] = of[k]
  BY <1>1, <1>2 DEF IInv, TypeOK
<1>4. ctx' \in Fields
  <2>1. Entered(a, Task, 1) \in Fields
    BY FieldsType, <1>2 DEF IInv
  <2>. QED
    BY <2>1 DEF Host
<1>5. TypeOK'
  <2>1. owed' \in [Lines -> Int] /\ 1 \in Int
    BY <1>2 DEF IInv, TypeOK
  <2>. QED
    BY <1>1, <1>2, <1>3, <1>4, <2>1 DEF IInv, TypeOK, Account
<1>6. StackInv'
  <2>1. ASSUME NEW k \in Lines \ {Task}, stacks'[k] # <<>>
        PROVE  /\ \A d \in 1..Depth(k)' - 1 : stacks'[k][d].pc = "calling"
               /\ Top(k)'.pc # "calling"
               /\ k # Task => stacks'[k][1].pc \in FunctionPCs /\ stacks'[k][1].agent = NoAgent
               /\ of'[k] \in 1..Len(book')
    <3>1. stacks[k] # <<>> /\ Depth(k)' = Depth(k) /\ Top(k)' = Top(k)
          /\ stacks'[k] = stacks[k] /\ of'[k] = of[k]
      BY <1>1, <1>3, <2>1
    <3>2. /\ \A d \in 1..Depth(k) - 1 : stacks[k][d].pc = "calling"
          /\ Top(k).pc # "calling"
          /\ k # Task => stacks[k][1].pc \in FunctionPCs /\ stacks[k][1].agent = NoAgent
          /\ of[k] \in 1..Len(book)
      BY <2>1, <3>1 DEF IInv, StackInv
    <3>3. of[k] \in 1..Len(book')
      BY <1>1, <1>2, <3>2
    <3>. QED
      BY <3>1, <3>2, <3>3
  <2>2. of'[Task] \in 1..Len(book')
    BY <1>1, <1>2, <1>3
  <2>3. \A d \in 1..Depth(Task)' - 1 : stacks'[Task][d].pc = "calling"
    BY <1>1
  <2>. QED
    BY <1>1, <2>1, <2>2, <2>3 DEF StackInv
<1>7. WaitInv'
  <2>1. \A k \in Lines : At(k, "waiting")' => k # Task /\ At(k, "waiting")
    BY <1>1 DEF At
  <2>2. awaited' = NoThread /\ ~At(Task, "waiting")'
    BY <1>1, <1>2, <2>1
  <2>3. \A t \in Threads : t # Task
    BY Names
  <2>4. ~orphaned' => \A t \in Threads : t # awaited' => stacks'[t] = <<>>
    BY <1>1, <1>2, <2>3 DEF IInv, WaitInv
  <2>. QED
    BY <1>3, <2>1, <2>2, <2>4 DEF IInv, WaitInv
<1>8. ExcInv'
  <2>1. exc[Task] = "none"
    BY <1>1, <1>2 DEF IInv, ExcInv, At
  <2>. QED
    BY <1>1, <1>2, <2>1 DEF IInv, ExcInv, At
<1>9. CallInv'
  <2>1. \A d \in 1..Depth(Task)' : stacks'[Task][d].call = of'[Task]
    BY <1>1, <1>3
  <2>. QED
    BY <1>1, <1>3, <2>1 DEF IInv, CallInv
<1>. QED
  BY <1>5, <1>6, <1>7, <1>8, <1>9 DEF IInv

LEMMA NestShape ==
  ASSUME IInv, NEW l \in Lines, NEW a \in Agents, Nest(l, a)
  PROVE  /\ stacks' \in [Lines -> Seq(Frame)] /\ stacks'[l] # <<>> /\ stacks[l] # <<>>
         /\ Depth(l) \in Nat \ {0} /\ Depth(l)' = Depth(l) + 1
         /\ Top(l).pc = "exec"
         /\ Top(l)' \in Frame /\ Top(l)'.pc = "boundary" /\ Top(l)'.agent = a /\ Top(l)'.saved = ctx
         /\ Top(l)'.call = of[l]
         /\ Top(l)' = stacks'[l][Depth(l) + 1]
         /\ stacks'[l][Depth(l)] \in Frame /\ stacks'[l][Depth(l)].pc = "calling"
         /\ SameCall(stacks'[l][Depth(l)], Top(l))
         /\ stacks'[l][Depth(l)].attempt = Top(l).attempt
         /\ \A d \in 1..Depth(l) - 1 : stacks'[l][d] = stacks[l][d]
         /\ \A k \in Lines \ {l} :
              stacks'[k] = stacks[k] /\ Depth(k)' = Depth(k) /\ Top(k)' = Top(k)
<1>1. TypeOK /\ stacks[l] # <<>> /\ Top(l).pc = "exec" /\ InnerCap \in Nat
  BY AsyncNumbers DEF IInv, Nest, At
<1>2. /\ stacks[l] \in Seq(Frame) /\ Depth(l) \in Nat \ {0} /\ Depth(l) = Len(stacks[l])
      /\ Top(l) = stacks[l][Depth(l)] /\ Top(l) \in Frame
  BY <1>1, LineType
<1>9. of[l] \in Nat /\ CallOf(l) = of[l]
  BY <1>1, CallKnown DEF IInv, TypeOK
<1>3. PICK n \in Frame : n = NewFrame(a, InnerCap, CallOf(l))
  BY <1>1, <1>9, NewFrameType
<1>4. n.pc = "boundary" /\ n.agent = a /\ n.saved = ctx /\ n.call = of[l]
  BY <1>1, <1>3, <1>9, NewFrameType
<1>5. PICK c : c = Calling(Top(l), "calling")
  OBVIOUS
<1>6. c \in Frame /\ c.pc = "calling" /\ SameCall(c, Top(l)) /\ c.attempt = Top(l).attempt
  BY <1>2, <1>5, CallFrame, PCNames
<1>7. PICK base : base = [stacks[l] EXCEPT ![Depth(l)] = c]
  OBVIOUS
<1>8. /\ base \in Seq(Frame) /\ Len(base) = Depth(l)
      /\ \A d \in 1..Depth(l) : base[d] = IF d = Depth(l) THEN c ELSE stacks[l][d]
  BY <1>2, <1>6, <1>7, ExceptSeq
<1>10. PICK s : s = Append(base, n)
  OBVIOUS
<1>11. /\ s \in Seq(Frame) /\ Len(s) = Depth(l) + 1
       /\ \A d \in 1..Depth(l) : s[d] = base[d]
       /\ s[Depth(l) + 1] = n
  BY <1>8, <1>10, AppendProperties
<1>12. stacks' = [stacks EXCEPT ![l] = s]
  BY <1>3, <1>5, <1>7, <1>10 DEF Nest
<1>13. /\ stacks' \in [Lines -> Seq(Frame)] /\ stacks'[l] = s
       /\ \A k \in Lines \ {l} : stacks'[k] = stacks[k]
  BY <1>1, <1>11, <1>12, OneStack
<1>14. Depth(l)' = Depth(l) + 1 /\ Top(l)' = n
  BY <1>11, <1>13 DEF Depth, Top
<1>15. \A k \in Lines \ {l} : Depth(k)' = Depth(k) /\ Top(k)' = Top(k)
  BY <1>13 DEF Depth, Top
<1>16. s[Depth(l)] = c /\ (\A d \in 1..Depth(l) - 1 : s[d] = stacks[l][d])
  BY <1>2, <1>8, <1>11
<1>17. s # <<>>
  BY <1>2, <1>11, EmptySeq
<1>. QED
  BY <1>1, <1>2, <1>3, <1>4, <1>6, <1>11, <1>13, <1>14, <1>15, <1>16, <1>17

\* Below is what is left of a stack when its innermost call is left.
LEMMA LeaveShape ==
  ASSUME IInv, NEW l \in Lines, LeaveNested(l)
  PROVE  /\ stacks[l] # <<>> /\ Depth(l) \in Nat /\ Depth(l) > 1
         /\ stacks' \in [Lines -> Seq(Frame)] /\ stacks'[l] # <<>>
         /\ Depth(l)' = Depth(l) - 1
         /\ Top(l).pc = "leave" /\ Top(l) = stacks[l][Depth(l)] /\ Top(l) \in Frame
         /\ Top(l)' = stacks'[l][Depth(l) - 1]
         /\ SameCall(Top(l)', stacks[l][Depth(l) - 1])
         /\ Top(l)'.attempt = stacks[l][Depth(l) - 1].attempt
         /\ \/ Top(l)'.pc = "raised" /\ exc' = exc
            \/ Top(l)'.pc = "exec" /\ exc[l] # "task" /\ exc' = [exc EXCEPT ![l] = "none"]
         /\ \A d \in 1..Depth(l) - 2 : stacks'[l][d] = stacks[l][d]
         /\ \A k \in Lines \ {l} :
              stacks'[k] = stacks[k] /\ Depth(k)' = Depth(k) /\ Top(k)' = Top(k)
<1>1. TypeOK /\ stacks[l] # <<>> /\ Top(l).pc = "leave"
  BY DEF IInv, LeaveNested, At
<1>2. /\ stacks[l] \in Seq(Frame) /\ Depth(l) \in Nat \ {0} /\ Depth(l) = Len(stacks[l])
      /\ Top(l) = stacks[l][Depth(l)] /\ Top(l) \in Frame
  BY <1>1, LineType
<1>3. PICK d \in Nat \ {0} : d = Depth(l) - 1
  BY <1>2 DEF LeaveNested
<1>4. PICK p \in {"raised", "exec"} :
        /\ stacks' = [stacks EXCEPT ![l] = [SubSeq(@, 1, d) EXCEPT ![d].pc = p]]
        /\ \/ p = "raised" /\ exc' = exc
           \/ p = "exec" /\ exc[l] # "task" /\ exc' = [exc EXCEPT ![l] = "none"]
  BY <1>3 DEF LeaveNested
<1>5. PICK base : base = SubSeq(stacks[l], 1, d)
  OBVIOUS
<1>6. /\ base \in Seq(Frame) /\ Len(base) = d
      /\ \A i \in 1..d : base[i] = stacks[l][i]
  <2>1. \A i \in 1..d : stacks[l][i] \in Frame
    BY <1>1, <1>2, <1>3, LineType
  <2>2. 1 \in Int /\ d \in Int /\ 1 <= d /\ d - 1 + 1 = d
    OBVIOUS
  <2>3. \A i \in 1..d : 1 + i - 1 = i
    OBVIOUS
  <2>. QED
    BY <1>5, <2>1, <2>2, <2>3, SubSeqProperties
<1>7. PICK g \in Frame : g = base[d] /\ g = stacks[l][d]
  BY <1>6, ElementOfSeq
<1>8. PICK f \in Frame : f = [g EXCEPT !.pc = p]
  BY MoveFrame, PCNames
<1>9. SameCall(f, g) /\ f.pc = p /\ f.attempt = g.attempt
  BY <1>8, MoveFrame, PCNames
<1>10. PICK s : s = [base EXCEPT ![d] = f]
  OBVIOUS
<1>11. /\ s \in Seq(Frame) /\ Len(s) = d /\ d \in 1..d
       /\ \A i \in 1..d : s[i] = IF i = d THEN f ELSE base[i]
  BY <1>6, <1>10, ExceptSeq
<1>12. s = [base EXCEPT ![d].pc = p]
  BY <1>6, <1>7, <1>8, <1>10
<1>13. stacks' = [stacks EXCEPT ![l] = s]
  BY <1>4, <1>5, <1>12
<1>14. /\ stacks' \in [Lines -> Seq(Frame)] /\ stacks'[l] = s
       /\ \A k \in Lines \ {l} : stacks'[k] = stacks[k]
  BY <1>1, <1>11, <1>13, OneStack
<1>15. Depth(l)' = d /\ Top(l)' = f /\ s[d] = f
  BY <1>11, <1>14 DEF Depth, Top
<1>16. \A k \in Lines \ {l} : Depth(k)' = Depth(k) /\ Top(k)' = Top(k)
  BY <1>14 DEF Depth, Top
<1>17. \A i \in 1..d - 1 : s[i] = stacks[l][i]
  BY <1>6, <1>11
<1>18. d - 1 = Depth(l) - 2 /\ Depth(l) > 1 /\ s # <<>>
  BY <1>2, <1>3, <1>11
<1>. QED
  BY <1>1, <1>2, <1>3, <1>4, <1>7, <1>9, <1>14, <1>15, <1>16, <1>17, <1>18

LEMMA NestKeeps ==
  ASSUME IInv, NEW l \in Lines, NEW a \in Agents, Nest(l, a)
  PROVE  IInv'
<1>1. /\ stacks' \in [Lines -> Seq(Frame)] /\ stacks'[l] # <<>> /\ stacks[l] # <<>>
      /\ Depth(l) \in Nat \ {0} /\ Depth(l)' = Depth(l) + 1
      /\ Top(l).pc = "exec" /\ Top(l)'.pc = "boundary"
      /\ Top(l)'.call = of[l] /\ Top(l)' = stacks'[l][Depth(l) + 1]
      /\ stacks'[l][Depth(l)].pc = "calling" /\ SameCall(stacks'[l][Depth(l)], Top(l))
      /\ \A d \in 1..Depth(l) - 1 : stacks'[l][d] = stacks[l][d]
      /\ \A k \in Lines \ {l} :
           stacks'[k] = stacks[k] /\ Depth(k)' = Depth(k) /\ Top(k)' = Top(k)
  BY NestShape
<1>2. /\ owed' = [owed EXCEPT ![l] = @ + 1] /\ ctx' = Entered(a, l, Depth(l) + 1)
      /\ UNCHANGED <<exc, awaited, book, of, isSet, late, orphaned>>
      /\ Task \in Lines /\ Threads \subseteq Lines
  BY Names DEF Nest
<1>3. TypeOK'
  <2>1. ctx' \in Fields
    BY <1>1, <1>2, FieldsType DEF IInv
  <2>2. owed' \in [Lines -> Int]
    BY <1>2 DEF IInv, TypeOK
  <2>. QED
    BY <1>1, <1>2, <2>1, <2>2 DEF IInv, TypeOK
<1>4. StackInv'
  <2>1. ASSUME NEW k \in Lines \ {l}, stacks'[k] # <<>>
        PROVE  /\ \A d \in 1..Depth(k)' - 1 : stacks'[k][d].pc = "calling"
               /\ Top(k)'.pc # "calling"
               /\ k # Task => stacks'[k][1].pc \in FunctionPCs /\ stacks'[k][1].agent = NoAgent
               /\ of'[k] \in 1..Len(book')
    BY <1>1, <1>2, <2>1 DEF IInv, StackInv
  <2>2. \A d \in 1..Depth(l)' - 1 : stacks'[l][d].pc = "calling"
    <3>1. \A d \in 1..Depth(l) - 1 : stacks'[l][d].pc = "calling"
      BY <1>1 DEF IInv, StackInv
    <3>. QED
      BY <1>1, <3>1
  <2>3. ASSUME l # Task
        PROVE  stacks'[l][1].pc \in FunctionPCs /\ stacks'[l][1].agent = NoAgent
    <3>1. stacks[l][1].pc \in FunctionPCs /\ stacks[l][1].agent = NoAgent
      BY <1>1, <2>3 DEF IInv, StackInv
    <3>2. CASE Depth(l) = 1
      BY <1>1, <3>1, <3>2 DEF Top, SameCall, FunctionPCs
    <3>3. CASE Depth(l) # 1
      <4>1. 1 \in 1..Depth(l) - 1
        BY <1>1, <3>3
      <4>. QED
        BY <1>1, <3>1, <4>1
    <3>. QED
      BY <3>2, <3>3
  <2>4. of'[l] \in 1..Len(book')
    BY <1>1, <1>2 DEF IInv, StackInv
  <2>. QED
    BY <1>1, <2>1, <2>2, <2>3, <2>4 DEF StackInv
<1>5. \A k \in Lines : At(k, "waiting")' <=> At(k, "waiting")
  BY <1>1 DEF At
<1>6. \A k \in Lines : stacks'[k] # <<>> <=> stacks[k] # <<>>
  BY <1>1
<1>7. WaitInv'
  BY <1>2, <1>5, <1>6 DEF IInv, WaitInv, TypeOK
<1>8. ExcInv'
  <2>1. exc[l] = "none"
    BY <1>1, NoExc
  <2>. QED
    BY <1>1, <1>2, <2>1 DEF IInv, ExcInv, At
<1>9. CallInv'
  <2>1. \A d \in 1..Depth(l) : stacks[l][d].call = of[l]
    BY DEF IInv, CallInv
  <2>2. stacks'[l][Depth(l)].call = of[l]
    BY <1>1, <2>1 DEF SameCall, Top
  <2>3. ASSUME NEW d \in 1..Depth(l)'  PROVE stacks'[l][d].call = of'[l]
    BY <1>1, <1>2, <2>1, <2>2
  <2>4. \A k \in Lines \ {l} : \A d \in 1..Depth(k)' : stacks'[k][d].call = of'[k]
    BY <1>1, <1>2 DEF IInv, CallInv
  <2>. QED
    BY <2>3, <2>4 DEF CallInv
<1>. QED
  BY <1>3, <1>4, <1>7, <1>8, <1>9 DEF IInv

LEMMA LeaveKeeps ==
  ASSUME IInv, NEW l \in Lines, LeaveNested(l)
  PROVE  IInv'
<1>1. /\ stacks[l] # <<>> /\ Depth(l) \in Nat /\ Depth(l) > 1
      /\ stacks' \in [Lines -> Seq(Frame)] /\ stacks'[l] # <<>>
      /\ Depth(l)' = Depth(l) - 1
      /\ Top(l).pc = "leave" /\ Top(l) \in Frame
      /\ Top(l)' = stacks'[l][Depth(l) - 1]
      /\ SameCall(Top(l)', stacks[l][Depth(l) - 1])
      /\ \/ Top(l)'.pc = "raised" /\ exc' = exc
         \/ Top(l)'.pc = "exec" /\ exc' = [exc EXCEPT ![l] = "none"]
      /\ \A d \in 1..Depth(l) - 2 : stacks'[l][d] = stacks[l][d]
      /\ \A k \in Lines \ {l} :
           stacks'[k] = stacks[k] /\ Depth(k)' = Depth(k) /\ Top(k)' = Top(k)
  BY LeaveShape
<1>2. /\ UNCHANGED <<awaited, book, of, isSet, owed, late, orphaned>>
      /\ ctx' = Left(Top(l))
      /\ Task \in Lines /\ Threads \subseteq Lines
  BY Names DEF LeaveNested
<1>3. TypeOK'
  <2>1. ctx' \in Fields
    BY <1>1, <1>2, FieldsType DEF IInv
  <2>2. exc' \in [Lines -> Excs]
    BY <1>1, KeptExc DEF IInv, TypeOK
  <2>. QED
    BY <1>1, <1>2, <2>1, <2>2 DEF IInv, TypeOK
<1>4. StackInv'
  <2>1. ASSUME NEW k \in Lines \ {l}, stacks'[k] # <<>>
        PROVE  /\ \A d \in 1..Depth(k)' - 1 : stacks'[k][d].pc = "calling"
               /\ Top(k)'.pc # "calling"
               /\ k # Task => stacks'[k][1].pc \in FunctionPCs /\ stacks'[k][1].agent = NoAgent
               /\ of'[k] \in 1..Len(book')
    BY <1>1, <1>2, <2>1 DEF IInv, StackInv
  <2>2. \A d \in 1..Depth(l)' - 1 : stacks'[l][d].pc = "calling"
    <3>1. \A d \in 1..Depth(l) - 1 : stacks[l][d].pc = "calling"
      BY <1>1 DEF IInv, StackInv
    <3>2. \A d \in 1..Depth(l)' - 1 : d \in 1..Depth(l) - 1 /\ d \in 1..Depth(l) - 2
      BY <1>1
    <3>. QED
      BY <1>1, <3>1, <3>2
  <2>3. ASSUME l # Task
        PROVE  stacks'[l][1].pc \in FunctionPCs /\ stacks'[l][1].agent = NoAgent
    <3>1. stacks[l][1].pc \in FunctionPCs /\ stacks[l][1].agent = NoAgent
      BY <1>1, <2>3 DEF IInv, StackInv
    <3>2. CASE Depth(l) = 2
      <4>1. Depth(l) - 1 = 1
        BY <3>2
      <4>. QED
        BY <1>1, <3>1, <4>1 DEF SameCall, FunctionPCs
    <3>3. CASE Depth(l) # 2
      <4>1. 1 \in 1..Depth(l) - 2
        BY <1>1, <3>3
      <4>. QED
        BY <1>1, <3>1, <4>1
    <3>. QED
      BY <3>2, <3>3
  <2>4. of'[l] \in 1..Len(book')
    BY <1>1, <1>2 DEF IInv, StackInv
  <2>. QED
    BY <1>1, <2>1, <2>2, <2>3, <2>4 DEF StackInv
<1>5. \A k \in Lines : At(k, "waiting")' <=> At(k, "waiting")
  BY <1>1 DEF At
<1>6. \A k \in Lines : stacks'[k] # <<>> <=> stacks[k] # <<>>
  BY <1>1
<1>7. WaitInv'
  BY <1>2, <1>5, <1>6 DEF IInv, WaitInv, TypeOK
<1>8. ExcInv'
  <2>1. ASSUME NEW k \in Lines, exc'[k] # "none"
        PROVE  At(k, "raised")' \/ At(k, "leave")'
    <3>1. CASE k = l
      BY <1>1, <2>1, <3>1, KeptExc DEF At, IInv, TypeOK
    <3>2. CASE k # l
      <4>1. exc'[k] = exc[k]
        BY <1>1, <3>2 DEF IInv, TypeOK
      <4>. QED
        BY <1>1, <2>1, <3>2, <4>1 DEF At, IInv, ExcInv
    <3>. QED
      BY <3>1, <3>2
  <2>. QED
    BY <2>1 DEF ExcInv
<1>9. CallInv'
  <2>1. \A d \in 1..Depth(l) : stacks[l][d].call = of[l]
    BY DEF IInv, CallInv
  <2>2. stacks'[l][Depth(l) - 1].call = of[l]
    BY <1>1, <2>1 DEF SameCall
  <2>3. ASSUME NEW d \in 1..Depth(l)'  PROVE stacks'[l][d].call = of'[l]
    BY <1>1, <1>2, <2>1, <2>2
  <2>4. \A k \in Lines \ {l} : \A d \in 1..Depth(k)' : stacks'[k][d].call = of'[k]
    BY <1>1, <1>2 DEF IInv, CallInv
  <2>. QED
    BY <2>3, <2>4 DEF CallInv
<1>. QED
  BY <1>3, <1>4, <1>7, <1>8, <1>9 DEF IInv

\* The stack of a line is empty again, and no other changed.
Emptied(l) ==
  /\ stacks' = [stacks EXCEPT ![l] = <<>>]
  /\ exc' = [exc EXCEPT ![l] = "none"]

LEMMA EmptyShape ==
  ASSUME IInv, NEW l \in Lines, Emptied(l)
  PROVE  /\ stacks' \in [Lines -> Seq(Frame)] /\ stacks'[l] = <<>> /\ exc'[l] = "none"
         /\ exc' \in [Lines -> Excs] /\ Depth(l)' = 0
         /\ \A k \in Lines \ {l} :
              /\ stacks'[k] = stacks[k] /\ Depth(k)' = Depth(k) /\ Top(k)' = Top(k)
              /\ exc'[k] = exc[k]
<1>1. PICK s : s = <<>> /\ s \in Seq(Frame)
  BY EmptySeq
<1>2. /\ stacks' \in [Lines -> Seq(Frame)] /\ stacks'[l] = s
      /\ \A k \in Lines \ {l} : stacks'[k] = stacks[k]
  BY <1>1, OneStack DEF IInv, Emptied
<1>3. /\ exc' \in [Lines -> Excs] /\ exc'[l] = "none"
      /\ \A k \in Lines \ {l} : exc'[k] = exc[k]
  BY KeptExc DEF Emptied, IInv, TypeOK
<1>4. Depth(l)' = 0
  BY <1>1, <1>2 DEF Depth
<1>. QED
  BY <1>1, <1>2, <1>3, <1>4 DEF Depth, Top

\* The host's call is over, or the function of an orphan is.
LEMMA EmptyKeeps ==
  ASSUME IInv, NEW l \in Lines, Emptied(l), l # awaited, ~At(l, "waiting"),
         ctx' \in Fields, late' \in [Lines -> Nat], of' \in [Lines -> 0..Len(book)],
         \A k \in Lines \ {l} : of'[k] = of[k],
         UNCHANGED <<awaited, book, isSet, owed, orphaned>>
  PROVE  IInv'
<1>1. /\ stacks' \in [Lines -> Seq(Frame)] /\ stacks'[l] = <<>> /\ exc'[l] = "none"
      /\ exc' \in [Lines -> Excs] /\ Depth(l)' = 0
      /\ \A k \in Lines \ {l} :
           /\ stacks'[k] = stacks[k] /\ Depth(k)' = Depth(k) /\ Top(k)' = Top(k)
           /\ exc'[k] = exc[k]
  BY EmptyShape
<1>2. Task \in Lines /\ Threads \subseteq Lines
  BY Names
<1>3. TypeOK'
  BY <1>1 DEF IInv, TypeOK
<1>4. StackInv'
  <2>1. ASSUME NEW k \in Lines, stacks'[k] # <<>>
        PROVE  /\ \A d \in 1..Depth(k)' - 1 : stacks'[k][d].pc = "calling"
               /\ Top(k)'.pc # "calling"
               /\ k # Task => stacks'[k][1].pc \in FunctionPCs /\ stacks'[k][1].agent = NoAgent
               /\ of'[k] \in 1..Len(book')
    <3>1. k \in Lines \ {l}
      BY <1>1, <2>1
    <3>2. stacks'[k] = stacks[k] /\ Depth(k)' = Depth(k) /\ Top(k)' = Top(k)
          /\ of'[k] = of[k] /\ book' = book
      BY <1>1, <3>1
    <3>3. /\ \A d \in 1..Depth(k) - 1 : stacks[k][d].pc = "calling"
          /\ Top(k).pc # "calling"
          /\ k # Task => stacks[k][1].pc \in FunctionPCs /\ stacks[k][1].agent = NoAgent
          /\ of[k] \in 1..Len(book)
      BY <2>1, <3>2 DEF IInv, StackInv
    <3>. QED
      BY <3>2, <3>3
  <2>. QED
    BY <2>1 DEF StackInv
<1>5. \A k \in Lines : At(k, "waiting")' <=> At(k, "waiting")
  BY <1>1 DEF At
<1>6. WaitInv'
  <2>1. awaited # NoThread => awaited \in Lines \ {l} /\ At(Task, "waiting")
    BY <1>2 DEF IInv, WaitInv, TypeOK
  <2>2. awaited' # NoThread => stacks'[awaited'] # <<>> /\ of'[awaited'] = of'[Task]
    <3>1. At(Task, "waiting") => Task # l
      OBVIOUS
    <3>. QED
      BY <1>1, <1>2, <2>1, <3>1 DEF IInv, WaitInv
  <2>3. stacks'[Task] # <<>> => of'[Task] = Len(book')
    BY <1>1, <1>2 DEF IInv, WaitInv
  <2>4. ~orphaned' => \A t \in Threads : t # awaited' => stacks'[t] = <<>>
    BY <1>1, <1>2 DEF IInv, WaitInv
  <2>. QED
    BY <1>2, <1>5, <2>2, <2>3, <2>4 DEF IInv, WaitInv
<1>7. ExcInv'
  BY <1>1 DEF IInv, ExcInv, At
<1>8. CallInv'
  <2>1. \A d \in 1..Depth(l)' : stacks'[l][d].call = of'[l]
    BY <1>1
  <2>. QED
    BY <1>1, <2>1 DEF IInv, CallInv
<1>. QED
  BY <1>3, <1>4, <1>6, <1>7, <1>8 DEF IInv

LEMMA LeaveHostIs ==
  ASSUME IInv, LeaveHost
  PROVE  /\ Task \in Lines /\ Emptied(Task) /\ Task # awaited /\ ~At(Task, "waiting")
         /\ stacks[Task] # <<>> /\ Top(Task).pc = "leave" /\ Depth(Task) = 1
         /\ awaited = NoThread /\ ctx' = Left(Top(Task)) /\ ctx' \in Fields
         /\ UNCHANGED <<awaited, book, of, isSet, owed, late, orphaned>>
<1>1. Task \in Lines /\ \A t \in Threads : t # Task
  BY Names
<1>2. stacks[Task] # <<>> /\ Top(Task).pc = "leave" /\ ~At(Task, "waiting")
  BY DEF LeaveHost, At
<1>3. awaited = NoThread /\ Task # NoThread
  BY <1>2, AsyncNames DEF IInv, WaitInv
<1>4. Left(Top(Task)) \in Fields
  BY <1>1, <1>2, LineType, FieldsType DEF IInv
<1>. QED
  BY <1>1, <1>2, <1>3, <1>4 DEF LeaveHost, Emptied

LEMMA OrphanIs ==
  ASSUME IInv, NEW t \in Threads, OrphanEnds(t)
  PROVE  /\ t \in Lines /\ t # Task /\ Emptied(t) /\ t # awaited /\ ~At(t, "waiting")
         /\ stacks[t] # <<>> /\ Depth(t) = 1
         /\ orphaned /\ of' \in [Lines -> 0..Len(book)] /\ late' \in [Lines -> Nat]
         /\ late'[t] = 0 /\ \A k \in Lines \ {t} : of'[k] = of[k] /\ late'[k] = late[k]
         /\ UNCHANGED <<awaited, ctx, book, isSet, owed, orphaned>>
<1>1. t \in Lines /\ t # Task
  BY Names
<1>2. stacks[t] # <<>> /\ t # awaited /\ Depth(t) = 1
  BY DEF OrphanEnds, FunctionOver
<1>3. ~At(t, "waiting")
  BY <1>1 DEF IInv, WaitInv
<1>4. orphaned
  BY <1>2 DEF IInv, WaitInv
<1>5. /\ of' \in [Lines -> 0..Len(book)] /\ late' \in [Lines -> Nat]
      /\ late'[t] = 0 /\ \A k \in Lines \ {t} : of'[k] = of[k] /\ late'[k] = late[k]
  <2>1. Len(book) \in Nat /\ of \in [Lines -> 0..Len(book)] /\ late \in [Lines -> Nat]
    BY DEF IInv, TypeOK
  <2>2. 0 \in 0..Len(book)
    BY <2>1
  <2>. QED
    BY <1>1, <2>1, <2>2 DEF OrphanEnds, Forget
<1>. QED
  BY <1>1, <1>2, <1>3, <1>4, <1>5 DEF OrphanEnds, Emptied

-----------------------------------------------------------------------------
(* Threads.                                                                *)

\* The task's innermost call changes, and the stack of a thread.
LEMMA TwoStacks ==
  ASSUME IInv, stacks[Task] # <<>>, NEW f \in Frame, NEW t \in Threads, NEW s \in Seq(Frame),
         stacks' = [stacks EXCEPT ![Task] = [stacks[Task] EXCEPT ![Depth(Task)] = f],
                                  ![t] = s]
  PROVE  /\ stacks' \in [Lines -> Seq(Frame)] /\ stacks'[Task] # <<>> /\ stacks'[t] = s
         /\ Depth(Task) \in Nat \ {0} /\ Depth(Task)' = Depth(Task) /\ Top(Task)' = f
         /\ \A d \in 1..Depth(Task) - 1 : stacks'[Task][d] = stacks[Task][d]
         /\ \A k \in Lines \ {Task, t} :
              stacks'[k] = stacks[k] /\ Depth(k)' = Depth(k) /\ Top(k)' = Top(k)
<1>1. Task \in Lines /\ t \in Lines /\ t # Task
  BY Names
<1>2. /\ stacks[Task] \in Seq(Frame) /\ Depth(Task) \in Nat \ {0}
      /\ Depth(Task) = Len(stacks[Task])
  BY <1>1, LineType DEF IInv
<1>3. PICK z : z = [stacks[Task] EXCEPT ![Depth(Task)] = f]
  OBVIOUS
<1>4. /\ z \in Seq(Frame) /\ Len(z) = Depth(Task) /\ z[Depth(Task)] = f
      /\ \A d \in 1..Depth(Task) - 1 : z[d] = stacks[Task][d]
  BY <1>2, <1>3, ExceptSeq
<1>5. /\ stacks' \in [Lines -> Seq(Frame)] /\ stacks'[t] = s /\ stacks'[Task] = z
      /\ \A k \in Lines \ {Task, t} : stacks'[k] = stacks[k]
  BY <1>1, <1>3, <1>4 DEF IInv, TypeOK
<1>6. z # <<>>
  BY <1>2, <1>4
<1>7. Depth(Task)' = Depth(Task) /\ Top(Task)' = f
  BY <1>4, <1>5 DEF Depth, Top
<1>. QED
  BY <1>2, <1>4, <1>5, <1>6, <1>7 DEF Depth, Top

LEMMA OffloadShape ==
  ASSUME IInv, NEW t \in Threads, Offload(t)
  PROVE  /\ stacks' \in [Lines -> Seq(Frame)] /\ stacks[Task] # <<>> /\ stacks'[Task] # <<>>
         /\ Depth(Task) \in Nat \ {0} /\ Depth(Task)' = Depth(Task)
         /\ Top(Task).pc = "exec" /\ Top(Task)'.pc = "waiting"
         /\ SameCall(Top(Task)', Top(Task)) /\ Top(Task)'.attempt = Top(Task).attempt
         /\ \A d \in 1..Depth(Task) - 1 : stacks'[Task][d] = stacks[Task][d]
         /\ stacks[t] = <<>> /\ stacks'[t] # <<>> /\ Depth(t)' = 1 /\ stacks'[t][1] = Top(t)'
         /\ Top(t)'.pc = "exec" /\ Top(t)'.agent = NoAgent /\ Top(t)'.saved = ctx
         /\ Top(t)'.call = of[Task]
         /\ \A k \in Lines \ {Task, t} :
              stacks'[k] = stacks[k] /\ Depth(k)' = Depth(k) /\ Top(k)' = Top(k)
         /\ awaited = NoThread
<1>1. TypeOK /\ Task \in Lines /\ t \in Lines
  BY Names DEF IInv
<1>2. stacks[Task] # <<>> /\ Top(Task).pc = "exec" /\ awaited = NoThread
  BY DEF Offload, At, IInv, WaitInv
<1>15. of[Task] \in Nat /\ CallOf(Task) = of[Task]
  BY <1>1, <1>2, CallKnown DEF IInv, TypeOK
<1>3. PICK n \in Frame : n = NewFrame(NoAgent, 0, CallOf(Task))
  BY <1>1, <1>15, NewFrameType
<1>4. n.agent = NoAgent /\ n.saved = ctx /\ n.call = of[Task]
  BY <1>1, <1>3, <1>15, NewFrameType
<1>5. PICK g \in Frame : g = [n EXCEPT !.pc = "exec"]
  BY MoveFrame, PCNames
<1>6. g.agent = NoAgent /\ g.saved = ctx /\ g.pc = "exec" /\ g.call = of[Task]
  BY <1>4, <1>5, MoveFrame, PCNames DEF SameCall
<1>7. PICK s : s = Append(<<>>, g)
  OBVIOUS
<1>8. s \in Seq(Frame) /\ s # <<>> /\ Len(s) = 1 /\ s[1] = g /\ s = <<g>>
  BY <1>7
<1>9. PICK f : f = Calling(Top(Task), "waiting")
  OBVIOUS
<1>10. f \in Frame /\ f.pc = "waiting" /\ SameCall(f, Top(Task)) /\ f.attempt = Top(Task).attempt
  BY <1>1, <1>2, <1>9, LineType, CallFrame, PCNames
<1>11. stacks' = [stacks EXCEPT ![Task] = [stacks[Task] EXCEPT ![Depth(Task)] = f], ![t] = s]
  BY <1>3, <1>5, <1>8, <1>9 DEF Offload
<1>12. /\ stacks' \in [Lines -> Seq(Frame)] /\ stacks'[Task] # <<>> /\ stacks'[t] = s
       /\ Depth(Task) \in Nat \ {0} /\ Depth(Task)' = Depth(Task) /\ Top(Task)' = f
       /\ \A d \in 1..Depth(Task) - 1 : stacks'[Task][d] = stacks[Task][d]
       /\ \A k \in Lines \ {Task, t} :
            stacks'[k] = stacks[k] /\ Depth(k)' = Depth(k) /\ Top(k)' = Top(k)
  BY <1>2, <1>8, <1>10, <1>11, TwoStacks
<1>13. Depth(t)' = 1 /\ Top(t)' = g /\ stacks'[t][1] = g
  BY <1>8, <1>12 DEF Depth, Top
<1>14. stacks[t] = <<>>
  BY DEF Offload
<1>. QED
  BY <1>2, <1>6, <1>8, <1>10, <1>12, <1>13, <1>14

\* The task's innermost call went on.
LEMMA TaskCall ==
  ASSUME IInv, stacks[Task] # <<>>, Depth(Task)' = Depth(Task), SameCall(Top(Task)', Top(Task)),
         \A d \in 1..Depth(Task) - 1 : stacks'[Task][d] = stacks[Task][d]
  PROVE  \A d \in 1..Depth(Task)' : stacks'[Task][d].call = of[Task]
<1>1. Task \in Lines /\ Depth(Task) \in Nat \ {0}
  BY Names, LineType DEF IInv
<1>2. \A d \in 1..Depth(Task) : stacks[Task][d].call = of[Task]
  BY <1>1 DEF IInv, CallInv
<1>3. stacks'[Task][Depth(Task)].call = of[Task]
  BY <1>1, <1>2 DEF SameCall, Top
<1>. QED
  BY <1>1, <1>2, <1>3

LEMMA OffloadKeeps ==
  ASSUME IInv, NEW t \in Threads, Offload(t)
  PROVE  IInv'
<1>1. /\ stacks' \in [Lines -> Seq(Frame)] /\ stacks[Task] # <<>> /\ stacks'[Task] # <<>>
      /\ Depth(Task) \in Nat \ {0} /\ Depth(Task)' = Depth(Task)
      /\ Top(Task).pc = "exec" /\ Top(Task)'.pc = "waiting"
      /\ SameCall(Top(Task)', Top(Task)) /\ Top(t)'.call = of[Task]
      /\ \A d \in 1..Depth(Task) - 1 : stacks'[Task][d] = stacks[Task][d]
      /\ stacks[t] = <<>> /\ stacks'[t] # <<>> /\ Depth(t)' = 1 /\ stacks'[t][1] = Top(t)'
      /\ Top(t)'.pc = "exec" /\ Top(t)'.agent = NoAgent
      /\ \A k \in Lines \ {Task, t} :
           stacks'[k] = stacks[k] /\ Depth(k)' = Depth(k) /\ Top(k)' = Top(k)
      /\ awaited = NoThread
  BY OffloadShape
<1>2. /\ Task \in Lines /\ t \in Lines /\ t # Task /\ t # NoThread /\ Threads \subseteq Lines
      /\ awaited' = t /\ of' = [of EXCEPT ![t] = of[Task]]
      /\ UNCHANGED <<exc, ctx, book, isSet, owed, late, orphaned>>
  BY Names DEF Offload, CopyContext
<1>3. /\ of' \in [Lines -> 0..Len(book)] /\ of'[t] = of[Task]
      /\ \A k \in Lines \ {t} : of'[k] = of[k]
  BY <1>2 DEF IInv, TypeOK
<1>4. TypeOK'
  BY <1>1, <1>2, <1>3 DEF IInv, TypeOK
<1>5. StackInv'
  <2>1. ASSUME NEW k \in Lines \ {Task, t}, stacks'[k] # <<>>
        PROVE  /\ \A d \in 1..Depth(k)' - 1 : stacks'[k][d].pc = "calling"
               /\ Top(k)'.pc # "calling"
               /\ k # Task => stacks'[k][1].pc \in FunctionPCs /\ stacks'[k][1].agent = NoAgent
               /\ of'[k] \in 1..Len(book')
    BY <1>1, <1>2, <1>3, <2>1 DEF IInv, StackInv
  <2>2. /\ \A d \in 1..Depth(Task)' - 1 : stacks'[Task][d].pc = "calling"
        /\ of'[Task] \in 1..Len(book') /\ of'[t] \in 1..Len(book')
    <3>1. /\ \A d \in 1..Depth(Task) - 1 : stacks[Task][d].pc = "calling"
          /\ of[Task] \in 1..Len(book)
      BY <1>1, <1>2 DEF IInv, StackInv
    <3>. QED
      BY <1>1, <1>2, <1>3, <3>1
  <2>3. \A d \in 1..Depth(t)' - 1 : stacks'[t][d].pc = "calling"
    BY <1>1
  <2>4. stacks'[t][1].pc \in FunctionPCs /\ stacks'[t][1].agent = NoAgent
    BY <1>1 DEF FunctionPCs
  <2>. QED
    BY <1>1, <2>1, <2>2, <2>3, <2>4 DEF StackInv
<1>6. WaitInv'
  <2>1. \A k \in Lines : At(k, "waiting")' => k = Task
    BY <1>1, <1>2 DEF At, IInv, WaitInv
  <2>2. At(Task, "waiting")' /\ awaited' # NoThread
    BY <1>1, <1>2 DEF At
  <2>3. of'[Task] = Len(book')
    BY <1>1, <1>2, <1>3 DEF IInv, WaitInv
  <2>4. ~orphaned' => \A u \in Threads : u # awaited' => stacks'[u] = <<>>
    <3>1. \A u \in Threads : u # Task /\ u # NoThread
      BY Names
    <3>. QED
      BY <1>1, <1>2, <3>1 DEF IInv, WaitInv
  <2>. QED
    BY <1>1, <1>2, <1>3, <2>1, <2>2, <2>3, <2>4 DEF WaitInv
<1>7. ExcInv'
  <2>1. exc[Task] = "none" /\ exc[t] = "none"
    BY <1>1, <1>2, NoExc DEF IInv, ExcInv, At
  <2>. QED
    BY <1>1, <1>2, <2>1 DEF IInv, ExcInv, At
<1>8. CallInv'
  <2>1. \A d \in 1..Depth(Task)' : stacks'[Task][d].call = of'[Task]
    BY <1>1, <1>2, <1>3, TaskCall
  <2>2. \A d \in 1..Depth(t)' : stacks'[t][d].call = of'[t]
    BY <1>1, <1>3
  <2>3. \A k \in Lines \ {Task, t} : \A d \in 1..Depth(k)' : stacks'[k][d].call = of'[k]
    BY <1>1, <1>3 DEF IInv, CallInv
  <2>. QED
    BY <2>1, <2>2, <2>3 DEF CallInv
<1>. QED
  BY <1>4, <1>5, <1>6, <1>7, <1>8 DEF IInv

LEMMA JoinShape ==
  ASSUME IInv, NEW t \in Threads, Join(t)
  PROVE  /\ stacks' \in [Lines -> Seq(Frame)] /\ stacks[Task] # <<>> /\ stacks'[Task] # <<>>
         /\ Depth(Task) \in Nat \ {0} /\ Depth(Task)' = Depth(Task)
         /\ Top(Task).pc = "waiting"
         /\ SameCall(Top(Task)', Top(Task)) /\ Top(Task)'.attempt = Top(Task).attempt
         /\ \A d \in 1..Depth(Task) - 1 : stacks'[Task][d] = stacks[Task][d]
         /\ awaited = t /\ stacks[t] # <<>> /\ Depth(t) = 1 /\ stacks'[t] = <<>>
         /\ \A k \in Lines \ {Task, t} :
              stacks'[k] = stacks[k] /\ Depth(k)' = Depth(k) /\ Top(k)' = Top(k)
         /\ exc' \in [Lines -> Excs] /\ exc'[t] = "none"
         /\ \/ Top(Task)'.pc = "raised"
            \/ Top(Task)'.pc = "exec" /\ exc'[Task] = "none"
         /\ \A k \in Lines \ {Task, t} : exc'[k] = exc[k]
         /\ of' \in [Lines -> 0..Len(book)] /\ late' \in [Lines -> Nat]
         /\ late'[t] = 0 /\ \A k \in Lines \ {t} : of'[k] = of[k] /\ late'[k] = late[k]
         /\ awaited' = NoThread /\ UNCHANGED <<ctx, book, isSet, owed, orphaned>>
<1>1. Task \in Lines /\ t \in Lines /\ t # Task /\ t # NoThread
  BY Names
<1>2. /\ awaited = t /\ Depth(t) = 1 /\ awaited' = NoThread
      /\ UNCHANGED <<ctx, book, isSet, owed, orphaned>>
  BY DEF Join, FunctionOver
<1>3. stacks[Task] # <<>> /\ Top(Task).pc = "waiting" /\ stacks[t] # <<>>
  BY <1>1, <1>2 DEF IInv, WaitInv, At
<1>4. exc[Task] = "none" /\ exc \in [Lines -> Excs] /\ "none" \in Excs
  BY <1>1, <1>3, NoExc, KeptExc DEF IInv, TypeOK
<1>5. PICK p \in {"raised", "exec"} :
        /\ stacks' = [stacks EXCEPT ![t] = <<>>, ![Task][Depth(Task)].pc = p]
        /\ \/ p = "raised" /\ exc' = [exc EXCEPT ![t] = "none", ![Task] = exc[t]]
           \/ p = "exec" /\ exc' = [exc EXCEPT ![t] = "none"]
  BY DEF Join
<1>6. PICK g \in Frame : g = Top(Task) /\ g = stacks[Task][Depth(Task)]
  BY <1>1, <1>3, LineType DEF IInv
<1>7. PICK f \in Frame : f = [g EXCEPT !.pc = p]
  BY MoveFrame, PCNames
<1>8. SameCall(f, g) /\ f.pc = p /\ f.attempt = g.attempt
  BY <1>7, MoveFrame, PCNames
<1>9. PICK s : s = <<>> /\ s \in Seq(Frame)
  BY EmptySeq
<1>10. stacks' = [stacks EXCEPT ![Task] = [stacks[Task] EXCEPT ![Depth(Task)] = f], ![t] = s]
  <2>1. /\ stacks[Task] \in Seq(Frame) /\ Depth(Task) \in DOMAIN stacks[Task]
        /\ DOMAIN stacks = Lines
    <3>1. /\ stacks[Task] \in Seq(Frame) /\ Depth(Task) \in 1..Len(stacks[Task])
      BY <1>1, <1>3, LineType DEF IInv
    <3>. QED
      BY <3>1 DEF IInv, TypeOK
  <2>2. PICK z : z = [stacks[Task] EXCEPT ![Depth(Task)].pc = p]
    OBVIOUS
  <2>3. z = [stacks[Task] EXCEPT ![Depth(Task)] = f]
    BY <1>6, <1>7, <2>1, <2>2
  <2>4. stacks' = [stacks EXCEPT ![t] = s, ![Task] = z]
    BY <1>1, <1>5, <1>9, <2>1, <2>2
  <2>. QED
    BY <1>1, <2>1, <2>3, <2>4
<1>11. /\ stacks' \in [Lines -> Seq(Frame)] /\ stacks'[Task] # <<>> /\ stacks'[t] = s
       /\ Depth(Task) \in Nat \ {0} /\ Depth(Task)' = Depth(Task) /\ Top(Task)' = f
       /\ \A d \in 1..Depth(Task) - 1 : stacks'[Task][d] = stacks[Task][d]
       /\ \A k \in Lines \ {Task, t} :
            stacks'[k] = stacks[k] /\ Depth(k)' = Depth(k) /\ Top(k)' = Top(k)
  BY <1>3, <1>9, <1>10, TwoStacks
<1>12. /\ exc' \in [Lines -> Excs] /\ exc'[t] = "none"
       /\ \A k \in Lines \ {Task, t} : exc'[k] = exc[k]
       /\ p = "exec" => exc'[Task] = "none"
  BY <1>1, <1>4, <1>5
<1>13. /\ of' \in [Lines -> 0..Len(book)] /\ late' \in [Lines -> Nat]
       /\ late'[t] = 0 /\ \A k \in Lines \ {t} : of'[k] = of[k] /\ late'[k] = late[k]
  <2>1. Len(book) \in Nat /\ of \in [Lines -> 0..Len(book)] /\ late \in [Lines -> Nat]
    BY DEF IInv, TypeOK
  <2>2. 0 \in 0..Len(book)
    BY <2>1
  <2>. QED
    BY <1>1, <2>1, <2>2 DEF Join, Forget
<1>. QED
  BY <1>2, <1>3, <1>6, <1>8, <1>9, <1>11, <1>12, <1>13

LEMMA JoinKeeps ==
  ASSUME IInv, NEW t \in Threads, Join(t)
  PROVE  IInv'
<1>1. /\ stacks' \in [Lines -> Seq(Frame)] /\ stacks[Task] # <<>> /\ stacks'[Task] # <<>>
      /\ Depth(Task) \in Nat \ {0} /\ Depth(Task)' = Depth(Task)
      /\ Top(Task).pc = "waiting" /\ Top(Task)'.pc \in {"raised", "exec"}
      /\ Top(Task)'.pc = "exec" => exc'[Task] = "none"
      /\ SameCall(Top(Task)', Top(Task))
      /\ \A d \in 1..Depth(Task) - 1 : stacks'[Task][d] = stacks[Task][d]
      /\ awaited = t /\ stacks[t] # <<>> /\ stacks'[t] = <<>>
      /\ \A k \in Lines \ {Task, t} :
           stacks'[k] = stacks[k] /\ Depth(k)' = Depth(k) /\ Top(k)' = Top(k)
      /\ exc' \in [Lines -> Excs] /\ exc'[t] = "none"
      /\ \A k \in Lines \ {Task, t} : exc'[k] = exc[k]
      /\ of' \in [Lines -> 0..Len(book)] /\ late' \in [Lines -> Nat]
      /\ \A k \in Lines \ {t} : of'[k] = of[k]
      /\ awaited' = NoThread /\ UNCHANGED <<ctx, book, isSet, owed, orphaned>>
  BY JoinShape
<1>2. Task \in Lines /\ t \in Lines /\ t # Task /\ Threads \subseteq Lines
  BY Names
<1>3. TypeOK'
  BY <1>1 DEF IInv, TypeOK
<1>4. StackInv'
  <2>1. ASSUME NEW k \in Lines \ {Task, t}, stacks'[k] # <<>>
        PROVE  /\ \A d \in 1..Depth(k)' - 1 : stacks'[k][d].pc = "calling"
               /\ Top(k)'.pc # "calling"
               /\ k # Task => stacks'[k][1].pc \in FunctionPCs /\ stacks'[k][1].agent = NoAgent
               /\ of'[k] \in 1..Len(book')
    BY <1>1, <2>1 DEF IInv, StackInv
  <2>2. /\ \A d \in 1..Depth(Task)' - 1 : stacks'[Task][d].pc = "calling"
        /\ of'[Task] \in 1..Len(book')
    <3>1. /\ \A d \in 1..Depth(Task) - 1 : stacks[Task][d].pc = "calling"
          /\ of[Task] \in 1..Len(book)
      BY <1>1, <1>2 DEF IInv, StackInv
    <3>. QED
      BY <1>1, <1>2, <3>1
  <2>3. Top(Task)'.pc # "calling"
    BY <1>1
  <2>. QED
    BY <1>1, <2>1, <2>2, <2>3 DEF StackInv
<1>5. WaitInv'
  <2>1. \A k \in Lines : At(k, "waiting")' => k \notin {Task, t} /\ At(k, "waiting")
    BY <1>1 DEF At
  <2>2. of'[Task] = Len(book')
    BY <1>1, <1>2 DEF IInv, WaitInv
  <2>3. ~orphaned' => \A u \in Threads : u # awaited' => stacks'[u] = <<>>
    <3>1. \A u \in Threads : u # Task
      BY Names
    <3>. QED
      BY <1>1, <1>2, <3>1 DEF IInv, WaitInv
  <2>. QED
    BY <1>1, <1>2, <2>1, <2>2, <2>3 DEF IInv, WaitInv
<1>6. ExcInv'
  <2>1. ASSUME NEW k \in Lines, exc'[k] # "none"  PROVE  At(k, "raised")' \/ At(k, "leave")'
    <3>1. CASE k = Task
      BY <1>1, <2>1, <3>1 DEF At
    <3>2. CASE k # Task
      <4>1. k \in Lines \ {Task, t}
        BY <1>1, <2>1, <3>2
      <4>2. stacks'[k] = stacks[k] /\ Top(k)' = Top(k) /\ exc[k] # "none"
        BY <1>1, <2>1, <4>1
      <4>. QED
        BY <2>1, <4>2 DEF IInv, ExcInv, At
    <3>. QED
      BY <3>1, <3>2
  <2>. QED
    BY <2>1 DEF ExcInv
<1>7. CallInv'
  <2>1. \A d \in 1..Depth(Task)' : stacks'[Task][d].call = of'[Task]
    BY <1>1, <1>2, TaskCall
  <2>2. \A d \in 1..Depth(t)' : stacks'[t][d].call = of'[t]
    BY <1>1, <1>2 DEF Depth
  <2>3. \A k \in Lines \ {Task, t} : \A d \in 1..Depth(k)' : stacks'[k][d].call = of'[k]
    BY <1>1 DEF IInv, CallInv
  <2>. QED
    BY <2>1, <2>2, <2>3 DEF CallInv
<1>. QED
  BY <1>3, <1>4, <1>5, <1>6, <1>7 DEF IInv

-----------------------------------------------------------------------------
(* The theorem about types.                                                *)

\* What can happen.
LEMMA StepKinds ==
  ASSUME IInv, [Next]_vars
  PROVE  \/ \E l \in Lines : \E f, x : Local(l, f, x) /\ Pays(l, f)
         \/ \E a \in Agents \cup {NoAgent}, cap \in HostCaps, given \in Gives :
              Host(a, cap, given)
         \/ \E l \in Lines : \E a \in Agents : Nest(l, a)
         \/ \E l \in Lines : LeaveNested(l)
         \/ LeaveHost
         \/ \E t \in Threads : Offload(t) \/ Join(t) \/ OrphanEnds(t)
         \/ SetCancel
         \/ UNCHANGED vars
<1>1. Task \in Lines /\ Threads \subseteq Lines
  BY Names
<1>2. ASSUME NEW l \in Lines, Step(l)
      PROVE  \/ \E f, x : Local(l, f, x) /\ Pays(l, f)
             \/ \E a \in Agents : Nest(l, a)
             \/ LeaveNested(l)
  BY <1>2, InnerIsLocal DEF Step, Inner, LocalStep
<1>3. ASSUME CancelTask  PROVE \E f, x : Local(Task, f, x) /\ Pays(Task, f)
  BY <1>3, CancelIsLocal DEF Pays
<1>. QED
  BY <1>1, <1>2, <1>3 DEF Next, HostStep, InTask, InThread, Done

\* Where the calls are does not depend on the event.
LEMMA SameKeeps ==
  ASSUME IInv, isSet' \in BOOLEAN,
         UNCHANGED <<stacks, exc, awaited, ctx, book, of, owed, late, orphaned>>
  PROVE  IInv'
<1>1. TypeOK'
  BY DEF IInv, TypeOK
<1>2. StackInv'
  BY DEF IInv, StackInv, Top, Depth
<1>3. WaitInv'
  BY DEF IInv, WaitInv, At, Top, Depth
<1>4. ExcInv'
  BY DEF IInv, ExcInv, At, Top, Depth
<1>5. CallInv'
  BY DEF IInv, CallInv, Depth
<1>. QED
  BY <1>1, <1>2, <1>3, <1>4, <1>5 DEF IInv

LEMMA TypeStep == IInv /\ [Next]_vars => IInv'
<1>. SUFFICES ASSUME IInv, [Next]_vars  PROVE IInv'
  OBVIOUS
<1>1. CASE LeaveHost
  <2>1. /\ Task \in Lines /\ Emptied(Task) /\ Task # awaited /\ ~At(Task, "waiting")
        /\ ctx' \in Fields /\ UNCHANGED <<awaited, book, of, isSet, owed, late, orphaned>>
    BY <1>1, LeaveHostIs
  <2>2. of' \in [Lines -> 0..Len(book)] /\ late' \in [Lines -> Nat]
    BY <2>1 DEF IInv, TypeOK
  <2>. QED
    BY <2>1, <2>2, EmptyKeeps
<1>2. ASSUME NEW t \in Threads, OrphanEnds(t)  PROVE IInv'
  <2>1. /\ t \in Lines /\ Emptied(t) /\ t # awaited /\ ~At(t, "waiting")
        /\ of' \in [Lines -> 0..Len(book)] /\ late' \in [Lines -> Nat]
        /\ \A k \in Lines \ {t} : of'[k] = of[k]
        /\ UNCHANGED <<awaited, ctx, book, isSet, owed, orphaned>>
    BY <1>2, OrphanIs
  <2>2. ctx' \in Fields
    BY <2>1 DEF IInv, TypeOK
  <2>. QED
    BY <2>1, <2>2, EmptyKeeps
<1>3. CASE SetCancel
  <2>1. isSet' \in BOOLEAN /\ UNCHANGED <<stacks, exc, awaited, ctx, book, of, owed, late, orphaned>>
    BY <1>3 DEF SetCancel
  <2>. QED
    BY <2>1, SameKeeps
<1>4. CASE UNCHANGED vars
  BY <1>4, SameKeeps DEF vars, IInv, TypeOK
<1>. QED
  BY <1>1, <1>2, <1>3, <1>4, StepKinds, LocalKeeps, HostKeeps, NestKeeps, LeaveKeeps,
     OffloadKeeps, JoinKeeps

LEMMA TypeInit == Init => IInv
<1>. SUFFICES ASSUME Init  PROVE IInv
  OBVIOUS
<1>1. \A l \in Lines : stacks[l] = <<>> /\ exc[l] = "none"
  BY DEF Init
<1>2. TypeOK
  <2>1. stacks \in [Lines -> Seq(Frame)]
    <3>1. PICK s : s = <<>> /\ s \in Seq(Frame)
      BY EmptySeq
    <3>. QED
      BY <3>1 DEF Init
  <2>2. PICK b : b = <<>> /\ b \in Seq(Account) /\ Len(b) = 0
    BY EmptySeq
  <2>3. ctx \in Fields
    BY DEF Init, HostFields, Fields
  <2>4. exc \in [Lines -> Excs]
    BY DEF Init, Excs
  <2>5. book \in Seq(Account) /\ of \in [Lines -> 0..Len(book)]
    BY <2>2 DEF Init
  <2>6. owed \in [Lines -> Int] /\ late \in [Lines -> Nat]
    BY DEF Init
  <2>7. awaited \in Threads \cup {NoThread} /\ isSet \in BOOLEAN /\ orphaned \in BOOLEAN
    BY DEF Init
  <2>. QED
    BY <2>1, <2>3, <2>4, <2>5, <2>6, <2>7 DEF TypeOK, Account
<1>3. awaited = NoThread /\ Task \in Lines /\ Threads \subseteq Lines
  BY Names DEF Init
<1>4. CallInv
  <2>1. \A l \in Lines : Depth(l) = 0
    BY <1>1 DEF Depth
  <2>. QED
    BY <2>1 DEF CallInv
<1>. QED
  BY <1>1, <1>2, <1>3, <1>4 DEF IInv, StackInv, WaitInv, ExcInv, At

LEMMA AlwaysIInv == Spec => []IInv
BY TypeInit, TypeStep, PTL DEF Spec

\* The task and its threads keep their stacks, exceptions and accounts, and the
\* RunContext holds scopes and subscribers (node.py:415-567).
THEOREM AsyncFlowTypeCorrect == Spec => []TypeOK
<1>1. IInv => TypeOK
  BY DEF IInv
<1>. QED
  BY <1>1, AlwaysIInv, PTL

-----------------------------------------------------------------------------
(* Budgets.                                                                *)

LEMMA BookDomain == IInv => book \in Seq(Account) /\ DOMAIN book = 1..Len(book)
BY DEF IInv, TypeOK, Account

LEMMA PaidStep == IInv /\ PaidInv /\ [Next]_vars => PaidInv'
<1>. SUFFICES ASSUME IInv, PaidInv, [Next]_vars  PROVE PaidInv'
  OBVIOUS
<1>1. DOMAIN book = 1..Len(book) /\ Len(book) \in Nat
  BY BookDomain DEF IInv, TypeOK
<1>2. CASE UNCHANGED book
  BY <1>2 DEF PaidInv
<1>3. ASSUME NEW l \in Lines, NEW f, NEW x, Local(l, f, x), Pays(l, f)
      PROVE  PaidInv'
  <2>1. stacks[l] # <<>>
    BY <1>3 DEF Local
  <2>2. /\ DOMAIN book' = 1..Len(book)
        /\ \A r \in 1..Len(book) :
             /\ book'[r].limit = book[r].limit
             /\ book'[r].visits + book'[r].remaining = book[r].visits + book[r].remaining
    BY <1>3, <2>1, BookKept
  <2>. QED
    BY <1>1, <2>2 DEF PaidInv
<1>4. ASSUME NEW a \in Agents \cup {NoAgent}, NEW cap \in HostCaps, NEW given \in Gives,
             Host(a, cap, given)
      PROVE  PaidInv'
  <2>1. /\ DOMAIN book' = 1..Len(book) + 1
        /\ \A r \in 1..Len(book) : book'[r] = book[r]
        /\ book'[Len(book) + 1] =
             [limit |-> cap, remaining |-> cap, visits |-> 0, given |-> given]
    <3>1. IInv /\ a \in Agents \cup {NoAgent} /\ cap \in HostCaps /\ given \in Gives
          /\ Host(a, cap, given)
      BY <1>4
    <3>2. /\ book' \in Seq(Account) /\ Len(book') = Len(book) + 1
          /\ \A r \in 1..Len(book) : book'[r] = book[r]
          /\ book'[Len(book) + 1] =
               [limit |-> cap, remaining |-> cap, visits |-> 0, given |-> given]
      BY <3>1, HostShape
    <3>. QED
      BY <3>2
  <2>2. cap \in Nat /\ 0 + cap = cap
    BY AsyncNumbers
  <2>3. ASSUME NEW r \in 1..Len(book) + 1
        PROVE  book'[r].visits + book'[r].remaining = book'[r].limit
    <3>1. CASE r \in 1..Len(book)
      BY <1>1, <2>1, <3>1 DEF PaidInv
    <3>2. CASE r = Len(book) + 1
      BY <2>1, <2>2, <3>2
    <3>. QED
      BY <1>1, <3>1, <3>2
  <2>. QED
    BY <2>1, <2>3 DEF PaidInv
<1>. QED
  BY <1>2, <1>3, <1>4, StepKinds
     DEF Nest, LeaveNested, LeaveHost, Offload, Join, OrphanEnds, SetCancel, vars

LEMMA OwnCall == IInv /\ PaidInv => BudgetOfOwnCall
<1>. SUFFICES ASSUME IInv, PaidInv, NEW r \in DOMAIN book
              PROVE  /\ book[r].visits <= book[r].limit
                     /\ book[r].visits = book[r].limit - book[r].remaining
  BY DEF BudgetOfOwnCall
<1>1. book[r] \in Account
  BY BookDomain, ElementOfSeq
<1>2. PICK v \in Nat, m \in Nat, n \in Nat :
        v = book[r].visits /\ m = book[r].remaining /\ n = book[r].limit
  BY <1>1 DEF Account
<1>3. v + m = n
  BY <1>2 DEF PaidInv
<1>. QED
  BY <1>2, <1>3

\* What is visited for a call of the host - by the task, by threads, in the
\* runs they nest and by orphans that outlive the call - is at most its
\* max_steps, and is paid from its budget, which pays for nothing else
\* (node.py:472, 578-583).
THEOREM OwnBudgets == Spec => []BudgetOfOwnCall
<1>1. Init => PaidInv
  BY DEF Init, PaidInv
<1>. QED
  BY <1>1, AlwaysIInv, PaidStep, OwnCall, PTL DEF Spec

-----------------------------------------------------------------------------
(* Cancel events.                                                          *)

\* A line that does not come to the door of a node cannot make a late visit.
LEMMA LateKept ==
  ASSUME IInv, LateInv, isSet' = isSet,
         \A k \in Lines : late'[k] = late[k] \/ late'[k] = 0,
         \A k \in Lines : At(k, "admit")' => At(k, "admit") /\ of'[k] = of[k],
         \A r \in 1..Len(book) : book'[r].given = book[r].given
  PROVE  LateInv'
<1>. SUFFICES ASSUME NEW k \in Lines
              PROVE  /\ late'[k] <= 1
                     /\ late'[k] = 1 => isSet' /\ (At(k, "admit")' => ~Governed(k)')
  BY DEF LateInv
<1>1. late'[k] = 1 => late[k] = 1 /\ isSet /\ (At(k, "admit") => ~Governed(k))
  BY DEF LateInv
<1>2. ASSUME At(k, "admit")'
      PROVE  Governed(k)' <=> Governed(k)
  <2>1. At(k, "admit") /\ of'[k] = of[k] /\ of[k] \in 1..Len(book)
    BY <1>2 DEF IInv, StackInv, At
  <2>. QED
    BY <2>1 DEF Governed, Run
<1>. QED
  BY <1>1, <1>2 DEF LateInv

LEMMA LocalLate ==
  ASSUME IInv, LateInv, NEW l \in Lines, NEW f, NEW x, Local(l, f, x), Pays(l, f)
  PROVE  LateInv'
<1>1. /\ stacks'[l] # <<>> /\ Top(l)' = f
      /\ \A k \in Lines \ {l} : stacks'[k] = stacks[k] /\ Top(k)' = Top(k)
  BY LocalShape
<1>2. /\ stacks[l] # <<>> /\ of' = of /\ isSet' = isSet
      /\ f.pc = "admit" => ~Governed(l)
  BY DEF Local
<1>3. \A r \in 1..Len(book) : book'[r].given = book[r].given
  BY <1>2, BookKept
<1>4. \A k \in Lines : stacks[k] # <<>> => (Governed(k)' <=> Governed(k))
  BY <1>2, <1>3 DEF IInv, StackInv, Governed, Run
<1>5. \A k \in Lines \ {l} : At(k, "admit")' <=> At(k, "admit")
  BY <1>1 DEF At
<1>6. late \in [Lines -> Nat]
  BY DEF IInv, TypeOK
<1>7. ASSUME NEW k \in Lines \ {l}
      PROVE  /\ late'[k] <= 1
             /\ late'[k] = 1 => isSet' /\ (At(k, "admit")' => ~Governed(k)')
  <2>1. late'[k] = late[k]
    BY <1>6 DEF Pays, Visits
  <2>2. late[k] <= 1 /\ (late[k] = 1 => isSet /\ (At(k, "admit") => ~Governed(k)))
    BY DEF LateInv
  <2>3. At(k, "admit") => stacks[k] # <<>>
    BY DEF At
  <2>. QED
    BY <1>2, <1>4, <1>5, <2>1, <2>2, <2>3
<1>8. /\ late'[l] <= 1
      /\ late'[l] = 1 => isSet' /\ (At(l, "admit")' => ~Governed(l)')
  <2>1. At(l, "admit")' => ~Governed(l)'
    BY <1>1, <1>2, <1>4 DEF At
  <2>2. late[l] <= 1 /\ (late[l] = 1 => isSet /\ (At(l, "admit") => ~Governed(l)))
    BY DEF LateInv
  <2>3. CASE late'[l] = late[l]
    BY <1>2, <2>1, <2>2, <2>3
  <2>4. CASE late'[l] # late[l]
    <3>1. Governed(l) /\ Top(l).pc = "admit" /\ late'[l] = late[l] + 1
      BY <1>6, <2>4 DEF Pays, Visits
    <3>2. At(l, "admit") /\ isSet
      BY <1>2, <3>1 DEF At, Governed
    <3>3. late[l] \in Nat /\ late[l] # 1
      BY <1>6, <2>2, <3>1, <3>2
    <3>4. late[l] = 0
      BY <2>2, <3>3
    <3>. QED
      BY <1>2, <2>1, <3>1, <3>2, <3>4
  <2>. QED
    BY <2>3, <2>4
<1>. QED
  BY <1>7, <1>8 DEF LateInv

LEMMA LateStep == IInv /\ LateInv /\ [Next]_vars => LateInv'
<1>. SUFFICES ASSUME IInv, LateInv, [Next]_vars  PROVE LateInv'
  OBVIOUS
<1>1. Task \in Lines /\ Threads \subseteq Lines
  BY Names
<1>2. ASSUME NEW a \in Agents \cup {NoAgent}, NEW cap \in HostCaps, NEW given \in Gives,
             Host(a, cap, given)
      PROVE  LateInv'
  <2>1. /\ Top(Task)'.pc = "boundary"
        /\ \A k \in Lines \ {Task} : stacks'[k] = stacks[k] /\ Top(k)' = Top(k)
        /\ \A r \in 1..Len(book) : book'[r] = book[r]
    BY <1>2, HostShape
  <2>2. isSet' = isSet /\ late' = late /\ \A k \in Lines \ {Task} : of'[k] = of[k]
    BY <1>2 DEF Host, IInv, TypeOK
  <2>3. \A k \in Lines : At(k, "admit")' => At(k, "admit") /\ of'[k] = of[k]
    BY <2>1, <2>2 DEF At
  <2>. QED
    BY <2>1, <2>2, <2>3, LateKept
<1>3. ASSUME NEW l \in Lines, NEW a \in Agents, Nest(l, a)
      PROVE  LateInv'
  <2>1. /\ Top(l)'.pc = "boundary"
        /\ \A k \in Lines \ {l} : stacks'[k] = stacks[k] /\ Top(k)' = Top(k)
    BY <1>3, NestShape
  <2>2. UNCHANGED <<isSet, late, of, book>>
    BY <1>3 DEF Nest
  <2>3. \A k \in Lines : At(k, "admit")' => At(k, "admit") /\ of'[k] = of[k]
    BY <2>1, <2>2 DEF At
  <2>. QED
    BY <2>2, <2>3, LateKept
<1>4. ASSUME NEW l \in Lines, LeaveNested(l)
      PROVE  LateInv'
  <2>1. /\ Top(l)'.pc \in {"raised", "exec"}
        /\ \A k \in Lines \ {l} : stacks'[k] = stacks[k] /\ Top(k)' = Top(k)
    BY <1>4, LeaveShape
  <2>2. UNCHANGED <<isSet, late, of, book>>
    BY <1>4 DEF LeaveNested
  <2>3. \A k \in Lines : At(k, "admit")' => At(k, "admit") /\ of'[k] = of[k]
    BY <2>1, <2>2 DEF At
  <2>. QED
    BY <2>2, <2>3, LateKept
<1>5. CASE LeaveHost
  <2>1. Task \in Lines /\ Emptied(Task) /\ UNCHANGED <<isSet, late, of, book>>
    BY <1>5, LeaveHostIs
  <2>2. /\ stacks'[Task] = <<>>
        /\ \A k \in Lines \ {Task} : stacks'[k] = stacks[k] /\ Top(k)' = Top(k)
    BY <2>1, EmptyShape
  <2>3. \A k \in Lines : At(k, "admit")' => At(k, "admit") /\ of'[k] = of[k]
    BY <2>1, <2>2 DEF At
  <2>. QED
    BY <2>1, <2>3, LateKept
<1>6. ASSUME NEW t \in Threads, Offload(t)
      PROVE  LateInv'
  <2>1. /\ Top(Task)'.pc = "waiting" /\ Top(t)'.pc = "exec"
        /\ \A k \in Lines \ {Task, t} : stacks'[k] = stacks[k] /\ Top(k)' = Top(k)
    BY <1>6, OffloadShape
  <2>2. UNCHANGED <<isSet, late, book>> /\ \A k \in Lines \ {t} : of'[k] = of[k]
    BY <1>6 DEF Offload, CopyContext, IInv, TypeOK
  <2>3. \A k \in Lines : At(k, "admit")' => At(k, "admit") /\ of'[k] = of[k]
    BY <2>1, <2>2 DEF At
  <2>. QED
    BY <2>2, <2>3, LateKept
<1>7. ASSUME NEW t \in Threads, Join(t)
      PROVE  LateInv'
  <2>1. /\ Top(Task)'.pc \in {"raised", "exec"} /\ stacks'[t] = <<>>
        /\ \A k \in Lines \ {Task, t} : stacks'[k] = stacks[k] /\ Top(k)' = Top(k)
        /\ late'[t] = 0 /\ \A k \in Lines \ {t} : of'[k] = of[k] /\ late'[k] = late[k]
        /\ UNCHANGED <<book, isSet>>
    BY <1>7, JoinShape
  <2>2. \A k \in Lines : At(k, "admit")' => At(k, "admit") /\ of'[k] = of[k]
    BY <2>1 DEF At
  <2>. QED
    BY <2>1, <2>2, LateKept
<1>8. ASSUME NEW t \in Threads, OrphanEnds(t)
      PROVE  LateInv'
  <2>1. /\ t \in Lines /\ Emptied(t) /\ UNCHANGED <<book, isSet>>
        /\ late'[t] = 0 /\ \A k \in Lines \ {t} : of'[k] = of[k] /\ late'[k] = late[k]
    BY <1>8, OrphanIs
  <2>2. /\ stacks'[t] = <<>>
        /\ \A k \in Lines \ {t} : stacks'[k] = stacks[k] /\ Top(k)' = Top(k)
    BY <2>1, EmptyShape
  <2>3. \A k \in Lines : At(k, "admit")' => At(k, "admit") /\ of'[k] = of[k]
    BY <2>1, <2>2 DEF At
  <2>. QED
    BY <2>1, <2>3, LateKept
<1>9. CASE SetCancel
  <2>1. ~isSet /\ late' = late
    BY <1>9 DEF SetCancel
  <2>2. \A k \in Lines : late[k] <= 1 /\ late[k] # 1
    BY <2>1 DEF LateInv
  <2>. QED
    BY <2>1, <2>2 DEF LateInv
<1>10. CASE UNCHANGED vars
  BY <1>10 DEF vars, LateInv, At, Top, Depth, Governed, Run
<1>. QED
  BY <1>2, <1>3, <1>4, <1>5, <1>6, <1>7, <1>8, <1>9, <1>10, StepKinds, LocalLate

\* A set event governs at most one more node in the task and in each thread,
\* the orphans among them (node.py:464).
THEOREM CancelIsPromptEverywhere == Spec => []CancelReachesThreads
<1>1. Init => LateInv
  BY DEF Init, LateInv
<1>2. LateInv => CancelReachesThreads
  BY DEF LateInv, CancelReachesThreads
<1>. QED
  BY <1>1, <1>2, AlwaysIInv, LateStep, PTL DEF Spec

-----------------------------------------------------------------------------
(* Verdicts.                                                               *)

\* A line owes one for each run that is not about to be left; the function at
\* the bottom of a thread's stack is no run, and only the innermost run can be
\* about to be left.
Owing(l) ==
  IF stacks[l] = <<>> THEN 0
  ELSE Depth(l) - (IF l = Task THEN 0 ELSE 1) - (IF Top(l).pc = "leave" THEN 1 ELSE 0)

OwedInv == \A l \in Lines : owed[l] = Owing(l)

LEMMA SameOwing ==
  ASSUME IInv, OwedInv, NEW k \in Lines, owed'[k] = owed[k],
         stacks'[k] = stacks[k], Depth(k)' = Depth(k), Top(k)' = Top(k)
  PROVE  owed'[k] = Owing(k)'
BY DEF OwedInv, Owing

LEMMA OwedStep == IInv /\ OwedInv /\ [Next]_vars => OwedInv'
<1>. SUFFICES ASSUME IInv, OwedInv, [Next]_vars  PROVE OwedInv'
  OBVIOUS
<1>1. Task \in Lines /\ Threads \subseteq Lines /\ owed \in [Lines -> Int]
  BY Names DEF IInv, TypeOK
<1>2. \A l \in Lines : owed[l] = Owing(l) /\ (stacks[l] # <<>> => Depth(l) \in Nat \ {0})
  BY LineType DEF OwedInv, IInv
<1>3. ASSUME NEW l \in Lines, NEW f, NEW x, Local(l, f, x), Pays(l, f)
      PROVE  OwedInv'
  <2>1. /\ stacks'[l] # <<>> /\ Depth(l)' = Depth(l) /\ Top(l)' = f
        /\ Depth(l) \in Nat \ {0}
        /\ \A k \in Lines \ {l} :
             stacks'[k] = stacks[k] /\ Depth(k)' = Depth(k) /\ Top(k)' = Top(k)
    BY <1>3, LocalShape
  <2>2. /\ stacks[l] # <<>> /\ Top(l).pc # "leave"
        /\ owed' = IF f.pc = "leave" THEN [owed EXCEPT ![l] = @ - 1] ELSE owed
    BY <1>3 DEF Local
  <2>3. /\ owed'[l] = owed[l] - (IF f.pc = "leave" THEN 1 ELSE 0)
        /\ \A k \in Lines \ {l} : owed'[k] = owed[k]
    BY <1>1, <2>2
  <2>4. owed'[l] = Owing(l)'
    BY <1>2, <2>1, <2>2, <2>3 DEF Owing
  <2>. QED
    BY <2>1, <2>3, <2>4, SameOwing DEF OwedInv
<1>4. ASSUME NEW a \in Agents \cup {NoAgent}, NEW cap \in HostCaps, NEW given \in Gives,
             Host(a, cap, given)
      PROVE  OwedInv'
  <2>1. /\ stacks'[Task] # <<>> /\ Depth(Task)' = 1 /\ Top(Task)'.pc = "boundary"
        /\ \A k \in Lines \ {Task} :
             stacks'[k] = stacks[k] /\ Depth(k)' = Depth(k) /\ Top(k)' = Top(k)
    BY <1>4, HostShape
  <2>2. owed'[Task] = 1 /\ \A k \in Lines \ {Task} : owed'[k] = owed[k]
    BY <1>1, <1>4 DEF Host
  <2>3. owed'[Task] = Owing(Task)'
    BY <2>1, <2>2 DEF Owing
  <2>. QED
    BY <2>1, <2>2, <2>3, SameOwing DEF OwedInv
<1>5. ASSUME NEW l \in Lines, NEW a \in Agents, Nest(l, a)
      PROVE  OwedInv'
  <2>1. /\ stacks'[l] # <<>> /\ stacks[l] # <<>>
        /\ Depth(l) \in Nat \ {0} /\ Depth(l)' = Depth(l) + 1
        /\ Top(l).pc = "exec" /\ Top(l)'.pc = "boundary"
        /\ \A k \in Lines \ {l} :
             stacks'[k] = stacks[k] /\ Depth(k)' = Depth(k) /\ Top(k)' = Top(k)
    BY <1>5, NestShape
  <2>2. owed'[l] = owed[l] + 1 /\ \A k \in Lines \ {l} : owed'[k] = owed[k]
    BY <1>1, <1>5 DEF Nest
  <2>3. owed'[l] = Owing(l)'
    BY <1>2, <2>1, <2>2 DEF Owing
  <2>. QED
    BY <2>1, <2>2, <2>3, SameOwing DEF OwedInv
<1>6. ASSUME NEW l \in Lines, LeaveNested(l)
      PROVE  OwedInv'
  <2>1. /\ stacks[l] # <<>> /\ Depth(l) \in Nat /\ stacks'[l] # <<>>
        /\ Depth(l)' = Depth(l) - 1
        /\ Top(l).pc = "leave" /\ Top(l)'.pc \in {"raised", "exec"}
        /\ \A k \in Lines \ {l} :
             stacks'[k] = stacks[k] /\ Depth(k)' = Depth(k) /\ Top(k)' = Top(k)
    BY <1>6, LeaveShape
  <2>2. owed' = owed
    BY <1>6 DEF LeaveNested
  <2>3. owed'[l] = Owing(l)'
    BY <1>2, <2>1, <2>2 DEF Owing
  <2>. QED
    BY <2>1, <2>2, <2>3, SameOwing DEF OwedInv
<1>7. CASE LeaveHost
  <2>1. /\ Emptied(Task) /\ owed' = owed
        /\ stacks[Task] # <<>> /\ Top(Task).pc = "leave" /\ Depth(Task) = 1
    BY <1>7, LeaveHostIs
  <2>2. /\ stacks'[Task] = <<>>
        /\ \A k \in Lines \ {Task} :
             stacks'[k] = stacks[k] /\ Depth(k)' = Depth(k) /\ Top(k)' = Top(k)
    BY <1>1, <2>1, EmptyShape
  <2>3. owed'[Task] = Owing(Task)'
    BY <1>1, <1>2, <2>1, <2>2 DEF Owing
  <2>. QED
    BY <2>1, <2>2, <2>3, SameOwing DEF OwedInv
<1>8. ASSUME NEW t \in Threads, stacks[t] # <<>>, Depth(t) = 1
      PROVE  owed[t] = 0
  <2>1. t # Task /\ t \in Lines /\ Top(t) = stacks[t][1]
    BY <1>8, Names DEF Top
  <2>2. Top(t).pc # "leave"
    BY <1>8, <2>1 DEF IInv, StackInv, FunctionPCs
  <2>. QED
    BY <1>2, <1>8, <2>1, <2>2 DEF Owing
<1>9. ASSUME NEW t \in Threads, Offload(t)
      PROVE  OwedInv'
  <2>1. /\ stacks[Task] # <<>> /\ stacks'[Task] # <<>> /\ Depth(Task)' = Depth(Task)
        /\ Top(Task).pc = "exec" /\ Top(Task)'.pc = "waiting"
        /\ stacks[t] = <<>> /\ stacks'[t] # <<>> /\ Depth(t)' = 1 /\ Top(t)'.pc = "exec"
        /\ \A k \in Lines \ {Task, t} :
             stacks'[k] = stacks[k] /\ Depth(k)' = Depth(k) /\ Top(k)' = Top(k)
    BY <1>9, OffloadShape
  <2>2. owed' = owed /\ t # Task /\ t \in Lines
    BY <1>9, Names DEF Offload
  <2>3. owed'[Task] = Owing(Task)' /\ owed'[t] = Owing(t)'
    BY <1>1, <1>2, <2>1, <2>2 DEF Owing
  <2>. QED
    BY <2>1, <2>2, <2>3, SameOwing DEF OwedInv
<1>10. ASSUME NEW t \in Threads, Join(t)
       PROVE  OwedInv'
  <2>1. /\ stacks[Task] # <<>> /\ stacks'[Task] # <<>> /\ Depth(Task)' = Depth(Task)
        /\ Top(Task).pc = "waiting" /\ Top(Task)'.pc \in {"raised", "exec"}
        /\ stacks[t] # <<>> /\ Depth(t) = 1 /\ stacks'[t] = <<>> /\ owed' = owed
        /\ \A k \in Lines \ {Task, t} :
             stacks'[k] = stacks[k] /\ Depth(k)' = Depth(k) /\ Top(k)' = Top(k)
    BY <1>10, JoinShape
  <2>2. owed'[Task] = Owing(Task)' /\ owed'[t] = Owing(t)'
    BY <1>1, <1>2, <1>8, <2>1 DEF Owing
  <2>. QED
    BY <2>1, <2>2, SameOwing DEF OwedInv
<1>11. ASSUME NEW t \in Threads, OrphanEnds(t)
       PROVE  OwedInv'
  <2>1. t \in Lines /\ Emptied(t) /\ stacks[t] # <<>> /\ Depth(t) = 1 /\ owed' = owed
    BY <1>11, OrphanIs
  <2>2. /\ stacks'[t] = <<>>
        /\ \A k \in Lines \ {t} :
             stacks'[k] = stacks[k] /\ Depth(k)' = Depth(k) /\ Top(k)' = Top(k)
    BY <2>1, EmptyShape
  <2>3. owed'[t] = Owing(t)'
    BY <1>8, <2>1, <2>2 DEF Owing
  <2>. QED
    BY <2>1, <2>2, <2>3, SameOwing DEF OwedInv
<1>12. ASSUME UNCHANGED <<stacks, owed>>
       PROVE  OwedInv'
  BY <1>12 DEF OwedInv, Owing, Top, Depth
<1>. QED
  BY <1>3, <1>4, <1>5, <1>6, <1>7, <1>9, <1>10, <1>11, <1>12, StepKinds DEF SetCancel, vars

LEMMA CountedOnce == IInv /\ OwedInv => OneVerdictEach
<1>. SUFFICES ASSUME IInv, OwedInv, NEW l \in Lines
              PROVE  owed[l] = Cardinality({d \in DOMAIN stacks[l] :
                       (l = Task \/ d > 1) /\ stacks[l][d].pc # "leave"})
  BY DEF OneVerdictEach
<1>. DEFINE S == {d \in DOMAIN stacks[l] : (l = Task \/ d > 1) /\ stacks[l][d].pc # "leave"}
<1>1. CASE stacks[l] = <<>>
  <2>1. S = {}
    BY <1>1
  <2>. QED
    BY <1>1, <2>1, FS_EmptySet DEF OwedInv, Owing
<1>2. CASE stacks[l] # <<>>
  <2>1. /\ Depth(l) \in Nat \ {0} /\ DOMAIN stacks[l] = 1..Depth(l)
        /\ Top(l) = stacks[l][Depth(l)]
    BY <1>2, LineType DEF IInv
  <2>2. /\ \A d \in 1..Depth(l) - 1 : stacks[l][d].pc # "leave"
        /\ l # Task /\ Depth(l) = 1 => Top(l).pc # "leave"
    BY <1>2, <2>1 DEF IInv, StackInv, FunctionPCs
  <2>3. PICK first \in {1, 2} : first = IF l = Task THEN 1 ELSE 2
    OBVIOUS
  <2>4. PICK last \in Nat : last = Depth(l) - (IF Top(l).pc = "leave" THEN 1 ELSE 0)
    BY <2>1
  <2>5. S = first..last
    <3>1. ASSUME NEW d \in 1..Depth(l)  PROVE d \in S <=> d \in first..last
      <4>1. l = Task \/ d > 1 <=> first <= d
        BY <2>3
      <4>2. stacks[l][d].pc # "leave" <=> d <= last
        BY <2>1, <2>2, <2>4
      <4>. QED
        BY <2>1, <2>3, <2>4, <4>1, <4>2
    <3>2. first..last \subseteq 1..Depth(l) /\ S \subseteq 1..Depth(l)
      BY <2>1, <2>3, <2>4
    <3>. QED
      BY <3>1, <3>2
  <2>6. Cardinality(first..last) = IF first > last THEN 0 ELSE last - first + 1
    <3>1. first \in Int /\ last \in Int
      BY <2>3, <2>4
    <3>. QED
      BY <3>1, FS_Interval
  <2>7. owed[l] = last - first + 1 /\ first <= last + 1
    BY <1>2, <2>1, <2>2, <2>3, <2>4 DEF OwedInv, Owing
  <2>8. owed[l] = IF first > last THEN 0 ELSE last - first + 1
    BY <2>3, <2>4, <2>7
  <2>. QED
    BY <2>5, <2>6, <2>8
<1>. QED
  BY <1>1, <1>2

\* Every run of the task and of the threads gives one verdict, also when it was
\* cancelled or orphaned (node.py:465-560).
THEOREM EveryRunEndsOnce == Spec => []OneVerdictEach
<1>1. Init => OwedInv
  BY DEF Init, OwedInv, Owing
<1>. QED
  BY <1>1, AlwaysIInv, OwedStep, CountedOnce, PTL DEF Spec

-----------------------------------------------------------------------------
(* The cancelled task.                                                     *)

\* What CancelledTaskUnwinds says of a step.
Unwinds ==
  exc[Task] = "task" =>
    /\ exc'[Task] = "task" \/ stacks'[Task] = <<>>
    /\ Depth(Task)' <= Depth(Task)
    /\ \A i \in 1..Depth(Task)' :
         stacks'[Task][i].attempt = stacks[Task][i].attempt

\* A step that leaves the task alone.
LEMMA OthersStep ==
  ASSUME IInv, exc'[Task] = exc[Task], stacks'[Task] = stacks[Task]
  PROVE  Unwinds
<1>1. Depth(Task)' = Depth(Task)
  BY DEF Depth
<1>2. Depth(Task) \in Nat
  BY Names DEF Depth, IInv, TypeOK
<1>. QED
  BY <1>1, <1>2 DEF Unwinds

LEMMA OtherLine ==
  ASSUME IInv, NEW l \in Lines, l # Task, Step(l)
  PROVE  exc'[Task] = exc[Task] /\ stacks'[Task] = stacks[Task]
<1>1. Task \in Lines \ {l}
  BY Names
<1>2. CASE Inner(l)
  <2>1. PICK f, x : Local(l, f, x)
    BY <1>2, InnerIsLocal DEF LocalStep
  <2>2. exc'[Task] = exc[Task]
    BY <1>1, <2>1 DEF Local, IInv, TypeOK
  <2>. QED
    BY <1>1, <2>1, <2>2, LocalShape
<1>3. ASSUME NEW a \in Agents, Nest(l, a)
      PROVE  exc'[Task] = exc[Task] /\ stacks'[Task] = stacks[Task]
  BY <1>1, <1>3, NestShape DEF Nest
<1>4. CASE LeaveNested(l)
  <2>1. /\ exc' = exc \/ exc' = [exc EXCEPT ![l] = "none"]
        /\ \A k \in Lines \ {l} : stacks'[k] = stacks[k]
    BY <1>4, LeaveShape
  <2>2. exc \in [Lines -> Excs]
    BY DEF IInv, TypeOK
  <2>. QED
    BY <1>1, <2>1, <2>2
<1>. QED
  BY <1>2, <1>3, <1>4 DEF Step, Inner

LEMMA UnwindStep == IInv /\ [Next]_vars => Unwinds
<1>. SUFFICES ASSUME IInv, [Next]_vars, exc[Task] = "task"  PROVE Unwinds
  BY DEF Unwinds
<1>1. /\ Task \in Lines /\ Threads \subseteq Lines /\ \A t \in Threads : t # Task
      /\ stacks[Task] # <<>> /\ Top(Task).pc \in {"raised", "leave"}
  BY Names DEF IInv, ExcInv, At
<1>2. Depth(Task) \in Nat \ {0} /\ Top(Task) = stacks[Task][Depth(Task)] /\ Top(Task) \in Frame
  BY <1>1, LineType DEF IInv
<1>3. ~HasRetry(Task)
  BY DEF HasRetry, Retried
<1>4. CASE NodeFails(Task)
  <2>1. PICK f : f = [Top(Task) EXCEPT !.pc = "leave"]
    OBVIOUS
  <2>2. SetTop(Task, f) /\ exc' = exc
    BY <1>4, <2>1 DEF NodeFails
  <2>3. f \in Frame /\ f.attempt = Top(Task).attempt
    BY <1>2, <2>1, MoveFrame, PCNames
  <2>4. /\ Len(stacks'[Task]) = Depth(Task) /\ stacks'[Task][Depth(Task)] = f
        /\ \A d \in 1..Depth(Task) - 1 : stacks'[Task][d] = stacks[Task][d]
    BY <1>1, <2>2, <2>3, EditTop DEF IInv
  <2>5. Depth(Task)' = Depth(Task)
    BY <2>4 DEF Depth
  <2>. QED
    BY <1>2, <2>2, <2>3, <2>4, <2>5 DEF Unwinds
<1>5. CASE LeaveNested(Task)
  <2>1. /\ Depth(Task)' = Depth(Task) - 1
        /\ Top(Task)' = stacks'[Task][Depth(Task) - 1]
        /\ Top(Task)'.attempt = stacks[Task][Depth(Task) - 1].attempt
        /\ exc' = exc
        /\ \A d \in 1..Depth(Task) - 2 : stacks'[Task][d] = stacks[Task][d]
    BY <1>1, <1>5, LeaveShape
  <2>. QED
    BY <1>2, <2>1 DEF Unwinds
<1>6. CASE LeaveHost
  <2>1. stacks'[Task] = <<>> /\ Depth(Task)' = 0
    BY <1>1, <1>6, LeaveHostIs, EmptyShape
  <2>. QED
    BY <1>2, <2>1 DEF Unwinds
<1>7. ASSUME Step(Task)  PROVE NodeFails(Task) \/ LeaveNested(Task)
  BY <1>1, <1>3, <1>7
     DEF Step, CancelAtBoundary, PassBoundary, Admit, Exceeded, Retry, Route, End, Return,
         Raise, Nest, At
<1>8. ~CancelTask /\ \A t \in Threads : ~Offload(t)
  BY <1>1, <1>3 DEF CancelTask, Offload, At
<1>9. awaited = NoThread /\ \A t \in Threads : t # NoThread /\ ~Join(t)
  BY <1>1, Names DEF IInv, WaitInv, At, Join
<1>10. \A a \in Agents \cup {NoAgent}, cap \in HostCaps, given \in Gives : ~Host(a, cap, given)
  BY <1>1 DEF Host
<1>11. ASSUME NEW t \in Threads, Step(t)  PROVE Unwinds
  BY <1>1, <1>11, OtherLine, OthersStep
<1>12. ASSUME NEW t \in Threads, OrphanEnds(t)  PROVE Unwinds
  BY <1>1, <1>12, OrphanIs, EmptyShape, OthersStep
<1>13. ASSUME UNCHANGED <<stacks, exc>>  PROVE Unwinds
  BY <1>13, OthersStep
<1>. QED
  BY <1>4, <1>5, <1>6, <1>7, <1>8, <1>9, <1>10, <1>11, <1>12, <1>13
     DEF Next, HostStep, InTask, InThread, SetCancel, Done, vars

\* A cancelled task unwinds: nothing starts in it and nothing is tried again
\* until the host has its CancelledError (node.py:106-118, 507-519).
THEOREM CancellationReachesHost == Spec => CancelledTaskUnwinds
<1>1. IInv /\ [Next]_vars => [Unwinds]_vars
  BY UnwindStep
<1>2. [][Unwinds]_vars <=> CancelledTaskUnwinds
  BY DEF CancelledTaskUnwinds, Unwinds
<1>. QED
  BY <1>1, <1>2, AlwaysIInv, PTL DEF Spec

-----------------------------------------------------------------------------
(* The RunContext.                                                         *)

LEMMA LeftIsSaved ==
  ASSUME NEW f \in Frame, NEW l, NEW d, ctx = Within(f, l, d)
  PROVE  Left(f) = f.saved
BY DEF Left, Within, Frame, Fields

LEMMA EnteredIsWithin ==
  ASSUME NEW f \in Frame, NEW l, NEW d, f.saved = ctx
  PROVE  Entered(f.agent, l, d) = Within(f, l, d)
BY DEF Entered, Within

\* A function is no agent's run: what its frame saved is what it is in.
LEMMA FunctionWithin ==
  ASSUME NEW f \in Frame, NEW l, NEW d, f.agent = NoAgent
  PROVE  Within(f, l, d) = f.saved
<1>1. NoAgent \notin Traced
  BY AsyncNames
<1>2. f.saved \in Fields
  BY DEF Frame
<1>. QED
  BY <1>1, <1>2 DEF Within, Fields

\* The calls of line k are the same.
SameCalls(k) ==
  /\ stacks'[k] = <<>> <=> stacks[k] = <<>>
  /\ Depth(k)' = Depth(k)
  /\ \A d \in 1..Depth(k) : SameCall(stacks'[k][d], stacks[k][d])

LEMMA ChainKept ==
  ASSUME IInv, NEW k \in Lines, SameCalls(k)
  PROVE  /\ Chained(k)' <=> Chained(k)
         /\ stacks[k] # <<>> =>
              InnerOf(k)' = InnerOf(k) /\ stacks'[k][1].saved = stacks[k][1].saved
<1>1. Depth(k) \in Nat
  BY DEF Depth, IInv, TypeOK
<1>2. ASSUME NEW d \in 1..Depth(k)
      PROVE  /\ Within(stacks'[k][d], k, d) = Within(stacks[k][d], k, d)
             /\ stacks'[k][d].saved = stacks[k][d].saved
  BY DEF SameCalls, SameCall, Within
<1>3. Chained(k)' <=> Chained(k)
  <2>1. \A d \in 1..Depth(k) - 1 : d \in 1..Depth(k) /\ d + 1 \in 1..Depth(k)
    BY <1>1
  <2>. QED
    BY <1>2, <2>1 DEF Chained, SameCalls
<1>4. ASSUME stacks[k] # <<>>
      PROVE  InnerOf(k)' = InnerOf(k) /\ stacks'[k][1].saved = stacks[k][1].saved
  <2>1. Depth(k) \in 1..Depth(k) /\ 1 \in 1..Depth(k)
    BY <1>4, LineType DEF IInv
  <2>. QED
    BY <1>2, <2>1 DEF InnerOf, Top, SameCalls
<1>. QED
  BY <1>3, <1>4

LEMMA OthersSame ==
  ASSUME NEW k \in Lines, stacks'[k] = stacks[k]
  PROVE  SameCalls(k)
BY DEF SameCalls, SameCall, Depth

\* The line that is not waiting is where the RunContext is.
LEMMA Active ==
  ASSUME IInv, ContextInv, ~orphaned, NEW l \in Lines, stacks[l] # <<>>, Top(l).pc # "waiting"
  PROVE  /\ ctx = InnerOf(l)
         /\ \/ l = Task /\ awaited = NoThread
            \/ l # Task /\ l = awaited /\ awaited # NoThread
<1>1. CASE l = Task
  <2>1. awaited = NoThread
    BY <1>1 DEF IInv, WaitInv, At
  <2>. QED
    BY <1>1, <2>1 DEF ContextInv
<1>2. CASE l # Task
  <2>1. l \in Threads /\ l = awaited /\ l # NoThread
    BY <1>2, Names DEF IInv, WaitInv
  <2>. QED
    BY <1>2, <2>1 DEF ContextInv
<1>. QED
  BY <1>1, <1>2

LEMMA ContextLocal ==
  ASSUME IInv, ContextInv, NEW l \in Lines, NEW f, NEW x, Local(l, f, x), Pays(l, f)
  PROVE  ContextInv'
<1>. SUFFICES ASSUME ~orphaned'  PROVE ContextInv'
  BY DEF ContextInv
<1>1. Top(l).pc # "waiting" /\ ~orphaned /\ awaited' = awaited /\ ctx' = ctx
  BY DEF Local
<1>2. /\ stacks'[l] # <<>> /\ stacks[l] # <<>> /\ Top(l)' = f
      /\ Depth(l) \in Nat \ {0} /\ Depth(l)' = Depth(l)
      /\ \A d \in 1..Depth(l) - 1 : stacks'[l][d] = stacks[l][d]
      /\ \A k \in Lines \ {l} : stacks'[k] = stacks[k]
  BY LocalShape DEF Local
<1>3. SameCalls(l)
  <2>1. ASSUME NEW d \in 1..Depth(l)  PROVE SameCall(stacks'[l][d], stacks[l][d])
    <3>1. CASE d \in 1..Depth(l) - 1
      BY <1>2, <3>1 DEF SameCall
    <3>2. CASE d = Depth(l)
      BY <1>2, <3>2 DEF SameCall, Local, Top
    <3>. QED
      BY <1>2, <3>1, <3>2
  <2>. QED
    BY <1>2, <2>1 DEF SameCalls
<1>4. \A k \in Lines : SameCalls(k)
  BY <1>2, <1>3, OthersSame
<1>5. \A k \in Lines :
        /\ stacks'[k] = <<>> <=> stacks[k] = <<>>
        /\ Chained(k)' <=> Chained(k)
        /\ stacks[k] # <<>> =>
             InnerOf(k)' = InnerOf(k) /\ stacks'[k][1].saved = stacks[k][1].saved
  BY <1>4, ChainKept DEF SameCalls
<1>6. Task \in Lines /\ Threads \subseteq Lines
  BY Names
<1>7. \A k \in Lines : Chained(k)'
  BY <1>1, <1>5 DEF ContextInv
<1>8. stacks'[Task] # <<>> => stacks'[Task][1].saved = HostFields
  BY <1>1, <1>5, <1>6 DEF ContextInv
<1>9. ASSUME awaited' # NoThread
      PROVE  stacks'[awaited'][1].saved = InnerOf(Task)' /\ ctx' = (InnerOf(awaited))'
  <2>1. PICK t \in Lines : t = awaited /\ t = awaited' /\ stacks[t] # <<>> /\ stacks[Task] # <<>>
    BY <1>1, <1>6, <1>9 DEF IInv, TypeOK, WaitInv, At
  <2>2. stacks[t][1].saved = InnerOf(Task) /\ ctx = InnerOf(t)
    BY <1>1, <1>9, <2>1 DEF ContextInv
  <2>3. InnerOf(t)' = InnerOf(t) /\ InnerOf(Task)' = InnerOf(Task)
        /\ stacks'[t][1].saved = stacks[t][1].saved
    BY <1>5, <1>6, <2>1
  <2>4. (InnerOf(awaited))' = InnerOf(t)'
    BY <2>1 DEF InnerOf, Top, Depth
  <2>. QED
    BY <1>1, <2>1, <2>2, <2>3, <2>4
<1>10. awaited' = NoThread =>
         ctx' = IF stacks'[Task] = <<>> THEN HostFields ELSE InnerOf(Task)'
  BY <1>1, <1>5, <1>6 DEF ContextInv
<1>. QED
  BY <1>7, <1>8, <1>9, <1>10 DEF ContextInv

LEMMA ContextHost ==
  ASSUME IInv, ContextInv, NEW a \in Agents \cup {NoAgent}, NEW cap \in HostCaps,
         NEW given \in Gives, Host(a, cap, given)
  PROVE  ContextInv'
<1>. SUFFICES ASSUME ~orphaned'  PROVE ContextInv'
  BY DEF ContextInv
<1>1. /\ stacks'[Task] # <<>> /\ Depth(Task)' = 1 /\ Top(Task)' \in Frame
      /\ Top(Task)'.agent = a /\ Top(Task)'.saved = ctx /\ stacks'[Task][1] = Top(Task)'
      /\ \A k \in Lines \ {Task} : stacks'[k] = stacks[k]
      /\ stacks[Task] = <<>> /\ awaited = NoThread
  BY HostShape
<1>2. ~orphaned /\ awaited' = NoThread /\ ctx' = Entered(a, Task, 1)
  BY <1>1 DEF Host
<1>3. ctx = HostFields
  BY <1>1, <1>2 DEF ContextInv
<1>4. \A k \in Lines : Chained(k)'
  <2>1. Chained(Task)'
    BY <1>1 DEF Chained
  <2>2. \A k \in Lines \ {Task} : Chained(k)'
    BY <1>1, <1>2, OthersSame, ChainKept DEF ContextInv
  <2>. QED
    BY <2>1, <2>2
<1>5. ctx' = InnerOf(Task)'
  <2>1. PICK f \in Frame : f = Top(Task)'
    BY <1>1
  <2>2. Entered(f.agent, Task, 1) = Within(f, Task, 1)
    BY <1>1, <2>1, EnteredIsWithin
  <2>3. InnerOf(Task)' = Within(f, Task, 1)
    BY <1>1, <2>1 DEF InnerOf, Within
  <2>. QED
    BY <1>1, <1>2, <2>1, <2>2, <2>3
<1>. QED
  BY <1>1, <1>2, <1>3, <1>4, <1>5 DEF ContextInv

\* A line that is not waiting changed where its calls end; the others did not.
LEMMA ContextMoves ==
  ASSUME IInv, ContextInv, ~orphaned, NEW l \in Lines, stacks[l] # <<>>, Top(l).pc # "waiting",
         \A k \in Lines \ {l} : stacks'[k] = stacks[k],
         stacks'[l] # <<>>, awaited' = awaited, Chained(l)',
         stacks'[l][1].saved = stacks[l][1].saved, ctx' = InnerOf(l)'
  PROVE  ContextInv'
<1>1. Task \in Lines /\ Threads \subseteq Lines
  BY Names
<1>2. /\ ctx = InnerOf(l)
      /\ \/ l = Task /\ awaited = NoThread
         \/ l # Task /\ l = awaited /\ awaited # NoThread
  BY Active
<1>3. \A k \in Lines \ {l} :
        /\ Chained(k)' <=> Chained(k)
        /\ stacks[k] # <<>> =>
             InnerOf(k)' = InnerOf(k) /\ stacks'[k][1].saved = stacks[k][1].saved
  BY OthersSame, ChainKept
<1>4. \A k \in Lines : Chained(k)'
  BY <1>3 DEF ContextInv
<1>5. CASE l = Task /\ awaited = NoThread
  BY <1>4, <1>5 DEF ContextInv
<1>6. CASE l # Task /\ l = awaited /\ awaited # NoThread
  <2>1. stacks[Task] # <<>>
    BY <1>6 DEF IInv, WaitInv, At
  <2>2. /\ InnerOf(Task)' = InnerOf(Task) /\ stacks'[Task][1].saved = stacks[Task][1].saved
        /\ stacks'[Task] # <<>>
    BY <1>1, <1>3, <1>6, <2>1
  <2>3. stacks[l][1].saved = InnerOf(Task) /\ stacks[Task][1].saved = HostFields
    BY <1>6, <2>1 DEF ContextInv
  <2>4. (InnerOf(awaited))' = InnerOf(l)'
    BY <1>6 DEF InnerOf, Top, Depth
  <2>. QED
    BY <1>4, <1>6, <2>2, <2>3, <2>4 DEF ContextInv
<1>. QED
  BY <1>2, <1>5, <1>6

LEMMA ContextNest ==
  ASSUME IInv, ContextInv, NEW l \in Lines, NEW a \in Agents, Nest(l, a)
  PROVE  ContextInv'
<1>. SUFFICES ASSUME ~orphaned'  PROVE ContextInv'
  BY DEF ContextInv
<1>1. /\ stacks'[l] # <<>> /\ stacks[l] # <<>>
      /\ Depth(l) \in Nat \ {0} /\ Depth(l)' = Depth(l) + 1
      /\ Top(l).pc = "exec"
      /\ Top(l)' \in Frame /\ Top(l)'.agent = a /\ Top(l)'.saved = ctx
      /\ Top(l)' = stacks'[l][Depth(l) + 1]
      /\ SameCall(stacks'[l][Depth(l)], Top(l))
      /\ \A d \in 1..Depth(l) - 1 : stacks'[l][d] = stacks[l][d]
      /\ \A k \in Lines \ {l} : stacks'[k] = stacks[k]
  BY NestShape
<1>2. ~orphaned /\ awaited' = awaited /\ ctx' = Entered(a, l, Depth(l) + 1)
  BY DEF Nest
<1>3. ctx = InnerOf(l)
  BY <1>1, <1>2, Active
<1>4. \A d \in 1..Depth(l) : SameCall(stacks'[l][d], stacks[l][d])
  <2>. TAKE d \in 1..Depth(l)
  <2>1. CASE d \in 1..Depth(l) - 1
    BY <1>1, <2>1 DEF SameCall
  <2>2. CASE d = Depth(l)
    BY <1>1, <2>2 DEF Top
  <2>. QED
    BY <1>1, <2>1, <2>2
<1>5. Chained(l)'
  <2>1. ASSUME NEW d \in 1..Depth(l)
        PROVE  stacks'[l][d + 1].saved = Within(stacks'[l][d], l, d)
    <3>1. Within(stacks'[l][d], l, d) = Within(stacks[l][d], l, d)
      BY <1>4 DEF Within, SameCall
    <3>2. CASE d \in 1..Depth(l) - 1
      <4>1. d + 1 \in 1..Depth(l)
        BY <1>1, <3>2
      <4>2. stacks'[l][d + 1].saved = stacks[l][d + 1].saved
        BY <1>4, <4>1 DEF SameCall
      <4>. QED
        BY <1>2, <3>1, <3>2, <4>2 DEF ContextInv, Chained
    <3>3. CASE d = Depth(l)
      BY <1>1, <1>3, <3>1, <3>3 DEF InnerOf, Top
    <3>. QED
      BY <1>1, <3>2, <3>3
  <2>2. \A d \in 1..Depth(l)' - 1 : d \in 1..Depth(l)
    BY <1>1
  <2>. QED
    BY <2>1, <2>2 DEF Chained
<1>6. ctx' = InnerOf(l)'
  <2>1. PICK f \in Frame : f = Top(l)'
    BY <1>1
  <2>2. Entered(f.agent, l, Depth(l) + 1) = Within(f, l, Depth(l) + 1)
    BY <1>1, <2>1, EnteredIsWithin
  <2>3. InnerOf(l)' = Within(f, l, Depth(l) + 1)
    BY <1>1, <2>1 DEF InnerOf, Within
  <2>. QED
    BY <1>1, <1>2, <2>1, <2>2, <2>3
<1>7. stacks'[l][1].saved = stacks[l][1].saved
  BY <1>1, <1>4 DEF SameCall
<1>. QED
  BY <1>1, <1>2, <1>5, <1>6, <1>7, ContextMoves

LEMMA ContextLeave ==
  ASSUME IInv, ContextInv, NEW l \in Lines, LeaveNested(l)
  PROVE  ContextInv'
<1>. SUFFICES ASSUME ~orphaned'  PROVE ContextInv'
  BY DEF ContextInv
<1>1. /\ stacks[l] # <<>> /\ Depth(l) \in Nat /\ Depth(l) > 1 /\ stacks'[l] # <<>>
      /\ Depth(l)' = Depth(l) - 1
      /\ Top(l).pc = "leave" /\ Top(l) = stacks[l][Depth(l)] /\ Top(l) \in Frame
      /\ Top(l)' = stacks'[l][Depth(l) - 1]
      /\ SameCall(Top(l)', stacks[l][Depth(l) - 1])
      /\ \A d \in 1..Depth(l) - 2 : stacks'[l][d] = stacks[l][d]
      /\ \A k \in Lines \ {l} : stacks'[k] = stacks[k]
  BY LeaveShape
<1>2. ~orphaned /\ awaited' = awaited /\ ctx' = Left(Top(l))
  BY DEF LeaveNested
<1>3. ctx = InnerOf(l)
  BY <1>1, <1>2, Active
<1>4. ctx' = Top(l).saved
  BY <1>1, <1>2, <1>3, LeftIsSaved DEF InnerOf
<1>5. \A d \in 1..Depth(l) - 1 : SameCall(stacks'[l][d], stacks[l][d])
  <2>. TAKE d \in 1..Depth(l) - 1
  <2>1. CASE d \in 1..Depth(l) - 2
    BY <1>1, <2>1 DEF SameCall
  <2>2. CASE d = Depth(l) - 1
    BY <1>1, <2>2
  <2>. QED
    BY <1>1, <2>1, <2>2
<1>6. \A d \in 1..Depth(l) - 1 : stacks[l][d + 1].saved = Within(stacks[l][d], l, d)
  BY <1>2 DEF ContextInv, Chained
<1>7. \A d \in 1..Depth(l) - 1 : Within(stacks'[l][d], l, d) = Within(stacks[l][d], l, d)
  BY <1>5 DEF Within, SameCall
<1>8. Chained(l)'
  <2>1. ASSUME NEW d \in 1..Depth(l) - 2
        PROVE  stacks'[l][d + 1].saved = Within(stacks'[l][d], l, d)
    <3>1. d \in 1..Depth(l) - 1 /\ d + 1 \in 1..Depth(l) - 1
      BY <1>1
    <3>2. stacks'[l][d + 1].saved = stacks[l][d + 1].saved
      BY <1>5, <3>1 DEF SameCall
    <3>. QED
      BY <1>6, <1>7, <3>1, <3>2
  <2>2. \A d \in 1..Depth(l)' - 1 : d \in 1..Depth(l) - 2
    BY <1>1
  <2>. QED
    BY <2>1, <2>2 DEF Chained
<1>9. ctx' = InnerOf(l)'
  <2>1. PICK d \in 1..Depth(l) - 1 : d = Depth(l) - 1 /\ d + 1 = Depth(l)
    BY <1>1
  <2>2. InnerOf(l)' = Within(stacks'[l][d], l, d)
    BY <1>1, <2>1 DEF InnerOf
  <2>. QED
    BY <1>1, <1>4, <1>6, <1>7, <2>1, <2>2
<1>10. stacks'[l][1].saved = stacks[l][1].saved
  <2>1. 1 \in 1..Depth(l) - 1
    BY <1>1
  <2>. QED
    BY <1>5, <2>1 DEF SameCall
<1>. QED
  BY <1>1, <1>2, <1>8, <1>9, <1>10, ContextMoves

LEMMA ContextLeaveHost ==
  ASSUME IInv, ContextInv, LeaveHost
  PROVE  ContextInv'
<1>. SUFFICES ASSUME ~orphaned'  PROVE ContextInv'
  BY DEF ContextInv
<1>1. /\ Task \in Lines /\ Emptied(Task) /\ stacks[Task] # <<>> /\ Top(Task).pc = "leave"
      /\ Depth(Task) = 1 /\ awaited = NoThread /\ awaited' = NoThread
      /\ ctx' = Left(Top(Task)) /\ ~orphaned
  BY LeaveHostIs
<1>2. /\ stacks'[Task] = <<>> /\ Depth(Task)' = 0
      /\ \A k \in Lines \ {Task} : stacks'[k] = stacks[k]
  BY <1>1, EmptyShape
<1>3. ctx = InnerOf(Task)
  BY <1>1, Active
<1>4. Top(Task) \in Frame /\ Top(Task) = stacks[Task][1]
  BY <1>1, LineType DEF IInv
<1>5. ctx' = HostFields
  <2>1. ctx' = Top(Task).saved
    BY <1>1, <1>3, <1>4, LeftIsSaved DEF InnerOf
  <2>. QED
    BY <1>1, <1>4, <2>1 DEF ContextInv
<1>6. \A k \in Lines : Chained(k)'
  <2>1. Chained(Task)'
    BY <1>2 DEF Chained
  <2>2. \A k \in Lines \ {Task} : Chained(k)'
    BY <1>1, <1>2, OthersSame, ChainKept DEF ContextInv
  <2>. QED
    BY <2>1, <2>2
<1>. QED
  BY <1>1, <1>2, <1>5, <1>6 DEF ContextInv

LEMMA ContextOffload ==
  ASSUME IInv, ContextInv, NEW t \in Threads, Offload(t)
  PROVE  ContextInv'
<1>. SUFFICES ASSUME ~orphaned'  PROVE ContextInv'
  BY DEF ContextInv
<1>1. /\ stacks' \in [Lines -> Seq(Frame)] /\ stacks[Task] # <<>> /\ stacks'[Task] # <<>>
      /\ Depth(Task) \in Nat \ {0} /\ Depth(Task)' = Depth(Task)
      /\ Top(Task).pc = "exec" /\ SameCall(Top(Task)', Top(Task))
      /\ \A d \in 1..Depth(Task) - 1 : stacks'[Task][d] = stacks[Task][d]
      /\ stacks'[t] # <<>> /\ Depth(t)' = 1 /\ stacks'[t][1] = Top(t)'
      /\ Top(t)'.agent = NoAgent /\ Top(t)'.saved = ctx
      /\ \A k \in Lines \ {Task, t} : stacks'[k] = stacks[k]
      /\ awaited = NoThread
  BY OffloadShape
<1>2. /\ Task \in Lines /\ t \in Lines /\ t # Task /\ t # NoThread
      /\ ~orphaned /\ awaited' = t /\ ctx' = ctx
  BY Names DEF Offload
<1>3. ctx = InnerOf(Task)
  BY <1>1, <1>2, Active
<1>4. SameCalls(Task)
  <2>1. ASSUME NEW d \in 1..Depth(Task)
        PROVE  SameCall(stacks'[Task][d], stacks[Task][d])
    <3>1. CASE d \in 1..Depth(Task) - 1
      BY <1>1, <3>1 DEF SameCall
    <3>2. CASE d = Depth(Task)
      <4>1. Top(Task)' = stacks'[Task][d] /\ Top(Task) = stacks[Task][d]
        BY <1>1, <3>2 DEF Top
      <4>. QED
        BY <1>1, <4>1
    <3>. QED
      BY <1>1, <3>1, <3>2
  <2>. QED
    BY <1>1, <2>1 DEF SameCalls
<1>5. /\ Chained(Task)' /\ InnerOf(Task)' = InnerOf(Task)
      /\ stacks'[Task][1].saved = HostFields
  BY <1>1, <1>2, <1>4, ChainKept DEF ContextInv
<1>6. \A k \in Lines : Chained(k)'
  <2>1. Chained(t)'
    BY <1>1 DEF Chained
  <2>2. \A k \in Lines \ {Task, t} : Chained(k)'
    BY <1>1, <1>2, OthersSame, ChainKept DEF ContextInv
  <2>. QED
    BY <1>5, <2>1, <2>2
<1>7. InnerOf(t)' = ctx
  <2>1. 1 \in 1..Len(stacks'[t])
    BY <1>1 DEF Depth
  <2>2. PICK f \in Frame : f = Top(t)'
    BY <1>1, <1>2, <2>1, ElementOfSeq
  <2>3. Within(f, t, 1) = f.saved
    BY <1>1, <2>2, FunctionWithin
  <2>4. InnerOf(t)' = Within(f, t, 1)
    BY <1>1, <2>2 DEF InnerOf
  <2>. QED
    BY <1>1, <2>2, <2>3, <2>4
<1>8. (InnerOf(awaited))' = InnerOf(t)'
  BY <1>2 DEF InnerOf, Top, Depth
<1>. QED
  BY <1>1, <1>2, <1>3, <1>5, <1>6, <1>7, <1>8 DEF ContextInv

LEMMA ContextJoin ==
  ASSUME IInv, ContextInv, NEW t \in Threads, Join(t)
  PROVE  ContextInv'
<1>. SUFFICES ASSUME ~orphaned'  PROVE ContextInv'
  BY DEF ContextInv
<1>1. /\ stacks[Task] # <<>> /\ stacks'[Task] # <<>>
      /\ Depth(Task) \in Nat \ {0} /\ Depth(Task)' = Depth(Task)
      /\ SameCall(Top(Task)', Top(Task))
      /\ \A d \in 1..Depth(Task) - 1 : stacks'[Task][d] = stacks[Task][d]
      /\ awaited = t /\ stacks[t] # <<>> /\ Depth(t) = 1 /\ stacks'[t] = <<>>
      /\ \A k \in Lines \ {Task, t} : stacks'[k] = stacks[k]
      /\ awaited' = NoThread /\ ctx' = ctx /\ ~orphaned
  BY JoinShape
<1>2. Task \in Lines /\ t \in Lines /\ t # Task /\ t # NoThread
  BY Names
<1>3. SameCalls(Task)
  <2>1. ASSUME NEW d \in 1..Depth(Task)
        PROVE  SameCall(stacks'[Task][d], stacks[Task][d])
    <3>1. CASE d \in 1..Depth(Task) - 1
      BY <1>1, <3>1 DEF SameCall
    <3>2. CASE d = Depth(Task)
      <4>1. Top(Task)' = stacks'[Task][d] /\ Top(Task) = stacks[Task][d]
        BY <1>1, <3>2 DEF Top
      <4>. QED
        BY <1>1, <4>1
    <3>. QED
      BY <1>1, <3>1, <3>2
  <2>. QED
    BY <1>1, <2>1 DEF SameCalls
<1>4. /\ Chained(Task)' /\ InnerOf(Task)' = InnerOf(Task)
      /\ stacks'[Task][1].saved = HostFields
  BY <1>1, <1>2, <1>3, ChainKept DEF ContextInv
<1>5. \A k \in Lines : Chained(k)'
  <2>1. Depth(t)' = 0
    <3>1. Len(<<>>) = 0
      BY EmptySeq
    <3>. QED
      BY <1>1, <3>1 DEF Depth
  <2>2. Chained(t)'
    BY <2>1 DEF Chained
  <2>3. \A k \in Lines \ {Task, t} : Chained(k)'
    BY <1>1, <1>2, OthersSame, ChainKept DEF ContextInv
  <2>. QED
    BY <1>4, <2>2, <2>3
<1>6. ctx = InnerOf(Task)
  <2>1. ctx = InnerOf(t) /\ stacks[t][1].saved = InnerOf(Task)
    BY <1>1, <1>2 DEF ContextInv
  <2>2. /\ Top(t) \in Frame /\ Top(t) = stacks[t][1] /\ Top(t).agent = NoAgent
    BY <1>1, <1>2, LineType DEF IInv, StackInv
  <2>3. InnerOf(t) = Top(t).saved
    BY <2>2, FunctionWithin DEF InnerOf
  <2>. QED
    BY <2>1, <2>2, <2>3
<1>. QED
  BY <1>1, <1>4, <1>5, <1>6 DEF ContextInv

LEMMA ContextStep == IInv /\ ContextInv /\ [Next]_vars => ContextInv'
<1>. SUFFICES ASSUME IInv, ContextInv, [Next]_vars  PROVE ContextInv'
  OBVIOUS
<1>1. ASSUME NEW t \in Threads, OrphanEnds(t)  PROVE ContextInv'
  BY <1>1, OrphanIs DEF ContextInv
<1>2. ASSUME UNCHANGED <<stacks, ctx, awaited, orphaned>>  PROVE ContextInv'
  BY <1>2 DEF ContextInv, Chained, InnerOf, Top, Depth
<1>. QED
  BY <1>1, <1>2, StepKinds, ContextLocal, ContextHost, ContextNest, ContextLeave,
     ContextLeaveHost, ContextOffload, ContextJoin DEF SetCancel, vars

\* A set of numbers that holds 0 and, with each number, the next holds all.
LEMMA NatInSet ==
  ASSUME NEW T, 0 \in T, \A n \in Nat : n \in T => n + 1 \in T
  PROVE  Nat \subseteq T
<1>. DEFINE less == OpToRel(<, Nat)
            missing == Nat \ T
<1>1. IsWellFoundedOn(less, Nat)
  BY NatLessThanWellFounded
<1>2. \A m, n \in Nat : m < n => <<m, n>> \in less
  BY DEF OpToRel
<1>. SUFFICES ASSUME missing # {}  PROVE FALSE
  OBVIOUS
<1>3. missing \subseteq Nat
  OBVIOUS
<1>4. PICK n \in missing : \A m \in missing : <<m, n>> \notin less
  <2>. HIDE DEF missing, less
  <2>. QED
    BY <1>1, <1>3, WFMin
<1>. HIDE DEF less
<1>5. n \in Nat /\ n # 0 /\ n - 1 \in Nat /\ n - 1 < n
  OBVIOUS
<1>6. n - 1 \in T
  BY <1>2, <1>4, <1>5
<1>. QED
  BY <1>4, <1>5, <1>6

\* The innermost agent among the first n calls.
AgentsTo(s, n) == {d \in 1..n : s[d].agent # NoAgent}

LastAgent(s, inside, outer) ==
  IF inside = {} THEN outer ELSE s[CHOOSE d \in inside : \A e \in inside : e <= d].agent

ScopeTo(s, n, outer) == LastAgent(s, AgentsTo(s, n), outer)

LEMMA NextScope ==
  ASSUME NEW s, NEW n \in Nat, NEW outer
  PROVE  ScopeTo(s, n + 1, outer) =
           IF s[n + 1].agent = NoAgent THEN ScopeTo(s, n, outer) ELSE s[n + 1].agent
<1>1. CASE s[n + 1].agent = NoAgent
  <2>1. AgentsTo(s, n + 1) = AgentsTo(s, n)
    <3>1. \A d : d \in 1..n + 1 <=> d \in 1..n \/ d = n + 1
      OBVIOUS
    <3>. QED
      BY <1>1, <3>1 DEF AgentsTo
  <2>. QED
    BY <1>1, <2>1 DEF ScopeTo
<1>2. CASE s[n + 1].agent # NoAgent
  <2>1. n + 1 \in AgentsTo(s, n + 1) /\ AgentsTo(s, n + 1) \subseteq 1..n + 1
    BY <1>2 DEF AgentsTo
  <2>2. PICK S : S = AgentsTo(s, n + 1)
    OBVIOUS
  <2>3. (CHOOSE d \in S : \A e \in S : e <= d) = n + 1
    <3>1. \A d \in S : (\A e \in S : e <= d) <=> d = n + 1
      BY <2>1, <2>2
    <3>. QED
      BY <2>1, <2>2, <3>1
  <2>. QED
    BY <1>2, <2>1, <2>2, <2>3 DEF ScopeTo, LastAgent
<1>. QED
  BY <1>1, <1>2

\* The scope inside a chain of calls is that of its innermost agent.
LEMMA ScopeOfChain ==
  ASSUME IInv, NEW l \in Lines, stacks[l] # <<>>, Chained(l)
  PROVE  InnerOf(l).scope = ScopeOf(stacks[l], stacks[l][1].saved.scope)
<1>1. Depth(l) \in Nat \ {0} /\ DOMAIN stacks[l] = 1..Depth(l) /\ Top(l) = stacks[l][Depth(l)]
  BY LineType DEF IInv
<1>2. PICK s, outer : s = stacks[l] /\ outer = stacks[l][1].saved.scope
  OBVIOUS
<1>. DEFINE T == {n \in Nat : n + 1 \in 1..Depth(l) => s[n + 1].saved.scope = ScopeTo(s, n, outer)}
<1>3. 0 \in T
  BY <1>2 DEF ScopeTo, LastAgent, AgentsTo
<1>4. \A n \in 1..Depth(l) :
        Within(s[n], l, n).scope = IF s[n].agent = NoAgent THEN s[n].saved.scope ELSE s[n].agent
  BY DEF Within
<1>5. ASSUME NEW n \in Nat, n \in T  PROVE n + 1 \in T
  <2>. SUFFICES ASSUME n + 1 + 1 \in 1..Depth(l)
                PROVE  s[n + 1 + 1].saved.scope = ScopeTo(s, n + 1, outer)
    OBVIOUS
  <2>1. n + 1 \in 1..Depth(l) /\ n + 1 \in 1..Depth(l) - 1
    BY <1>1
  <2>2. s[n + 1 + 1].saved = Within(s[n + 1], l, n + 1)
    BY <1>2, <2>1 DEF Chained
  <2>3. s[n + 1].saved.scope = ScopeTo(s, n, outer)
    BY <1>5, <2>1
  <2>. QED
    BY <1>4, <2>1, <2>2, <2>3, NextScope
<1>. HIDE DEF T
<1>6. Nat \subseteq T
  BY <1>3, <1>5, NatInSet
<1>7. PICK n \in Nat : n + 1 = Depth(l)
  <2>1. Depth(l) - 1 \in Nat /\ Depth(l) - 1 + 1 = Depth(l)
    BY <1>1
  <2>. QED
    BY <2>1
<1>8. s[n + 1].saved.scope = ScopeTo(s, n, outer)
  <2>1. n \in T /\ n + 1 \in 1..Depth(l)
    BY <1>1, <1>6, <1>7
  <2>. QED
    BY <2>1 DEF T
<1>9. InnerOf(l).scope = ScopeTo(s, n + 1, outer)
  <2>1. InnerOf(l) = Within(s[n + 1], l, n + 1) /\ n + 1 \in 1..Depth(l)
    BY <1>1, <1>2, <1>7 DEF InnerOf
  <2>. QED
    BY <1>4, <1>8, <2>1, NextScope
<1>10. ScopeOf(s, outer) = ScopeTo(s, n + 1, outer)
  <2>1. {d \in DOMAIN s : s[d].agent # NoAgent} = AgentsTo(s, n + 1)
    BY <1>1, <1>2, <1>7 DEF AgentsTo
  <2>2. ScopeOf(s, outer) = LastAgent(s, {d \in DOMAIN s : s[d].agent # NoAgent}, outer)
    BY DEF ScopeOf, LastAgent
  <2>. QED
    BY <2>1, <2>2 DEF ScopeTo
<1>. QED
  BY <1>2, <1>9, <1>10

LEMMA ContextFollows == IInv /\ ContextInv => ContextFollowsCalls
<1>. SUFFICES ASSUME IInv, ContextInv, ~orphaned
              PROVE  /\ ctx.scope = IF awaited = NoThread THEN HostScope
                                    ELSE ScopeOf(stacks[awaited], HostScope)
                     /\ stacks[Task] = <<>> => ctx = HostFields
  BY DEF ContextFollowsCalls
<1>1. Task \in Lines /\ \A l \in Lines : Chained(l)
  BY Names DEF ContextInv
<1>2. HostFields.scope = NoAgent
  BY DEF HostFields
<1>3. ASSUME stacks[Task] = <<>>
      PROVE  HostScope = NoAgent /\ awaited = NoThread /\ ctx = HostFields
  <2>1. DOMAIN stacks[Task] = {}
    BY <1>3
  <2>2. HostScope = NoAgent
    BY <2>1 DEF HostScope, ScopeOf
  <2>. QED
    BY <1>3, <2>2 DEF ContextInv, IInv, WaitInv, At
<1>4. ASSUME stacks[Task] # <<>>
      PROVE  HostScope = InnerOf(Task).scope
  BY <1>1, <1>2, <1>4, ScopeOfChain DEF HostScope, ContextInv
<1>5. CASE awaited = NoThread
  BY <1>2, <1>3, <1>4, <1>5 DEF ContextInv
<1>6. CASE awaited # NoThread
  <2>1. PICK t \in Lines : t = awaited
    BY <1>6, Names DEF IInv, TypeOK
  <2>2. stacks[t] # <<>> /\ stacks[Task] # <<>>
    BY <1>6, <2>1 DEF IInv, WaitInv, At
  <2>3. stacks[t][1].saved = InnerOf(Task) /\ ctx = InnerOf(t)
    BY <1>6, <2>1 DEF ContextInv
  <2>4. InnerOf(t).scope = ScopeOf(stacks[t], HostScope)
    BY <1>1, <1>4, <2>2, <2>3, ScopeOfChain
  <2>. QED
    BY <1>6, <2>1, <2>2, <2>3, <2>4
<1>. QED
  BY <1>3, <1>5, <1>6

\* As long as no thread was orphaned, the active message scope is that of the
\* innermost agent, be it run by the task or by the thread it waits for, and
\* nothing of a run remains after it (node.py:562-567, context.py:261-266).
THEOREM ContextKept == Spec => []ContextFollowsCalls
<1>1. Init => ContextInv
  <2>. SUFFICES ASSUME Init  PROVE ContextInv
    OBVIOUS
  <2>1. \A l \in Lines : Depth(l) = 0
    <3>1. Len(<<>>) = 0
      BY EmptySeq
    <3>. QED
      BY <3>1 DEF Init, Depth
  <2>2. \A l \in Lines : Chained(l)
    BY <2>1 DEF Chained
  <2>. QED
    BY <2>2, Names DEF Init, ContextInv
<1>. QED
  BY <1>1, AlwaysIInv, ContextStep, ContextFollows, PTL DEF Spec

=============================================================================
