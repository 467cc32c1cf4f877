---------------------------- MODULE FlowRunProofs ----------------------------
(***************************************************************************)
(* Proofs about FlowRun, for every graph, every nesting and every bound.   *)
(***************************************************************************)
EXTENDS FlowRun, SequenceTheorems, TLAPS

\* Steps of Flow.run that change the innermost frame only.
LocalStep ==
  \/ CancelAtBoundary \/ PassBoundary \/ Admit \/ Exhausted \/ Overrun
  \/ Retry \/ NodeCancel \/ NodeError \/ Route \/ End \/ Interrupt
  \/ \E a \in Actions \cup {"", NonString} : Return(a)
  \/ \E kind \in {"failed", "cancelled"} : Raise(kind)

\* What a local step leaves alone in its frame: the bindings of the call.
SameBindings(f, g) ==
  /\ f.cap = g.cap /\ f.traced = g.traced /\ f.scope = g.scope
  /\ f.given = g.given /\ f.cancel = g.cancel /\ f.saved = g.saved

-----------------------------------------------------------------------------
\* Replacing the innermost frame keeps the depth and every other frame.
LEMMA SetTopLemma ==
  ASSUME stack \in Seq(Frame), stack # <<>>, NEW f \in Frame, SetTop(f)
  PROVE  /\ stack' \in Seq(Frame)
         /\ stack' # <<>>
         /\ Len(stack') = Len(stack)
         /\ Len(stack) \in Nat \ {0}
         /\ stack'[Len(stack)] = f
         /\ \A i \in 1..Len(stack) - 1 : stack'[i] = stack[i]
<1>1. Len(stack) \in Nat \ {0}
  BY EmptySeq, LenProperties
<1>2. /\ stack' \in Seq(Frame)
      /\ Len(stack') = Len(stack)
      /\ \A i \in 1..Len(stack) : stack'[i] = IF i = Len(stack) THEN f ELSE stack[i]
  BY <1>1, ExceptSeq DEF SetTop, Depth
<1>3. stack' # <<>>
  BY <1>1, <1>2, EmptySeq
<1>. QED
  BY <1>1, <1>2, <1>3

\* The innermost frame is a frame.
LEMMA TopType ==
  ASSUME stack \in Seq(Frame), stack # <<>>
  PROVE  Top \in Frame /\ Depth \in Nat \ {0}
BY EmptySeq, LenProperties, ElementOfSeq DEF Top, Depth

\* f is frame g moved to program counter p, its bindings kept.
Moved(f, g, p) == f \in Frame /\ f.pc = p /\ SameBindings(f, g)

\* The edits the local steps make to a frame.
LEMMA FrameEdits ==
  ASSUME NEW g \in Frame, NEW p \in PCs
  PROVE  /\ Moved([g EXCEPT !.pc = p], g, p)
         /\ \A a \in Actions \cup {NonString} :
              Moved([g EXCEPT !.pc = p, !.action = a], g, p)
         /\ \A m \in Nat :
              Moved([g EXCEPT !.pc = p, !.attempt = m, !.calls = 0], g, p)
         /\ \A n \in Nodes, k \in Nat :
              Moved([g EXCEPT !.pc = p, !.current = n, !.step = k], g, p)
<1>1. Moved([g EXCEPT !.pc = p], g, p)
  BY DEF Moved, Frame, SameBindings
<1>2. ASSUME NEW a \in Actions \cup {NonString}
      PROVE  Moved([g EXCEPT !.pc = p, !.action = a], g, p)
  BY DEF Moved, Frame, SameBindings
<1>3. ASSUME NEW m \in Nat
      PROVE  Moved([g EXCEPT !.pc = p, !.attempt = m, !.calls = 0], g, p)
  BY DEF Moved, Frame, SameBindings
<1>4. ASSUME NEW n \in Nodes, NEW k \in Nat
      PROVE  Moved([g EXCEPT !.pc = p, !.current = n, !.step = k], g, p)
  BY DEF Moved, Frame, SameBindings
<1>. QED
  BY <1>1, <1>2, <1>3, <1>4

\* A local step replaces the innermost frame and keeps its bindings.
LEMMA LocalStepLemma ==
  ASSUME TypeOK, LocalStep
  PROVE  /\ stack # <<>> /\ env' = env /\ runs' = runs
         /\ \E f \in Frame : SetTop(f) /\ SameBindings(f, Top) /\ f.pc # "calling"
<1>. DEFINE Goal == /\ stack # <<>> /\ env' = env /\ runs' = runs
                    /\ \E f \in Frame :
                         SetTop(f) /\ SameBindings(f, Top) /\ f.pc # "calling"
<1>1. stack # <<>>
  BY DEF LocalStep, CancelAtBoundary, PassBoundary, Admit, Exhausted, Overrun,
         Retry, NodeCancel, NodeError, Route, End, Interrupt, Return, Raise, At
<1>2. Top \in Frame
  BY <1>1, TopType DEF TypeOK
<1>3. {"boundary", "admit", "exec", "returned", "raised", "leave"} \subseteq PCs
  BY DEF PCs
<1>4. ASSUME \/ CancelAtBoundary \/ PassBoundary \/ Exhausted \/ Overrun
             \/ NodeCancel \/ NodeError \/ End \/ Interrupt
             \/ \E kind \in {"failed", "cancelled"} : Raise(kind)
      PROVE  Goal
  <2>1. PICK p \in {"admit", "leave", "raised"} :
          SetTop([Top EXCEPT !.pc = p]) /\ env' = env /\ runs' = runs
    BY <1>4 DEF CancelAtBoundary, PassBoundary, Exhausted, Overrun, NodeCancel,
                NodeError, End, Interrupt, Raise
  <2>2. Moved([Top EXCEPT !.pc = p], Top, p)
    BY <1>2, <1>3, FrameEdits
  <2>. QED
    BY <1>1, <2>1, <2>2 DEF Moved
<1>5. ASSUME Admit \/ Retry  PROVE Goal
  <2>1. PICK m \in Nat :
          /\ SetTop([Top EXCEPT !.pc = "exec", !.attempt = m, !.calls = 0])
          /\ env' = env /\ runs' = runs
    <3>1. NextAttempt(Top) \in Nat /\ 1 \in Nat
      BY <1>2 DEF NextAttempt, Frame
    <3>. QED
      BY <1>5, <3>1 DEF Admit, Retry
  <2>2. Moved([Top EXCEPT !.pc = "exec", !.attempt = m, !.calls = 0], Top, "exec")
    BY <1>2, <1>3, FrameEdits
  <2>. QED
    BY <1>1, <2>1, <2>2 DEF Moved
<1>6. ASSUME NEW a \in Actions \cup {"", NonString}, Return(a)  PROVE Goal
  <2>1. PICK b \in Actions \cup {NonString} :
          SetTop([Top EXCEPT !.pc = "returned", !.action = b])
    BY <1>6, GraphAssumption DEF Return
  <2>2. env' = env /\ runs' = runs
    BY <1>6 DEF Return
  <2>3. Moved([Top EXCEPT !.pc = "returned", !.action = b], Top, "returned")
    BY <1>2, <1>3, FrameEdits
  <2>. QED
    BY <1>1, <2>1, <2>2, <2>3 DEF Moved
<1>7. ASSUME Route  PROVE Goal
  <2>. DEFINE next == Succ[Top.current][Top.action]
  <2>1. next \in Nodes /\ Top.step + 1 \in Nat
    <3>1. Top.current \in Nodes /\ Top.action \in Actions /\ Top.step \in Nat
      BY <1>2, <1>7 DEF Route, Frame
    <3>2. next # NoNode
      BY <1>7 DEF Route
    <3>3. Succ[Top.current] \in [Actions -> Nodes \cup {NoNode}]
      BY <3>1, GraphAssumption
    <3>4. next \in Nodes \cup {NoNode}
      BY <3>1, <3>3
    <3>. QED
      BY <3>1, <3>2, <3>4
  <2>2. SetTop([Top EXCEPT !.pc = "boundary", !.current = next,
                           !.step = Top.step + 1])
    BY <1>7 DEF Route
  <2>3. env' = env /\ runs' = runs
    BY <1>7 DEF Route
  <2>4. Moved([Top EXCEPT !.pc = "boundary", !.current = next,
                          !.step = Top.step + 1], Top, "boundary")
    BY <1>2, <1>3, <2>1, FrameEdits
  <2>. QED
    BY <1>1, <2>2, <2>3, <2>4 DEF Moved
<1>. QED
  BY <1>4, <1>5, <1>6, <1>7 DEF LocalStep

-----------------------------------------------------------------------------
(***************************************************************************)
(* Calls and returns.                                                      *)
(***************************************************************************)

\* What the caller's frame becomes when its body begins a nested run.
Caller == [Top EXCEPT !.pc = "calling", !.calls = @ + 1]

\* The frame a nested run begins with.
Callee ==
  LET n == Top.current
  IN  NewFrame(Inner[n], Cap[n], IF n \in OwnCancel THEN n ELSE NoEvent,
               n \in Tracers, IF n \in Scopes THEN n ELSE NoNode)

\* A new call begins with a well-typed frame, in a well-typed environment.
LEMMA NewFrameType ==
  ASSUME env \in Env,
         NEW start \in Nodes, NEW cap \in Nat \ {0},
         NEW ev \in Events \cup {NoEvent}, NEW traced \in BOOLEAN,
         NEW scope \in Nodes \cup {NoNode}
  PROVE  /\ NewFrame(start, cap, ev, traced, scope) \in Frame
         /\ NewFrame(start, cap, ev, traced, scope).saved = env
<1>. DEFINE f == NewFrame(start, cap, ev, traced, scope)
<1>1. f \in Frame /\ f.saved = env
  <2>1. /\ "default" \in Actions \cup {NonString}
        /\ (IF ev = NoEvent THEN env.cancel ELSE ev) \in Events \cup {NoEvent}
        /\ "boundary" \in PCs
    BY GraphAssumption DEF Env, PCs
  <2>. QED
    BY <2>1 DEF NewFrame, Frame
<1>. QED
  BY <1>1

LEMMA InnerEnvType ==
  ASSUME NEW f \in Frame, NEW d \in Nat
  PROVE  InnerEnv(f, d) \in Env
BY DEF InnerEnv, Env, Frame

LEMMA CalleeType ==
  ASSUME TypeOK, stack # <<>>, Inner[Top.current] # NoNode
  PROVE  /\ Callee \in Frame
         /\ Callee.saved = env
         /\ InnerEnv(Callee, Depth + 1) \in Env
         /\ Caller \in Frame
         /\ SameBindings(Caller, Top)
         /\ Caller.pc = "calling"
<1>1. Top \in Frame /\ Depth + 1 \in Nat /\ env \in Env
  BY TopType DEF TypeOK
<1>2. Caller \in Frame /\ SameBindings(Caller, Top) /\ Caller.pc = "calling"
  <2>1. Top.calls + 1 \in Nat /\ "calling" \in PCs
    BY <1>1 DEF Frame, PCs
  <2>. QED
    BY <1>1, <2>1 DEF Caller, Frame, SameBindings
<1>. DEFINE n == Top.current
            ev == IF n \in OwnCancel THEN n ELSE NoEvent
            traced == n \in Tracers
            scope == IF n \in Scopes THEN n ELSE NoNode
<1>3. n \in Nodes
  BY <1>1 DEF Frame
<1>4. Inner[n] \in Nodes /\ Cap[n] \in Nat \ {0}
  BY <1>3, NestingAssumption
<1>5. /\ ev \in Events \cup {NoEvent}
      /\ traced \in BOOLEAN
      /\ scope \in Nodes \cup {NoNode}
  BY <1>3 DEF Events
<1>6. Callee = NewFrame(Inner[n], Cap[n], ev, traced, scope)
  BY DEF Callee
<1>. HIDE DEF n, ev, traced, scope
<1>7. Callee \in Frame /\ Callee.saved = env
  BY <1>1, <1>4, <1>5, <1>6, NewFrameType
<1>8. InnerEnv(Callee, Depth + 1) \in Env
  BY <1>1, <1>7, InnerEnvType
<1>. QED
  BY <1>2, <1>7, <1>8

\* Beginning a nested run pushes its frame on the caller's.
LEMMA PushLemma ==
  ASSUME TypeOK, Nest
  PROVE  /\ stack # <<>> /\ Depth \in Nat \ {0}
         /\ Inner[Top.current] # NoNode
         /\ env' = InnerEnv(Callee, Depth + 1)
         /\ stack' \in Seq(Frame)
         /\ Len(stack') = Depth + 1
         /\ stack'[Depth + 1] = Callee
         /\ stack'[Depth] = Caller
         /\ \A i \in 1..Depth - 1 : stack'[i] = stack[i]
<1>1. stack # <<>> /\ Inner[Top.current] # NoNode
  BY DEF Nest, At
<1>2. Depth \in Nat \ {0} /\ stack \in Seq(Frame)
  BY <1>1, TopType DEF TypeOK
<1>3. Callee \in Frame /\ Caller \in Frame
  BY <1>1, CalleeType
<1>. DEFINE base == [stack EXCEPT ![Depth] = Caller]
<1>4. /\ base \in Seq(Frame)
      /\ Len(base) = Depth
      /\ \A i \in 1..Depth : base[i] = IF i = Depth THEN Caller ELSE stack[i]
  BY <1>2, <1>3, ExceptSeq DEF Depth
<1>5. stack' = Append(base, Callee) /\ env' = InnerEnv(Callee, Depth + 1)
  BY DEF Nest, Caller, Callee
<1>. HIDE DEF base
<1>6. /\ stack' \in Seq(Frame)
      /\ Len(stack') = Depth + 1
      /\ stack'[Depth + 1] = Callee
      /\ \A i \in 1..Depth : stack'[i] = base[i]
  BY <1>3, <1>4, <1>5, AppendProperties
<1>. QED
  BY <1>1, <1>2, <1>4, <1>5, <1>6

\* The caller's body resumes in a well-typed frame with the same bindings.
LEMMA ResumedType ==
  ASSUME NEW f \in Frame, NEW g \in Frame, exc \in Excs
  PROVE  /\ Resumed(f, g) \in Frame
         /\ SameBindings(Resumed(f, g), f)
         /\ Resumed(f, g).pc \in {"leave", "exec", "returned", "raised"}
<1>. DEFINE act == IF Expose[f.current] = Inherit THEN g.action
                   ELSE Expose[f.current]
<1>1. act \in Actions \cup {NonString}
  BY NestingAssumption DEF Frame
<1>2. {"leave", "exec", "returned", "raised"} \subseteq PCs
  BY DEF PCs
<1>3. /\ \A p \in {"leave", "exec", "raised"} : Moved([f EXCEPT !.pc = p], f, p)
      /\ Moved([f EXCEPT !.pc = "returned", !.action = act], f, "returned")
  BY <1>1, <1>2, FrameEdits
<1>4. \/ \E p \in {"leave", "exec", "raised"} : Resumed(f, g) = [f EXCEPT !.pc = p]
      \/ Resumed(f, g) = [f EXCEPT !.pc = "returned", !.action = act]
  BY DEF Resumed
<1>. QED
  BY <1>3, <1>4 DEF Moved

\* Returning from a nested run pops its frame and resumes the caller's.
LEMMA PopLemma ==
  ASSUME TypeOK, LeaveNested
  PROVE  /\ stack # <<>> /\ Depth \in Nat /\ Depth > 1
         /\ stack[Depth - 1] \in Frame
         /\ stack' \in Seq(Frame)
         /\ stack' # <<>>
         /\ Len(stack') = Depth - 1
         /\ stack'[Depth - 1] = Resumed(stack[Depth - 1], Top)
         /\ \A i \in 1..Depth - 2 : stack'[i] = stack[i]
<1>1. stack # <<>> /\ Depth > 1
  BY DEF LeaveNested, At
<1>2. Depth \in Nat /\ stack \in Seq(Frame) /\ Top \in Frame
  BY <1>1, TopType DEF TypeOK
<1>3. \A i \in 1..Depth - 1 : stack[i] \in Frame
  BY <1>2, ElementOfSeq DEF Depth
<1>. DEFINE base == SubSeq(stack, 1, Depth - 1)
            g == Resumed(stack[Depth - 1], Top)
<1>4. /\ base \in Seq(Frame)
      /\ Len(base) = Depth - 1
      /\ \A i \in 1..Depth - 1 : base[i] = stack[i]
  BY <1>1, <1>2, <1>3, SubSeqProperties
<1>5. g \in Frame
  BY <1>1, <1>2, <1>3, ResumedType DEF TypeOK
<1>6. stack' = [base EXCEPT ![Depth - 1] = g]
  BY DEF LeaveNested
<1>. HIDE DEF base, g
<1>7. /\ stack' \in Seq(Frame)
      /\ Len(stack') = Depth - 1
      /\ \A i \in 1..Depth - 1 :
           stack'[i] = IF i = Depth - 1 THEN g ELSE base[i]
  BY <1>1, <1>2, <1>4, <1>5, <1>6, ExceptSeq
<1>8. stack' # <<>>
  BY <1>1, <1>2, <1>7, EmptySeq
<1>. QED
  BY <1>1, <1>2, <1>3, <1>4, <1>7, <1>8 DEF g

-----------------------------------------------------------------------------
(***************************************************************************)
(* Type correctness.                                                       *)
(***************************************************************************)

Positions == Nat \X (Nodes \cup {NoNode})

LEMMA InitType == Init => TypeOK
<1>1. <<>> \in Seq(Frame) /\ <<>> \in Seq(Positions)
  BY EmptySeq
<1>. QED
  BY <1>1 DEF Init, TypeOK, HostEnv, Env, Excs, Positions

\* A closing event leaves the observer with a sequence of positions.
LEMMA CloseVisitType ==
  ASSUME open \in Seq(Positions), NEW p, CloseVisit(p)
  PROVE  open' \in Seq(Positions)
<1>1. CASE open # <<>> /\ open[Len(open)] = p
  <2>1. Len(open) \in Nat \ {0}
    BY <1>1, EmptySeq
  <2>2. \A i \in 1..Len(open) - 1 : open[i] \in Positions
    BY <2>1, ElementOfSeq
  <2>3. SubSeq(open, 1, Len(open) - 1) \in Seq(Positions)
    BY <2>1, <2>2, SubSeqProperties
  <2>. QED
    BY <1>1, <2>3 DEF CloseVisit
<1>. QED
  BY <1>1 DEF CloseVisit

\* A local step keeps the types of the variables other than the stack.
LEMMA LocalTypes ==
  ASSUME TypeOK, LocalStep, stack # <<>>
  PROVE  /\ budget' \in [limit : Nat, remaining : Nat]
         /\ pos' \in Positions
         /\ cancelled' \subseteq Events
         /\ exc' \in Excs
         /\ outcome' \in Excs \cup {"end"}
         /\ open' \in Seq(Positions)
         /\ owed' \in Int
         /\ visits' \in Nat
         /\ late' \in [Events -> Nat]
<1>1. Top \in Frame
  BY TopType DEF TypeOK
<1>2. Here(Top) \in Positions /\ <<Top.step, NoNode>> \in Positions
  BY <1>1 DEF Here, Frame, Positions
<1>3. pos \in Positions /\ open \in Seq(Positions)
  BY DEF TypeOK, Positions
<1>. USE DEF TypeOK
<1>4. CASE CancelAtBoundary \/ PassBoundary \/ Exhausted \/ Overrun \/ Retry
           \/ Interrupt
  BY <1>2, <1>3, <1>4 DEF CancelAtBoundary, PassBoundary, Exhausted, Overrun,
     Retry, Interrupt, EmitVerdict, Excs
<1>5. CASE Admit
  <2>1. open' \in Seq(Positions)
    BY <1>3, <1>5, AppendProperties DEF Admit
  <2>2. budget' \in [limit : Nat, remaining : Nat]
    <3>1. budget' = [budget EXCEPT !.remaining = budget.remaining - 1]
      BY <1>5 DEF Admit
    <3>2. budget.remaining > 0 /\ budget \in [limit : Nat, remaining : Nat]
      BY <1>5 DEF Admit, HasSteps
    <3>. HIDE DEF TypeOK
    <3>. QED
      BY <3>1, <3>2
  <2>3. late' \in [Events -> Nat]
    <3>1. late' = [e \in Events |-> IF e = Top.cancel /\ IsSet(e)
                                    THEN late[e] + 1 ELSE late[e]]
      BY <1>5 DEF Admit
    <3>2. \A e \in Events : late[e] \in Nat
      OBVIOUS
    <3>. HIDE DEF TypeOK
    <3>. QED
      BY <3>1, <3>2
  <2>. QED
    BY <1>3, <1>5, <2>1, <2>2, <2>3 DEF Admit
<1>6. CASE NodeCancel \/ NodeError \/ Route \/ End
  <2>1. CloseVisit(ClosingPos(Top))
    BY <1>6 DEF NodeCancel, NodeError, Route, End
  <2>2. open' \in Seq(Positions)
    BY <1>3, <2>1, CloseVisitType
  <2>3. pos' \in Positions
    BY <1>2, <1>6 DEF NodeCancel, NodeError, Route, End, ClosingPos
  <2>4. exc' \in Excs
    BY <1>6 DEF NodeCancel, NodeError, Route, End, Excs
  <2>. QED
    BY <1>6, <2>2, <2>3, <2>4 DEF NodeCancel, NodeError, Route, End, EmitVerdict
<1>7. ASSUME NEW a \in Actions \cup {"", NonString}, Return(a)
      PROVE  UNCHANGED <<budget, pos, cancelled, exc, outcome, open, owed,
                         visits, late>>
  BY <1>7 DEF Return
<1>8. ASSUME NEW kind \in {"failed", "cancelled"}, Raise(kind)
      PROVE  /\ exc' \in Excs
             /\ UNCHANGED <<budget, pos, cancelled, outcome, open, owed, visits,
                            late>>
  BY <1>8 DEF Raise, Excs
<1>. QED
  BY <1>3, <1>4, <1>5, <1>6, <1>7, <1>8 DEF LocalStep

\* Every step is local, a call, a return, or outside any call.
LEMMA StepKinds ==
  ASSUME [Next]_vars
  PROVE  \/ \E cap \in RootCaps, ev \in {HostEvent, NoEvent}, traced \in BOOLEAN :
              HostRun(cap, ev, traced)
         \/ LocalStep
         \/ Nest
         \/ LeaveNested
         \/ LeaveHost
         \/ \E e \in Events : SetCancel(e)
         \/ UNCHANGED vars
BY DEF Next, HostStep, Interpreter, Body, LocalStep, HostDone

LEMMA TypeStep == TypeOK /\ [Next]_vars => TypeOK'
<1>. SUFFICES ASSUME TypeOK, [Next]_vars  PROVE TypeOK'
  OBVIOUS
<1>1. ASSUME NEW cap \in RootCaps, NEW ev \in {HostEvent, NoEvent},
             NEW traced \in BOOLEAN, HostRun(cap, ev, traced)
      PROVE  TypeOK'
  <2>. DEFINE f == NewFrame(Start, cap, ev, traced, NoNode)
  <2>1. f \in Frame
    <3>1. Start \in Nodes /\ cap \in Nat \ {0} /\ ev \in Events \cup {NoEvent}
      BY GraphAssumption, HostAssumption DEF Events
    <3>. QED
      BY <3>1, NewFrameType DEF TypeOK
  <2>2. InnerEnv(f, 1) \in Env
    BY <2>1, InnerEnvType
  <2>3. stack' = <<f>> /\ env' = InnerEnv(f, 1)
    BY <1>1 DEF HostRun
  <2>. HIDE DEF f
  <2>4. stack' \in Seq(Frame)
    BY <2>1, <2>3
  <2>5. budget' \in [limit : Nat, remaining : Nat]
    BY <1>1, HostAssumption DEF HostRun, SharedBudget, TypeOK
  <2>6. open' \in Seq(Positions)
    BY <1>1, EmptySeq DEF HostRun
  <2>. QED
    BY <1>1, <2>2, <2>3, <2>4, <2>5, <2>6 DEF HostRun, TypeOK, Excs, Positions
<1>2. CASE LocalStep
  <2>1. stack' \in Seq(Frame) /\ env' = env /\ runs' = runs /\ stack # <<>>
    BY <1>2, LocalStepLemma, SetTopLemma DEF TypeOK
  <2>. QED
    BY <1>2, <2>1, LocalTypes DEF TypeOK, Positions
<1>3. CASE Nest
  <2>1. stack' \in Seq(Frame) /\ env' \in Env
    BY <1>3, PushLemma, CalleeType
  <2>2. budget' \in [limit : Nat, remaining : Nat]
    <3>1. Cap[Top.current] \in Nat \ {0}
      BY <1>3, PushLemma, TopType, NestingAssumption DEF TypeOK, Frame
    <3>. QED
      BY <1>3, <3>1 DEF Nest, SharedBudget, TypeOK
  <2>. QED
    BY <1>3, <2>1, <2>2 DEF Nest, TypeOK
<1>4. CASE LeaveNested \/ LeaveHost
  <2>1. stack' \in Seq(Frame)
    BY <1>4, PopLemma, EmptySeq DEF LeaveHost
  <2>2. RestoredEnv(Top) \in Env
    <3>1. Top \in Frame
      BY <1>4, TopType DEF LeaveNested, LeaveHost, At, TypeOK
    <3>. QED
      BY <3>1 DEF RestoredEnv, Env, Frame, TypeOK
  <2>. QED
    BY <1>4, <2>1, <2>2 DEF LeaveNested, LeaveHost, TypeOK, Excs
<1>5. ASSUME NEW e \in Events, SetCancel(e)  PROVE TypeOK'
  BY <1>5 DEF SetCancel, TypeOK
<1>6. CASE UNCHANGED vars
  BY <1>6 DEF vars, TypeOK
<1>. QED
  BY <1>1, <1>2, <1>3, <1>4, <1>5, <1>6, StepKinds

\* Every variable of a nest of Flow.run calls keeps its type.
THEOREM TypeCorrect == Spec => []TypeOK
BY InitType, TypeStep, PTL DEF Spec

-----------------------------------------------------------------------------
(***************************************************************************)
(* Ambient bindings follow the call stack.                                 *)
(***************************************************************************)

\* The same bindings make the same environment.
LEMMA SameEnv ==
  ASSUME NEW f, NEW g, NEW d, SameBindings(f, g)
  PROVE  InnerEnv(f, d) = InnerEnv(g, d)
BY DEF SameBindings, InnerEnv

\* DynamicScope only reads the bindings of the frames.
LEMMA ScopeKept ==
  ASSUME TypeOK, DynamicScope, stack # <<>>,
         env' = env, stack' # <<>>, Len(stack') = Len(stack),
         \A i \in 1..Len(stack) : SameBindings(stack'[i], stack[i])
  PROVE  DynamicScope'
<1>1. Depth \in Nat \ {0} /\ Depth' = Depth
  BY TopType DEF Depth, TypeOK
<1>2. \A i \in 1..Depth : SameBindings(stack'[i], stack[i])
  BY DEF Depth
<1>3. \A i \in 1..Depth : InnerEnv(stack'[i], i) = InnerEnv(stack[i], i)
  BY <1>2, SameEnv
<1>4. stack'[1].saved = HostEnv /\ env' = InnerEnv(Top', Depth')
  <2>1. stack[1].saved = HostEnv /\ env = InnerEnv(stack[Depth], Depth)
    BY DEF DynamicScope, Top
  <2>2. 1 \in 1..Depth /\ Depth \in 1..Depth
    BY <1>1
  <2>3. stack'[1].saved = stack[1].saved
    BY <1>2, <2>2 DEF SameBindings
  <2>4. Top' = stack'[Depth]
    BY <1>1 DEF Top
  <2>. QED
    BY <1>1, <1>3, <2>1, <2>2, <2>3, <2>4
<1>5. ASSUME NEW i \in 1..Depth - 1
      PROVE  stack'[i + 1].saved = InnerEnv(stack'[i], i)
  <2>1. i \in 1..Depth /\ i + 1 \in 1..Depth
    BY <1>1
  <2>2. stack'[i + 1].saved = stack[i + 1].saved
    BY <1>2, <2>1 DEF SameBindings
  <2>. QED
    BY <1>3, <2>1, <2>2 DEF DynamicScope
<1>6. ASSUME NEW i \in 1..Depth
      PROVE  stack'[i].cancel =
               IF stack'[i].given # NoEvent THEN stack'[i].given
               ELSE IF i = 1 THEN NoEvent ELSE stack'[i - 1].cancel
  <2>1. stack'[i].cancel = stack[i].cancel /\ stack'[i].given = stack[i].given
    BY <1>2 DEF SameBindings
  <2>2. i # 1 => stack'[i - 1].cancel = stack[i - 1].cancel
    <3>1. i # 1 => i - 1 \in 1..Depth
      BY <1>1
    <3>. QED
      BY <3>1, <1>2 DEF SameBindings
  <2>. QED
    BY <2>1, <2>2 DEF DynamicScope
<1>. QED
  BY <1>1, <1>4, <1>5, <1>6 DEF DynamicScope

\* The finally blocks restore what the caller's body had.
LEMMA RestoredLemma ==
  ASSUME TypeOK, DynamicScope, stack # <<>>
  PROVE  RestoredEnv(Top) = Top.saved
<1>1. env = InnerEnv(Top, Depth)
  BY DEF DynamicScope
<1>2. Top.saved \in Env
  BY TopType DEF TypeOK, Frame
<1>3. (IF Top.traced THEN Top.saved.onEvent ELSE env.onEvent) = Top.saved.onEvent
  BY <1>1 DEF InnerEnv
<1>. QED
  BY <1>2, <1>3 DEF RestoredEnv, Env

LEMMA ScopeInit == Init => DynamicScope
BY EmptySeq DEF Init, DynamicScope, Depth

\* The host's call begins from the host's environment.
LEMMA ScopeHostRun ==
  ASSUME TypeOK, DynamicScope, NEW cap, NEW ev, NEW traced,
         HostRun(cap, ev, traced)
  PROVE  DynamicScope'
<1>. DEFINE f == NewFrame(Start, cap, ev, traced, NoNode)
<1>1. env = HostEnv /\ stack' = <<f>> /\ env' = InnerEnv(f, 1)
  BY DEF HostRun, DynamicScope
<1>2. /\ f.saved = HostEnv /\ f.given = ev
      /\ f.cancel = IF ev = NoEvent THEN NoEvent ELSE ev
  BY <1>1 DEF NewFrame, HostEnv
<1>. HIDE DEF f
<1>3. stack' # <<>> /\ Len(stack') = 1 /\ stack'[1] = f
  BY <1>1
<1>. QED
  BY <1>1, <1>2, <1>3 DEF DynamicScope, Depth, Top

\* A nested call begins from its caller's environment.
LEMMA ScopeNest ==
  ASSUME TypeOK, DynamicScope, Nest
  PROVE  DynamicScope'
<1>. DEFINE d == Depth
<1>1. /\ stack # <<>> /\ d \in Nat \ {0}
      /\ Inner[Top.current] # NoNode
      /\ env' = InnerEnv(Callee, d + 1)
      /\ Len(stack') = d + 1
      /\ stack'[d + 1] = Callee
      /\ stack'[d] = Caller
      /\ \A i \in 1..d - 1 : stack'[i] = stack[i]
      /\ stack' \in Seq(Frame)
  BY PushLemma
<1>2. Callee.saved = env /\ SameBindings(Caller, Top)
  BY <1>1, CalleeType
<1>3. env = InnerEnv(Top, d) /\ stack[1].saved = HostEnv
  BY <1>1 DEF DynamicScope
<1>4. Callee.saved = InnerEnv(Caller, d)
  BY <1>2, <1>3, SameEnv
<1>5. Callee.cancel = IF Callee.given # NoEvent THEN Callee.given ELSE Caller.cancel
  <2>1. Callee.cancel = IF Callee.given # NoEvent THEN Callee.given ELSE env.cancel
    BY DEF Callee, NewFrame
  <2>2. env.cancel = Caller.cancel
    BY <1>2, <1>3 DEF InnerEnv, SameBindings
  <2>. QED
    BY <2>1, <2>2
<1>6. \A i \in 1..d : SameBindings(stack'[i], stack[i])
  BY <1>1, <1>2 DEF SameBindings, Top
<1>7. stack' # <<>> /\ Depth' = d + 1 /\ Top' = Callee
  BY <1>1, EmptySeq DEF Depth, Top
<1>8. stack'[1].saved = HostEnv /\ env' = InnerEnv(Top', Depth')
  <2>1. stack'[1].saved = stack[1].saved
    BY <1>1, <1>6 DEF SameBindings
  <2>. QED
    BY <1>1, <1>3, <1>7, <2>1
<1>9. ASSUME NEW i \in 1..d
      PROVE  stack'[i + 1].saved = InnerEnv(stack'[i], i)
  <2>1. CASE i = d
    BY <1>1, <1>4, <2>1
  <2>2. CASE i # d
    <3>1. i \in 1..d - 1 /\ i + 1 \in 1..d
      BY <1>1, <2>2
    <3>2. stack[i + 1].saved = InnerEnv(stack[i], i)
      BY <3>1 DEF DynamicScope
    <3>3. stack'[i + 1].saved = stack[i + 1].saved
      BY <1>6, <3>1 DEF SameBindings
    <3>4. InnerEnv(stack'[i], i) = InnerEnv(stack[i], i)
      BY <1>6, SameEnv
    <3>. QED
      BY <3>2, <3>3, <3>4
  <2>. QED
    BY <2>1, <2>2
<1>10. ASSUME NEW i \in 1..d + 1
       PROVE  stack'[i].cancel =
                IF stack'[i].given # NoEvent THEN stack'[i].given
                ELSE IF i = 1 THEN NoEvent ELSE stack'[i - 1].cancel
  <2>1. CASE i = d + 1
    BY <1>1, <1>5, <2>1
  <2>2. CASE i # d + 1
    <3>1. i \in 1..d
      BY <1>1, <2>2
    <3>2. stack[i].cancel = IF stack[i].given # NoEvent THEN stack[i].given
                            ELSE IF i = 1 THEN NoEvent ELSE stack[i - 1].cancel
      BY <3>1 DEF DynamicScope
    <3>3. stack'[i].cancel = stack[i].cancel /\ stack'[i].given = stack[i].given
      BY <1>6, <3>1 DEF SameBindings
    <3>4. i # 1 => stack'[i - 1].cancel = stack[i - 1].cancel
      <4>1. i # 1 => i - 1 \in 1..d
        BY <1>1, <3>1
      <4>. QED
        BY <1>6, <4>1 DEF SameBindings
    <3>. QED
      BY <3>2, <3>3, <3>4
  <2>. QED
    BY <2>1, <2>2
<1>. QED
  BY <1>1, <1>7, <1>8, <1>9, <1>10 DEF DynamicScope

\* A nested call ends in its caller's environment.
LEMMA ScopeLeaveNested ==
  ASSUME TypeOK, DynamicScope, LeaveNested
  PROVE  DynamicScope'
<1>. DEFINE d == Depth - 1
            f == stack[d]
<1>1. /\ stack # <<>> /\ Depth \in Nat /\ d \in Nat \ {0}
      /\ f \in Frame /\ Top \in Frame
      /\ stack' # <<>> /\ Len(stack') = d
      /\ stack'[d] = Resumed(f, Top)
      /\ \A i \in 1..d - 1 : stack'[i] = stack[i]
  BY PopLemma, TopType DEF TypeOK
<1>2. \A i \in 1..d : SameBindings(stack'[i], stack[i])
  <2>1. SameBindings(Resumed(f, Top), f)
    BY <1>1, ResumedType DEF TypeOK
  <2>. QED
    BY <1>1, <2>1 DEF SameBindings
<1>3. Depth' = d /\ Top' = stack'[d]
  BY <1>1 DEF Depth, Top
<1>4. env' = InnerEnv(Top', d)
  <2>1. env' = Top.saved
    BY <1>1, RestoredLemma DEF LeaveNested
  <2>2. Top.saved = InnerEnv(f, d)
    <3>1. d \in 1..Depth - 1 /\ d + 1 = Depth
      BY <1>1
    <3>. QED
      BY <3>1 DEF DynamicScope, Top
  <2>3. InnerEnv(Top', d) = InnerEnv(f, d)
    BY <1>1, <1>2, <1>3, SameEnv
  <2>. QED
    BY <2>1, <2>2, <2>3
<1>5. stack'[1].saved = HostEnv
  <2>1. stack[1].saved = HostEnv /\ 1 \in 1..d
    BY <1>1 DEF DynamicScope
  <2>. QED
    BY <1>2, <2>1 DEF SameBindings
<1>6. ASSUME NEW i \in 1..d - 1
      PROVE  stack'[i + 1].saved = InnerEnv(stack'[i], i)
  <2>1. i \in 1..Depth - 1 /\ i \in 1..d /\ i + 1 \in 1..d
    BY <1>1
  <2>2. stack[i + 1].saved = InnerEnv(stack[i], i)
    BY <2>1 DEF DynamicScope
  <2>3. stack'[i + 1].saved = stack[i + 1].saved
    BY <1>2, <2>1 DEF SameBindings
  <2>4. InnerEnv(stack'[i], i) = InnerEnv(stack[i], i)
    BY <1>2, <2>1, SameEnv
  <2>. QED
    BY <2>2, <2>3, <2>4
<1>7. ASSUME NEW i \in 1..d
      PROVE  stack'[i].cancel =
               IF stack'[i].given # NoEvent THEN stack'[i].given
               ELSE IF i = 1 THEN NoEvent ELSE stack'[i - 1].cancel
  <2>1. i \in 1..Depth
    BY <1>1
  <2>2. stack[i].cancel = IF stack[i].given # NoEvent THEN stack[i].given
                          ELSE IF i = 1 THEN NoEvent ELSE stack[i - 1].cancel
    BY <2>1 DEF DynamicScope
  <2>3. stack'[i].cancel = stack[i].cancel /\ stack'[i].given = stack[i].given
    BY <1>2 DEF SameBindings
  <2>4. i # 1 => stack'[i - 1].cancel = stack[i - 1].cancel
    <3>1. i # 1 => i - 1 \in 1..d
      BY <1>1
    <3>. QED
      BY <1>2, <3>1 DEF SameBindings
  <2>. QED
    BY <2>2, <2>3, <2>4
<1>. QED
  BY <1>1, <1>3, <1>4, <1>5, <1>6, <1>7 DEF DynamicScope

LEMMA ScopeStep == TypeOK /\ DynamicScope /\ [Next]_vars => DynamicScope'
<1>. SUFFICES ASSUME TypeOK, DynamicScope, [Next]_vars  PROVE DynamicScope'
  OBVIOUS
<1>1. CASE LocalStep
  <2>1. PICK f \in Frame : SetTop(f) /\ SameBindings(f, Top)
    BY <1>1, LocalStepLemma
  <2>2. /\ stack # <<>> /\ env' = env
        /\ stack' # <<>> /\ Len(stack') = Len(stack)
        /\ stack'[Len(stack)] = f
        /\ \A i \in 1..Len(stack) - 1 : stack'[i] = stack[i]
        /\ Len(stack) \in Nat
    BY <1>1, <2>1, LocalStepLemma, SetTopLemma DEF TypeOK
  <2>3. \A i \in 1..Len(stack) : SameBindings(stack'[i], stack[i])
    BY <2>1, <2>2 DEF SameBindings, Top, Depth
  <2>. QED
    BY <2>2, <2>3, ScopeKept
<1>2. CASE LeaveHost
  <2>1. stack # <<>> /\ Depth = 1 /\ stack' = <<>> /\ env' = RestoredEnv(Top)
    BY <1>2 DEF LeaveHost, At
  <2>2. env' = HostEnv
    BY <2>1, RestoredLemma DEF DynamicScope, Top
  <2>3. Depth' = 0
    BY <2>1, EmptySeq DEF Depth
  <2>. QED
    BY <2>1, <2>2, <2>3 DEF DynamicScope
<1>3. ASSUME NEW e \in Events, SetCancel(e)  PROVE DynamicScope'
  BY <1>3 DEF SetCancel, DynamicScope, Depth, Top
<1>4. CASE UNCHANGED vars
  BY <1>4 DEF vars, DynamicScope, Depth, Top
<1>. QED
  BY <1>1, <1>2, <1>3, <1>4, StepKinds, ScopeHostRun, ScopeNest, ScopeLeaveNested

\* Ambient state follows the call stack at every depth of nesting, whatever
\* raises, and the host's environment is as it was once no call is running.
THEOREM AmbientFollowsStack == Spec => []DynamicScope
<1>1. Init => TypeOK /\ DynamicScope
  BY InitType, ScopeInit
<1>2. TypeOK /\ DynamicScope /\ [Next]_vars => (TypeOK /\ DynamicScope)'
  BY TypeStep, ScopeStep
<1>. QED
  BY <1>1, <1>2, PTL DEF Spec

-----------------------------------------------------------------------------
(***************************************************************************)
(* The shared budget.  Besides BudgetExact the induction needs that every  *)
(* call in progress, save perhaps the innermost, is paid for by a visit.   *)
(***************************************************************************)

Paid ==
  stack # <<>> =>
    Depth <= visits + (IF Top.pc \in InFlight THEN 0 ELSE 1)

BudgetInv == BudgetExact /\ Paid

\* Depth is within the budget when every call is paid for.
LEMMA PaidBounds == TypeOK /\ BudgetInv => NestingBounded
<1>. SUFFICES ASSUME TypeOK, BudgetInv, stack # <<>>
              PROVE  Depth <= stack[1].cap + 1
  BY DEF NestingBounded
<1>1. Depth \in Nat
  BY TopType DEF TypeOK
<1>2. Depth <= visits + 1
  BY <1>1 DEF BudgetInv, Paid, TypeOK
<1>3. visits <= stack[1].cap
  <2>1. visits + budget.remaining = stack[1].cap
    BY DEF BudgetInv, BudgetExact
  <2>2. visits \in Nat /\ budget.remaining \in Nat
    BY DEF TypeOK
  <2>. QED
    BY <2>1, <2>2
<1>4. visits \in Nat /\ stack[1].cap \in Nat
  <2>1. visits + budget.remaining = stack[1].cap
    BY DEF BudgetInv, BudgetExact
  <2>2. visits \in Nat /\ budget.remaining \in Nat
    BY DEF TypeOK
  <2>. QED
    BY <2>1, <2>2
<1>. QED
  BY <1>1, <1>2, <1>3, <1>4

\* How a local step pays: only Admit brings a frame in flight.
LEMMA LocalPays ==
  ASSUME TypeOK, LocalStep, stack # <<>>, NEW f, SetTop(f), Top' = f
  PROVE  \/ /\ Admit
            /\ budget' = [budget EXCEPT !.remaining = @ - 1]
            /\ visits' = visits + 1
         \/ /\ UNCHANGED <<budget, visits>>
            /\ f.pc \in InFlight => Top.pc \in InFlight
<1>1. CASE Admit
  BY <1>1 DEF Admit
<1>2. Top \in Frame /\ Depth \in Nat \ {0} /\ stack \in Seq(Frame)
  BY TopType DEF TypeOK
<1>3. ASSUME NEW g, SetTop(g)  PROVE f = g
  BY <1>2, <1>3, LenProperties DEF SetTop, Depth
<1>4. CASE CancelAtBoundary \/ PassBoundary \/ Exhausted \/ Overrun
           \/ NodeCancel \/ NodeError \/ Route \/ End \/ Interrupt
  <2>1. UNCHANGED <<budget, visits>>
    BY <1>4 DEF CancelAtBoundary, PassBoundary, Exhausted, Overrun, NodeCancel,
                NodeError, Route, End, Interrupt
  <2>2. \E g \in Frame : SetTop(g) /\ g.pc \notin InFlight
    <3>1. CASE Route
      <4>. DEFINE next == Succ[Top.current][Top.action]
                  g == [Top EXCEPT !.pc = "boundary", !.current = next,
                                   !.step = Top.step + 1]
      <4>1. g = [Top EXCEPT !.pc = "boundary", !.current = next, !.step = @ + 1]
        BY <1>2 DEF Frame
      <4>2. SetTop(g)
        BY <3>1 DEF Route
      <4>3. g.pc = "boundary"
        BY <1>2 DEF Frame
      <4>4. g = f /\ f \in Frame
        BY <1>2, <1>3, <3>1, <4>2, LocalStepLemma DEF LocalStep
      <4>. QED
        BY <4>2, <4>3, <4>4 DEF InFlight
    <3>2. CASE ~Route
      <4>1. PICK p \in {"admit", "leave"} : SetTop([Top EXCEPT !.pc = p])
        BY <1>4, <3>2 DEF CancelAtBoundary, PassBoundary, Exhausted, Overrun,
           NodeCancel, NodeError, End, Interrupt
      <4>2. Moved([Top EXCEPT !.pc = p], Top, p)
        BY <1>2, FrameEdits DEF PCs
      <4>. QED
        BY <4>1, <4>2 DEF Moved, InFlight
    <3>. QED
      BY <3>1, <3>2
  <2>. QED
    BY <1>3, <2>1, <2>2
<1>5. CASE \/ Retry
           \/ \E a \in Actions \cup {"", NonString} : Return(a)
           \/ \E kind \in {"failed", "cancelled"} : Raise(kind)
  <2>1. UNCHANGED <<budget, visits>> /\ Top.pc \in {"raised", "exec"}
    BY <1>5 DEF Retry, Return, Raise, At
  <2>. QED
    BY <2>1 DEF InFlight
<1>. QED
  BY <1>1, <1>4, <1>5 DEF LocalStep

LEMMA BudgetInit == Init => BudgetInv
BY DEF Init, BudgetInv, BudgetExact, Paid

LEMMA BudgetStep ==
  TypeOK /\ DynamicScope /\ BudgetInv /\ [Next]_vars => BudgetInv'
<1>. SUFFICES ASSUME TypeOK, DynamicScope, BudgetInv, [Next]_vars
              PROVE  BudgetInv'
  OBVIOUS
<1>1. ASSUME NEW cap \in RootCaps, NEW ev \in {HostEvent, NoEvent},
             NEW traced \in BOOLEAN, HostRun(cap, ev, traced)
      PROVE  BudgetInv'
  <2>. DEFINE f == NewFrame(Start, cap, ev, traced, NoNode)
  <2>1. stack' = <<f>> /\ visits' = 0 /\ cap \in Nat
    BY <1>1, HostAssumption DEF HostRun
  <2>2. budget' = [limit |-> cap, remaining |-> cap]
    BY <1>1 DEF HostRun, SharedBudget, DynamicScope, HostEnv
  <2>3. f.cap = cap /\ f.pc = "boundary"
    BY DEF NewFrame
  <2>. HIDE DEF f
  <2>4. stack'[1] = f /\ Depth' = 1 /\ Top' = f
    BY <2>1 DEF Depth, Top
  <2>. QED
    BY <2>1, <2>2, <2>3, <2>4 DEF BudgetInv, BudgetExact, Paid, InFlight
<1>2. CASE LocalStep
  <2>1. PICK f \in Frame : SetTop(f) /\ SameBindings(f, Top)
    BY <1>2, LocalStepLemma
  <2>2. /\ stack # <<>>
        /\ stack' # <<>> /\ Depth' = Depth /\ Top' = f
        /\ \A i \in 1..Depth - 1 : stack'[i] = stack[i]
        /\ Depth \in Nat \ {0}
        /\ stack'[Depth] = f
    BY <1>2, <2>1, LocalStepLemma, SetTopLemma DEF TypeOK, Depth, Top
  <2>3. stack'[1].cap = stack[1].cap
    <3>1. CASE Depth = 1
      BY <2>1, <2>2, <3>1 DEF SameBindings, Top
    <3>2. CASE Depth # 1
      BY <2>2, <3>2
    <3>. QED
      BY <3>1, <3>2
  <2>4. visits \in Nat /\ budget.remaining \in Nat /\ budget.limit \in Nat
        /\ budget \in [limit : Nat, remaining : Nat]
    BY DEF TypeOK
  <2>5. CASE /\ Admit
             /\ budget' = [budget EXCEPT !.remaining = @ - 1]
             /\ visits' = visits + 1
    <3>1. BudgetExact'
      <4>1. budget'.limit = budget.limit /\ budget'.remaining = budget.remaining - 1
        BY <2>4, <2>5
      <4>. QED
        BY <2>2, <2>3, <2>4, <2>5, <4>1 DEF BudgetInv, BudgetExact
    <3>2. Depth <= visits + 1
      BY <2>2, <2>4 DEF BudgetInv, Paid
    <3>3. Paid'
      BY <2>2, <2>4, <2>5, <3>2 DEF Paid
    <3>. QED
      BY <3>1, <3>3 DEF BudgetInv
  <2>6. CASE /\ UNCHANGED <<budget, visits>>
             /\ f.pc \in InFlight => Top.pc \in InFlight
    <3>1. BudgetExact'
      BY <2>2, <2>3, <2>6 DEF BudgetInv, BudgetExact
    <3>2. Paid'
      BY <2>2, <2>4, <2>6 DEF BudgetInv, Paid
    <3>. QED
      BY <3>1, <3>2 DEF BudgetInv
  <2>. QED
    BY <1>2, <2>1, <2>2, <2>5, <2>6, LocalPays
<1>3. CASE Nest
  <2>. DEFINE d == Depth
  <2>1. /\ stack # <<>> /\ d \in Nat \ {0}
        /\ Inner[Top.current] # NoNode
        /\ stack' \in Seq(Frame)
        /\ Len(stack') = d + 1
        /\ stack'[d + 1] = Callee /\ stack'[d] = Caller
        /\ \A i \in 1..d - 1 : stack'[i] = stack[i]
    BY <1>3, PushLemma
  <2>2. budget' = budget /\ visits' = visits /\ Top.pc = "exec"
    BY <1>3, <2>1 DEF Nest, SharedBudget, DynamicScope, InnerEnv, At
  <2>3. Depth' = d + 1 /\ Top' = Callee /\ stack' # <<>>
    BY <2>1, EmptySeq DEF Depth, Top
  <2>4. stack'[1].cap = stack[1].cap
    <3>1. SameBindings(Caller, Top)
      BY <2>1, CalleeType
    <3>2. CASE d = 1
      BY <2>1, <3>1, <3>2 DEF SameBindings, Top
    <3>3. CASE d # 1
      BY <2>1, <3>3
    <3>. QED
      BY <3>2, <3>3
  <2>5. BudgetExact'
    BY <2>1, <2>2, <2>4 DEF BudgetInv, BudgetExact
  <2>6. d <= visits /\ visits \in Nat
    BY <2>1, <2>2 DEF BudgetInv, Paid, InFlight, TypeOK
  <2>7. Callee.pc = "boundary"
    BY DEF Callee, NewFrame
  <2>8. Paid'
    BY <2>1, <2>2, <2>3, <2>6, <2>7 DEF Paid, InFlight
  <2>. QED
    BY <2>5, <2>8 DEF BudgetInv
<1>4. CASE LeaveNested
  <2>. DEFINE d == Depth
  <2>1. /\ stack # <<>> /\ d \in Nat /\ d > 1
        /\ stack[d - 1] \in Frame /\ Top \in Frame
        /\ stack' # <<>> /\ Len(stack') = d - 1
        /\ stack'[d - 1] = Resumed(stack[d - 1], Top)
        /\ \A i \in 1..d - 2 : stack'[i] = stack[i]
    BY <1>4, PopLemma, TopType DEF TypeOK
  <2>2. budget' = budget /\ visits' = visits
    BY <1>4 DEF LeaveNested
  <2>3. stack'[1].cap = stack[1].cap
    <3>1. SameBindings(Resumed(stack[d - 1], Top), stack[d - 1])
      BY <2>1, ResumedType DEF TypeOK
    <3>2. CASE d = 2
      BY <2>1, <3>1, <3>2 DEF SameBindings
    <3>3. CASE d # 2
      BY <2>1, <3>3
    <3>. QED
      BY <3>2, <3>3
  <2>4. BudgetExact'
    BY <2>1, <2>2, <2>3 DEF BudgetInv, BudgetExact
  <2>5. d <= visits + 1 /\ visits \in Nat
    BY <2>1 DEF BudgetInv, Paid, TypeOK
  <2>6. Depth' = d - 1
    BY <2>1 DEF Depth
  <2>7. Paid'
    BY <2>1, <2>2, <2>5, <2>6 DEF Paid
  <2>. QED
    BY <2>4, <2>7 DEF BudgetInv
<1>5. CASE LeaveHost
  BY <1>5 DEF LeaveHost, BudgetInv, BudgetExact, Paid
<1>6. ASSUME NEW e \in Events, SetCancel(e)  PROVE BudgetInv'
  BY <1>6 DEF SetCancel, BudgetInv, BudgetExact, Paid, Depth, Top
<1>7. CASE UNCHANGED vars
  BY <1>7 DEF vars, BudgetInv, BudgetExact, Paid, Depth, Top
<1>. QED
  BY <1>1, <1>2, <1>3, <1>4, <1>5, <1>6, <1>7, StepKinds

\* One budget pays for every visit at every depth, and bounds the nesting:
\* no graph, retry or self-nesting agent visits more nodes than max_steps.
THEOREM BudgetHolds == Spec => [](BudgetExact /\ NestingBounded)
<1>. DEFINE Inv == TypeOK /\ DynamicScope /\ BudgetInv
<1>1. Init => Inv
  BY InitType, ScopeInit, BudgetInit
<1>2. Inv /\ [Next]_vars => Inv'
  BY TypeStep, ScopeStep, BudgetStep
<1>3. Inv => BudgetExact /\ NestingBounded
  BY PaidBounds DEF BudgetInv
<1>. HIDE DEF Inv
<1>. QED
  BY <1>1, <1>2, <1>3, PTL DEF Spec

-----------------------------------------------------------------------------
(***************************************************************************)
(* Cancellation.  An event that has governed a late visit is set, so the   *)
(* check at the top of the loop cannot let another frame it governs pass.  *)
(***************************************************************************)

\* The innermost call, governed by e, has passed the check.
Armed(e) == stack # <<>> /\ Top.pc = "admit" /\ Top.cancel = e

LateInv ==
  \A e \in Events : \/ late[e] = 0
                    \/ late[e] = 1 /\ e \in cancelled /\ ~Armed(e)

\* Only PassBoundary brings a frame to the budget, and only while its event
\* is not set; only Admit counts a late visit.
LEMMA LocalArms ==
  ASSUME TypeOK, LocalStep, stack # <<>>, NEW f, SetTop(f), Top' = f
  PROVE  /\ cancelled' = cancelled
         /\ f.pc = "admit" => Top.cancel \notin cancelled
         /\ ~Admit => late' = late
<1>1. Top \in Frame /\ Depth \in Nat \ {0} /\ stack \in Seq(Frame)
  BY TopType DEF TypeOK
<1>2. ASSUME NEW g, SetTop(g)  PROVE f = g
  BY <1>1, <1>2, LenProperties DEF SetTop, Depth
<1>3. CASE PassBoundary
  BY <1>3 DEF PassBoundary, CancelDue, IsSet
<1>4. CASE Admit
  <2>1. Moved([Top EXCEPT !.pc = "exec", !.attempt = 1, !.calls = 0], Top, "exec")
    BY <1>1, FrameEdits DEF PCs
  <2>2. f = [Top EXCEPT !.pc = "exec", !.attempt = 1, !.calls = 0]
    BY <1>2, <1>4 DEF Admit
  <2>. QED
    BY <1>4, <2>1, <2>2 DEF Admit, Moved
<1>5. CASE Retry
  <2>1. NextAttempt(Top) \in Nat
    BY <1>1 DEF NextAttempt, Frame
  <2>2. Moved([Top EXCEPT !.pc = "exec", !.attempt = NextAttempt(Top), !.calls = 0],
              Top, "exec")
    BY <1>1, <2>1, FrameEdits DEF PCs
  <2>3. f = [Top EXCEPT !.pc = "exec", !.attempt = NextAttempt(Top), !.calls = 0]
    BY <1>2, <1>5 DEF Retry
  <2>. QED
    BY <1>5, <2>2, <2>3 DEF Retry, Moved
<1>6. CASE Route
  <2>. DEFINE g == [Top EXCEPT !.pc = "boundary",
                               !.current = Succ[Top.current][Top.action],
                               !.step = Top.step + 1]
  <2>1. f = g
    BY <1>2, <1>6 DEF Route
  <2>2. g.pc = "boundary"
    BY <1>1 DEF Frame
  <2>. QED
    BY <1>6, <2>1, <2>2 DEF Route
<1>7. ASSUME NEW a \in Actions \cup {"", NonString}, Return(a)
      PROVE  cancelled' = cancelled /\ late' = late /\ f.pc # "admit"
  <2>1. PICK b \in Actions \cup {NonString} :
          SetTop([Top EXCEPT !.pc = "returned", !.action = b])
    BY <1>7, GraphAssumption DEF Return
  <2>2. Moved([Top EXCEPT !.pc = "returned", !.action = b], Top, "returned")
    BY <1>1, FrameEdits DEF PCs
  <2>3. f = [Top EXCEPT !.pc = "returned", !.action = b]
    BY <1>2, <2>1
  <2>. QED
    BY <1>7, <2>2, <2>3 DEF Return, Moved
<1>8. CASE \/ CancelAtBoundary \/ Exhausted \/ Overrun \/ NodeCancel \/ NodeError
           \/ End \/ Interrupt
           \/ \E kind \in {"failed", "cancelled"} : Raise(kind)
  <2>1. PICK p \in {"leave", "raised"} :
          SetTop([Top EXCEPT !.pc = p]) /\ cancelled' = cancelled /\ late' = late
    BY <1>8 DEF CancelAtBoundary, Exhausted, Overrun, NodeCancel, NodeError, End,
                Interrupt, Raise
  <2>2. Moved([Top EXCEPT !.pc = p], Top, p)
    BY <1>1, FrameEdits DEF PCs
  <2>3. f = [Top EXCEPT !.pc = p]
    BY <1>2, <2>1
  <2>. QED
    BY <2>1, <2>2, <2>3 DEF Moved
<1>. QED
  BY <1>3, <1>4, <1>5, <1>6, <1>7, <1>8 DEF LocalStep

LEMMA LateInit == Init => LateInv
BY DEF Init, LateInv

LEMMA LateStep == TypeOK /\ LateInv /\ [Next]_vars => LateInv'
<1>. SUFFICES ASSUME TypeOK, LateInv, [Next]_vars  PROVE LateInv'
  OBVIOUS
<1>1. ASSUME NEW cap \in RootCaps, NEW ev \in {HostEvent, NoEvent},
             NEW traced \in BOOLEAN, HostRun(cap, ev, traced)
      PROVE  LateInv'
  <2>. DEFINE f == NewFrame(Start, cap, ev, traced, NoNode)
  <2>1. stack' = <<f>> /\ late' = late /\ cancelled' = cancelled
    BY <1>1 DEF HostRun
  <2>2. f.pc = "boundary"
    BY DEF NewFrame
  <2>. HIDE DEF f
  <2>3. Top' = f
    BY <2>1 DEF Depth, Top
  <2>. QED
    BY <2>1, <2>2, <2>3 DEF LateInv, Armed
<1>2. CASE LocalStep
  <2>1. PICK f \in Frame : SetTop(f) /\ SameBindings(f, Top)
    BY <1>2, LocalStepLemma
  <2>2. stack # <<>> /\ stack' # <<>> /\ Top' = f
    BY <1>2, <2>1, LocalStepLemma, SetTopLemma DEF TypeOK, Depth, Top
  <2>3. /\ cancelled' = cancelled
        /\ f.pc = "admit" => Top.cancel \notin cancelled
        /\ ~Admit => late' = late
    BY <1>2, <2>1, <2>2, LocalArms
  <2>4. f.cancel = Top.cancel
    BY <2>1 DEF SameBindings
  <2>5. ASSUME NEW e \in Events
        PROVE  \/ late'[e] = 0
               \/ late'[e] = 1 /\ e \in cancelled' /\ ~Armed(e)'
    <3>1. e \in cancelled => ~Armed(e)'
      BY <2>2, <2>3, <2>4 DEF Armed
    <3>2. \/ late[e] = 0
          \/ late[e] = 1 /\ e \in cancelled /\ ~Armed(e)
      BY DEF LateInv
    <3>3. CASE Admit /\ e = Top.cancel /\ e \in cancelled
      <4>1. Armed(e)
        BY <2>2, <3>3 DEF Admit, At, Armed
      <4>2. late'[e] = late[e] + 1
        BY <3>3 DEF Admit, IsSet
      <4>. QED
        BY <2>3, <3>1, <3>2, <3>3, <4>1, <4>2
    <3>4. CASE ~(Admit /\ e = Top.cancel /\ e \in cancelled)
      <4>1. late'[e] = late[e]
        BY <2>3, <3>4 DEF Admit, IsSet
      <4>. QED
        BY <2>3, <3>1, <3>2, <4>1
    <3>. QED
      BY <3>3, <3>4
  <2>. QED
    BY <2>5 DEF LateInv
<1>3. CASE Nest
  <2>1. /\ Len(stack') = Depth + 1 /\ stack'[Depth + 1] = Callee
        /\ Depth \in Nat
    BY <1>3, PushLemma
  <2>2. Top' = Callee
    BY <2>1 DEF Top, Depth
  <2>3. Callee.pc = "boundary" /\ late' = late /\ cancelled' = cancelled
    BY <1>3 DEF Callee, NewFrame, Nest
  <2>. QED
    BY <2>2, <2>3 DEF LateInv, Armed
<1>4. CASE LeaveNested
  <2>1. /\ Depth \in Nat /\ stack[Depth - 1] \in Frame /\ Top \in Frame
        /\ Len(stack') = Depth - 1
        /\ stack'[Depth - 1] = Resumed(stack[Depth - 1], Top)
    BY <1>4, PopLemma, TopType DEF TypeOK
  <2>2. Top' = Resumed(stack[Depth - 1], Top)
    BY <2>1 DEF Top, Depth
  <2>3. Top'.pc # "admit"
    BY <2>1, <2>2, ResumedType DEF TypeOK
  <2>4. late' = late /\ cancelled' = cancelled
    BY <1>4 DEF LeaveNested
  <2>. QED
    BY <2>3, <2>4 DEF LateInv, Armed
<1>5. CASE LeaveHost
  BY <1>5 DEF LeaveHost, LateInv, Armed
<1>6. ASSUME NEW e \in Events, SetCancel(e)  PROVE LateInv'
  BY <1>6 DEF SetCancel, LateInv, Armed, Top, Depth
<1>7. CASE UNCHANGED vars
  BY <1>7 DEF vars, LateInv, Armed, Top, Depth
<1>. QED
  BY <1>1, <1>2, <1>3, <1>4, <1>5, <1>6, <1>7, StepKinds

LEMMA LateBounds == TypeOK /\ LateInv => CancelPrompt
BY DEF LateInv, CancelPrompt, TypeOK

\* Once a cancel event is set it governs at most one more visit, over all the
\* nested and later calls it governs.
THEOREM CancellationIsPrompt == Spec => []CancelPrompt
<1>1. Init => TypeOK /\ LateInv
  BY InitType, LateInit
<1>2. TypeOK /\ LateInv /\ [Next]_vars => (TypeOK /\ LateInv)'
  BY TypeStep, LateStep
<1>. QED
  BY <1>1, <1>2, LateBounds, PTL DEF Spec

-----------------------------------------------------------------------------
(***************************************************************************)
(* Flow.run implements RunPromise.                                         *)
(***************************************************************************)

\* What an exception in flight says is true.
HonestInv ==
  /\ stack = <<>> => exc = "none"
  /\ exc = "exhausted" => budget.remaining = 0
  /\ exc = "cancelled" => cancelled # {}

LEMMA HonestInit == Init => HonestInv
BY DEF Init, HonestInv

LEMMA HonestStep ==
  TypeOK /\ DynamicScope /\ HonestInv /\ [Next]_vars => HonestInv'
<1>. SUFFICES ASSUME TypeOK, DynamicScope, HonestInv, [Next]_vars
              PROVE  HonestInv'
  OBVIOUS
<1>1. ASSUME NEW cap \in RootCaps, NEW ev \in {HostEvent, NoEvent},
             NEW traced \in BOOLEAN, HostRun(cap, ev, traced)
      PROVE  HonestInv'
  BY <1>1 DEF HostRun, HonestInv
<1>2. CASE LocalStep
  <2>1. stack # <<>> /\ stack' # <<>>
    BY <1>2, LocalStepLemma, SetTopLemma DEF TypeOK
  <2>2. budget.remaining \in Nat
    BY DEF TypeOK
  <2>3. CASE Admit
    BY <2>1, <2>2, <2>3 DEF Admit, HasSteps, HonestInv
  <2>4. CASE CancelAtBoundary
    BY <2>1, <2>4 DEF CancelAtBoundary, CancelDue, IsSet, HonestInv
  <2>5. CASE Exhausted
    BY <2>1, <2>2, <2>5 DEF Exhausted, HasSteps, HonestInv
  <2>6. ASSUME NEW kind \in {"failed", "cancelled"}, Raise(kind)
        PROVE  HonestInv'
    BY <2>1, <2>6 DEF Raise, IsSet, HonestInv
  <2>7. CASE PassBoundary \/ Overrun \/ Retry \/ NodeCancel \/ NodeError \/ Route
             \/ End \/ Interrupt
    <3>1. budget' = budget /\ cancelled' = cancelled
      BY <2>7 DEF PassBoundary, Overrun, Retry, NodeCancel, NodeError, Route,
                  End, Interrupt
    <3>2. exc' = exc \/ exc' \notin {"exhausted", "cancelled"}
      BY <2>7 DEF PassBoundary, Overrun, Retry, NodeCancel, NodeError, Route,
                  End, Interrupt
    <3>. QED
      BY <2>1, <3>1, <3>2 DEF HonestInv
  <2>8. ASSUME NEW a \in Actions \cup {"", NonString}, Return(a)
        PROVE  HonestInv'
    BY <2>1, <2>8 DEF Return, HonestInv
  <2>. QED
    BY <1>2, <2>3, <2>4, <2>5, <2>6, <2>7, <2>8 DEF LocalStep
<1>3. CASE Nest
  <2>1. stack' # <<>>
    BY <1>3, PushLemma, EmptySeq
  <2>2. budget' = budget
    BY <1>3, PushLemma DEF Nest, SharedBudget, DynamicScope, InnerEnv
  <2>. QED
    BY <1>3, <2>1, <2>2 DEF Nest, HonestInv
<1>4. CASE LeaveNested
  <2>1. stack' # <<>>
    BY <1>4, PopLemma
  <2>2. exc' = exc \/ exc' = "none"
    BY <1>4 DEF LeaveNested
  <2>3. budget' = budget /\ cancelled' = cancelled
    BY <1>4 DEF LeaveNested
  <2>. QED
    BY <2>1, <2>2, <2>3 DEF HonestInv
<1>5. CASE LeaveHost
  BY <1>5 DEF LeaveHost, HonestInv
<1>6. ASSUME NEW e \in Events, SetCancel(e)  PROVE HonestInv'
  BY <1>6 DEF SetCancel, HonestInv
<1>7. CASE UNCHANGED vars
  BY <1>7 DEF vars, HonestInv
<1>. QED
  BY <1>1, <1>2, <1>3, <1>4, <1>5, <1>6, <1>7, StepKinds

LEMMA PromiseInit == Init => Promise!Init
BY DEF Init, Promise!Init

\* The visit a local step makes is one the promise allows.
LEMMA PromiseVisit ==
  ASSUME TypeOK, LateInv, Admit, stack # <<>>, stack' # <<>>
  PROVE  Promise!Next
<1>1. PICK c \in Events \cup {NoEvent} : c = Top.cancel
  BY TopType DEF TypeOK, Frame
<1>2. budget.remaining > 0 /\ budget'.remaining = budget.remaining - 1
  BY DEF Admit, HasSteps, TypeOK
<1>3. cancelled \subseteq Events
  BY DEF TypeOK
<1>4. c \in cancelled => late[c] = 0
  <2>1. Armed(c)
    BY <1>1 DEF Admit, At, Armed
  <2>. QED
    BY <1>3, <2>1 DEF LateInv
<1>5. late' = [e \in Events |->
                 IF e = c /\ c \in cancelled THEN late[e] + 1 ELSE late[e]]
  BY <1>1 DEF Admit, IsSet
<1>6. cancelled' = cancelled /\ outcome' = outcome
  BY DEF Admit
<1>7. Promise!Visit(c)
  BY <1>2, <1>4, <1>5, <1>6 DEF Promise!Visit
<1>. QED
  BY <1>7 DEF Promise!Next

LEMMA PromiseStep ==
  TypeOK /\ DynamicScope /\ LateInv /\ HonestInv /\ [Next]_vars
    => [Promise!Next]_(Promise!vars)
<1>. SUFFICES ASSUME TypeOK, DynamicScope, LateInv, HonestInv, [Next]_vars
              PROVE  [Promise!Next]_(Promise!vars)
  OBVIOUS
<1>1. ASSUME NEW cap \in RootCaps, NEW ev \in {HostEvent, NoEvent},
             NEW traced \in BOOLEAN, HostRun(cap, ev, traced)
      PROVE  Promise!Next
  <2>1. stack = <<>> /\ stack' # <<>>
    BY <1>1 DEF HostRun
  <2>2. budget'.remaining = cap
    BY <1>1 DEF HostRun, SharedBudget, DynamicScope, HostEnv
  <2>3. Promise!Begin(cap)
    BY <1>1, <2>1, <2>2 DEF HostRun, Promise!Begin
  <2>. QED
    BY <2>3 DEF Promise!Next
<1>2. CASE LocalStep
  <2>1. stack # <<>> /\ stack' # <<>>
    BY <1>2, LocalStepLemma, SetTopLemma DEF TypeOK
  <2>2. CASE Admit
    BY <2>1, <2>2, PromiseVisit
  <2>3. CASE ~Admit
    <3>1. UNCHANGED <<budget, cancelled, late, outcome>>
      BY <1>2, <2>3 DEF LocalStep, CancelAtBoundary, PassBoundary, Exhausted,
         Overrun, Retry, NodeCancel, NodeError, Route, End, Interrupt, Return,
         Raise
    <3>. QED
      BY <2>1, <3>1 DEF Promise!vars
  <2>. QED
    BY <2>2, <2>3
<1>3. CASE Nest
  <2>1. stack # <<>> /\ stack' # <<>>
    BY <1>3, PushLemma, EmptySeq
  <2>2. UNCHANGED <<budget, cancelled, late, outcome>>
    BY <1>3, PushLemma DEF Nest, SharedBudget, DynamicScope, InnerEnv
  <2>. QED
    BY <2>1, <2>2 DEF Promise!vars
<1>4. CASE LeaveNested
  <2>1. stack # <<>> /\ stack' # <<>>
    BY <1>4, PopLemma
  <2>2. UNCHANGED <<budget, cancelled, late, outcome>>
    BY <1>4 DEF LeaveNested
  <2>. QED
    BY <2>1, <2>2 DEF Promise!vars
<1>5. CASE LeaveHost
  <2>1. stack # <<>> /\ stack' = <<>> /\ UNCHANGED <<budget, cancelled, late>>
    BY <1>5 DEF LeaveHost, At
  <2>2. /\ outcome' \in Excs \cup {"end"}
        /\ outcome' = "exhausted" => budget.remaining = 0
        /\ outcome' = "cancelled" => cancelled # {}
    BY <1>5 DEF LeaveHost, HonestInv, TypeOK
  <2>3. Promise!Finish(outcome')
    BY <2>1, <2>2 DEF Promise!Finish
  <2>. QED
    BY <2>2, <2>3 DEF Promise!Next
<1>6. ASSUME NEW e \in Events, SetCancel(e)  PROVE Promise!Next
  <2>1. Promise!Call(e)
    BY <1>6 DEF SetCancel, Promise!Call
  <2>. QED
    BY <2>1 DEF Promise!Next
<1>7. CASE UNCHANGED vars
  BY <1>7 DEF vars, Promise!vars
<1>. QED
  BY <1>1, <1>2, <1>3, <1>4, <1>5, <1>6, <1>7, StepKinds

\* Flow.run, with everything its nodes nest in it, implements its promise.
THEOREM FlowKeepsPromise == Spec => KeepsPromise
<1>. DEFINE Inv == TypeOK /\ DynamicScope /\ LateInv /\ HonestInv
<1>1. Init => Inv
  BY InitType, ScopeInit, LateInit, HonestInit
<1>2. Inv /\ [Next]_vars => Inv'
  BY TypeStep, ScopeStep, LateStep, HonestStep
<1>3. Inv /\ [Next]_vars => [Promise!Next]_(Promise!vars)
  BY PromiseStep
<1>. HIDE DEF Inv
<1>. QED
  BY <1>1, <1>2, <1>3, PromiseInit, PTL DEF Spec, KeepsPromise, Promise!Spec

-----------------------------------------------------------------------------
(***************************************************************************)
(* The event stream.  Between two visits of a frame the observer's record  *)
(* changes only by what local steps do to the innermost frame; the four    *)
(* kinds below say what each does to the stream.                           *)
(***************************************************************************)

\* Neither starts nor closes a visit, nor ends the call.
Continues ==
  /\ Here(Top') = Here(Top)
  /\ Top'.pc \in InFlight <=> Top.pc \in InFlight
  /\ \/ Top.pc \in {"boundary", "exec"} /\ Top'.pc \notin {"raised", "leave"} /\ exc' = exc
     \/ Top'.pc = "exec" /\ exc' = "none"
     \/ Top'.pc = "raised" /\ exc' \in {"failed", "cancelled"}
  /\ Top'.pc = "admit" => pos' = Here(Top)
  /\ UNCHANGED <<open, owed, outcome>>

\* A visit starts, at the position the loop has set.
Starts ==
  /\ Here(Top') = Here(Top)
  /\ Top.pc = "admit" /\ Top'.pc = "exec"
  /\ open' = Append(open, pos)
  /\ UNCHANGED <<exc, owed, outcome>>

\* The visit in flight is closed, and its call goes on or ends.
Closes ==
  /\ Top.pc \in InFlight
  /\ CloseVisit(Here(Top))
  /\ \/ /\ Top.pc = "returned" /\ Top'.pc = "boundary"
        /\ exc' = exc /\ owed' = owed
     \/ Top'.pc = "leave" /\ exc' \in {exc, "failed"} /\ owed' = owed - 1
  /\ outcome' = outcome

\* The call ends between two visits.
Fails ==
  /\ Top.pc \in {"boundary", "admit"} /\ Top'.pc = "leave"
  /\ exc' \in {"cancelled", "exhausted", "exceeded"}
  /\ owed' = owed - 1
  /\ UNCHANGED <<open, outcome>>

\* A BaseException: nothing is emitted.
Breaks ==
  /\ Top'.pc = "leave"
  /\ exc' = "interrupt"
  /\ outcome' = outcome

\* The innermost frame after a step that replaces it.
LEMMA TopAfter ==
  ASSUME stack \in Seq(Frame), stack # <<>>, NEW g, SetTop(g)
  PROVE  Top' = g
BY TopType, LenProperties DEF SetTop, Top, Depth

\* h is frame g moved to program counter p, at the same place in the flow.
Placed(h, g, p) == h.pc = p /\ Here(h) = Here(g)

\* The edits of the local steps other than Route keep a frame's place.
LEMMA FramePlace ==
  ASSUME NEW g \in Frame, NEW p
  PROVE  /\ Placed([g EXCEPT !.pc = p], g, p)
         /\ \A a : Placed([g EXCEPT !.pc = p, !.action = a], g, p)
         /\ \A m : Placed([g EXCEPT !.pc = p, !.attempt = m, !.calls = 0], g, p)
BY DEF Frame, Here, Placed

\* A call that has reached its finally block takes no local step.
LEMMA LocalInLoop == LocalStep => Top.pc # "leave"
BY DEF LocalStep, CancelAtBoundary, PassBoundary, Admit, Exhausted, Overrun,
   Retry, NodeCancel, NodeError, Route, End, Interrupt, Return, Raise, At

\* Every local step is one of the five.
LEMMA LocalEffects ==
  ASSUME TypeOK, LocalStep, stack # <<>>
  PROVE  Continues \/ Starts \/ Closes \/ Fails \/ Breaks
<1>. DEFINE Goal == Continues \/ Starts \/ Closes \/ Fails \/ Breaks
<1>1. Top \in Frame /\ stack \in Seq(Frame) /\ Top' \in Frame
  <2>1. PICK f \in Frame : SetTop(f)
    BY LocalStepLemma
  <2>. QED
    BY <2>1, TopType, TopAfter DEF TypeOK
<1>2. CASE CancelAtBoundary \/ Exhausted \/ Overrun
  <2>1. Top' = [Top EXCEPT !.pc = "leave"]
    BY <1>1, <1>2, TopAfter DEF CancelAtBoundary, Exhausted, Overrun
  <2>2. Top'.pc = "leave"
    BY <1>1, <2>1, FramePlace DEF Placed
  <2>3. Fails
    BY <1>2, <2>2 DEF CancelAtBoundary, Exhausted, Overrun, At, EmitVerdict, Fails
  <2>. QED
    BY <2>3
<1>3. CASE PassBoundary
  <2>1. Top' = [Top EXCEPT !.pc = "admit"]
    BY <1>1, <1>3, TopAfter DEF PassBoundary
  <2>2. Top'.pc = "admit" /\ Here(Top') = Here(Top)
    BY <1>1, <2>1, FramePlace DEF Placed
  <2>3. Continues
    BY <1>1, <1>3, <2>2 DEF PassBoundary, At, Continues, InFlight
  <2>. QED
    BY <2>3
<1>4. CASE Admit
  <2>1. Top' = [Top EXCEPT !.pc = "exec", !.attempt = 1, !.calls = 0]
    BY <1>1, <1>4, TopAfter DEF Admit
  <2>2. Placed(Top', Top, "exec")
    BY <1>1, <2>1, FramePlace
  <2>3. Starts
    BY <1>4, <2>2 DEF Admit, At, Starts, Placed
  <2>. QED
    BY <2>3
<1>5. CASE Retry
  <2>1. Top' = [Top EXCEPT !.pc = "exec", !.attempt = NextAttempt(Top), !.calls = 0]
    BY <1>1, <1>5, TopAfter DEF Retry
  <2>2. Placed(Top', Top, "exec")
    BY <1>1, <2>1, FramePlace
  <2>3. Continues
    BY <1>1, <1>5, <2>2 DEF Retry, At, Continues, InFlight, Placed
  <2>. QED
    BY <2>3
<1>6. CASE NodeCancel \/ NodeError \/ End
  <2>1. Top' = [Top EXCEPT !.pc = "leave"]
    BY <1>1, <1>6, TopAfter DEF NodeCancel, NodeError, End
  <2>2. Top'.pc = "leave"
    BY <1>1, <2>1, FramePlace DEF Placed
  <2>3. Closes
    BY <1>6, <2>2 DEF NodeCancel, NodeError, End, At, EmitVerdict, ClosingPos,
       Closes, InFlight
  <2>. QED
    BY <2>3
<1>7. CASE Route
  <2>1. Top' = [Top EXCEPT !.pc = "boundary",
                           !.current = Succ[Top.current][Top.action],
                           !.step = Top.step + 1]
    BY <1>1, <1>7, TopAfter DEF Route
  <2>2. Top'.pc = "boundary"
    BY <1>1, <2>1 DEF Frame
  <2>3. Closes
    BY <1>7, <2>2 DEF Route, At, ClosingPos, Closes, InFlight
  <2>. QED
    BY <2>3
<1>8. CASE Interrupt
  <2>1. Top' = [Top EXCEPT !.pc = "leave"]
    BY <1>1, <1>8, TopAfter DEF Interrupt
  <2>2. Top'.pc = "leave"
    BY <1>1, <2>1, FramePlace DEF Placed
  <2>3. Breaks
    BY <1>8, <2>2 DEF Interrupt, Breaks
  <2>. QED
    BY <2>3
<1>9. ASSUME NEW a \in Actions \cup {"", NonString}, Return(a)
      PROVE  Goal
  <2>1. PICK b : Top' = [Top EXCEPT !.pc = "returned", !.action = b]
    BY <1>1, <1>9, TopAfter DEF Return
  <2>2. Placed(Top', Top, "returned")
    BY <1>1, <2>1, FramePlace
  <2>3. Continues
    BY <1>1, <1>9, <2>2 DEF Return, At, Continues, InFlight, Placed
  <2>. QED
    BY <2>3
<1>10. ASSUME NEW kind \in {"failed", "cancelled"}, Raise(kind)
       PROVE  Goal
  <2>1. Top' = [Top EXCEPT !.pc = "raised"]
    BY <1>1, <1>10, TopAfter DEF Raise
  <2>2. Top'.pc = "raised" /\ Here(Top') = Here(Top)
    BY <1>1, <2>1, FramePlace DEF Placed
  <2>3. Continues
    BY <1>1, <1>10, <2>2 DEF Raise, At, Continues, InFlight
  <2>. QED
    BY <2>3
<1>. QED
  BY <1>2, <1>3, <1>4, <1>5, <1>6, <1>7, <1>8, <1>9, <1>10 DEF LocalStep

-----------------------------------------------------------------------------
\* What the control of the innermost call says of the exception in flight,
\* and of the position its next node.start will carry.
ControlInv ==
  stack # <<>> =>
    /\ outcome = "none"
    /\ exc # "none" => Top.pc \in {"raised", "leave"}
    /\ exc = "interrupt" => Top.pc = "leave"
    /\ Top.pc = "raised" => exc # "none"
    /\ Top.pc = "admit" => pos = Here(Top)

\* The frame a call begins with.
LEMMA HostRunTop ==
  ASSUME NEW cap, NEW ev, NEW traced, HostRun(cap, ev, traced)
  PROVE  stack = <<>> /\ stack' # <<>> /\ Depth' = 1 /\ Top'.pc = "boundary"
<1>. DEFINE f == NewFrame(Start, cap, ev, traced, NoNode)
<1>1. stack = <<>> /\ stack' = <<f>>
  BY DEF HostRun
<1>2. f.pc = "boundary"
  BY DEF NewFrame
<1>. HIDE DEF f
<1>. QED
  BY <1>1, <1>2 DEF Depth, Top

LEMMA NestTop ==
  ASSUME TypeOK, Nest
  PROVE  /\ stack # <<>> /\ stack' # <<>> /\ Depth \in Nat \ {0}
         /\ Top.pc = "exec"
         /\ Depth' = Depth + 1 /\ Top'.pc = "boundary"
         /\ \A i \in 1..Depth : Here(stack'[i]) = Here(stack[i])
<1>1. /\ stack # <<>> /\ Depth \in Nat \ {0}
      /\ stack' \in Seq(Frame) /\ Len(stack') = Depth + 1
      /\ stack'[Depth + 1] = Callee
      /\ stack'[Depth] = Caller
      /\ \A i \in 1..Depth - 1 : stack'[i] = stack[i]
  BY PushLemma
<1>2. Top \in Frame
  BY <1>1, TopType DEF TypeOK
<1>3. Here(Caller) = Here(Top)
  BY <1>2 DEF Caller, Frame, Here
<1>4. Callee.pc = "boundary"
  BY DEF Callee, NewFrame
<1>5. stack' # <<>> /\ Depth' = Depth + 1 /\ Top' = Callee
  BY <1>1, EmptySeq DEF Depth, Top
<1>6. \A i \in 1..Depth : Here(stack'[i]) = Here(stack[i])
  BY <1>1, <1>3 DEF Top
<1>. QED
  BY <1>1, <1>4, <1>5, <1>6 DEF Nest, At

\* How a body resumes: where it was, and with what is left of the exception.
LEMMA ReturnTop ==
  ASSUME TypeOK, LeaveNested
  PROVE  /\ stack # <<>> /\ stack' # <<>> /\ Depth \in Nat /\ Depth > 1
         /\ Top.pc = "leave"
         /\ Depth' = Depth - 1
         /\ \A i \in 1..Depth - 1 : /\ Here(stack'[i]) = Here(stack[i])
                                   /\ stack'[i].attempt = stack[i].attempt
         /\ \/ Top'.pc = "leave" /\ exc = "interrupt" /\ exc' = exc
            \/ Top'.pc \in {"exec", "returned"} /\ exc' = "none" /\ exc # "interrupt"
            \/ Top'.pc = "raised" /\ exc' = exc /\ exc \notin {"none", "interrupt"}
<1>. DEFINE d == Depth - 1
            f == stack[d]
            g == Resumed(f, Top)
<1>1. /\ stack # <<>> /\ Depth \in Nat /\ Depth > 1
      /\ f \in Frame
      /\ stack' # <<>> /\ Len(stack') = d /\ stack'[d] = g
      /\ \A i \in 1..d - 1 : stack'[i] = stack[i]
  BY PopLemma
<1>2. Depth' = d /\ Top' = g
  BY <1>1 DEF Depth, Top
<1>3. exc' = IF f.current \in Catchers /\ exc # "interrupt" THEN "none" ELSE exc
  BY DEF LeaveNested
<1>4. exc \in Excs
  BY DEF TypeOK
<1>5. Here(g) = Here(f) /\ g.attempt = f.attempt
  BY <1>1 DEF Resumed, Frame, Here
<1>6. \/ g.pc = "leave" /\ exc = "interrupt"
      \/ g.pc = "exec" /\ exc # "interrupt" /\ f.current \in Catchers
      \/ g.pc = "returned" /\ exc = "none" /\ f.current \notin Catchers
      \/ g.pc = "raised" /\ exc \notin {"none", "interrupt"} /\ f.current \notin Catchers
  BY <1>1, <1>4 DEF Resumed, Frame, Excs
<1>7. \/ g.pc = "leave" /\ exc = "interrupt" /\ exc' = exc
      \/ g.pc \in {"exec", "returned"} /\ exc' = "none" /\ exc # "interrupt"
      \/ g.pc = "raised" /\ exc' = exc /\ exc \notin {"none", "interrupt"}
  BY <1>3, <1>6
<1>8. \A i \in 1..d : /\ Here(stack'[i]) = Here(stack[i])
                     /\ stack'[i].attempt = stack[i].attempt
  BY <1>1, <1>5
<1>. QED
  BY <1>1, <1>2, <1>7, <1>8 DEF LeaveNested, At

LEMMA ControlInit == Init => ControlInv
BY DEF Init, ControlInv

LEMMA ControlStep ==
  TypeOK /\ HonestInv /\ ControlInv /\ [Next]_vars => ControlInv'
<1>. SUFFICES ASSUME TypeOK, HonestInv, ControlInv, [Next]_vars
              PROVE  ControlInv'
  OBVIOUS
<1>1. ASSUME NEW cap \in RootCaps, NEW ev \in {HostEvent, NoEvent},
             NEW traced \in BOOLEAN, HostRun(cap, ev, traced)
      PROVE  ControlInv'
  BY <1>1, HostRunTop DEF HostRun, HonestInv, ControlInv
<1>2. CASE LocalStep
  <2>1. stack # <<>> /\ Top.pc # "leave"
    BY <1>2, LocalStepLemma, LocalInLoop
  <2>2. Continues \/ Starts \/ Closes \/ Fails \/ Breaks
    BY <1>2, <2>1, LocalEffects
  <2>3. outcome = "none" /\ exc # "interrupt" /\ (Top.pc # "raised" => exc = "none")
    BY <2>1 DEF ControlInv
  <2>4. CASE Continues
    BY <2>3, <2>4 DEF Continues, ControlInv
  <2>5. CASE Starts \/ Closes \/ Fails \/ Breaks
    BY <2>3, <2>5 DEF Starts, Closes, Fails, Breaks, ControlInv
  <2>. QED
    BY <2>2, <2>4, <2>5
<1>3. CASE Nest
  BY <1>3, NestTop DEF Nest, ControlInv
<1>4. CASE LeaveNested
  BY <1>4, ReturnTop DEF LeaveNested, ControlInv
<1>5. CASE LeaveHost
  BY <1>5 DEF LeaveHost, ControlInv
<1>6. ASSUME NEW e \in Events, SetCancel(e)  PROVE ControlInv'
  BY <1>6 DEF SetCancel, ControlInv, Depth, Top
<1>7. CASE UNCHANGED vars
  BY <1>7 DEF vars, ControlInv, Depth, Top
<1>. QED
  BY <1>1, <1>2, <1>3, <1>4, <1>5, <1>6, <1>7, StepKinds

-----------------------------------------------------------------------------
\* Verdicts are counted: one is owed by every call that has not reached its
\* finally block.
LEMMA VerdictStep ==
  TypeOK /\ HonestInv /\ ControlInv /\ OneVerdict /\ [Next]_vars => OneVerdict'
<1>. SUFFICES ASSUME TypeOK, HonestInv, ControlInv, OneVerdict, [Next]_vars
              PROVE  OneVerdict'
  OBVIOUS
<1>1. ASSUME NEW cap \in RootCaps, NEW ev \in {HostEvent, NoEvent},
             NEW traced \in BOOLEAN, HostRun(cap, ev, traced)
      PROVE  OneVerdict'
  BY <1>1, HostRunTop DEF HostRun, OneVerdict
<1>2. CASE LocalStep
  <2>1. /\ stack # <<>> /\ Top.pc # "leave"
        /\ stack' # <<>> /\ Depth' = Depth /\ Depth \in Nat
    BY <1>2, LocalStepLemma, LocalInLoop, SetTopLemma DEF TypeOK, Depth
  <2>2. owed = Depth
    BY <2>1 DEF ControlInv, OneVerdict
  <2>3. \/ exc' = "interrupt"
        \/ owed' = owed /\ Top'.pc # "leave"
        \/ owed' = owed - 1 /\ Top'.pc = "leave"
    <3>1. Continues \/ Starts \/ Closes \/ Fails \/ Breaks
      BY <1>2, <2>1, LocalEffects
    <3>2. Continues => Top'.pc # "leave" /\ owed' = owed
      BY DEF Continues
    <3>. QED
      BY <3>1, <3>2 DEF Starts, Closes, Fails, Breaks
  <2>. QED
    BY <2>1, <2>2, <2>3 DEF OneVerdict
<1>3. CASE Nest
  <2>1. owed = Depth /\ exc # "interrupt" /\ outcome # "interrupt"
    BY <1>3, NestTop DEF ControlInv, OneVerdict
  <2>. QED
    BY <1>3, <2>1, NestTop DEF Nest, OneVerdict
<1>4. CASE LeaveNested
  <2>1. outcome = "none" /\ outcome' = outcome /\ owed' = owed
    BY <1>4, ReturnTop DEF LeaveNested, ControlInv
  <2>2. exc # "interrupt" => owed = Depth - 1
    BY <1>4, <2>1, ReturnTop DEF OneVerdict
  <2>. QED
    BY <1>4, <2>1, <2>2, ReturnTop DEF OneVerdict
<1>5. CASE LeaveHost
  <2>1. stack # <<>> /\ Top.pc = "leave" /\ Depth = 1 /\ stack' = <<>>
    BY <1>5 DEF LeaveHost, At
  <2>2. outcome = "none" /\ owed' = owed
    BY <1>5, <2>1 DEF LeaveHost, ControlInv
  <2>3. outcome' # "interrupt" => exc # "interrupt"
    BY <1>5 DEF LeaveHost
  <2>. QED
    BY <2>1, <2>2, <2>3 DEF OneVerdict
<1>6. ASSUME NEW e \in Events, SetCancel(e)  PROVE OneVerdict'
  BY <1>6 DEF SetCancel, OneVerdict, Depth, Top
<1>7. CASE UNCHANGED vars
  BY <1>7 DEF vars, OneVerdict, Depth, Top
<1>. QED
  BY <1>1, <1>2, <1>3, <1>4, <1>5, <1>6, <1>7, StepKinds

-----------------------------------------------------------------------------
\* The visits of the outer k calls are the ones open.
Open(k) == open = [i \in 1..k |-> Here(stack[i])]

\* How many calls have a visit open.
Visiting == IF Top.pc \in InFlight THEN Depth ELSE Depth - 1

\* A sequence grows and shrinks at its end.
LEMMA Grown ==
  ASSUME NEW k \in Nat, NEW f
  PROVE  Append([i \in 1..k |-> f[i]], f[k + 1]) = [i \in 1..k + 1 |-> f[i]]
<1>. DEFINE s == [i \in 1..k |-> f[i]]
            t == [i \in 1..k + 1 |-> f[i]]
            S == {f[i] : i \in 1..k + 1}
<1>1. s \in Seq(S) /\ t \in Seq(S) /\ Len(s) = k /\ Len(t) = k + 1
  OBVIOUS
<1>2. f[k + 1] \in S
  OBVIOUS
<1>3. \A i \in 1..k : s[i] = f[i]
  OBVIOUS
<1>4. \A i \in 1..k + 1 : t[i] = f[i]
  OBVIOUS
<1>. HIDE DEF s, t, S
<1>5. /\ Append(s, f[k + 1]) \in Seq(S)
      /\ Len(Append(s, f[k + 1])) = k + 1
      /\ \A i \in 1..k : Append(s, f[k + 1])[i] = s[i]
      /\ Append(s, f[k + 1])[k + 1] = f[k + 1]
  BY <1>1, <1>2, AppendProperties
<1>6. \A i \in 1..k + 1 : Append(s, f[k + 1])[i] = t[i]
  BY <1>3, <1>4, <1>5
<1>7. Append(s, f[k + 1]) = t
  BY <1>1, <1>5, <1>6, SeqEqual
<1>. QED
  BY <1>7 DEF s, t

LEMMA Shrunk ==
  ASSUME NEW k \in Nat, NEW f
  PROVE  LET t == [i \in 1..k + 1 |-> f[i]]
         IN  /\ t # <<>> /\ Len(t) = k + 1 /\ t[k + 1] = f[k + 1]
             /\ SubSeq(t, 1, k) = [i \in 1..k |-> f[i]]
<1>. DEFINE s == [i \in 1..k |-> f[i]]
            t == [i \in 1..k + 1 |-> f[i]]
            S == {f[i] : i \in 1..k + 1}
<1>1. s \in Seq(S) /\ t \in Seq(S) /\ Len(s) = k /\ Len(t) = k + 1
  OBVIOUS
<1>2. \A i \in 1..k : s[i] = f[i]
  OBVIOUS
<1>3. (\A i \in 1..k + 1 : t[i] = f[i]) /\ t[k + 1] = f[k + 1]
  OBVIOUS
<1>. HIDE DEF s, t, S
<1>4. \A i \in 1..k : t[i] \in S
  BY <1>1, ElementOfSeq
<1>5. /\ SubSeq(t, 1, k) \in Seq(S)
      /\ Len(SubSeq(t, 1, k)) = k
      /\ \A i \in 1..k : SubSeq(t, 1, k)[i] = t[i]
  BY <1>1, <1>4, SubSeqProperties
<1>6. SubSeq(t, 1, k) = s
  <2>1. \A i \in 1..k : SubSeq(t, 1, k)[i] = s[i]
    BY <1>2, <1>3, <1>5
  <2>. QED
    BY <1>1, <1>5, <2>1, SeqEqual
<1>7. t # <<>>
  BY <1>1, EmptySeq
<1>. QED
  BY <1>1, <1>3, <1>6, <1>7 DEF s, t

\* A step that neither opens nor closes a visit.
LEMMA OpenKept ==
  ASSUME NEW k \in Nat, Open(k), open' = open,
         \A i \in 1..k : Here(stack'[i]) = Here(stack[i])
  PROVE  Open(k)'
BY DEF Open

LEMMA BracketStep ==
  TypeOK /\ HonestInv /\ ControlInv /\ WellBracketed /\ [Next]_vars
    => WellBracketed'
<1>. SUFFICES ASSUME TypeOK, HonestInv, ControlInv, WellBracketed, [Next]_vars
              PROVE  WellBracketed'
  OBVIOUS
<1>0. /\ stack # <<>> /\ exc # "interrupt" => Open(Visiting)
      /\ (stack' = <<>> => open' = <<>>) /\ (stack' # <<>> => Open(Visiting)')
           => WellBracketed'
  BY DEF WellBracketed, Open, Visiting, ControlInv
<1>1. ASSUME NEW cap \in RootCaps, NEW ev \in {HostEvent, NoEvent},
             NEW traced \in BOOLEAN, HostRun(cap, ev, traced)
      PROVE  WellBracketed'
  <2>1. stack' # <<>> /\ Visiting' = 0 /\ open' = <<>>
    BY <1>1, HostRunTop DEF HostRun, Visiting, InFlight
  <2>2. Open(0)'
    BY <2>1 DEF Open
  <2>. QED
    BY <1>0, <2>1, <2>2 DEF Open
<1>2. CASE LocalStep
  <2>1. PICK g \in Frame : SetTop(g)
    BY <1>2, LocalStepLemma
  <2>2. /\ stack # <<>> /\ Top.pc # "leave" /\ exc # "interrupt"
        /\ stack' # <<>> /\ Depth' = Depth /\ Depth \in Nat \ {0}
        /\ \A i \in 1..Depth - 1 : stack'[i] = stack[i]
        /\ Top = stack[Depth] /\ Top' = stack'[Depth]
    BY <1>2, <2>1, LocalStepLemma, LocalInLoop, SetTopLemma
       DEF TypeOK, Depth, Top, ControlInv
  <2>3. Open(Visiting)
    BY <1>0, <2>2
  <2>. DEFINE f == [i \in 1..Depth |-> Here(stack[i])]
              k == Depth - 1
  <2>4. k \in Nat /\ Depth = k + 1
    BY <2>2
  <2>5. CASE Continues
    <3>1. Visiting' = Visiting /\ Visiting \in Nat /\ Visiting <= Depth
      BY <2>2, <2>5 DEF Continues, Visiting
    <3>2. \A i \in 1..Visiting : Here(stack'[i]) = Here(stack[i])
      BY <2>2, <2>5, <3>1 DEF Continues
    <3>3. Open(Visiting)'
      BY <2>3, <2>5, <3>1, <3>2, OpenKept DEF Continues, Open
    <3>. QED
      BY <1>0, <2>2, <3>3
  <2>6. CASE Starts
    <3>1. Visiting = k /\ Visiting' = Depth
      BY <2>2, <2>6 DEF Starts, Visiting, InFlight
    <3>2. open = [i \in 1..k |-> Here(stack[i])]
      BY <2>3, <3>1 DEF Open
    <3>3. pos = f[k + 1]
      BY <2>2, <2>4, <2>6 DEF Starts, ControlInv
    <3>4. open = [i \in 1..k |-> f[i]]
      BY <2>4, <3>2
    <3>. HIDE DEF f, k
    <3>5. open' = [i \in 1..k + 1 |-> f[i]]
      BY <2>4, <2>6, <3>3, <3>4, Grown DEF Starts
    <3>6. \A i \in 1..Depth : Here(stack'[i]) = Here(stack[i])
      BY <2>2, <2>4, <2>6 DEF Starts, k
    <3>7. open' = [i \in 1..Depth |-> Here(stack'[i])]
      BY <2>4, <3>5, <3>6 DEF f
    <3>8. Open(Visiting)'
      BY <3>1, <3>7, <2>2 DEF Open
    <3>. QED
      BY <1>0, <2>2, <3>8
  <2>7. CASE Closes
    <3>1. Visiting = Depth /\ Visiting' = k
      BY <2>2, <2>7 DEF Closes, Visiting, InFlight
    <3>2. open = [i \in 1..k + 1 |-> f[i]] /\ f[k + 1] = Here(Top)
      BY <2>2, <2>3, <2>4, <3>1 DEF Open
    <3>3. \A i \in 1..k : f[i] = Here(stack'[i])
      BY <2>2, <2>4
    <3>. HIDE DEF f, k
    <3>4. /\ open # <<>> /\ Len(open) = k + 1 /\ open[k + 1] = Here(Top)
          /\ SubSeq(open, 1, k) = [i \in 1..k |-> f[i]]
      BY <2>4, <3>2, Shrunk
    <3>5. open' = [i \in 1..k |-> f[i]]
      <4>1. Len(open) - 1 = k
        BY <2>4, <3>4
      <4>. QED
        BY <2>7, <3>4, <4>1 DEF Closes, CloseVisit
    <3>6. open' = [i \in 1..k |-> Here(stack'[i])]
      BY <3>3, <3>5
    <3>7. Open(Visiting)'
      BY <3>1, <3>6 DEF Open
    <3>. QED
      BY <1>0, <2>2, <3>7
  <2>8. CASE Fails
    <3>1. Visiting = k /\ Visiting' = k
      BY <2>2, <2>8 DEF Fails, Visiting, InFlight
    <3>2. \A i \in 1..k : Here(stack'[i]) = Here(stack[i])
      BY <2>2
    <3>3. Open(Visiting)'
      BY <2>3, <2>4, <2>8, <3>1, <3>2, OpenKept DEF Fails, Open
    <3>. QED
      BY <1>0, <2>2, <3>3
  <2>9. CASE Breaks
    BY <2>9 DEF Breaks, WellBracketed
  <2>. QED
    BY <1>2, <2>2, <2>5, <2>6, <2>7, <2>8, <2>9, LocalEffects
<1>3. CASE Nest
  <2>1. exc = "none" /\ Visiting = Depth /\ Visiting' = Depth /\ open' = open
    BY <1>3, NestTop DEF Nest, ControlInv, Visiting, InFlight
  <2>2. Open(Visiting)'
    BY <1>0, <1>3, <2>1, NestTop, OpenKept DEF Open
  <2>. QED
    BY <1>0, <1>3, <2>2, NestTop
<1>4. CASE LeaveNested
  <2>1. CASE exc = "interrupt"
    <3>1. exc' = "interrupt"
      BY <1>4, <2>1, ReturnTop
    <3>. QED
      BY <3>1 DEF WellBracketed
  <2>2. CASE exc # "interrupt"
    <3>1. Visiting = Depth - 1 /\ Visiting' = Depth - 1 /\ Depth - 1 \in Nat
      BY <1>4, <2>2, ReturnTop DEF Visiting, InFlight
    <3>2. Open(Visiting)'
      BY <1>0, <1>4, <2>2, <3>1, ReturnTop, OpenKept DEF LeaveNested, Open
    <3>. QED
      BY <1>0, <1>4, <3>2, ReturnTop
  <2>. QED
    BY <2>1, <2>2
<1>5. CASE LeaveHost
  <2>1. stack # <<>> /\ Top.pc = "leave" /\ Depth = 1 /\ stack' = <<>>
    BY <1>5 DEF LeaveHost, At
  <2>2. CASE exc = "interrupt"
    <3>1. outcome' = "interrupt"
      BY <1>5, <2>2 DEF LeaveHost
    <3>. QED
      BY <3>1 DEF WellBracketed
  <2>3. CASE exc # "interrupt"
    <3>1. open = <<>>
      BY <1>0, <2>1, <2>3 DEF Open, Visiting, InFlight
    <3>2. open' = <<>>
      BY <1>5, <3>1 DEF LeaveHost
    <3>. QED
      BY <1>0, <2>1, <3>2
  <2>. QED
    BY <2>2, <2>3
<1>6. ASSUME NEW e \in Events, SetCancel(e)  PROVE WellBracketed'
  BY <1>6 DEF SetCancel, WellBracketed, Depth, Top
<1>7. CASE UNCHANGED vars
  BY <1>7 DEF vars, WellBracketed, Depth, Top
<1>. QED
  BY <1>1, <1>2, <1>3, <1>4, <1>5, <1>6, <1>7, StepKinds

\* The observer's record is well bracketed and every call reports how it
\* ended, once, however calls nest, fail, are retried or are swallowed.
THEOREM EventsAreBracketed == Spec => [](WellBracketed /\ OneVerdict)
<1>. DEFINE Inv == /\ TypeOK /\ DynamicScope /\ HonestInv /\ ControlInv
                   /\ WellBracketed /\ OneVerdict
<1>1. Init => Inv
  BY InitType, ScopeInit, HonestInit, ControlInit
     DEF Init, WellBracketed, OneVerdict
<1>2. Inv /\ [Next]_vars => Inv'
  BY TypeStep, ScopeStep, HonestStep, ControlStep, BracketStep, VerdictStep
<1>3. Inv => WellBracketed /\ OneVerdict
  OBVIOUS
<1>. HIDE DEF Inv
<1>. QED
  BY <1>1, <1>2, <1>3, PTL DEF Spec

\* In particular no call of Flow.run reports two endings, or one for another
\* call (node.py:319-413).
COROLLARY EveryCallEndsOnce == Spec => []OneVerdict
BY EventsAreBracketed, PTL

-----------------------------------------------------------------------------
\* While FlowCancelled propagates the innermost call leaves, or its node is
\* closed on the way out; neither visits a node nor attempts one again.
LEMMA CancelledStep ==
  TypeOK /\ HonestInv /\ ControlInv /\ [Next]_vars =>
    (exc = "cancelled" =>
       /\ visits' = visits
       /\ Len(stack') <= Depth
       /\ \A i \in 1..Len(stack') : stack'[i].attempt = stack[i].attempt)
<1>. DEFINE Goal == /\ visits' = visits
                    /\ Len(stack') <= Depth
                    /\ \A i \in 1..Len(stack') :
                         stack'[i].attempt = stack[i].attempt
<1>. SUFFICES ASSUME TypeOK, HonestInv, ControlInv, [Next]_vars,
                     exc = "cancelled"
              PROVE  Goal
  OBVIOUS
<1>1. stack # <<>> /\ Top.pc \in {"raised", "leave"}
  BY DEF HonestInv, ControlInv
<1>2. Top \in Frame /\ Depth \in Nat \ {0} /\ stack \in Seq(Frame)
  BY <1>1, TopType DEF TypeOK
<1>3. CASE LocalStep
  <2>1. NodeCancel \/ Interrupt
    BY <1>1, <1>3 DEF LocalStep, CancelAtBoundary, PassBoundary, Admit, Exhausted,
       Overrun, Retry, NodeError, Route, End, Return, Raise, At, Retriable
  <2>. DEFINE g == [Top EXCEPT !.pc = "leave"]
  <2>2. SetTop(g) /\ visits' = visits
    BY <2>1 DEF NodeCancel, Interrupt
  <2>3. g \in Frame /\ g.attempt = Top.attempt
    BY <1>2 DEF Frame, PCs
  <2>. HIDE DEF g
  <2>4. /\ Len(stack') = Depth /\ stack'[Depth] = g
        /\ \A i \in 1..Depth - 1 : stack'[i] = stack[i]
    BY <1>1, <1>2, <2>2, <2>3, SetTopLemma DEF Depth
  <2>. QED
    BY <1>2, <2>2, <2>3, <2>4 DEF Top
<1>4. CASE LeaveNested
  <2>1. Len(stack') = Depth - 1 /\ visits' = visits
    BY <1>4, ReturnTop DEF LeaveNested, Depth
  <2>. QED
    BY <1>2, <1>4, <2>1, ReturnTop
<1>5. CASE LeaveHost
  <2>1. Len(stack') = 0 /\ visits' = visits
    BY <1>5, EmptySeq DEF LeaveHost
  <2>. QED
    BY <1>2, <2>1
<1>6. CASE (\E e \in Events : SetCancel(e)) \/ UNCHANGED vars
  BY <1>2, <1>6 DEF SetCancel, vars, Depth
<1>7. ~Nest /\ \A cap, ev, traced : ~HostRun(cap, ev, traced)
  BY <1>1 DEF Nest, At, HostRun
<1>. QED
  BY <1>3, <1>4, <1>5, <1>6, <1>7, StepKinds

\* From the moment FlowCancelled is raised until a handler of a tool stops
\* it, no node starts, no call begins and no body is attempted again.
THEOREM CancellationUnwinds == Spec => CancelUnwinds
<1>. DEFINE Inv == TypeOK /\ DynamicScope /\ HonestInv /\ ControlInv
            Act == exc = "cancelled" =>
                     /\ visits' = visits
                     /\ Len(stack') <= Depth
                     /\ \A i \in 1..Len(stack') :
                          stack'[i].attempt = stack[i].attempt
<1>1. Init => Inv
  BY InitType, ScopeInit, HonestInit, ControlInit
<1>2. Inv /\ [Next]_vars => Inv'
  BY TypeStep, ScopeStep, HonestStep, ControlStep
<1>3. Inv /\ [Next]_vars => [Act]_vars
  BY CancelledStep
<1>4. CancelUnwinds <=> [][Act]_vars
  BY DEF CancelUnwinds
<1>. HIDE DEF Inv, Act
<1>. QED
  BY <1>1, <1>2, <1>3, <1>4, PTL DEF Spec

=============================================================================
