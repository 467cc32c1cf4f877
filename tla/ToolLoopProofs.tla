---------------------------- MODULE ToolLoopProofs ----------------------------
(***************************************************************************)
(* Theorems about ToolLoop, for all signatures, outcomes, sizes of         *)
(* messages and windows.                                                   *)
(***************************************************************************)
EXTENDS ToolLoop, TLAPS

Outcome == Outcomes \cup {Mixed}

\* The result s had in the round k rounds before the last one.
Back(rs, k) == rs[Len(rs) - k]

Agrees(rs, k, s) ==
  /\ k < Len(rs)
  /\ s \in DOMAIN Back(rs, k)
  /\ Back(rs, k)[s] = Back(rs, 0)[s]
  /\ Back(rs, 0)[s] # Mixed

\* The window shows a streak, as far as it reaches.
WindowShows ==
  \A s \in Signatures : \A k \in 0..(Window - 1) :
    k < streak[s] => Agrees(rounds, k, s)

\* A streak as long as the window has been warned about.
LongIsWarned ==
  enabled =>
    \A s \in Signatures : streak[s] >= Window =>
      s \in DOMAIN warned /\ warned[s] = Back(rounds, 0)[s]

\* A warning is of the last round, and a halt is final.
WarningIsFresh ==
  enabled =>
    /\ action # "halt"
    /\ \A s \in DOMAIN warned :
         /\ action = "warn"
         /\ warned[s] # Mixed =>
              streak[s] > 0 /\ warned[s] = Back(rounds, 0)[s]

\* A reply is stripped before it is routed.
Stripped == ~enabled /\ pc = "router" => calls = <<>>

\* Between turns no call is open, if no turn was cut off.
Settled == pc = "idle" /\ ~cut => history.open = 0

IInv ==
  /\ Stripped /\ Settled
  /\ TypeOK /\ HistoryPaired /\ NoToolsAfterHalt
  /\ StuckModelStops /\ WindowShows /\ LongIsWarned /\ WarningIsFresh

-----------------------------------------------------------------------------
(* Data.                                                                   *)

\* The window after one more round: it is as long as it may be, and what was
\* k rounds back is one round further back.
LEMMA LastAppend ==
  ASSUME NEW S, NEW seq \in Seq(S), NEW x \in S, Len(seq) <= Window
  PROVE  LET R == Last(Append(seq, x))
         IN /\ R \in Seq(S)
            /\ Len(R) = IF Len(seq) < Window THEN Len(seq) + 1 ELSE Window
            /\ Back(R, 0) = x
            /\ \A k \in 1..(Len(R) - 1) : Back(R, k) = Back(seq, k - 1)
<1> DEFINE A == Append(seq, x)
<1>1. /\ A \in Seq(S) /\ Len(A) = Len(seq) + 1
      /\ \A i \in 1..Len(seq) : A[i] = seq[i]
      /\ A[Len(seq) + 1] = x
  OBVIOUS
<1>2. Len(seq) \in Nat /\ Window \in Nat /\ Window >= 2
  BY LoopAssumption
<1>3. CASE Len(seq) < Window
  <2>1. Last(A) = A
    BY <1>1, <1>2, <1>3 DEF Last
  <2> QED
    BY <2>1, <1>1, <1>2, <1>3 DEF Back
<1>4. CASE Len(seq) = Window
  <2>1. Last(A) = SubSeq(A, 2, Window + 1)
    BY <1>1, <1>2, <1>4 DEF Last
  <2>2. /\ SubSeq(A, 2, Window + 1) \in Seq(S)
        /\ Len(SubSeq(A, 2, Window + 1)) = Window
        /\ \A i \in 1..Window : SubSeq(A, 2, Window + 1)[i] = A[i + 1]
    BY <1>1, <1>2, <1>4
  <2>3. PICK R : R = Last(A)
    OBVIOUS
  <2>4. R \in Seq(S) /\ Len(R) = Window /\ \A i \in 1..Window : R[i] = A[i + 1]
    BY <2>1, <2>2, <2>3
  <2>5. Back(R, 0) = x
    BY <1>1, <1>2, <1>4, <2>4 DEF Back
  <2>6. \A k \in 1..Window - 1 : Back(R, k) = Back(seq, k - 1)
    <3>. TAKE k \in 1..Window - 1
    <3>1. /\ Window - k \in 1..Window /\ Window - k + 1 = Window - (k - 1)
          /\ Window - (k - 1) \in 1..Window
      BY <1>2
    <3>. QED
      BY <1>1, <1>4, <2>4, <3>1 DEF Back
  <2> QED
    BY <1>4, <2>3, <2>4, <2>5, <2>6
<1> QED
  BY <1>2, <1>3, <1>4

LEMMA ReplyType ==
  ASSUME NEW r \in Replies
  PROVE  r \in Seq(Signatures) /\ Len(r) \in 0..MaxCalls /\ DOMAIN r = 1..Len(r)
BY LoopAssumption DEF Replies

\* What the guard makes of a round is a function of the signatures in it.
LEMMA CurrentType ==
  ASSUME TypeOK, pc = "guard"
  PROVE  /\ Made \subseteq Signatures
         /\ DOMAIN Current = Made
         /\ \A s \in Made : Current[s] \in Outcome
         /\ Current \in Results
<1>1. calls \in Replies /\ Len(outcomes) = Len(calls)
  BY DEF TypeOK
<1>2. DOMAIN calls = 1..Len(calls) /\ calls \in Seq(Signatures)
  BY <1>1, ReplyType
<1>3. PICK n \in 0..MaxCalls : outcomes \in [1..n -> Outcomes]
  BY DEF TypeOK
<1>4. Len(outcomes) = n
  BY <1>3, LoopAssumption
<1>5. outcomes \in [DOMAIN calls -> Outcomes]
  BY <1>1, <1>2, <1>3, <1>4
<1>6. Made \subseteq Signatures
  BY <1>2 DEF Made
<1>7. ASSUME NEW s \in Made PROVE Had(s) \subseteq Outcomes /\ Had(s) # {}
  BY <1>5, <1>7 DEF Had, Made
<1>8. \A s \in Made : Current[s] \in Outcome
  BY <1>7 DEF Current, Outcome
<1>9. DOMAIN Current = Made
  BY DEF Current
<1>10. Current \in [Made -> Outcome]
  BY <1>8, <1>9 DEF Current
<1> QED
  BY <1>6, <1>8, <1>9, <1>10 DEF Results, Outcome

\* The guard's window after this round.
LEMMA RoundsType ==
  ASSUME TypeOK, pc = "guard"
  PROVE  /\ Rounds \in Seq(Results)
         /\ Len(Rounds) = IF Len(rounds) < Window THEN Len(rounds) + 1 ELSE Window
         /\ Len(Rounds) \in 1..Window
         /\ Back(Rounds, 0) = Current
         /\ \A k \in 1..(Len(Rounds) - 1) : Back(Rounds, k) = Back(rounds, k - 1)
<1>1. rounds \in Seq(Results) /\ Len(rounds) <= Window /\ Current \in Results
  BY CurrentType DEF TypeOK
<1>2. Len(rounds) \in Nat /\ Window \in Nat /\ Window >= 2
  BY <1>1, LoopAssumption
<1> QED
  BY <1>1, <1>2, LastAppend DEF Rounds

\* A streak grows by one round, or starts again.
LEMMA StreakStep ==
  ASSUME TypeOK, NEW s \in Signatures
  PROVE  /\ NextStreak \in [Signatures -> Nat]
         /\ NextStreak[s] > 0 => s \in Made /\ Current[s] # Mixed
         /\ NextStreak[s] > 1 =>
              /\ NextStreak[s] = streak[s] + 1
              /\ rounds # <<>>
              /\ s \in DOMAIN Back(rounds, 0) /\ Back(rounds, 0)[s] = Current[s]
         /\ s \in Made /\ Current[s] # Mixed => NextStreak[s] > 0
         /\ (/\ s \in Made /\ Current[s] # Mixed /\ rounds # <<>>
             /\ s \in DOMAIN Back(rounds, 0) /\ Back(rounds, 0)[s] = Current[s])
              => NextStreak[s] = streak[s] + 1
<1>1. streak \in [Signatures -> Nat] /\ rounds \in Seq(Results)
  BY DEF TypeOK
<1>2. Back(rounds, 0) = rounds[Len(rounds)]
  BY <1>1 DEF Back
<1>3. NextStreak \in [Signatures -> Nat]
  BY <1>1 DEF NextStreak
<1>4. NextStreak[s] =
        IF s \notin Made \/ Current[s] = Mixed THEN 0
        ELSE IF rounds # <<>> /\ s \in DOMAIN Back(rounds, 0)
                  /\ Back(rounds, 0)[s] = Current[s]
             THEN streak[s] + 1
             ELSE 1
  BY <1>2 DEF NextStreak
<1> QED
  BY <1>1, <1>3, <1>4

-----------------------------------------------------------------------------
(* Initially, and outside the guard.                                       *)

LEMMA EmptyResults == NoResults \in Results /\ DOMAIN NoResults = {}
BY DEF NoResults, Results

LEMMA InitIInv == Init => IInv
<1> SUFFICES ASSUME Init PROVE IInv
  OBVIOUS
<1>1. calls \in Replies /\ outcomes \in UNION {[1..n -> Outcomes] : n \in 0..MaxCalls}
  <2>1. <<>> \in [1..0 -> Signatures] /\ <<>> \in [1..0 -> Outcomes]
    OBVIOUS
  <2>2. 0 \in 0..MaxCalls
    BY LoopAssumption
  <2> QED
    BY <2>1, <2>2 DEF Init, Replies
<1>2. TypeOK
  <2>1. rounds \in Seq(Results) /\ Len(rounds) <= Window
    BY LoopAssumption DEF Init
  <2>2. history \in [open : 0..MaxCalls, broken : BOOLEAN]
    BY LoopAssumption DEF Init
  <2>3. streak \in [Signatures -> Nat]
    BY DEF Init
  <2>4. pc = "guard" => Len(outcomes) = Len(calls)
    BY DEF Init
  <2> QED
    BY <1>1, <2>1, <2>2, <2>3, <2>4, EmptyResults DEF Init, TypeOK
<1>3. StuckModelStops /\ WindowShows /\ LongIsWarned
  BY LoopAssumption DEF Init, StuckModelStops, WindowShows, LongIsWarned
<1>4. HistoryPaired /\ Settled /\ NoToolsAfterHalt /\ Stripped /\ WarningIsFresh
  BY EmptyResults DEF Init, HistoryPaired, Settled, NoToolsAfterHalt, Stripped, WarningIsFresh
<1> QED
  BY <1>2, <1>3, <1>4 DEF IInv

LEMMA ChatIInv ==
  ASSUME IInv, NEW tools \in BOOLEAN, Chat(tools)
  PROVE  IInv'
<1>1. <<>> \in Replies /\ <<>> \in UNION {[1..n -> Outcomes] : n \in 0..MaxCalls}
  <2>1. <<>> \in [1..0 -> Signatures] /\ <<>> \in [1..0 -> Outcomes]
    OBVIOUS
  <2>2. 0 \in 0..MaxCalls
    BY LoopAssumption
  <2> QED
    BY <2>1, <2>2 DEF Replies
<1>2. history' \in [open : 0..MaxCalls, broken : BOOLEAN]
  BY LoopAssumption DEF Chat, Said, IInv, TypeOK
<1>3. TypeOK'
  <2>1. rounds' \in Seq(Results) /\ Len(rounds') <= Window
    BY LoopAssumption DEF Chat
  <2>2. streak' \in [Signatures -> Nat]
    BY DEF Chat
  <2>3. /\ pc' \in {"idle", "model", "router", "tools", "guard"}
        /\ pc' = "guard" => Len(outcomes') = Len(calls')
        /\ cut' \in BOOLEAN
    BY DEF Chat, IInv, TypeOK
  <2>4. /\ calls' \in Replies
        /\ outcomes' \in UNION {[1..n -> Outcomes] : n \in 0..MaxCalls}
        /\ warned' \in Results
        /\ enabled' \in BOOLEAN
        /\ action' \in {"none", "continue", "warn", "halt"}
    BY <1>1, EmptyResults DEF Chat
  <2> QED
    BY <1>2, <2>1, <2>2, <2>3, <2>4 DEF TypeOK
<1>4. HistoryPaired' /\ Settled'
  <2>1. history'.open = 0 /\ (history'.broken => history.broken \/ history.open > 0)
    BY DEF Chat, Said
  <2>2. pc = "idle" /\ pc' = "model" /\ cut' = cut
    BY DEF Chat
  <2>3. ~cut => ~history.broken /\ history.open = 0
    BY <2>2 DEF IInv, HistoryPaired, Settled
  <2> QED
    BY <2>1, <2>2, <2>3 DEF HistoryPaired, Settled
<1>5. NoToolsAfterHalt' /\ Stripped' /\ WarningIsFresh'
  BY EmptyResults DEF Chat, NoToolsAfterHalt, Stripped, WarningIsFresh
<1>6. StuckModelStops' /\ WindowShows' /\ LongIsWarned'
  BY LoopAssumption DEF Chat, StuckModelStops, WindowShows, LongIsWarned
<1> QED
  BY <1>3, <1>4, <1>5, <1>6 DEF IInv

\* What no step but the guard's and a new turn disturbs.
Steady == UNCHANGED <<enabled, rounds, warned, action, streak>>

LEMMA SteadyGuard ==
  ASSUME IInv, Steady
  PROVE  StuckModelStops' /\ WindowShows' /\ LongIsWarned' /\ WarningIsFresh'
BY DEF IInv, Steady, StuckModelStops, WindowShows, LongIsWarned, WarningIsFresh, Agrees

LEMMA ModelIInv ==
  ASSUME IInv, NEW reply \in Replies, Model(reply)
  PROVE  IInv'
<1>1. /\ AllowedCalls(reply) \in Replies
      /\ ~enabled => AllowedCalls(reply) = <<>>
  <2>1. <<>> \in [1..0 -> Signatures] /\ 0 \in 0..MaxCalls
    BY LoopAssumption
  <2> QED
    BY <2>1 DEF AllowedCalls, Replies
<1>2. Len(AllowedCalls(reply)) \in 0..MaxCalls
  BY <1>1, ReplyType
<1>3. history' \in [open : 0..MaxCalls, broken : BOOLEAN]
  BY <1>2 DEF Model, Said, IInv, TypeOK
<1>4. TypeOK'
  BY <1>1, <1>3 DEF IInv, Model, TypeOK
<1>5. HistoryPaired' /\ Settled'
  BY DEF Model, Said, IInv, TypeOK, HistoryPaired, Settled
<1>6. NoToolsAfterHalt' /\ Stripped'
  BY <1>1 DEF Model, IInv, NoToolsAfterHalt, Stripped
<1> QED
  BY <1>4, <1>5, <1>6, SteadyGuard DEF IInv, Model, Steady

LEMMA CallToolsIInv ==
  ASSUME IInv, NEW rs \in [DOMAIN calls -> Outcomes], CallTools(rs)
  PROVE  IInv'
<1>1. calls \in Replies /\ Len(calls) \in 0..MaxCalls /\ DOMAIN calls = 1..Len(calls)
  BY ReplyType DEF IInv, TypeOK
<1>2. Len(rs) = Len(calls) /\ rs \in [1..Len(calls) -> Outcomes]
  BY <1>1, LoopAssumption
<1>3. history.open = Len(calls)
  BY DEF IInv, HistoryPaired, CallTools
<1>4. history' = [open |-> 0, broken |-> history.broken]
  BY <1>1, <1>2, <1>3 DEF CallTools, Answers, IInv, TypeOK
<1>5. history' \in [open : 0..MaxCalls, broken : BOOLEAN]
  BY <1>4, LoopAssumption DEF IInv, TypeOK
<1>6. TypeOK'
  BY <1>1, <1>2, <1>5 DEF IInv, CallTools, TypeOK
<1>7. HistoryPaired' /\ Settled'
  BY <1>4 DEF CallTools, IInv, HistoryPaired, Settled
<1>8. NoToolsAfterHalt' /\ Stripped'
  BY DEF CallTools, IInv, NoToolsAfterHalt, Stripped
<1> QED
  BY <1>6, <1>7, <1>8, SteadyGuard DEF IInv, CallTools, Steady

LEMMA OtherIInv ==
  ASSUME IInv, Route \/ Raise \/ UNCHANGED vars
  PROVE  IInv'
<1>1. Steady /\ UNCHANGED <<calls, outcomes, history>>
  BY DEF Route, Raise, vars, payload, Steady
<1>2. TypeOK'
  BY <1>1 DEF Route, Raise, vars, IInv, TypeOK, Steady
<1>3. HistoryPaired' /\ Settled'
  <2>1. CASE Route
    <3>1. calls = <<>> => Len(calls) = 0
      OBVIOUS
    <3> QED
      BY <2>1, <3>1, <1>1 DEF Route, IInv, HistoryPaired, Settled
  <2>2. CASE Raise
    <3>1. history.open \in Nat /\ history' = history
      BY <1>1, LoopAssumption DEF IInv, TypeOK
    <3>2. pc' = "idle" /\ (~cut' => ~cut /\ ~(history.open > 0))
      BY <2>2 DEF Raise
    <3>3. ~cut' => ~history'.broken
      BY <3>1, <3>2 DEF IInv, HistoryPaired
    <3>4. ~cut' => history'.open = 0
      BY <3>1, <3>2
    <3> QED
      BY <3>2, <3>3, <3>4 DEF HistoryPaired, Settled
  <2>3. CASE UNCHANGED vars
    BY <2>3, <1>1 DEF vars, IInv, HistoryPaired, Settled
  <2> QED
    BY <2>1, <2>2, <2>3
<1>4. NoToolsAfterHalt' /\ Stripped'
  BY <1>1 DEF Route, Raise, vars, IInv, NoToolsAfterHalt, Stripped, Steady
<1> QED
  BY <1>1, <1>2, <1>3, <1>4, SteadyGuard DEF IInv

-----------------------------------------------------------------------------
(* The guard.                                                              *)

\* A streak that goes on is seen in the window, one round further back.
LEMMA WindowStep ==
  ASSUME IInv, pc = "guard", NEW s \in Signatures, NEW k \in 0..(Window - 1),
         k < NextStreak[s]
  PROVE  Agrees(Rounds, k, s)
<1>1. TypeOK /\ Window \in Nat /\ Window >= 2 /\ Len(rounds) \in Nat
      /\ Len(rounds) <= Window /\ streak[s] \in Nat /\ NextStreak[s] \in Nat
  BY StreakStep, LoopAssumption DEF IInv, TypeOK
<1>2. /\ Len(Rounds) = IF Len(rounds) < Window THEN Len(rounds) + 1 ELSE Window
      /\ Back(Rounds, 0) = Current
      /\ \A i \in 1..(Len(Rounds) - 1) : Back(Rounds, i) = Back(rounds, i - 1)
  BY <1>1, RoundsType
<1>3. s \in Made /\ Current[s] # Mixed /\ s \in DOMAIN Current
  <2>1. NextStreak[s] > 0
    BY <1>1
  <2>2. s \in Made /\ Current[s] # Mixed
    BY <2>1, <1>1, StreakStep
  <2> QED
    BY <2>2, <1>1, CurrentType
<1>4. CASE k = 0
  BY <1>1, <1>2, <1>3, <1>4 DEF Agrees
<1>5. CASE k > 0
  <2>1. /\ NextStreak[s] = streak[s] + 1
        /\ s \in DOMAIN Back(rounds, 0) /\ Back(rounds, 0)[s] = Current[s]
    <3>1. NextStreak[s] > 1
      BY <1>1, <1>5
    <3> QED
      BY <3>1, <1>1, StreakStep
  <2>2. k - 1 \in 0..(Window - 1) /\ k - 1 < streak[s]
    BY <2>1, <1>1, <1>5
  <2>3. Agrees(rounds, k - 1, s)
    BY <2>2 DEF IInv, WindowShows
  <2>4. k - 1 < Len(rounds)
    BY <2>3 DEF Agrees
  <2>5. k \in 1..(Len(Rounds) - 1) /\ k < Len(Rounds)
    BY <2>4, <1>1, <1>2, <1>5
  <2>6. Back(Rounds, k) = Back(rounds, k - 1)
    BY <2>5, <1>2
  <2> QED
    BY <2>1, <2>3, <2>5, <2>6, <1>2, <1>3 DEF Agrees
<1> QED
  BY <1>1, <1>4, <1>5

\* What the guard does not stop was either not repeated or is warned about.
LEMMA StreakBounded ==
  ASSUME IInv, pc = "guard", NEW s \in Signatures
  PROVE  /\ enabled
         /\ NextStreak[s] <= Window + 1
         /\ NextStreak[s] > Window => Repeated
         /\ NextStreak[s] = Window => s \in Stalled
<1>1. enabled
  BY DEF IInv, NoToolsAfterHalt
<1>2. TypeOK /\ Window \in Nat /\ Window >= 2
      /\ streak[s] \in Nat /\ NextStreak[s] \in Nat
  BY StreakStep, LoopAssumption DEF IInv, TypeOK
<1>3. streak[s] <= Window
  BY <1>1, <1>2 DEF IInv, StuckModelStops
<1>4. NextStreak[s] <= Window + 1
  <2>1. CASE NextStreak[s] > 1
    <3>1. NextStreak[s] = streak[s] + 1
      BY <2>1, <1>2, StreakStep
    <3> QED
      BY <3>1, <1>2, <1>3
  <2> QED
    BY <2>1, <1>2
<1>5. ASSUME NextStreak[s] > Window PROVE Repeated
  <2>1. /\ NextStreak[s] = streak[s] + 1
        /\ Back(rounds, 0)[s] = Current[s]
        /\ s \in Made /\ Current[s] # Mixed
    <3>1. NextStreak[s] > 1 /\ NextStreak[s] > 0
      BY <1>2, <1>5
    <3> QED
      BY <3>1, <1>2, StreakStep
  <2>2. streak[s] >= Window
    BY <2>1, <1>2, <1>5
  <2>3. s \in DOMAIN warned /\ warned[s] = Back(rounds, 0)[s]
    BY <2>2, <1>1 DEF IInv, LongIsWarned
  <2> QED
    BY <2>1, <2>3 DEF Repeated
<1>6. ASSUME NextStreak[s] = Window PROVE s \in Stalled
  <2>1. \A k \in 0..(Window - 1) : Agrees(Rounds, k, s)
    BY <1>2, <1>6, WindowStep
  <2>2. Back(Rounds, 0) = Current /\ Len(Rounds) \in 1..Window
    BY <1>2, RoundsType
  <2>3. s \in Made /\ Current[s] # Mixed
    <3>1. NextStreak[s] > 0
      BY <1>2, <1>6
    <3> QED
      BY <3>1, <1>2, StreakStep
  <2>4. Len(Rounds) = Window
    <3>1. Window - 1 \in 0..(Window - 1)
      BY <1>2
    <3>2. Window - 1 < Len(Rounds)
      BY <2>1, <3>1 DEF Agrees
    <3> QED
      BY <3>2, <2>2, <1>2
  <2>5. ASSUME NEW i \in DOMAIN Rounds
        PROVE  s \in DOMAIN Rounds[i] /\ Rounds[i][s] = Current[s]
    <3>1. Rounds \in Seq(Results)
      BY <1>2, RoundsType
    <3>2. i \in 1..Window
      BY <3>1, <2>4
    <3>3. Window - i \in 0..(Window - 1) /\ Window - (Window - i) = i
      BY <3>2, <1>2
    <3>4. Agrees(Rounds, Window - i, s)
      BY <3>3, <2>1
    <3> QED
      BY <3>3, <3>4, <2>2, <2>4 DEF Agrees, Back
  <2>6. Unchanged(s)
    BY <2>3, <2>4, <2>5 DEF Unchanged, FullWindow
  <2> QED
    BY <2>3, <2>6 DEF Stalled
<1> QED
  BY <1>1, <1>4, <1>5, <1>6
LEMMA GuardType ==
  ASSUME IInv, Guard
  PROVE  TypeOK' /\ HistoryPaired' /\ Settled' /\ NoToolsAfterHalt' /\ Stripped'
<1>1. TypeOK /\ pc = "guard" /\ pc' = "model" /\ UNCHANGED <<calls, outcomes, cut>>
  BY DEF IInv, Guard
<1>2. enabled /\ history.open = 0
  BY <1>1 DEF IInv, NoToolsAfterHalt, HistoryPaired
<1>3. rounds' \in Seq(Results) /\ Len(rounds') <= Window
  <2>1. rounds' = Rounds
    BY DEF Guard
  <2> QED
    BY <1>1, <2>1, RoundsType, LoopAssumption
<1>4. warned' \in Results
  <2>1. [s \in Stalled |-> Current[s]] \in [Stalled -> Outcome] /\ Stalled \subseteq Signatures
    BY <1>1, CurrentType DEF Stalled
  <2>2. [s \in Stalled |-> Current[s]] \in Results
    BY <2>1 DEF Results, Outcome
  <2>3. warned \in Results
    BY <1>1 DEF TypeOK
  <2> QED
    BY <2>2, <2>3, EmptyResults DEF Guard, Halt, Warn, Continue, Forgotten
<1>5. history' \in [open : 0..MaxCalls, broken : BOOLEAN]
      /\ history'.open = 0 /\ (history'.broken => history.broken)
  <2>1. history' = history \/ history' = Said(history, 0)
    BY DEF Guard, Halt, Warn, Continue
  <2>2. history \in [open : 0..MaxCalls, broken : BOOLEAN] /\ ~(history.open > 0)
    BY <1>1, <1>2 DEF TypeOK
  <2>3. /\ Said(history, 0) \in [open : 0..MaxCalls, broken : BOOLEAN]
        /\ Said(history, 0).open = 0
        /\ Said(history, 0).broken => history.broken \/ history.open > 0
    BY <2>2, LoopAssumption DEF Said
  <2> QED
    BY <2>1, <2>2, <2>3, <1>2
<1>6. streak' \in [Signatures -> Nat]
  <2>1. NextStreak \in [Signatures -> Nat]
    BY <1>1 DEF NextStreak, TypeOK
  <2> QED
    BY <2>1 DEF Guard
<1>7. enabled' \in BOOLEAN /\ action' \in {"none", "continue", "warn", "halt"}
  BY <1>2 DEF Guard, Halt, Warn, Continue
<1>8. TypeOK'
  BY <1>1, <1>3, <1>4, <1>5, <1>6, <1>7 DEF TypeOK
<1>9. HistoryPaired' /\ Settled'
  BY <1>1, <1>5 DEF IInv, HistoryPaired, Settled
<1> QED
  BY <1>1, <1>8, <1>9 DEF NoToolsAfterHalt, Stripped

LEMMA GuardIInv ==
  ASSUME IInv, Guard
  PROVE  IInv'
<1>1. /\ pc = "guard" /\ rounds' = Rounds /\ streak' = NextStreak
      /\ TypeOK /\ Window \in Nat /\ Window >= 2
  BY LoopAssumption DEF Guard, IInv
<1>2. Back(Rounds, 0) = Current
  BY <1>1, RoundsType
<1>3. WindowShows'
  <2>1. ASSUME NEW s \in Signatures, NEW k \in 0..(Window - 1), k < NextStreak[s]
        PROVE  Agrees(Rounds, k, s)
    BY <2>1, <1>1, WindowStep
  <2> QED
    BY <2>1, <1>1 DEF WindowShows, Agrees, Back
<1>4. StuckModelStops'
  <2>1. ASSUME NEW s \in Signatures
        PROVE  NextStreak[s] <= Window + 1 /\ (NextStreak[s] > Window => ~enabled')
    <3>1. NextStreak[s] <= Window + 1 /\ (NextStreak[s] > Window => Repeated)
      BY <1>1, StreakBounded
    <3>2. Repeated => ~enabled'
      BY DEF Guard, Halt, Warn, Continue
    <3> QED
      BY <3>1, <3>2
  <2> QED
    BY <2>1, <1>1 DEF StuckModelStops
<1>5. LongIsWarned'
  <2>1. ASSUME enabled', NEW s \in Signatures, NextStreak[s] >= Window
        PROVE  s \in DOMAIN warned' /\ warned'[s] = Current[s]
    <3>1. ~Repeated /\ (Warn \/ Continue)
      BY <2>1 DEF Guard, Halt, Warn, Continue
    <3>2. NextStreak[s] = Window
      <4>1. NextStreak[s] \in Nat
        BY <1>1, StreakStep
      <4>2. ~(NextStreak[s] > Window)
        BY <1>1, <3>1, StreakBounded
      <4> QED
        BY <4>1, <4>2, <1>1, <2>1
    <3>3. s \in Stalled
      BY <1>1, <3>2, StreakBounded
    <3>4. Warn
      BY <3>1, <3>3 DEF Continue
    <3> QED
      BY <3>3, <3>4 DEF Warn
  <2> QED
    BY <2>1, <1>1, <1>2 DEF LongIsWarned, Back
<1>6. WarningIsFresh'
  <2>1. ASSUME enabled', NEW s \in DOMAIN warned'
        PROVE  /\ action' = "warn"
               /\ warned'[s] # Mixed => NextStreak[s] > 0 /\ warned'[s] = Current[s]
    <3>1. Warn \/ Continue
      BY <2>1 DEF Guard, Halt
    <3>2. Warn
      BY <2>1, <3>1, EmptyResults DEF Continue, Forgotten
    <3>3. s \in Stalled /\ warned'[s] = Current[s] /\ action' = "warn"
      BY <2>1, <3>2 DEF Warn
    <3>4. s \in Made /\ s \in Signatures
      BY <3>3, <1>1, CurrentType DEF Stalled
    <3> QED
      BY <3>3, <3>4, <1>1, StreakStep
  <2>2. enabled' => action' # "halt"
    BY DEF Guard, Halt, Warn, Continue
  <2> QED
    BY <2>1, <2>2, <1>1, <1>2 DEF WarningIsFresh, Back
<1> QED
  BY <1>3, <1>4, <1>5, <1>6, GuardType DEF IInv

-----------------------------------------------------------------------------
(* Theorems.                                                               *)

LEMMA NextIInv == IInv /\ [Next]_vars => IInv'
<1> SUFFICES ASSUME IInv, [Next]_vars PROVE IInv'
  OBVIOUS
<1>1. CASE \E tools \in BOOLEAN : Chat(tools)
  BY <1>1, ChatIInv
<1>2. CASE \E reply \in Replies : Model(reply)
  BY <1>2, ModelIInv
<1>3. CASE \E rs \in [DOMAIN calls -> Outcomes] : CallTools(rs)
  BY <1>3, CallToolsIInv
<1>4. CASE Guard
  BY <1>4, GuardIInv
<1>5. CASE Route \/ Raise \/ UNCHANGED vars
  BY <1>5, OtherIInv
<1> QED
  BY <1>1, <1>2, <1>3, <1>4, <1>5 DEF Next

LEMMA SpecIInv == Spec => []IInv
BY InitIInv, NextIInv, PTL DEF Spec

\* The variables keep their types; in particular the guard never holds more
\* rounds than its window.
THEOREM LoopTypeCorrect == Spec => []TypeOK
<1>1. IInv => TypeOK
  BY DEF IInv
<1> QED
  BY <1>1, SpecIInv, PTL

\* A model is sent a history whose calls are all answered, unless a turn was
\* cut off between calls and answers.
THEOREM HistoryStaysPaired == Spec => []HistoryPaired
<1>1. IInv => HistoryPaired
  BY DEF IInv
<1> QED
  BY <1>1, SpecIInv, PTL

\* No tool runs in a turn whose tools are disabled, whatever the model asks.
THEOREM HaltStopsTools == Spec => []NoToolsAfterHalt
<1>1. IInv => NoToolsAfterHalt
  BY DEF IInv
<1> QED
  BY <1>1, SpecIInv, PTL

\* For every window: a call that keeps having the same result is stopped one
\* round after the window is full.
THEOREM GuardStopsRepetition == Spec => []StuckModelStops
<1>1. IInv => StuckModelStops
  BY DEF IInv
<1> QED
  BY <1>1, SpecIInv, PTL

\* The guard halts only in the round after a warning, and only a repetition.
THEOREM HaltsAreWarned == Spec => HaltAfterWarning
<1>1. ASSUME IInv, Next, pc = "guard", action' = "halt"
      PROVE  action = "warn" /\ \E s \in Signatures : streak'[s] >= 2
  <2>1. enabled /\ action # "halt" /\ TypeOK
    BY <1>1 DEF IInv, NoToolsAfterHalt, WarningIsFresh
  <2>2. Guard
    BY <1>1, <2>1 DEF Next, Chat, Model, Route, CallTools, Raise, payload
  <2>3. Repeated /\ streak' = NextStreak
    BY <1>1, <2>2 DEF Guard, Halt, Warn, Continue
  <2>4. PICK s \in Made : /\ Current[s] # Mixed
                          /\ s \in DOMAIN warned /\ warned[s] = Current[s]
    BY <2>3 DEF Repeated
  <2>5. action = "warn" /\ streak[s] > 0 /\ Back(rounds, 0)[s] = Current[s]
    BY <1>1, <2>1, <2>4 DEF IInv, WarningIsFresh
  <2>6. s \in Signatures
    BY <1>1, <2>1, CurrentType
  <2>7. Agrees(rounds, 0, s)
    BY <1>1, <2>5, <2>6, LoopAssumption DEF IInv, WindowShows
  <2>8. s \in DOMAIN Back(rounds, 0) /\ rounds # <<>>
    BY <2>7 DEF Agrees
  <2>9. NextStreak[s] = streak[s] + 1 /\ streak[s] \in Nat
    BY <2>1, <2>4, <2>5, <2>6, <2>8, StreakStep DEF TypeOK
  <2> QED
    BY <2>3, <2>5, <2>6, <2>9
<1>2. IInv /\ [Next]_vars =>
        [pc = "guard" /\ action' = "halt" =>
           action = "warn" /\ \E s \in Signatures : streak'[s] >= 2]_vars
  BY <1>1
<1> QED
  BY <1>2, SpecIInv, PTL DEF Spec, HaltAfterWarning
=============================================================================
