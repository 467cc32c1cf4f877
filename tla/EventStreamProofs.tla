-------------------------- MODULE EventStreamProofs --------------------------
(***************************************************************************)
(* Proofs about EventStream, for any number of threads, runs and events.   *)
(***************************************************************************)
EXTENDS EventStream, SequenceTheorems, FiniteSetTheorems, FunctionTheorems, TLAPS

-------------------------------------------------------------
(* Sequences.                                                              *)

LEMMA FrontLast ==
  ASSUME NEW S, NEW s \in Seq(S), s # <<>>
  PROVE  /\ Len(s) \in Nat \ {0}
         /\ Front(s) \in Seq(S) /\ Len(Front(s)) = Len(s) - 1
         /\ \A n \in 1..Len(s) - 1 : Front(s)[n] = s[n]
         /\ Last(s) = s[Len(s)] /\ Last(s) \in S
<1>1. Len(s) \in Nat \ {0} BY EmptySeq, LenProperties
<1>2. PICK m \in Nat : m = Len(s) - 1 BY <1>1
<1>3. /\ SubSeq(s, 1, m) \in Seq(S)
      /\ Len(SubSeq(s, 1, m)) = m
      /\ \A n \in 1..m : SubSeq(s, 1, m)[n] = s[n]
  BY <1>1, <1>2, ElementOfSeq, SubSeqProperties
<1>4. /\ Front(s) \in Seq(S) /\ Len(Front(s)) = Len(s) - 1
      /\ \A n \in 1..Len(s) - 1 : Front(s)[n] = s[n]
  BY <1>2, <1>3 DEF Front
<1>. QED BY <1>1, <1>4, ElementOfSeq DEF Last

\* The last element replaced, or dropped.
LEMMA FrontAppend ==
  ASSUME NEW S, NEW s \in Seq(S), s # <<>>, NEW e \in S
  PROVE  /\ Front(s) \o <<>> = Front(s) /\ Front(s) \o <<e>> = Append(Front(s), e)
         /\ Append(Front(s), e) \in Seq(S)
         /\ Len(Append(Front(s), e)) = Len(s)
         /\ \A n \in 1..Len(s) - 1 : Append(Front(s), e)[n] = s[n]
         /\ Append(Front(s), e)[Len(s)] = e
<1>1. /\ Len(s) \in Nat \ {0}
      /\ Front(s) \in Seq(S) /\ Len(Front(s)) = Len(s) - 1
      /\ \A n \in 1..Len(s) - 1 : Front(s)[n] = s[n]
  BY FrontLast
<1>2. Front(s) \o <<e>> = Append(Front(s), e) /\ Front(s) \o <<>> = Front(s)
  BY <1>1, AppendIsConcat, ConcatEmptySeq
<1>. QED BY <1>1, <1>2, AppendProperties

-------------------------------------------------------------
(* A thread's calls of emit, observe and notify.                           *)

\* The innermost call of t goes on as c, or returns, or waits for one that a
\* subscriber makes.
Goes(t, c) ==
  LET m == Len(calling[t]) IN
  /\ calling' \in [Threads -> Seq(CallType)]
  /\ m \in Nat \ {0}
  /\ \A u \in Threads \ {t} : calling'[u] = calling[u]
  /\ \A n \in 1..m - 1 : calling'[t][n] = calling[t][n]
  /\ \/ Len(calling'[t]) = m - 1 /\ c.at = "return"
     \/ Len(calling'[t]) = m /\ calling'[t][m] = c /\ c.at # "return"
     \/ /\ Len(calling'[t]) = m + 1 /\ calling'[t][m] = c
        /\ calling'[t][m + 1] = Call(t, "artifact", 0)

LEMMA CallIsCall ==
  ASSUME NEW t, NEW kind \in Kinds, NEW of \in Nat
  PROVE  Call(t, kind, of) \in CallType
<1>1. <<>> \in Seq(Subscribers) BY EmptySeq
<1>. QED BY <1>1 DEF Call, CallType, Places

LEMMA BecomesGoes ==
  ASSUME CallsOK, NEW t \in Threads, calling[t] # <<>>, NEW c \in CallType,
         calling' = Becomes(t, c)
  PROVE  Goes(t, c) /\ Len(calling'[t]) # Len(calling[t]) + 1
<1>1. calling[t] \in Seq(CallType) /\ Len(calling[t]) \in Nat \ {0}
  BY EmptySeq DEF CallsOK
<1>2. /\ calling' = [u \in Threads |-> calling'[u]]
      /\ \A u \in Threads \ {t} : calling'[u] = calling[u]
      /\ calling'[t] = Front(calling[t]) \o IF c.at = "return" THEN <<>> ELSE <<c>>
  BY DEF CallsOK, Becomes
<1>3. CASE c.at = "return"
  <2>1. calling'[t] = Front(calling[t]) BY <1>1, <1>2, <1>3, FrontAppend
  <2>2. /\ calling'[t] \in Seq(CallType) /\ Len(calling'[t]) = Len(calling[t]) - 1
        /\ \A n \in 1..Len(calling[t]) - 1 : calling'[t][n] = calling[t][n]
    BY <1>1, <2>1, FrontLast
  <2>3. \A u \in Threads : calling'[u] \in Seq(CallType)
    BY <1>2, <2>2 DEF CallsOK
  <2>4. calling' \in [Threads -> Seq(CallType)] BY <1>2, <2>3
  <2>. QED BY <1>1, <1>2, <1>3, <2>2, <2>4 DEF Goes
<1>4. CASE c.at # "return"
  <2>1. calling'[t] = Append(Front(calling[t]), c) BY <1>1, <1>2, <1>4, FrontAppend
  <2>2. /\ calling'[t] \in Seq(CallType) /\ Len(calling'[t]) = Len(calling[t])
        /\ \A n \in 1..Len(calling[t]) - 1 : calling'[t][n] = calling[t][n]
        /\ calling'[t][Len(calling[t])] = c
    BY <1>1, <2>1, FrontAppend
  <2>3. \A u \in Threads : calling'[u] \in Seq(CallType)
    BY <1>2, <2>2 DEF CallsOK
  <2>4. calling' \in [Threads -> Seq(CallType)] BY <1>2, <2>3
  <2>5. Len(calling'[t]) # Len(calling[t]) + 1 BY <1>1, <2>2
  <2>6. Goes(t, c) BY <1>1, <1>2, <1>4, <2>2, <2>4 DEF Goes
  <2>. QED BY <2>5, <2>6
<1>. QED BY <1>3, <1>4

LEMMA HearsGoes ==
  ASSUME CallsOK, NEW t \in Threads, calling[t] # <<>>, NEW c \in CallType,
         Hears(t, c)
  PROVE  /\ Goes(t, c)
         /\ acts' = acts \/ (acts' = acts + 1 /\ acts' <= MaxActs)
<1>1. CASE calling' = Becomes(t, c) /\ UNCHANGED acts
  BY <1>1, BecomesGoes
<1>2. CASE /\ Act(1)
           /\ calling' = [calling EXCEPT ![t] = Append(Append(Front(@), c), Call(t, "artifact", 0))]
  <2>1. calling[t] \in Seq(CallType) BY DEF CallsOK
  <2>2. /\ Len(calling[t]) \in Nat \ {0}
        /\ Front(calling[t]) \in Seq(CallType) /\ Len(Front(calling[t])) = Len(calling[t]) - 1
        /\ \A n \in 1..Len(calling[t]) - 1 : Front(calling[t])[n] = calling[t][n]
    BY <2>1, FrontLast
  <2>3. Call(t, "artifact", 0) \in CallType BY CallIsCall DEF Kinds, Emitted
  <2>. DEFINE r == Append(Front(calling[t]), c)
              s == Append(r, Call(t, "artifact", 0))
  <2>4. /\ r \in Seq(CallType) /\ Len(r) = Len(calling[t])
        /\ \A n \in 1..Len(calling[t]) - 1 : r[n] = calling[t][n]
        /\ r[Len(calling[t])] = c
    BY <2>2, AppendProperties
  <2>5. /\ s \in Seq(CallType) /\ Len(s) = Len(calling[t]) + 1
        /\ \A n \in 1..Len(calling[t]) : s[n] = r[n]
        /\ s[Len(calling[t]) + 1] = Call(t, "artifact", 0)
    <3>. HIDE DEF r
    <3>. QED BY <2>2, <2>3, <2>4, AppendProperties
  <2>6. calling' = [calling EXCEPT ![t] = s] BY <1>2
  <2>7. /\ calling' \in [Threads -> Seq(CallType)] /\ calling'[t] = s
        /\ \A u \in Threads \ {t} : calling'[u] = calling[u]
    <3>. HIDE DEF s
    <3>. QED BY <2>5, <2>6 DEF CallsOK
  <2>. HIDE DEF r, s
  <2>8. Goes(t, c) BY <2>2, <2>4, <2>5, <2>7 DEF Goes
  <2>. QED BY <1>2, <2>8 DEF Act
<1>. QED BY <1>1, <1>2 DEF Hears

-------------------------------------------------------------
(* The invariant of the calls in progress.                                 *)

\* A call that has made its event.
Numbered(c) == c.at \notin {"lock", "number"}

\* One call of emit, observe or notify: the event it made is one of its kind;
\* only the innermost has yet to make it.
CallOK(t, n) ==
  LET c == calling[t][n] IN
  /\ Numbered(c) => /\ c.event \in 1..Len(made)
                    /\ made[c.event].kind = c.kind /\ made[c.event].by = t
  /\ ~Numbered(c) => c.event = 0 /\ n = Len(calling[t])
  /\ c.at = "number" => lock = t /\ c.read = sequence
  /\ c.at = "deliver" => c.to # <<>>
  /\ n > 1 => c.kind = "artifact"

\* Who numbers its event holds the lock, and nobody else does; the numbers are
\* the events' positions; a flow calls within a run, a tool for its progress.
CallInv ==
  /\ \A t \in Threads : \A n \in 1..Len(calling[t]) : CallOK(t, n)
  /\ lock # NoThread => Step(lock, "number")
  /\ sequence = Len(made)
  /\ \A k \in 1..Len(made) : made[k].seq = k
  /\ calling[Flow] # <<>> => runs # <<>>
  /\ \A w \in Workers : calling[w] # <<>> =>
       /\ working[w].told
       /\ calling[w][1].kind = "progress" /\ calling[w][1].of = working[w].call

\* The innermost call of a thread.
LEMMA CurrentCall ==
  ASSUME CallsOK, NEW t \in Threads, calling[t] # <<>>
  PROVE  /\ Len(calling[t]) \in Nat \ {0}
         /\ Current(t) = calling[t][Len(calling[t])] /\ Current(t) \in CallType
<1>1. calling[t] \in Seq(CallType) BY DEF CallsOK
<1>. QED BY <1>1, FrontLast DEF Current

\* A call is all right after a step that made no event less and that it took
\* no part in.
LEMMA CallKept ==
  ASSUME StreamOK, NEW t \in Threads, NEW n \in Nat, CallOK(t, n),
         calling'[t][n] = calling[t][n],
         n = Len(calling[t]) => n = Len(calling'[t]) \/ Numbered(calling[t][n]),
         lock = t => (lock' = t /\ sequence' = sequence) \/ calling[t][n].at # "number",
         Len(made) <= Len(made'), Len(made') \in Nat,
         \A k \in 1..Len(made) : made'[k] = made[k]
  PROVE  CallOK(t, n)'
<1>1. Len(made) \in Nat BY LenProperties DEF StreamOK
<1>. QED BY <1>1 DEF CallOK, Numbered

\* Events are only added.
Grows ==
  /\ Len(made) <= Len(made') /\ Len(made') \in Nat
  /\ \A k \in 1..Len(made) : made'[k] = made[k]

\* A step of t leaves its innermost call in order, and lets who has the lock
\* keep it.
Orderly(t, c) ==
  /\ Goes(t, c) /\ c.kind = Current(t).kind /\ c.of = Current(t).of
  /\ Numbered(c) => /\ c.event \in 1..Len(made')
                    /\ made'[c.event].kind = c.kind /\ made'[c.event].by = t
  /\ ~Numbered(c) => c.event = 0 /\ Len(calling'[t]) # Len(calling[t]) + 1
  /\ c.at = "number" => lock' = t /\ c.read = sequence'
  /\ c.at = "deliver" => c.to # <<>>
  /\ \A u \in Threads \ {t} : lock = u => lock' = u /\ sequence' = sequence

\* The innermost call is all right when it goes on, and the others still are.
LEMMA OrderlyOK ==
  ASSUME StreamOK, CallsOK, CallInv, Grows,
         NEW t \in Threads, NEW c \in CallType, Orderly(t, c)
  PROVE  /\ \A u \in Threads : \A n \in 1..Len(calling'[u]) : CallOK(u, n)'
         /\ CallsOK'
         /\ calling'[t] # <<>> =>
              /\ calling'[t][1].kind = calling[t][1].kind
              /\ calling'[t][1].of = calling[t][1].of
<1>0. /\ Goes(t, c)
      /\ Len(made) <= Len(made') /\ Len(made') \in Nat
      /\ \A k \in 1..Len(made) : made'[k] = made[k]
      /\ \A u \in Threads \ {t} : lock = u => lock' = u /\ sequence' = sequence
  BY DEF Orderly, Grows
<1>1. PICK m \in Nat \ {0} :
        m = Len(calling[t]) /\ Current(t) = calling[t][m] /\ CallOK(t, m)
  BY <1>0, CurrentCall DEF Goes, CallInv
<1>2. CallsOK' BY <1>0 DEF Goes, CallsOK
<1>3. ASSUME NEW u \in Threads \ {t}, NEW n \in 1..Len(calling'[u])  PROVE CallOK(u, n)'
  BY <1>0, CallKept DEF Goes, CallInv
<1>4. ASSUME NEW n \in 1..m - 1  PROVE CallOK(t, n)'
  <2>1. n \in 1..Len(calling[t]) /\ n # Len(calling[t]) /\ CallOK(t, n)
    BY <1>1 DEF CallInv
  <2>2. calling[t][n].at # "number" BY <2>1 DEF CallOK, Numbered
  <2>3. n \in Nat /\ calling'[t][n] = calling[t][n] BY <1>0, <1>1 DEF Goes
  <2>. QED BY <1>0, <2>1, <2>2, <2>3, CallKept
<1>5. ASSUME calling'[t][m] = c, Len(calling'[t]) \in {m, m + 1}  PROVE CallOK(t, m)'
  BY <1>1, <1>5 DEF Orderly, CallOK
<1>6. ASSUME calling'[t][m + 1] = Call(t, "artifact", 0), Len(calling'[t]) = m + 1
      PROVE  CallOK(t, m + 1)'
  BY <1>1, <1>6 DEF CallOK, Call, Numbered
<1>7. ASSUME NEW n \in 1..Len(calling'[t])  PROVE CallOK(t, n)'
  <2>1. CASE n \in 1..m - 1 BY <1>4, <2>1
  <2>2. CASE n = m BY <1>0, <1>1, <1>5, <2>2 DEF Goes
  <2>3. CASE n \notin 1..m BY <1>0, <1>1, <1>6, <2>3 DEF Goes
  <2>. QED BY <1>1, <2>1, <2>2, <2>3
<1>8. ASSUME calling'[t] # <<>>
      PROVE  calling'[t][1].kind = calling[t][1].kind /\ calling'[t][1].of = calling[t][1].of
  <2>1. Len(calling'[t]) \in Nat \ {0} BY <1>2, <1>8, EmptySeq DEF CallsOK
  <2>2. CASE m = 1 BY <1>0, <1>1, <2>1, <2>2 DEF Goes, Orderly
  <2>3. CASE m # 1
    <3>1. 1 \in 1..m - 1 BY ONLY m \in Nat \ {0}, <2>3
    <3>2. calling'[t][1] = calling[t][1] BY <1>0, <1>1, <3>1 DEF Goes
    <3>. QED BY <3>2
  <2>. QED BY <2>2, <2>3
<1>. QED BY <1>2, <1>3, <1>7, <1>8

-------------------------------------------------------------
(* The steps of a call.                                                    *)

\* An item of what a node tells is of a call that was made.
Known(item, n) == item.kind \in {"call", "submit", "result"} => item.of \in 1..n

TodoInv ==
  \A n \in 1..Len(runs) : \A q \in 1..Len(runs[n].todo) : Known(runs[n].todo[q], called)

Inv == TypeOK /\ CallInv /\ TodoInv

\* A step of t inside its innermost call leaves the runs and tools alone.
LEMMA OrderlyInv ==
  ASSUME Inv, NEW t \in Threads, NEW c \in CallType, Orderly(t, c),
         Grows, StreamOK', sequence' = Len(made'),
         \A k \in 1..Len(made') : made'[k].seq = k,
         lock' # NoThread => Step(lock, "number")',
         UNCHANGED <<hosted, on_event, runs, started, usage, tools, left>>
  PROVE  Inv'
<1>1. StreamOK /\ CallsOK /\ CallInv
  BY DEF Inv, TypeOK
<1>2. /\ \A u \in Threads : \A n \in 1..Len(calling'[u]) : CallOK(u, n)'
      /\ CallsOK'
      /\ calling'[t] # <<>> =>
           /\ calling'[t][1].kind = calling[t][1].kind
           /\ calling'[t][1].of = calling[t][1].of
  BY <1>1, OrderlyOK
<1>3. RunsOK' BY DEF Inv, TypeOK, RunsOK, Listening
<1>4. ToolsOK' BY DEF Inv, TypeOK, ToolsOK, tools
<1>5. /\ calling[t] # <<>>
      /\ \A u \in Threads \ {t} : calling'[u] = calling[u]
  BY DEF Orderly, Goes
<1>6. calling'[Flow] # <<>> => runs' # <<>>
  BY <1>1, <1>5 DEF CallInv, Threads
<1>7. ASSUME NEW w \in Workers, calling'[w] # <<>>
      PROVE  /\ working'[w].told
             /\ calling'[w][1].kind = "progress" /\ calling'[w][1].of = working'[w].call
  BY <1>1, <1>2, <1>5, <1>7 DEF Threads, tools, CallInv
<1>8. CallInv' BY <1>2, <1>6, <1>7 DEF CallInv
<1>9. TodoInv' BY DEF Inv, TodoInv, Known, tools
<1>. QED BY <1>2, <1>3, <1>4, <1>8, <1>9 DEF Inv, TypeOK

\* Before a step of t that is not about the lock: somebody else has it.
LEMMA LockElsewhere ==
  ASSUME Inv, NEW t \in Threads, calling[t] # <<>>, Current(t).at # "number",
         NEW c \in CallType, Goes(t, c), lock' = lock
  PROVE  lock # t /\ (lock' # NoThread => Step(lock, "number")')
<1>1. lock # NoThread => Step(lock, "number")
  BY DEF Inv, CallInv
<1>2. lock # t
  <2>1. t # NoThread BY ThreadAssumption DEF Threads
  <2>. QED BY <1>1, <2>1 DEF Step
<1>3. ASSUME lock # NoThread PROVE Step(lock, "number")'
  BY <1>1, <1>2, <1>3 DEF Inv, TypeOK, StreamOK, Goes, Step, Current
<1>. QED BY <1>2, <1>3

\* The innermost call of t is still about the same, and the same event.
GoesOn(t, c) ==
  /\ c \in CallType /\ Goes(t, c)
  /\ c.kind = Current(t).kind /\ c.of = Current(t).of /\ c.event = Current(t).event

LEMMA AcquireGoes ==
  ASSUME Inv, NEW t \in Threads, Acquire(t)
  PROVE  /\ Current(t).at = "lock" /\ Current(t).event = 0
         /\ \E c : /\ GoesOn(t, c) /\ c.at = "number" /\ c.read = sequence
                   /\ Len(calling'[t]) = Len(calling[t]) /\ calling'[t][Len(calling[t])] = c
<1>. DEFINE c == [Current(t) EXCEPT !.at = "number", !.read = sequence]
<1>1. CallsOK /\ StreamOK /\ calling[t] # <<>> /\ Current(t).at = "lock"
  BY DEF Inv, TypeOK, Acquire, Step
<1>2. Current(t) \in CallType /\ CallOK(t, Len(calling[t])) /\ Len(calling[t]) \in Nat \ {0}
      /\ Current(t) = calling[t][Len(calling[t])]
  BY <1>1, CurrentCall DEF Inv, CallInv
<1>3. /\ c \in CallType /\ c.at = "number" /\ c.read = sequence
      /\ c.kind = Current(t).kind /\ c.of = Current(t).of /\ c.event = 0
      /\ Current(t).event = 0
  BY <1>1, <1>2 DEF CallType, Places, StreamOK, CallOK, Numbered
<1>. HIDE DEF c
<1>4. calling' = Becomes(t, c) BY DEF Acquire, c
<1>5. Goes(t, c) /\ Len(calling'[t]) # Len(calling[t]) + 1
  BY <1>1, <1>3, <1>4, BecomesGoes
<1>6. Len(calling'[t]) = Len(calling[t]) /\ calling'[t][Len(calling[t])] = c
  BY <1>3, <1>5 DEF Goes
<1>. QED BY <1>1, <1>3, <1>5, <1>6 DEF GoesOn

LEMMA AcquireInv ==
  ASSUME Inv, NEW t \in Threads, Acquire(t)
  PROVE  Inv'
<1>1. CallsOK /\ StreamOK /\ calling[t] # <<>>
  BY DEF Inv, TypeOK, Acquire, Step
<1>2. Len(calling[t]) \in Nat \ {0} BY <1>1, CurrentCall
<1>3. PICK c : /\ GoesOn(t, c) /\ c.at = "number" /\ c.read = sequence
               /\ Len(calling'[t]) = Len(calling[t]) /\ calling'[t][Len(calling[t])] = c
  BY AcquireGoes
<1>4. c.event = 0 /\ c \in CallType
  BY <1>3, AcquireGoes DEF GoesOn
<1>6. lock = NoThread /\ lock' = t /\ NoThread \notin Threads
  BY ThreadAssumption DEF Acquire, LockFree, Threads
<1>7. UNCHANGED <<sequence, made, hosted, on_event, runs, started, usage, tools, left>>
  BY DEF Acquire, hosts
<1>8. Orderly(t, c) BY <1>2, <1>3, <1>4, <1>6, <1>7 DEF Orderly, Numbered, GoesOn
<1>9. StreamOK' BY <1>1, <1>6 DEF Acquire, hosts, StreamOK
<1>10. Grows BY <1>1, <1>7, LenProperties DEF StreamOK, Grows
<1>11. Step(t, "number")' BY <1>2, <1>3, EmptySeq DEF Step, Current, Last
<1>12. sequence' = Len(made') /\ \A k \in 1..Len(made') : made'[k].seq = k
  BY <1>7 DEF Inv, CallInv
<1>. QED BY <1>4, <1>6, <1>7, <1>8, <1>9, <1>10, <1>11, <1>12, OrderlyInv

\* A longer history of events.
LEMMA MoreEvents ==
  ASSUME NEW m \in Nat, NEW n \in Nat, m <= n, NEW s \in Seq(1..m)
  PROVE  s \in Seq(1..n)
BY SeqMonotonic

LEMMA NumberInv ==
  ASSUME Inv, NEW t \in Threads, Number(t)
  PROVE  Inv'
<1>. DEFINE id == Len(made) + 1
            at == AfterLock(Current(t).kind)
            c == [Current(t) EXCEPT !.event = id, !.at = at]
            inside == {calling[t][n].event : n \in 1..Len(calling[t]) - 1}
            e == [seq |-> Current(t).read + 1, kind |-> Current(t).kind,
                  of |-> Current(t).of, by |-> t, for |-> RunsOf(t), inside |-> inside]
<1>1. CallsOK /\ StreamOK /\ calling[t] # <<>> /\ Current(t).at = "number"
  BY DEF Inv, TypeOK, Number, Step
<1>2. Current(t) \in CallType /\ CallOK(t, Len(calling[t])) /\ Len(calling[t]) \in Nat \ {0}
      /\ Current(t) = calling[t][Len(calling[t])]
  BY <1>1, CurrentCall DEF Inv, CallInv
<1>3. Len(made) \in Nat /\ id \in Nat
  BY <1>1, LenProperties DEF StreamOK
<1>4. at \in {"observe", "call"} BY DEF AfterLock
<1>5. /\ c \in CallType /\ c.at = at /\ c.event = id
      /\ c.kind = Current(t).kind /\ c.of = Current(t).of
  <2>. HIDE DEF at, id
  <2>. QED BY <1>2, <1>3, <1>4 DEF CallType, Places
<1>6. e \in EventType
  <2>1. RunsOf(t) \in SUBSET RunIds
    <3>1. InProgress \subseteq RunIds
      <4>1. runs \in Seq(RunType) BY DEF Inv, TypeOK, RunsOK
      <4>2. \A n \in DOMAIN runs : runs[n] \in RunType
        BY <4>1, LenProperties
      <4>. QED BY <4>2 DEF InProgress, RunType
    <3>2. t # Flow => working[t].for \in SUBSET RunIds
      BY DEF Threads, Inv, TypeOK, ToolsOK
    <3>. QED BY <3>1, <3>2 DEF RunsOf
  <2>2. inside \in SUBSET Nat
    <3>1. \A n \in 1..Len(calling[t]) - 1 : calling[t][n] \in CallType
      BY <1>1, <1>2, ElementOfSeq DEF CallsOK
    <3>. QED BY <3>1 DEF CallType
  <2>3. Current(t).read + 1 \in Nat /\ Current(t).kind \in Kinds /\ Current(t).of \in Nat
    BY <1>2 DEF CallType
  <2>. HIDE DEF inside
  <2>. QED BY <2>1, <2>2, <2>3 DEF EventType
<1>. HIDE DEF c, at
<1>7. calling' = Becomes(t, c) BY DEF Number, c, at
<1>8. Goes(t, c) /\ Len(calling'[t]) # Len(calling[t]) + 1
  BY <1>1, <1>5, <1>7, BecomesGoes
<1>9. /\ made' \in Seq(EventType) /\ Len(made') = id /\ made'[id] = e
      /\ \A k \in 1..Len(made) : made'[k] = made[k]
  <2>1. made' = Append(made, e) BY DEF Number
  <2>. HIDE DEF e
  <2>. QED BY <1>1, <1>6, <2>1, AppendProperties DEF StreamOK
<1>10. Grows BY <1>3, <1>9 DEF Grows
<1>11. e.kind = c.kind /\ e.by = t /\ e.seq = id /\ sequence' = id
  BY <1>1, <1>2, <1>5 DEF CallOK, Inv, CallInv, Number
<1>. HIDE DEF e
<1>12. lock = t /\ lock' = NoThread
  BY <1>1, <1>2 DEF Number, Released, CallOK
<1>13. UNCHANGED <<observed, hosted, heard, traces, on_event, runs, started, usage, tools,
                   refused, acts, left>>
  BY DEF Number, hosts
<1>14. Orderly(t, c) BY <1>3, <1>4, <1>5, <1>8, <1>9, <1>11, <1>12 DEF Numbered, Orderly
<1>15. StreamOK'
  <2>1. \A s \in Seq(1..Len(made)) : s \in Seq(1..Len(made'))
    BY <1>3, <1>9, MoreEvents
  <2>2. events' \in Seq(1..Len(made'))
    <3>1. id \in 1..Len(made') /\ events \in Seq(1..Len(made'))
      BY <1>1, <1>3, <1>9, <2>1 DEF StreamOK
    <3>2. Append(events, id) \in Seq(1..Len(made')) BY <3>1, AppendProperties
    <3>. QED BY <3>1, <3>2 DEF Number
  <2>3. /\ heard' \in Seq(1..Len(made')) /\ traces' \in [RunIds -> Seq(1..Len(made'))]
        /\ refused' \subseteq 0..Len(made')
    BY <1>1, <1>3, <1>9, <1>13, <2>1 DEF StreamOK
  <2>4. sequence' \in Nat /\ lock' \in Threads \cup {NoThread}
    BY <1>3, <1>11, <1>12
  <2>. QED BY <1>1, <1>9, <1>13, <2>2, <2>3, <2>4 DEF StreamOK
<1>16. \A k \in 1..Len(made') : made'[k].seq = k
  <2>1. \A k \in 1..Len(made) : made[k].seq = k
    BY DEF Inv, CallInv
  <2>2. ASSUME NEW k \in 1..Len(made')  PROVE made'[k].seq = k
    BY <1>3, <1>9, <1>11, <2>1
  <2>. QED BY <2>2
<1>. QED BY <1>5, <1>9, <1>10, <1>11, <1>12, <1>13, <1>14, <1>15, <1>16, OrderlyInv

\* What a step of t has that only goes on inside its innermost call.
LEMMA QuietInv ==
  ASSUME Inv, NEW t \in Threads, calling[t] # <<>>, Current(t).at \notin {"lock", "number"},
         NEW c, GoesOn(t, c),
         c.at \notin {"lock", "number"}, c.at = "deliver" => c.to # <<>>,
         heard' \in Seq(1..Len(made)), traces' \in [RunIds -> Seq(1..Len(made))],
         acts' \in 0..MaxActs, refused' = refused,
         UNCHANGED <<stream, observed, hosted, on_event, runs, started, usage, tools, left>>
  PROVE  Inv'
<1>1. CallsOK /\ StreamOK
  BY DEF Inv, TypeOK
<1>0. /\ c \in CallType /\ Goes(t, c)
      /\ c.kind = Current(t).kind /\ c.of = Current(t).of /\ c.event = Current(t).event
  BY DEF GoesOn
<1>2. CallOK(t, Len(calling[t])) /\ Current(t) = calling[t][Len(calling[t])]
  BY <1>1, CurrentCall DEF Inv, CallInv
<1>3. Current(t).event \in 1..Len(made) /\ made[Current(t).event].kind = Current(t).kind
      /\ made[Current(t).event].by = t
  BY <1>2 DEF CallOK, Numbered
<1>4. UNCHANGED <<sequence, lock, made, events>> BY DEF stream
<1>5. lock # t /\ (lock' # NoThread => Step(lock, "number")')
  BY <1>0, <1>4, LockElsewhere
<1>6. lock' # NoThread => Step(lock, "number")'
  BY <1>5
<1>7. Orderly(t, c) BY <1>0, <1>3, <1>4 DEF Orderly, Numbered
<1>8. Grows BY <1>1, <1>4, LenProperties DEF StreamOK, Grows
<1>9. StreamOK' BY <1>1, <1>4 DEF StreamOK
<1>10. sequence' = Len(made') /\ \A k \in 1..Len(made') : made'[k].seq = k
  BY <1>4 DEF Inv, CallInv
<1>. QED BY <1>0, <1>6, <1>7, <1>8, <1>9, <1>10, OrderlyInv

LEMMA ObserveGoes ==
  ASSUME Inv, NEW t \in Threads, Observe(t)
  PROVE  /\ Current(t).at = "observe" /\ acts' \in 0..MaxActs
         /\ \E c : /\ GoesOn(t, c)
                   /\ c.at = IF Current(t).kind = "payload" THEN "return" ELSE "call"
<1>. DEFINE at == IF Current(t).kind = "payload" THEN "return" ELSE "call"
            c == [Current(t) EXCEPT !.at = at]
<1>1. CallsOK /\ StreamOK /\ calling[t] # <<>> /\ Current(t).at = "observe"
  BY DEF Inv, TypeOK, Observe, Step
<1>2. Current(t) \in CallType BY <1>1, CurrentCall
<1>3. at \in {"return", "call"} OBVIOUS
<1>4. /\ c \in CallType /\ c.at = at /\ c.event = Current(t).event
      /\ c.kind = Current(t).kind /\ c.of = Current(t).of
  <2>. HIDE DEF at
  <2>. QED BY <1>2, <1>3 DEF CallType, Places
<1>. HIDE DEF c
<1>5. Hears(t, c) BY DEF Observe, c
<1>6. Goes(t, c) /\ (acts' = acts \/ (acts' = acts + 1 /\ acts' <= MaxActs))
  BY <1>1, <1>4, <1>5, HearsGoes
<1>7. acts' \in 0..MaxActs BY <1>1, <1>6, EventBoundAssumption DEF StreamOK
<1>. QED BY <1>1, <1>4, <1>6, <1>7 DEF GoesOn

LEMMA ObserveInv ==
  ASSUME Inv, NEW t \in Threads, Observe(t)
  PROVE  Inv'
<1>1. PICK c : /\ GoesOn(t, c)
               /\ c.at = IF Current(t).kind = "payload" THEN "return" ELSE "call"
  BY ObserveGoes
<1>2. /\ Current(t).at \notin {"lock", "number"} /\ acts' \in 0..MaxActs /\ calling[t] # <<>>
      /\ c.at \notin {"lock", "number"} /\ c.at # "deliver"
  BY <1>1, ObserveGoes DEF Observe, Step
<1>3. UNCHANGED <<stream, observed, hosted, heard, traces, on_event, runs, started, usage,
                  tools, refused, left>>
  BY DEF Observe, hosts
<1>4. heard' \in Seq(1..Len(made)) /\ traces' \in [RunIds -> Seq(1..Len(made))]
  BY <1>3 DEF Inv, TypeOK, StreamOK
<1>. QED BY <1>1, <1>2, <1>3, <1>4, QuietInv

LEMMA ReadGoes ==
  ASSUME Inv, NEW t \in Threads, Read(t)
  PROVE  /\ Current(t).at = "call"
         /\ \E c : /\ GoesOn(t, c)
                   /\ \/ on_event # <<>> /\ c.at = "deliver" /\ c.to = on_event
                      \/ on_event = <<>> /\ c.at = "return"
<1>1. CallsOK /\ StreamOK /\ calling[t] # <<>> /\ Current(t).at = "call"
  BY DEF Inv, TypeOK, Read, Step
<1>2. Current(t) \in CallType BY <1>1, CurrentCall
<1>3. PICK c \in CallType :
        /\ calling' = Becomes(t, c)
        /\ c.kind = Current(t).kind /\ c.of = Current(t).of /\ c.event = Current(t).event
        /\ \/ on_event # <<>> /\ c.at = "deliver" /\ c.to = on_event
           \/ on_event = <<>> /\ c.at = "return"
  <2>1. CASE /\ on_event # <<>>
             /\ calling' = Becomes(t, [Current(t) EXCEPT !.at = "deliver", !.to = on_event])
    <3>1. on_event \in Seq(Subscribers) BY DEF Inv, TypeOK, RunsOK
    <3>2. [Current(t) EXCEPT !.at = "deliver", !.to = on_event] \in CallType
      BY <1>2, <3>1 DEF CallType, Places
    <3>. QED BY <1>2, <2>1, <3>2 DEF CallType
  <2>2. CASE /\ on_event = <<>>
             /\ calling' = Becomes(t, [Current(t) EXCEPT !.at = "return"])
    BY <1>2, <2>2 DEF CallType, Places
  <2>. QED BY <2>1, <2>2 DEF Read
<1>4. Goes(t, c) BY <1>1, <1>3, BecomesGoes
<1>. QED BY <1>1, <1>3, <1>4 DEF GoesOn

LEMMA ReadInv ==
  ASSUME Inv, NEW t \in Threads, Read(t)
  PROVE  Inv'
<1>1. PICK c : /\ GoesOn(t, c)
               /\ \/ on_event # <<>> /\ c.at = "deliver" /\ c.to = on_event
                  \/ on_event = <<>> /\ c.at = "return"
  BY ReadGoes
<1>2. /\ Current(t).at \notin {"lock", "number"} /\ calling[t] # <<>>
      /\ c.at \notin {"lock", "number"} /\ (c.at = "deliver" => c.to # <<>>)
  BY <1>1, ReadGoes DEF Read, Step
<1>5. UNCHANGED <<stream, observed, hosted, heard, traces, on_event, runs, started, usage,
                  tools, refused, acts, left>>
  BY DEF Read, hosts
<1>6. /\ heard' \in Seq(1..Len(made)) /\ traces' \in [RunIds -> Seq(1..Len(made))]
      /\ acts' \in 0..MaxActs
  BY <1>5 DEF Inv, TypeOK, StreamOK
<1>. QED BY <1>1, <1>2, <1>5, <1>6, QuietInv

LEMMA ReturnGoes ==
  ASSUME Inv, NEW t \in Threads, Return(t)
  PROVE  Current(t).at = "return" /\ calling[t] # <<>> /\ GoesOn(t, Current(t))
<1>1. CallsOK /\ calling[t] # <<>> /\ Current(t).at = "return"
  BY DEF Inv, TypeOK, Return, Step
<1>2. Current(t) \in CallType BY <1>1, CurrentCall
<1>3. Goes(t, Current(t)) BY <1>1, <1>2, BecomesGoes DEF Return
<1>. QED BY <1>1, <1>2, <1>3 DEF GoesOn

LEMMA ReturnInv ==
  ASSUME Inv, NEW t \in Threads, Return(t)
  PROVE  Inv'
<1>1. PICK c : c = Current(t) /\ c.at = "return" /\ calling[t] # <<>> /\ GoesOn(t, c)
  BY ReturnGoes
<1>4. UNCHANGED <<stream, observed, hosted, heard, traces, on_event, runs, started, usage,
                  tools, refused, acts, left>>
  BY DEF Return, hosts
<1>5. /\ heard' \in Seq(1..Len(made)) /\ traces' \in [RunIds -> Seq(1..Len(made))]
      /\ acts' \in 0..MaxActs
  BY <1>4 DEF Inv, TypeOK, StreamOK
<1>. QED BY <1>1, <1>4, <1>5, QuietInv

\* What a subscriber is told of, and where it puts it.
LEMMA CollectType ==
  ASSUME Inv, NEW t \in Threads, Collect(t)
  PROVE  /\ heard' \in Seq(1..Len(made)) /\ traces' \in [RunIds -> Seq(1..Len(made))]
         /\ Current(t) \in CallType /\ calling[t] # <<>> /\ Current(t).to # <<>>
         /\ Current(t).at = "deliver" /\ Current(t).event \in 1..Len(made)
<1>1. CallsOK /\ StreamOK /\ calling[t] # <<>> /\ Current(t).at = "deliver"
  BY DEF Inv, TypeOK, Collect, Step
<1>2. Current(t) \in CallType /\ CallOK(t, Len(calling[t]))
      /\ Current(t) = calling[t][Len(calling[t])]
  BY <1>1, CurrentCall DEF Inv, CallInv
<1>3. Current(t).event \in 1..Len(made) /\ Current(t).to # <<>>
  BY <1>1, <1>2 DEF CallOK, Numbered
<1>4. heard' \in Seq(1..Len(made)) BY <1>1, <1>3, AppendProperties DEF StreamOK, Collect
<1>5. traces' \in [RunIds -> Seq(1..Len(made))]
  BY <1>1, <1>3, AppendProperties DEF StreamOK, Collect
<1>. QED BY <1>1, <1>2, <1>3, <1>4, <1>5

LEMMA DeliverGoes ==
  ASSUME Inv, NEW t \in Threads, Deliver(t)
  PROVE  /\ Current(t).to # <<>> /\ Current(t).to \in Seq(Subscribers) /\ acts' \in 0..MaxActs
         /\ \E c : /\ GoesOn(t, c) /\ c.to = Tail(Current(t).to)
                   /\ c.at = IF c.to = <<>> THEN "return" ELSE "deliver"
<1>. DEFINE at == IF Tail(Current(t).to) = <<>> THEN "return" ELSE "deliver"
            rest == Tail(Current(t).to)
            c == [Current(t) EXCEPT !.to = rest, !.at = at]
<1>1. /\ Current(t) \in CallType /\ calling[t] # <<>> /\ Current(t).to # <<>>
      /\ Current(t).at = "deliver"
  BY CollectType DEF Deliver
<1>2. CallsOK /\ StreamOK
  BY DEF Inv, TypeOK
<1>3. /\ rest \in Seq(Subscribers) /\ at \in {"return", "deliver"}
      /\ Current(t).to \in Seq(Subscribers) /\ at = IF rest = <<>> THEN "return" ELSE "deliver"
  BY <1>1, HeadTailProperties DEF CallType
<1>4. /\ c \in CallType /\ c.at = at /\ c.event = Current(t).event /\ c.to = rest
      /\ c.kind = Current(t).kind /\ c.of = Current(t).of
  <2>. HIDE DEF at, rest
  <2>. QED BY <1>1, <1>3 DEF CallType, Places
<1>5. Hears(t, c)
  <2>1. Hears(t, [Current(t) EXCEPT !.to = Tail(@), !.at = IF Tail(Current(t).to) = <<>> THEN "return" ELSE @])
    BY DEF Deliver
  <2>2. c = [Current(t) EXCEPT !.to = Tail(@), !.at = IF Tail(Current(t).to) = <<>> THEN "return" ELSE @]
    BY <1>1 DEF CallType
  <2>. HIDE DEF c
  <2>. QED BY <2>1, <2>2
<1>. HIDE DEF c, at, rest
<1>6. Goes(t, c) /\ (acts' = acts \/ (acts' = acts + 1 /\ acts' <= MaxActs))
  BY <1>1, <1>2, <1>4, <1>5, HearsGoes
<1>7. acts' \in 0..MaxActs BY <1>2, <1>6, EventBoundAssumption DEF StreamOK
<1>8. rest = Tail(Current(t).to) BY DEF rest
<1>. QED BY <1>1, <1>3, <1>4, <1>6, <1>7, <1>8 DEF GoesOn

LEMMA DeliverInv ==
  ASSUME Inv, NEW t \in Threads, Deliver(t)
  PROVE  Inv'
<1>1. PICK c : /\ GoesOn(t, c) /\ c.to = Tail(Current(t).to)
               /\ c.at = IF c.to = <<>> THEN "return" ELSE "deliver"
  BY DeliverGoes
<1>2. /\ heard' \in Seq(1..Len(made)) /\ traces' \in [RunIds -> Seq(1..Len(made))]
      /\ calling[t] # <<>> /\ Current(t).at = "deliver" /\ acts' \in 0..MaxActs
  BY CollectType, DeliverGoes DEF Deliver
<1>3. UNCHANGED <<stream, observed, hosted, on_event, runs, started, usage, tools, refused, left>>
  BY DEF Deliver
<1>4. Current(t).at \notin {"lock", "number"} /\ c.at \notin {"lock", "number"}
      /\ (c.at = "deliver" => c.to # <<>>)
  BY <1>1, <1>2
<1>. QED BY <1>1, <1>2, <1>3, <1>4, QuietInv

-------------------------------------------------------------
(* The runs in progress.                                                   *)

LEMMA TopRun ==
  ASSUME RunsOK, runs # <<>>
  PROVE  /\ Len(runs) \in Nat \ {0} /\ Top = runs[Len(runs)] /\ Top \in RunType
         /\ \A n \in 1..Len(runs) : runs[n] \in RunType
<1>1. runs \in Seq(RunType) BY DEF RunsOK
<1>2. Len(runs) \in Nat \ {0} /\ Last(runs) = runs[Len(runs)] /\ Last(runs) \in RunType
  BY <1>1, FrontLast
<1>. QED BY <1>1, <1>2, ElementOfSeq DEF Top

\* The innermost run replaced.
LEMMA WithTopLemma ==
  ASSUME RunsOK, runs # <<>>, NEW f \in RunType
  PROVE  /\ WithTop(f) \in Seq(RunType) /\ WithTop(f) # <<>>
         /\ Len(WithTop(f)) = Len(runs)
         /\ \A n \in 1..Len(runs) - 1 : WithTop(f)[n] = runs[n]
         /\ WithTop(f)[Len(runs)] = f
<1>1. runs \in Seq(RunType) /\ Len(runs) \in Nat \ {0}
  BY EmptySeq DEF RunsOK
<1>2. /\ WithTop(f) \in Seq(RunType) /\ Len(WithTop(f)) = Len(runs)
      /\ \A n \in 1..Len(runs) - 1 : WithTop(f)[n] = runs[n]
      /\ WithTop(f)[Len(runs)] = f
  BY <1>1, FrontAppend DEF WithTop
<1>. QED BY <1>1, <1>2, EmptySeq

\* Whom the runs in progress tell of an event.
SameTraced(f, g) == f.id = g.id /\ f.traced = g.traced /\ f.before = g.before

LEMMA SameRuns ==
  ASSUME RunsOK, runs' \in Seq(RunType), Len(runs') = Len(runs),
         \A n \in 1..Len(runs) : SameTraced(runs'[n], runs[n]),
         usage' \in Usages, UNCHANGED <<hosted, on_event, started, left>>
  PROVE  RunsOK'
<1>1. Len(runs) \in Nat BY LenProperties DEF RunsOK
<1>2. ASSUME NEW n \in 0..Len(runs)  PROVE Listening(n)' = Listening(n)
  <2>1. CASE n = 0 BY <2>1 DEF Listening
  <2>2. CASE n # 0 BY <1>1, <2>2 DEF Listening, SameTraced
  <2>. QED BY <2>1, <2>2
<1>3. on_event' = Listening(Len(runs))' BY <1>1, <1>2 DEF RunsOK
<1>4. ASSUME NEW n \in 1..Len(runs')  PROVE runs'[n].before = Listening(n - 1)'
  BY <1>1, <1>2 DEF SameTraced, RunsOK
<1>5. Len(runs)' = Len(runs) OBVIOUS
<1>. QED BY <1>3, <1>4 DEF RunsOK

\* The innermost run goes on as f.
LEMMA TopGoesOn ==
  ASSUME RunsOK, runs # <<>>, NEW f \in RunType, SameTraced(f, Top), runs' = WithTop(f),
         usage' \in Usages, UNCHANGED <<hosted, on_event, started, left>>
  PROVE  RunsOK' /\ runs' # <<>>
<1>1. /\ runs' \in Seq(RunType) /\ Len(runs') = Len(runs) /\ runs' # <<>>
      /\ \A n \in 1..Len(runs) - 1 : runs'[n] = runs[n]
      /\ runs'[Len(runs)] = f
  BY WithTopLemma
<1>2. Len(runs) \in Nat \ {0} /\ Top = runs[Len(runs)]
  BY TopRun
<1>3. ASSUME NEW n \in 1..Len(runs)  PROVE SameTraced(runs'[n], runs[n])
  <2>1. CASE n = Len(runs) BY <1>1, <1>2, <2>1
  <2>2. CASE n # Len(runs) BY <1>1, <1>2, <2>2 DEF SameTraced
  <2>. QED BY <2>1, <2>2
<1>. QED BY <1>1, <1>3, SameRuns

LEMMA TodoKept ==
  ASSUME RunsOK, runs # <<>>, TodoInv, NEW f \in RunType, runs' = WithTop(f),
         called \in Nat, called' \in Nat, called <= called',
         \A q \in 1..Len(f.todo) : Known(f.todo[q], called')
  PROVE  TodoInv'
<1>1. /\ Len(runs') = Len(runs)
      /\ \A n \in 1..Len(runs) - 1 : runs'[n] = runs[n]
      /\ runs'[Len(runs)] = f
      /\ Len(runs) \in Nat \ {0}
  BY WithTopLemma, TopRun
<1>2. ASSUME NEW n \in 1..Len(runs'), NEW q \in 1..Len(runs'[n].todo)
      PROVE  Known(runs'[n].todo[q], called')
  <2>1. CASE n = Len(runs) BY <1>1, <2>1
  <2>2. CASE n # Len(runs) BY <1>1, <2>2 DEF TodoInv, Known
  <2>. QED BY <2>1, <2>2
<1>. QED BY <1>2 DEF TodoInv

\* The ways in which a run goes on.
LEMMA RunEdits ==
  ASSUME NEW f \in RunType, NEW todo \in Seq(Item), NEW how \in {"end", "raised"},
         NEW n \in Nat
  PROVE  /\ [f EXCEPT !.todo = todo] \in RunType
         /\ SameTraced([f EXCEPT !.todo = todo], f)
         /\ [f EXCEPT !.visits = n, !.todo = todo] \in RunType
         /\ SameTraced([f EXCEPT !.visits = n, !.todo = todo], f)
         /\ [f EXCEPT !.over = TRUE, !.how = how, !.todo = todo] \in RunType
         /\ SameTraced([f EXCEPT !.over = TRUE, !.how = how, !.todo = todo], f)
         /\ [f EXCEPT !.over = TRUE, !.how = how, !.cut = TRUE, !.todo = todo] \in RunType
         /\ SameTraced([f EXCEPT !.over = TRUE, !.how = how, !.cut = TRUE, !.todo = todo], f)
BY DEF RunType, SameTraced

LEMMA FailedRun ==
  ASSUME NEW f \in RunType
  PROVE  /\ Failed(f) \in RunType /\ SameTraced(Failed(f), f)
         /\ \A q \in 1..Len(Failed(f).todo) : Failed(f).todo[q].kind \in {"end", "verdict"}
         /\ Cut(f) \in RunType /\ SameTraced(Cut(f), f)
         /\ Cut(f).todo = <<>>
<1>1. <<Tell("end", f.id), Tell("verdict", f.id)>> \in Seq(Item) /\ <<>> \in Seq(Item)
  BY EventBoundAssumption DEF RunType, RunIds, Tell, Item, Kinds, Emitted
<1>2. /\ Failed(f) \in RunType /\ SameTraced(Failed(f), f)
      /\ Cut(f) \in RunType /\ SameTraced(Cut(f), f)
  BY <1>1, RunEdits DEF Failed, Cut
<1>3. Cut(f).todo = <<>> /\ Failed(f).todo = <<Tell("end", f.id), Tell("verdict", f.id)>>
  BY DEF Failed, Cut, RunType
<1>4. \A q \in 1..Len(Failed(f).todo) : Failed(f).todo[q].kind \in {"end", "verdict"}
  BY <1>3 DEF Tell
<1>. QED BY <1>2, <1>3, <1>4

LEMMA DoneRun ==
  ASSUME RunsOK, runs # <<>>, Top.todo # <<>>
  PROVE  /\ Done \in RunType /\ SameTraced(Done, Top) /\ Done.todo = Tail(Top.todo)
         /\ Head(Top.todo) \in Item /\ Head(Top.todo) = Top.todo[1]
<1>1. Top \in RunType BY TopRun
<1>2. Top.todo \in Seq(Item) BY <1>1 DEF RunType
<1>3. Tail(Top.todo) \in Seq(Item) /\ Head(Top.todo) \in Item
  BY <1>2, HeadTailProperties
<1>4. Head(Top.todo) = Top.todo[1] BY <1>2
<1>5. Done = [Top EXCEPT !.todo = Tail(Top.todo)] BY <1>1 DEF Done, RunType
<1>6. Done \in RunType /\ SameTraced(Done, Top)
  BY <1>1, <1>3, <1>5, RunEdits
<1>7. Done.todo = Tail(Top.todo) BY <1>1, <1>5 DEF RunType
<1>. QED BY <1>3, <1>4, <1>6, <1>7

-------------------------------------------------------------
(* Steps that begin a call, or cut it off, or make none.                   *)

\* No step of the flow or a tool but those of a call touches the events.
Silence == UNCHANGED <<stream, hosts, refused>>

LEMMA SilenceInv ==
  ASSUME Inv, Silence, acts' \in 0..MaxActs
  PROVE  StreamOK'
BY DEF Inv, TypeOK, StreamOK, Silence, stream, hosts

\* t, that makes no call, begins one.
LEMMA CallsInv ==
  ASSUME Inv, Silence, NEW t \in Threads, calling[t] = <<>>,
         NEW kind \in Kinds, NEW of \in Nat, Calls(t, kind, of)
  PROVE  /\ CallsOK'
         /\ \A u \in Threads : \A n \in 1..Len(calling'[u]) : CallOK(u, n)'
         /\ lock' # NoThread => Step(lock, "number")'
         /\ \A u \in Threads \ {t} : calling'[u] = calling[u]
         /\ calling'[t] \in {<<>>, <<Call(t, kind, of)>>}
<1>1. CallsOK /\ StreamOK /\ CallInv
  BY DEF Inv, TypeOK
<1>2. /\ DOMAIN calling' = Threads /\ calling' = [u \in Threads |-> calling'[u]]
      /\ \A u \in Threads \ {t} : calling'[u] = calling[u]
      /\ calling'[t] \in {<<>>, <<Call(t, kind, of)>>}
  BY <1>1 DEF Calls, CallsOK
<1>3. Call(t, kind, of) \in CallType BY CallIsCall
<1>4. calling'[t] \in Seq(CallType) /\ \A n \in 1..Len(calling'[t]) :
        n = 1 /\ Len(calling'[t]) = 1 /\ calling'[t][n] = Call(t, kind, of)
  <2>1. CASE calling'[t] = <<>> BY <2>1, EmptySeq
  <2>2. CASE calling'[t] = <<Call(t, kind, of)>> BY <1>3, <2>2
  <2>. QED BY <1>2, <2>1, <2>2
<1>5. CallsOK' BY <1>1, <1>2, <1>4 DEF CallsOK
<1>6. UNCHANGED <<sequence, lock, made>> BY DEF Silence, stream
<1>7. ASSUME NEW u \in Threads \ {t}, NEW n \in 1..Len(calling'[u])  PROVE CallOK(u, n)'
  BY <1>1, <1>2, <1>6 DEF CallInv, CallOK
<1>8. ASSUME NEW n \in 1..Len(calling'[t])  PROVE CallOK(t, n)'
  BY <1>4 DEF CallOK, Call, Numbered
<1>9. ASSUME lock' # NoThread  PROVE Step(lock, "number")'
  BY <1>1, <1>2, <1>6, <1>9 DEF CallInv, StreamOK, Step, Current
<1>. QED BY <1>2, <1>5, <1>7, <1>8, <1>9

\* Nobody's calls change, and who calls keeps his run or tool call.
LEMMA NoCallInv ==
  ASSUME Inv, Silence, acts' \in 0..MaxActs, calling' = calling, RunsOK', ToolsOK', TodoInv',
         calling[Flow] # <<>> => runs' # <<>>,
         \A w \in Workers : calling[w] # <<>> =>
           working'[w].told /\ working'[w].call = working[w].call
  PROVE  Inv'
<1>1. CallsOK /\ StreamOK /\ CallInv
  BY DEF Inv, TypeOK
<1>2. UNCHANGED <<sequence, lock, made>> BY DEF Silence, stream
<1>3. \A u \in Threads : \A n \in 1..Len(calling'[u]) : CallOK(u, n)'
  BY <1>1, <1>2 DEF CallInv, CallOK
<1>4. CallInv' BY <1>1, <1>2, <1>3 DEF CallInv, Step, Current
<1>. QED BY <1>1, <1>4, SilenceInv DEF Inv, TypeOK, CallsOK

LEMMA RaiseInv ==
  ASSUME Inv, NEW t \in Threads, Raise(t)
  PROVE  Inv'
<1>1. CallsOK /\ StreamOK /\ CallInv /\ RunsOK
  BY DEF Inv, TypeOK
<1>2. /\ calling[t] # <<>> /\ Current(t).at # "number"
      /\ heard' \in Seq(1..Len(made)) /\ traces' \in [RunIds -> Seq(1..Len(made))]
      /\ acts' \in 0..MaxActs
  <2>0. Act(1) => acts' \in 0..MaxActs
    BY <1>1, EventBoundAssumption DEF Act, StreamOK
  <2>1. CASE Heard(t) /\ Act(1) /\ Collect(t)
    BY <2>0, <2>1, CollectType
  <2>2. CASE Step(t, "observe") /\ Act(1) /\ UNCHANGED <<heard, traces>>
    BY <1>1, <2>0, <2>2 DEF Step, StreamOK
  <2>3. CASE Step(t, "call") /\ UNCHANGED <<acts, heard, traces>>
    BY <1>1, <2>3 DEF Step, StreamOK
  <2>. QED BY <2>1, <2>2, <2>3 DEF Raise
<1>3. UNCHANGED <<sequence, lock, made, events, observed, hosted, on_event, started, usage,
                  called, queue, open, working, left>>
  BY DEF Raise, stream, tools
<1>4. calling' = [calling EXCEPT ![t] = <<>>] BY DEF Raise
<1>5. calling'[t] = <<>> /\ \A u \in Threads \ {t} : calling'[u] = calling[u]
  BY <1>1, <1>4 DEF CallsOK
<1>6. CallsOK' BY <1>1, <1>4, EmptySeq DEF CallsOK
<1>7. RunsOK' /\ TodoInv' /\ (t = Flow => runs' # <<>>) /\ (t # Flow => runs' = runs)
  <2>1. CASE t # Flow
    BY <1>1, <1>3, <2>1 DEF Raise, RunsOK, Listening, Inv, TodoInv, Known
  <2>2. CASE t = Flow
    <3>1. runs # <<>> BY <1>1, <1>2, <2>2 DEF CallInv
    <3>2. Top \in RunType /\ usage' \in Usages
      BY <1>1, <1>3, <3>1, TopRun DEF RunsOK
    <3>3. PICK f \in RunType :
            /\ SameTraced(f, Top) /\ runs' = WithTop(f)
            /\ \A q \in 1..Len(f.todo) : f.todo[q].kind \in {"end", "verdict"}
      BY <2>2, <3>2, FailedRun, EmptySeq DEF Raise
    <3>4. RunsOK' /\ runs' # <<>>
      BY <1>1, <1>3, <3>1, <3>2, <3>3, TopGoesOn
    <3>5. TodoInv'
      <4>1. \A q \in 1..Len(f.todo) : Known(f.todo[q], called')
        BY <3>3 DEF Known
      <4>2. called \in Nat /\ called' = called
        BY <1>3 DEF Inv, TypeOK, ToolsOK
      <4>3. TodoInv /\ called' \in Nat /\ called <= called'
        BY <4>2 DEF Inv
      <4>. QED BY <1>1, <3>1, <3>3, <4>1, <4>2, <4>3, TodoKept
    <3>. QED BY <2>2, <3>4, <3>5
  <2>. QED BY <2>1, <2>2
<1>8. ToolsOK' BY <1>3 DEF Inv, TypeOK, ToolsOK
<1>9. refused' \subseteq 0..Len(made)
  <2>1. ASSUME NEW n \in DOMAIN calling[t]  PROVE calling[t][n].event \in 0..Len(made)
    <3>1. n \in 1..Len(calling[t]) /\ Len(made) \in Nat
      BY <1>1, LenProperties DEF CallsOK, StreamOK
    <3>2. CallOK(t, n) BY <1>1, <3>1 DEF CallInv
    <3>. QED BY <3>1, <3>2 DEF CallOK
  <2>2. refused' = refused \cup {calling[t][n].event : n \in DOMAIN calling[t]}
    BY DEF Raise
  <2>. QED BY <1>1, <2>1, <2>2 DEF StreamOK
<1>10. StreamOK' BY <1>1, <1>2, <1>3, <1>9 DEF StreamOK
<1>11. lock # t /\ (lock # NoThread => Step(lock, "number"))
  BY <1>1, <1>2, ThreadAssumption DEF CallInv, Threads, Step
<1>12. ASSUME lock' # NoThread  PROVE Step(lock, "number")'
  BY <1>1, <1>3, <1>5, <1>11, <1>12 DEF StreamOK, Step, Current
<1>13. ASSUME NEW u \in Threads, NEW n \in 1..Len(calling'[u])  PROVE CallOK(u, n)'
  BY <1>1, <1>3, <1>5, <1>13, EmptySeq DEF CallInv, CallOK
<1>14. calling'[Flow] # <<>> => runs' # <<>>
  BY <1>1, <1>5, <1>7 DEF CallInv, Threads
<1>15. ASSUME NEW w \in Workers, calling'[w] # <<>>
       PROVE  /\ working'[w].told
              /\ calling'[w][1].kind = "progress" /\ calling'[w][1].of = working'[w].call
  BY <1>1, <1>3, <1>5, <1>15 DEF CallInv, Threads
<1>16. CallInv' BY <1>1, <1>3, <1>12, <1>13, <1>14, <1>15 DEF CallInv
<1>. QED BY <1>6, <1>7, <1>8, <1>10, <1>16 DEF Inv, TypeOK

-------------------------------------------------------------
(* What the nodes tell.                                                    *)

\* A function on 1..n is a sequence.
LEMMA FunctionIsSeq ==
  ASSUME NEW S, NEW n \in Nat, NEW f \in [1..n -> S]
  PROVE  f \in Seq(S) /\ Len(f) = n
OBVIOUS

\* What a node tells of each of the calls in ids.
EachOK(each, kinds, ids, K) ==
  /\ each \in Seq(Item)
  /\ Len(kinds) = 1 => Len(each) = Len(ids)
  /\ \A n \in 1..Len(each) :
       /\ each[n].kind \in K
       /\ \E i \in 1..Len(ids) : each[n].of = ids[i] /\ (Len(kinds) = 1 => i = n)

LEMMA EachTold ==
  ASSUME NEW ids \in Seq(Nat), NEW kinds, Len(kinds) \in {1, 2},
         NEW K, \A k \in 1..Len(kinds) : kinds[k] \in K,
         K \subseteq Kinds \cup {"submit"}
  PROVE  EachOK(Each(ids, kinds), kinds, ids, K)
<1>1. Len(ids) \in Nat BY LenProperties
<1>2. ASSUME NEW i \in 1..Len(ids), NEW k \in 1..Len(kinds)
      PROVE  /\ Tell(kinds[k], ids[i]) \in Item
             /\ Tell(kinds[k], ids[i]).kind \in K /\ Tell(kinds[k], ids[i]).of = ids[i]
  BY ElementOfSeq DEF Tell, Item
<1>. HIDE DEF Tell
<1>3. CASE Len(kinds) = 1
  <2>1. Each(ids, kinds) =
          [n \in 1..Len(ids) |-> Tell(kinds[1 + ((n - 1) % 1)], ids[1 + ((n - 1) \div 1)])]
    BY <1>1, <1>3 DEF Each
  <2>2. ASSUME NEW n \in 1..Len(ids)  PROVE Each(ids, kinds)[n] = Tell(kinds[1], ids[n])
    BY <1>1, <2>1
  <2>3. \A n \in 1..Len(ids) : Each(ids, kinds)[n] \in Item
    BY <1>2, <1>3, <2>2
  <2>4. Each(ids, kinds) \in [1..Len(ids) -> Item] BY <2>1, <2>3
  <2>5. Each(ids, kinds) \in Seq(Item) /\ Len(Each(ids, kinds)) = Len(ids)
    BY <1>1, <2>4, FunctionIsSeq
  <2>. QED BY <1>2, <1>3, <2>2, <2>5 DEF EachOK
<1>4. CASE Len(kinds) = 2
  <2>1. Each(ids, kinds) =
          [n \in 1..Len(ids) * 2 |-> Tell(kinds[1 + ((n - 1) % 2)], ids[1 + ((n - 1) \div 2)])]
    BY <1>1, <1>4 DEF Each
  <2>2. ASSUME NEW n \in 1..Len(ids) * 2
        PROVE  \E i \in 1..Len(ids), k \in 1..Len(kinds) :
                 Each(ids, kinds)[n] = Tell(kinds[k], ids[i])
    <3>1. 1 + ((n - 1) % 2) \in 1..2 /\ 1 + ((n - 1) \div 2) \in 1..Len(ids)
      BY <1>1
    <3>. QED BY <1>4, <2>1, <3>1
  <2>3. \A n \in 1..Len(ids) * 2 : Each(ids, kinds)[n] \in Item
    BY <1>2, <2>2
  <2>4. Each(ids, kinds) \in [1..Len(ids) * 2 -> Item] BY <2>1, <2>3
  <2>5. Each(ids, kinds) \in Seq(Item) /\ Len(Each(ids, kinds)) = Len(ids) * 2
    <3>1. Len(ids) * 2 \in Nat BY <1>1
    <3>. QED BY <2>4, <3>1, FunctionIsSeq
  <2>6. ASSUME NEW n \in 1..Len(Each(ids, kinds))
        PROVE  /\ Each(ids, kinds)[n].kind \in K
               /\ \E i \in 1..Len(ids) : Each(ids, kinds)[n].of = ids[i]
    <3>1. PICK i \in 1..Len(ids), k \in 1..Len(kinds) : Each(ids, kinds)[n] = Tell(kinds[k], ids[i])
      BY <2>2, <2>5
    <3>. QED BY <1>2, <3>1
  <2>. QED BY <1>4, <2>5, <2>6 DEF EachOK
<1>. QED BY <1>3, <1>4

\* One piece of what a node tells after another.
LEMMA ConcatTold ==
  ASSUME NEW s \in Seq(Item), NEW t \in Seq(Item), NEW a, a = Len(s), NEW b, b = Len(t),
         NEW r, r = s \o t
  PROVE  /\ r \in Seq(Item) /\ Len(r) = a + b
         /\ a \in Nat /\ b \in Nat
         /\ \A q \in 1..a : r[q] = s[q]
         /\ \A q \in a + 1..a + b : r[q] = t[q - a] /\ q - a \in 1..b
<1>1. Len(s) \in Nat /\ Len(t) \in Nat
  BY LenProperties
<1>2. /\ r \in Seq(Item) /\ Len(r) = Len(s) + Len(t)
      /\ \A q \in 1..Len(s) + Len(t) : r[q] = IF q <= Len(s) THEN s[q] ELSE t[q - Len(s)]
  BY ConcatProperties
<1>. QED BY <1>1, <1>2

LEMMA OneTold ==
  ASSUME NEW kind \in Kinds \cup {"answer", "record", "agent", "submit", "join"}, NEW of \in Nat
  PROVE  <<Tell(kind, of)>> \in Seq(Item) /\ Len(<<Tell(kind, of)>>) = 1
         /\ <<Tell(kind, of)>>[1] = Tell(kind, of) /\ Tell(kind, of).kind = kind
         /\ Tell(kind, of).of = of
<1>1. Tell(kind, of) \in Item /\ Tell(kind, of).kind = kind /\ Tell(kind, of).of = of
  BY DEF Tell, Item
<1>. QED BY <1>1

\* A visit of a node that calls tools: the calls are announced up to the a-th
\* of what it tells, handed over up to b, joined, and their results told.
ToolItem(item, q, first, a, b) ==
  /\ q <= a => item.kind \in {"start", "call", "payload"}
  /\ a < q /\ q <= b => item = Tell("submit", first + (q - a))
  /\ q = b + 1 => item.kind = "join"
  /\ q > b + 1 => item.kind \in {"result", "payload", "message", "end"}
  /\ item.kind \in {"call", "result"} => item.of \in first + 1..first + (b - a)

ToolVisit(todo, first, a, b) ==
  \A q \in 1..Len(todo) : ToolItem(todo[q], q, first, a, b)

\* The n calls after first, and a visit of the node that makes them.
Batch(first, n) == [k \in 1..n |-> first + k]

Visited(body, id) == <<Tell("start", id)>> \o body \o <<Tell("end", id)>>

LEMMA BatchLemma ==
  ASSUME NEW first \in Nat, NEW n \in Nat
  PROVE  /\ Batch(first, n) \in Seq(Nat) /\ Len(Batch(first, n)) = n
         /\ \A k \in 1..n : Batch(first, n)[k] = first + k
<1>1. Batch(first, n) \in [1..n -> Nat] /\ \A k \in 1..n : Batch(first, n)[k] = first + k
  BY DEF Batch
<1>. QED BY <1>1, FunctionIsSeq

\* A visit ends with its end.
Ended(todo) == Len(todo) \in 1..Len(todo) /\ todo[Len(todo)].kind = "end"

LEMMA ToolTodo ==
  ASSUME NEW first \in Nat, NEW n \in Nat \ {0}, NEW id \in Nat
  PROVE  /\ Visited(ToolBody(Batch(first, n)), id) \in Seq(Item)
         /\ Ended(Visited(ToolBody(Batch(first, n)), id))
         /\ \E a \in Nat :
              ToolVisit(Visited(ToolBody(Batch(first, n)), id), first, a, a + n)
<1>0. PICK ids, todo : ids = Batch(first, n) /\ todo = Visited(ToolBody(ids), id)
  OBVIOUS
<1>1. ids \in Seq(Nat) /\ Len(ids) = n /\ \A k \in 1..n : ids[k] = first + k
  BY <1>0, BatchLemma
<1>2. ASSUME NEW kind \in {"call", "result"}
      PROVE  /\ Each(ids, Full(kind)) \in Seq(Item)
             /\ \A q \in 1..Len(Each(ids, Full(kind))) :
                  /\ Each(ids, Full(kind))[q].kind \in {kind, "payload"}
                  /\ \E i \in 1..Len(ids) : Each(ids, Full(kind))[q].of = ids[i]
  <2>0. ids \in Seq(Nat) BY <1>1
  <2>1. PICK K, kinds : K = {kind, "payload"} /\ kinds = Full(kind)
    OBVIOUS
  <2>2. Len(kinds) \in {1, 2} /\ \A k \in 1..Len(kinds) : kinds[k] \in K
    BY <2>1 DEF Full
  <2>3. K \subseteq Kinds \cup {"submit"} BY <2>1 DEF Kinds, Emitted
  <2>4. EachOK(Each(ids, kinds), kinds, ids, K) BY ONLY <2>0, <2>2, <2>3, EachTold
  <2>. QED BY <2>1, <2>4 DEF EachOK
<1>3. ASSUME NEW kind \in {"submit", "message"}
      PROVE  /\ Each(ids, <<kind>>) \in Seq(Item) /\ Len(Each(ids, <<kind>>)) = n
             /\ \A q \in 1..Len(Each(ids, <<kind>>)) :
                  Each(ids, <<kind>>)[q].kind = kind /\ Each(ids, <<kind>>)[q].of = ids[q]
  <2>0. ids \in Seq(Nat) BY <1>1
  <2>1. PICK K, kinds : K = {kind} /\ kinds = <<kind>>
    OBVIOUS
  <2>5. Len(kinds) = 1 BY <2>1
  <2>2. Len(kinds) \in {1, 2} /\ \A k \in 1..Len(kinds) : kinds[k] \in K
    BY <2>1
  <2>3. K \subseteq Kinds \cup {"submit"} BY <2>1 DEF Kinds, Emitted
  <2>4. EachOK(Each(ids, kinds), kinds, ids, K) BY ONLY <2>0, <2>2, <2>3, EachTold
  <2>. QED BY <1>1, <2>1, <2>4, <2>5 DEF EachOK
<1>4. PICK S, J, E : S = <<Tell("start", id)>> /\ J = <<Tell("join", 0)>> /\ E = <<Tell("end", id)>>
  OBVIOUS
<1>5. PICK u : /\ u = 1
               /\ S \in Seq(Item) /\ u = Len(S) /\ S[1].kind = "start"
               /\ J \in Seq(Item) /\ u = Len(J) /\ J[1].kind = "join"
               /\ E \in Seq(Item) /\ u = Len(E) /\ E[1].kind = "end"
  BY <1>4, OneTold DEF Kinds, Emitted
<1>6. PICK A, B, R, M :
        /\ A = Each(ids, Full("call")) /\ B = Each(ids, <<"submit">>)
        /\ R = Each(ids, Full("result")) /\ M = Each(ids, <<"message">>)
  OBVIOUS
<1>7. /\ A \in Seq(Item) /\ \A q \in 1..Len(A) :
           /\ A[q].kind \in {"call", "payload"}
           /\ \E i \in 1..Len(ids) : A[q].of = ids[i]
      /\ R \in Seq(Item) /\ \A q \in 1..Len(R) :
           /\ R[q].kind \in {"result", "payload"}
           /\ \E i \in 1..Len(ids) : R[q].of = ids[i]
      /\ B \in Seq(Item) /\ n = Len(B)
      /\ \A q \in 1..Len(B) : B[q].kind = "submit" /\ B[q].of = ids[q]
      /\ M \in Seq(Item) /\ \A q \in 1..Len(M) : M[q].kind = "message"
  BY <1>2, <1>3, <1>6
<1>8. PICK a, r, m : a = Len(A) /\ r = Len(R) /\ m = Len(M)
  OBVIOUS
<1>9. PICK AB, ABJ, ABJR, body, Sb :
        /\ AB = A \o B /\ ABJ = AB \o J /\ ABJR = ABJ \o R /\ body = ABJR \o M
        /\ Sb = S \o body
  OBVIOUS
<1>10. todo = Sb \o E BY <1>0, <1>4, <1>6, <1>9 DEF ToolBody, Visited
<1>11. /\ AB \in Seq(Item) /\ Len(AB) = a + n /\ a \in Nat
       /\ \A q \in 1..a : AB[q] = A[q]
       /\ \A q \in a + 1..a + n : AB[q] = B[q - a] /\ q - a \in 1..n
  BY <1>7, <1>8, <1>9, ConcatTold
<1>12. PICK b \in Nat : b = a + n BY <1>11
<1>13. /\ ABJ \in Seq(Item) /\ Len(ABJ) = b + 1
       /\ \A q \in 1..b : ABJ[q] = AB[q]
       /\ ABJ[b + 1] = J[1]
  <2>1. /\ ABJ \in Seq(Item) /\ Len(ABJ) = b + u
        /\ \A q \in 1..b : ABJ[q] = AB[q]
        /\ \A q \in b + 1..b + u : ABJ[q] = J[q - b]
    <3>1. AB \in Seq(Item) /\ J \in Seq(Item) /\ b = Len(AB) /\ u = Len(J) /\ ABJ = AB \o J
      BY <1>5, <1>9, <1>11, <1>12
    <3>. QED BY ONLY <3>1, ConcatTold
  <2>2. u = 1 BY <1>5
  <2>3. b + 1 \in b + 1..b + u /\ b + 1 - b = 1
    BY <1>12, <2>2
  <2>4. ABJ[b + 1] = J[1] BY <2>1, <2>3
  <2>. QED BY <2>1, <2>2, <2>4
<1>14. PICK j \in Nat : j = b + 1 BY <1>12
<1>15. /\ ABJR \in Seq(Item) /\ r \in Nat /\ Len(ABJR) = j + r
       /\ \A q \in 1..j : ABJR[q] = ABJ[q]
       /\ \A q \in j + 1..j + r : ABJR[q] = R[q - j] /\ q - j \in 1..r
  <2>1. ABJ \in Seq(Item) /\ R \in Seq(Item) /\ j = Len(ABJ) /\ r = Len(R) /\ ABJR = ABJ \o R
    BY <1>7, <1>8, <1>9, <1>13, <1>14
  <2>. QED BY ONLY <2>1, ConcatTold
<1>16. PICK k \in Nat : k = j + r BY <1>14, <1>15
<1>17. /\ body \in Seq(Item) /\ m \in Nat /\ Len(body) = k + m
       /\ \A q \in 1..k : body[q] = ABJR[q]
       /\ \A q \in k + 1..k + m : body[q] = M[q - k] /\ q - k \in 1..m
  <2>1. ABJR \in Seq(Item) /\ M \in Seq(Item) /\ k = Len(ABJR) /\ m = Len(M) /\ body = ABJR \o M
    BY <1>7, <1>8, <1>9, <1>15, <1>16
  <2>. QED BY ONLY <2>1, ConcatTold
<1>18. PICK l \in Nat : l = k + m BY <1>16, <1>17
<1>19. /\ Sb \in Seq(Item) /\ Len(Sb) = u + l
       /\ \A q \in 1..u : Sb[q] = S[q]
       /\ \A q \in u + 1..u + l : Sb[q] = body[q - u]
  <2>1. S \in Seq(Item) /\ body \in Seq(Item) /\ u = Len(S) /\ l = Len(body) /\ Sb = S \o body
    BY <1>5, <1>9, <1>17, <1>18
  <2>. QED BY ONLY <2>1, ConcatTold
<1>20. PICK o \in Nat : o = 1 + l BY <1>18
<1>21. /\ todo \in Seq(Item) /\ Len(todo) = o + u
       /\ \A q \in 1..o : todo[q] = Sb[q]
       /\ \A q \in o + 1..o + u : todo[q] = E[q - o]
  <2>1. Sb \in Seq(Item) /\ E \in Seq(Item) /\ o = Len(Sb) /\ u = Len(E) /\ todo = Sb \o E
    BY <1>5, <1>10, <1>19, <1>20
  <2>. QED BY ONLY <2>1, ConcatTold
<1>22. \A i \in 1..Len(ids) : ids[i] \in first + 1..first + n
  BY <1>1
<1>sizes. /\ a \in Nat /\ r \in Nat /\ m \in Nat
          /\ b = a + n /\ j = b + 1 /\ k = j + r /\ l = k + m
  BY <1>11, <1>12, <1>14, <1>15, <1>16, <1>17, <1>18
<1>. DEFINE OK(q) ==
       /\ q <= a + 1 => todo[q].kind \in {"start", "call", "payload"}
       /\ a + 1 < q /\ q <= b + 1 => todo[q] = Tell("submit", first + (q - (a + 1)))
       /\ q = b + 2 => todo[q].kind = "join"
       /\ q > b + 2 => todo[q].kind \in {"result", "payload", "message", "end"}
       /\ todo[q].kind \in {"call", "result"} => todo[q].of \in first + 1..first + n
<1>23. ASSUME NEW q \in 2..o  PROVE OK(q)
  <2>1. PICK p \in 1..l : p = q - 1 /\ todo[q] = body[p]
    <3>0. q \in 1..o /\ q \in u + 1..u + l /\ q - 1 \in 1..l
      BY <1>5, <1>18, <1>20
    <3>1. todo[q] = Sb[q] /\ q \in u + 1..u + l /\ q - 1 \in 1..l
      BY <1>5, <1>21, <3>0
    <3>2. Sb[q] = body[q - 1] BY <1>5, <1>19, <3>1
    <3>. QED BY <3>1, <3>2
  <2>2. CASE p \in 1..a
    <3>1. p \in 1..b /\ p \in 1..j /\ p \in 1..k
      BY <1>sizes, <2>2
    <3>2. body[p] = A[p] BY <1>11, <1>13, <1>15, <1>17, <2>2, <3>1
    <3>3. q <= a + 1 /\ q <= b + 1
      BY <1>11, <1>12, <2>1, <2>2
    <3>4. /\ todo[q].kind \in {"call", "payload"}
          /\ todo[q].of \in first + 1..first + n
      <4>1. todo[q] = A[p] /\ p \in 1..Len(A) BY <1>8, <2>1, <2>2, <3>2
      <4>2. PICK i \in 1..Len(ids) : A[p].kind \in {"call", "payload"} /\ A[p].of = ids[i]
        BY <1>7, <4>1
      <4>. QED BY <1>22, <4>1, <4>2
    <3>. QED BY <1>11, <1>12, <3>3, <3>4
  <2>3. CASE p \in a + 1..b
    <3>1. p \in 1..b /\ p \in 1..j /\ p \in 1..k /\ p \in a + 1..a + n
      BY <1>sizes, <2>3
    <3>2. todo[q] = B[p - a] /\ p - a \in 1..n
      BY <1>11, <1>13, <1>15, <1>17, <2>1, <3>1
    <3>3. B[p - a].kind = "submit" /\ B[p - a].of = first + (p - a) /\ B[p - a] \in Item
      <4>0. PICK i : i = p - a OBVIOUS
      <4>1. B \in Seq(Item) /\ i \in 1..Len(B) /\ i \in 1..n
        BY <1>7, <3>2, <4>0
      <4>2. B[i] \in Item BY ONLY <4>1, ElementOfSeq
      <4>3. B[i].kind = "submit" /\ B[i].of = first + i
        BY <1>1, <1>7, <4>1
      <4>. QED BY <4>0, <4>2, <4>3
    <3>4. B[p - a] = Tell("submit", first + (p - a)) BY <3>3 DEF Tell, Item
    <3>5. p - a = q - (a + 1) /\ a + 1 < q /\ q <= b + 1
      BY <1>sizes, <2>1, <2>3
    <3>. QED BY <1>11, <1>12, <3>2, <3>3, <3>4, <3>5
  <2>4. CASE p = j
    <3>1. p \in 1..j /\ p \in 1..k /\ p = b + 1 /\ q = b + 2
      BY <1>sizes, <2>1, <2>4
    <3>2. todo[q] = J[1] BY <1>13, <1>15, <1>17, <2>1, <3>1
    <3>. QED BY <1>5, <1>11, <1>12, <3>1, <3>2
  <2>5. CASE p \in j + 1..k
    <3>1. p \in 1..k /\ p \in j + 1..j + r /\ q > b + 2
      BY <1>sizes, <2>1, <2>5
    <3>2. todo[q] = R[p - j] /\ p - j \in 1..r
      BY <1>15, <1>17, <2>1, <3>1
    <3>3. /\ todo[q].kind \in {"result", "payload"}
          /\ todo[q].of \in first + 1..first + n
      <4>1. p - j \in 1..Len(R) BY <1>8, <3>2
      <4>2. R[p - j].kind \in {"result", "payload"} /\ \E i \in 1..Len(ids) : R[p - j].of = ids[i]
        BY <1>7, <4>1
      <4>. QED BY <1>22, <3>2, <4>2
    <3>. QED BY <1>11, <1>12, <3>1, <3>3
  <2>6. CASE p \in k + 1..k + m
    <3>1. q > b + 2 BY <1>sizes, <2>1, <2>6
    <3>2. todo[q] = M[p - k] /\ p - k \in 1..m
      BY <1>17, <2>1, <2>6
    <3>. QED BY <1>7, <1>8, <1>11, <1>12, <3>1, <3>2
  <2>7. p \in 1..a \/ p \in a + 1..b \/ p = j \/ p \in j + 1..k \/ p \in k + 1..k + m
    BY <1>sizes
  <2>. HIDE DEF OK
  <2>. QED BY <2>2, <2>3, <2>4, <2>5, <2>6, <2>7
<1>24. OK(1)
  <2>1. todo[1] = S[1] BY <1>5, <1>19, <1>20, <1>18, <1>5, <1>21
  <2>. QED BY <1>5, <1>11, <1>12, <2>1
<1>25. OK(o + 1)
  <2>1. o + 1 > b + 2 BY <1>sizes, <1>20
  <2>0. u = 1 BY <1>5
  <2>2. o + 1 \in o + 1..o + u /\ o + 1 - o = 1
    BY <1>20, <2>0
  <2>3. todo[o + 1].kind = "end" BY <1>5, <1>21, <2>2
  <2>. QED BY <1>11, <1>12, <1>20, <2>1, <2>3
<1>26. ASSUME NEW q \in 1..Len(todo)  PROVE OK(q)
  <2>. HIDE DEF OK
  <2>0. u = 1 /\ q \in 1..o + u
    BY <1>5, <1>21
  <2>1. q = 1 \/ q \in 2..o \/ q = o + 1
    BY <1>20, <2>0
  <2>. QED BY <2>1, <1>23, <1>24, <1>25
<1>27. PICK x \in Nat, y \in Nat : x = a + 1 /\ y = b + 1
  BY <1>11, <1>12
<1>28. y = x + n /\ y - x = n /\ y + 1 = b + 2
  BY <1>11, <1>12, <1>27
<1>29. ASSUME NEW q \in 1..Len(todo)  PROVE ToolItem(todo[q], q, first, x, y)
  BY <1>26, <1>27, <1>28 DEF ToolItem
<1>30. ToolVisit(todo, first, x, x + n) BY <1>28, <1>29 DEF ToolVisit
<1>31. Ended(todo)
  <2>0. u = 1 BY <1>5
  <2>1. Len(todo) = o + 1 /\ o + 1 \in 1..o + 1
    BY <1>20, <1>21, <2>0
  <2>2. o + 1 \in o + 1..o + u /\ o + 1 - o = 1
    BY <1>20, <2>0
  <2>3. todo[o + 1].kind = "end" BY <1>5, <1>21, <2>2
  <2>. QED BY <2>1, <2>3 DEF Ended
<1>. QED BY <1>0, <1>5, <1>21, <1>27, <1>30, <1>31

LEMMA VisitedTodo ==
  ASSUME NEW body \in Seq(Item), NEW id \in Nat, NEW K,
         \A q \in 1..Len(body) : body[q].kind \in K
  PROVE  /\ Visited(body, id) \in Seq(Item)
         /\ \A q \in 1..Len(Visited(body, id)) :
              Visited(body, id)[q].kind \in K \cup {"start", "end"}
<1>1. PICK S, E : S = <<Tell("start", id)>> /\ E = <<Tell("end", id)>>
  OBVIOUS
<1>2. /\ S \in Seq(Item) /\ Len(S) = 1 /\ S[1].kind = "start"
      /\ E \in Seq(Item) /\ Len(E) = 1 /\ E[1].kind = "end"
  BY <1>1, OneTold DEF Kinds, Emitted
<1>3. PICK s, m, l, e, Sb, todo :
        /\ s = Len(S) /\ m = Len(body) /\ l = Len(Sb) /\ e = Len(E)
        /\ Sb = S \o body /\ todo = Sb \o E
  OBVIOUS
<1>4. /\ Sb \in Seq(Item) /\ Len(Sb) = s + m /\ s \in Nat /\ m \in Nat
      /\ \A q \in 1..s : Sb[q] = S[q]
      /\ \A q \in s + 1..s + m : Sb[q] = body[q - s] /\ q - s \in 1..m
  <2>1. S \in Seq(Item) /\ body \in Seq(Item) /\ s = Len(S) /\ m = Len(body) /\ Sb = S \o body
    BY <1>2, <1>3
  <2>. QED BY ONLY <2>1, ConcatTold
<1>5. /\ todo \in Seq(Item) /\ Len(todo) = l + e /\ l \in Nat /\ e \in Nat
      /\ \A q \in 1..l : todo[q] = Sb[q]
      /\ \A q \in l + 1..l + e : todo[q] = E[q - l] /\ q - l \in 1..e
  BY <1>2, <1>3, <1>4, ConcatTold
<1>6. ASSUME NEW q \in 1..Len(todo)  PROVE todo[q].kind \in K \cup {"start", "end"}
  BY <1>2, <1>3, <1>4, <1>5
<1>7. todo = Visited(body, id) BY <1>1, <1>3 DEF Visited
<1>. QED BY <1>5, <1>6, <1>7

ModelKinds == {"payload", "request", "delta", "answer", "message", "record", "response"}

LEMMA BodyTodo ==
  ASSUME NEW id \in Nat
  PROVE  /\ Visited(ModelBody, id) \in Seq(Item) /\ Visited(AgentBody, id) \in Seq(Item)
         /\ \A q \in 1..Len(Visited(ModelBody, id)) :
              Visited(ModelBody, id)[q].kind \in ModelKinds \cup {"start", "end"}
         /\ \A q \in 1..Len(Visited(AgentBody, id)) :
              Visited(AgentBody, id)[q].kind \in {"agent"} \cup {"start", "end"}
<1>1. /\ ModelBody \in Seq(Item)
      /\ \A q \in 1..Len(ModelBody) : ModelBody[q].kind \in ModelKinds
  <2>1. ASSUME NEW kind \in ModelKinds  PROVE Tell(kind, 0) \in Item /\ Tell(kind, 0).kind = kind
    BY DEF ModelKinds, Tell, Item, Kinds, Emitted, Notified
  <2>2. PICK m, d, e, f, g, h, i :
          /\ m = Tell("payload", 0) /\ d = Tell("request", 0) /\ e = Tell("delta", 0)
          /\ f = Tell("answer", 0) /\ g = Tell("message", 0) /\ h = Tell("record", 0)
          /\ i = Tell("response", 0)
    OBVIOUS
  <2>3. /\ {m, d, e, f, g, h, i} \subseteq Item
        /\ \A x \in {m, d, e, f, g, h, i} : x.kind \in ModelKinds
    BY <2>1, <2>2 DEF ModelKinds
  <2>4. ModelBody = <<m, d, e, f, g, h, m, i>> BY <2>2 DEF ModelBody
  <2>. QED BY <2>3, <2>4
<1>2. /\ AgentBody \in Seq(Item)
      /\ \A q \in 1..Len(AgentBody) : AgentBody[q].kind \in {"agent"}
  BY DEF AgentBody, Tell, Item
<1>3. PICK K : K = {"agent"} OBVIOUS
<1>4. /\ Visited(AgentBody, id) \in Seq(Item)
      /\ \A q \in 1..Len(Visited(AgentBody, id)) :
           Visited(AgentBody, id)[q].kind \in K \cup {"start", "end"}
  BY <1>2, <1>3, VisitedTodo
<1>5. /\ Visited(ModelBody, id) \in Seq(Item)
      /\ \A q \in 1..Len(Visited(ModelBody, id)) :
           Visited(ModelBody, id)[q].kind \in ModelKinds \cup {"start", "end"}
  BY <1>1, VisitedTodo
<1>. QED BY <1>3, <1>4, <1>5

-------------------------------------------------------------
(* The steps of a flow, but for those of its calls.                        *)

LEMMA RunIdType == RunIds \subseteq Nat /\ \A f \in RunType : f.id \in Nat
BY EventBoundAssumption DEF RunIds, RunType

\* The flow makes no call, and its innermost run goes on as f.
LEMMA FlowInv ==
  ASSUME Inv, Silence, Idle, NEW f \in RunType, SameTraced(f, Top), runs' = WithTop(f),
         usage' \in Usages, UNCHANGED <<on_event, calling, started, left, working>>,
         acts' \in 0..MaxActs, ToolsOK', called <= called',
         \A q \in 1..Len(f.todo) : Known(f.todo[q], called')
  PROVE  Inv'
<1>1. RunsOK /\ runs # <<>> /\ hosted' = hosted
  BY DEF Inv, TypeOK, Idle, Silence, hosts
<1>2. RunsOK' /\ runs' # <<>>
  BY <1>1, TopGoesOn
<1>3. \A w \in Workers : calling[w] # <<>> =>
        working'[w].told /\ working'[w].call = working[w].call
  BY DEF Inv, CallInv
<1>4. TodoInv' BY <1>1, TodoKept DEF Inv, TypeOK, ToolsOK
<1>. QED BY <1>2, <1>3, <1>4, NoCallInv

LEMMA VisitInv ==
  ASSUME Inv, NEW body, Visit(body), Visited(body, Top.id) \in Seq(Item),
         called' \in Nat, called <= called',
         \A q \in 1..Len(Visited(body, Top.id)) :
           Visited(body, Top.id)[q].kind \in {"call", "submit", "result"} =>
             Visited(body, Top.id)[q].of \in 1..called'
  PROVE  Inv'
<1>1. Top \in RunType /\ usage \in Usages
  BY TopRun DEF Inv, TypeOK, RunsOK, Visit, Between, Idle
<1>2. PICK todo, n : todo = Visited(body, Top.id) /\ n = Top.visits + 1
  OBVIOUS
<1>3. todo \in Seq(Item) /\ n \in Nat
  BY <1>1, <1>2 DEF RunType
<1>4. [Top EXCEPT !.visits = n, !.todo = todo] \in RunType
      /\ SameTraced([Top EXCEPT !.visits = n, !.todo = todo], Top)
  BY <1>1, <1>3, RunEdits
<1>5. runs' = WithTop([Top EXCEPT !.visits = n, !.todo = todo])
  BY <1>1, <1>2 DEF RunType, Visited, Visit
<1>6. ToolsOK' BY SeqMonotonic DEF Inv, TypeOK, ToolsOK, Visit
<1>7. Silence /\ Idle /\ UNCHANGED <<on_event, calling, started, usage, left, working, acts>>
  BY DEF Visit, Silence, Between
<1>8. usage' \in Usages /\ acts' \in 0..MaxActs
  BY <1>1, <1>7 DEF Inv, TypeOK, StreamOK
<1>9. PICK f \in RunType :
        /\ f = [Top EXCEPT !.visits = n, !.todo = todo]
        /\ SameTraced(f, Top) /\ runs' = WithTop(f)
  BY <1>4, <1>5
<1>10. \A q \in 1..Len(f.todo) : Known(f.todo[q], called')
  BY <1>1, <1>2, <1>9 DEF RunType, Known
<1>. QED BY <1>6, <1>7, <1>8, <1>9, <1>10, FlowInv

LEMMA VisitsInv ==
  ASSUME Inv, VisitModel \/ VisitAgent \/ VisitTools
  PROVE  Inv'
<1>1. called \in Nat /\ started \in Nat
  BY EventBoundAssumption DEF Inv, TypeOK, ToolsOK, RunsOK
<1>2. runs # <<>> => Top.id \in Nat
  BY TopRun, RunIdType DEF Inv, TypeOK
<1>3. CASE VisitModel
  <2>1. Visit(ModelBody) /\ called' = called /\ runs # <<>>
    BY <1>3 DEF VisitModel, Visit, Between, Idle
  <2>2. /\ Visited(ModelBody, Top.id) \in Seq(Item)
        /\ \A q \in 1..Len(Visited(ModelBody, Top.id)) :
             Visited(ModelBody, Top.id)[q].kind \in ModelKinds \cup {"start", "end"}
    BY <1>2, <2>1, BodyTodo
  <2>3. called' \in Nat /\ called <= called'
    BY <1>1, <2>1
  <2>4. \A q \in 1..Len(Visited(ModelBody, Top.id)) :
          Visited(ModelBody, Top.id)[q].kind \notin {"call", "submit", "result"}
    BY <2>2 DEF ModelKinds
  <2>. QED BY <2>1, <2>2, <2>3, <2>4, VisitInv
<1>4. CASE VisitAgent
  <2>1. Visit(AgentBody) /\ called' = called /\ runs # <<>>
    BY <1>4 DEF VisitAgent, Visit, Between, Idle
  <2>2. /\ Visited(AgentBody, Top.id) \in Seq(Item)
        /\ \A q \in 1..Len(Visited(AgentBody, Top.id)) :
             Visited(AgentBody, Top.id)[q].kind \in {"agent"} \cup {"start", "end"}
    BY <1>2, <2>1, BodyTodo
  <2>3. called' \in Nat /\ called <= called'
    BY <1>1, <2>1
  <2>4. \A q \in 1..Len(Visited(AgentBody, Top.id)) :
          Visited(AgentBody, Top.id)[q].kind \notin {"call", "submit", "result"}
    BY <2>2
  <2>. QED BY <2>1, <2>2, <2>3, <2>4, VisitInv
<1>5. CASE VisitTools
  <2>1. PICK n \in 1..MaxWork - started - called :
          Visit(ToolBody([k \in 1..n |-> called + k])) /\ called' = called + n
    BY <1>5 DEF VisitTools
  <2>2. n \in Nat \ {0} /\ called + n \in Nat /\ called <= called + n
    BY <1>1, EventBoundAssumption
  <2>3. Visit(ToolBody(Batch(called, n))) /\ runs # <<>>
    BY <2>1 DEF Batch, Visit, Between, Idle
  <2>4. PICK todo, a :
          /\ a \in Nat /\ todo = Visited(ToolBody(Batch(called, n)), Top.id)
          /\ todo \in Seq(Item) /\ ToolVisit(todo, called, a, a + n)
    <3>1. called \in Nat /\ n \in Nat \ {0}
      BY <1>1, <2>2
    <3>2. PICK id \in Nat : id = Top.id BY <1>2, <2>3
    <3>3. /\ Visited(ToolBody(Batch(called, n)), id) \in Seq(Item)
          /\ \E a \in Nat : ToolVisit(Visited(ToolBody(Batch(called, n)), id), called, a, a + n)
      BY ONLY <3>1, <3>2, ToolTodo
    <3>. QED BY <3>2, <3>3
  <2>5. ASSUME NEW q \in 1..Len(todo), todo[q].kind \in {"call", "submit", "result"}
        PROVE  todo[q].of \in 1..called + n
    <3>1. ToolItem(todo[q], q, called, a, a + n) /\ q \in Nat
      BY <2>4 DEF ToolVisit
    <3>2. CASE todo[q].kind = "submit"
      BY <1>1, <2>2, <2>4, <3>1, <3>2 DEF ToolItem, Tell
    <3>3. CASE todo[q].kind # "submit"
      <4>0. todo[q].kind \in {"call", "result"} BY <2>5, <3>3
      <4>1. PICK b \in Nat : b = a + n /\ b - a = n
        BY <2>2, <2>4
      <4>2. ToolItem(todo[q], q, called, a, b) BY <3>1, <4>1
      <4>3. todo[q].of \in called + 1..called + (b - a) BY <4>0, <4>2 DEF ToolItem
      <4>. QED BY <1>1, <2>2, <4>1, <4>3
    <3>. QED BY <3>2, <3>3
  <2>6. called' \in Nat /\ called <= called'
    BY <2>1, <2>2
  <2>7. \A q \in 1..Len(Visited(ToolBody(Batch(called, n)), Top.id)) :
          Visited(ToolBody(Batch(called, n)), Top.id)[q].kind \in {"call", "submit", "result"} =>
            Visited(ToolBody(Batch(called, n)), Top.id)[q].of \in 1..called'
    BY <2>1, <2>4, <2>5
  <2>. QED BY <2>3, <2>4, <2>6, <2>7, VisitInv
<1>. QED BY <1>3, <1>4, <1>5

LEMMA ConcludeInv ==
  ASSUME Inv, NEW how \in {"end", "raised"}, Conclude(how)
  PROVE  Inv'
<1>1. Top \in RunType /\ usage \in Usages /\ acts \in 0..MaxActs
  BY TopRun DEF Inv, TypeOK, RunsOK, StreamOK, Conclude, Between, Idle
<1>2. PICK todo : todo = <<Tell("verdict", Top.id)>> OBVIOUS
<1>3. todo \in Seq(Item) /\ Len(todo) = 1 /\ todo[1].kind = "verdict"
  BY <1>1, <1>2, OneTold, RunIdType DEF Kinds, Emitted
<1>4. PICK f \in RunType : SameTraced(f, Top) /\ runs' = WithTop(f) /\ f.todo = todo
  <2>1. PICK f : f = [Top EXCEPT !.over = TRUE, !.how = how, !.todo = todo] OBVIOUS
  <2>2. f \in RunType /\ SameTraced(f, Top)
    BY <1>1, <1>3, <2>1, RunEdits
  <2>3. f.todo = todo BY <1>1, <2>1 DEF RunType
  <2>4. runs' = WithTop(f) BY <1>2, <2>1 DEF Conclude
  <2>. QED BY <2>2, <2>3, <2>4
<1>5. ToolsOK' /\ called <= called'
  BY DEF Inv, TypeOK, ToolsOK, tools, Conclude
<1>6. Silence /\ Idle /\ UNCHANGED <<on_event, calling, started, usage, left, working, acts>>
  BY DEF Conclude, Silence, Between, tools
<1>7. \A q \in 1..Len(f.todo) : Known(f.todo[q], called')
  <2>1. ASSUME NEW q \in 1..Len(f.todo)  PROVE f.todo[q].kind = "verdict"
    <3>1. Len(f.todo) = 1 /\ q \in 1..Len(f.todo)
      BY <1>3, <1>4, <2>1
    <3>2. q = 1 BY ONLY <3>1
    <3>. QED BY <1>3, <1>4, <3>2
  <2>. QED BY <2>1 DEF Known
<1>8. usage' \in Usages /\ acts' \in 0..MaxActs
  BY <1>1, <1>6
<1>. QED BY <1>4, <1>5, <1>6, <1>7, <1>8, FlowInv

LEMMA RecordedType ==
  ASSUME NEW u \in Usages, NEW r \in Reports
  PROVE  Recorded(u, r) \in Usages
BY DEF Recorded, Usages, One

\* What is left to tell once the first item is told.
LEMMA DoneKnown ==
  ASSUME Inv, runs # <<>>, Top.todo # <<>>, called' = called
  PROVE  /\ \A q \in 1..Len(Done.todo) : Known(Done.todo[q], called')
         /\ Known(Head(Top.todo), called)
         /\ Len(Top.todo) \in Nat \ {0} /\ Len(Done.todo) = Len(Top.todo) - 1
         /\ \A q \in 1..Len(Done.todo) : Done.todo[q] = Top.todo[q + 1]
<1>1. RunsOK /\ TodoInv
  BY DEF Inv, TypeOK
<1>2. /\ Len(runs) \in Nat \ {0} /\ Top = runs[Len(runs)]
      /\ Top.todo \in Seq(Item) /\ Len(Top.todo) \in Nat \ {0}
  BY <1>1, TopRun, EmptySeq DEF RunType
<1>3. Done.todo = Tail(Top.todo) /\ Head(Top.todo) = Top.todo[1]
  BY <1>1, DoneRun
<1>4. /\ Len(Done.todo) = Len(Top.todo) - 1
      /\ \A q \in 1..Len(Done.todo) : Done.todo[q] = Top.todo[q + 1]
  BY <1>2, <1>3, HeadTailProperties
<1>5. \A q \in 1..Len(Top.todo) : Known(Top.todo[q], called)
  BY <1>1, <1>2 DEF TodoInv
<1>6. ASSUME NEW q \in 1..Len(Done.todo)  PROVE Known(Top.todo[q + 1], called)
  BY <1>2, <1>4, <1>5
<1>7. \A q \in 1..Len(Done.todo) :
        Done.todo[q].kind \in {"call", "submit", "result"} => Done.todo[q].of \in 1..called'
  BY <1>4, <1>6 DEF Known
<1>8. Known(Head(Top.todo), called) BY <1>2, <1>3, <1>5
<1>9. \A q \in 1..Len(Done.todo) : Known(Done.todo[q], called')
  BY <1>7 DEF Known
<1>. QED BY <1>2, <1>4, <1>8, <1>9

\* The innermost run has told, or done, the next thing.
LEMMA TopDone ==
  ASSUME Inv, runs # <<>>, Top.todo # <<>>, called' = called
  PROVE  /\ Done \in RunType
         /\ \E f \in RunType :
              /\ f = Done /\ SameTraced(f, Top) /\ f.todo = Tail(Top.todo)
              /\ \A q \in 1..Len(f.todo) : Known(f.todo[q], called')
<1>1. PICK f : f = Done OBVIOUS
<1>2. RunsOK BY DEF Inv, TypeOK
<1>3. f \in RunType /\ SameTraced(f, Top) /\ f.todo = Tail(Top.todo)
  BY <1>1, <1>2, DoneRun
<1>4. \A q \in 1..Len(Done.todo) : Known(Done.todo[q], called')
  BY DoneKnown
<1>. QED BY <1>1, <1>3, <1>4

LEMMA ItemsInv ==
  ASSUME Inv, Record \/ Submit \/ Join
  PROVE  Inv'
<1>1. /\ Idle /\ runs # <<>> /\ Top.todo # <<>> /\ called' = called
      /\ runs' = WithTop(Done) /\ Silence
      /\ UNCHANGED <<on_event, calling, started, left, working, acts>>
  BY DEF Record, Submit, Join, Due, Idle, Runs, Silence, tools
<1>2. PICK f \in RunType :
        /\ f = Done /\ SameTraced(f, Top)
        /\ \A q \in 1..Len(f.todo) : Known(f.todo[q], called')
  BY <1>1, TopDone
<1>3. usage' \in Usages
  <2>1. usage \in Usages /\ Top \in RunType
    BY <1>1, TopRun DEF Inv, TypeOK, RunsOK
  <2>2. Recorded(usage, Top.report) \in Usages BY <2>1, RecordedType DEF RunType
  <2>. QED BY <2>1, <2>2 DEF Record, Submit, Join, Runs
<1>4. ToolsOK'
  <2>1. CASE Record \/ Join
    BY <2>1 DEF Record, Join, Inv, TypeOK, ToolsOK, tools
  <2>2. CASE Submit
    <3>1. Head(Top.todo).kind = "submit" /\ Known(Head(Top.todo), called)
      BY <1>1, <2>2, DoneKnown DEF Submit, Due
    <3>2. PICK of : of = Head(Top.todo).of OBVIOUS
    <3>3. of \in 1..called BY <3>1, <3>2 DEF Known
    <3>4. queue \in Seq(1..called) /\ queue' = Append(queue, of) /\ open' = open \cup {of}
      BY <2>2, <3>2 DEF Submit, Inv, TypeOK, ToolsOK
    <3>5. queue' \in Seq(1..called) BY <3>3, <3>4, AppendProperties
    <3>. QED BY <1>1, <3>3, <3>4, <3>5 DEF Inv, TypeOK, ToolsOK
  <2>. QED BY <2>1, <2>2
<1>5. called <= called' /\ acts' \in 0..MaxActs
  BY <1>1 DEF Inv, TypeOK, ToolsOK, StreamOK
<1>6. runs' = WithTop(f) BY <1>1, <1>2
<1>7. \A q \in 1..Len(f.todo) : Known(f.todo[q], called')
  BY <1>2
<1>. QED BY <1>1, <1>2, <1>3, <1>4, <1>5, <1>6, <1>7, FlowInv

LEMMA AbandonInv ==
  ASSUME Inv, Abandon
  PROVE  Inv'
<1>1. /\ Idle /\ runs # <<>> /\ called' = called /\ Silence
      /\ UNCHANGED <<on_event, calling, started, usage, left, working>>
      /\ queue' = <<>> /\ open' = {}
  BY DEF Abandon, Due, Idle, Silence
<1>2. Top \in RunType BY <1>1, TopRun DEF Inv, TypeOK
<1>3. PICK f \in RunType :
        /\ SameTraced(f, Top) /\ runs' = WithTop(f)
        /\ \A q \in 1..Len(f.todo) : f.todo[q].kind \in {"end", "verdict"}
  BY <1>2, FailedRun DEF Abandon
<1>4. acts' \in 0..MaxActs
  <2>1. PICK busy : busy = {w \in Workers : working[w] # Resting} OBVIOUS
  <2>2. busy \subseteq Workers /\ IsFiniteSet(Workers)
    BY <2>1, ThreadAssumption
  <2>3. IsFiniteSet(busy) BY <2>2, FS_Subset
  <2>4. Cardinality(busy) \in Nat BY <2>3, FS_CardinalityType
  <2>5. Act(Cardinality(busy)) BY <2>1 DEF Abandon
  <2>. QED BY <2>4, <2>5, EventBoundAssumption DEF Act, Inv, TypeOK, StreamOK
<1>5. ToolsOK' BY <1>1, EmptySeq DEF Inv, TypeOK, ToolsOK
<1>6. called <= called' /\ usage' \in Usages
  BY <1>1 DEF Inv, TypeOK, ToolsOK, RunsOK
<1>7. \A q \in 1..Len(f.todo) : Known(f.todo[q], called')
  BY <1>3 DEF Known
<1>. QED BY <1>1, <1>3, <1>4, <1>5, <1>6, <1>7, FlowInv

\* How a run ends, if it has.
SameEnd(f, g) == f.over = g.over /\ f.cut = g.cut

\* The answer's report counts for every run in progress.
LEMMA AnswerRuns ==
  ASSUME Inv, Answer
  PROVE  /\ runs # <<>> /\ Top.todo # <<>> /\ Head(Top.todo).kind = "answer"
         /\ runs' \in Seq(RunType) /\ Len(runs') = Len(runs)
         /\ \A n \in 1..Len(runs) :
              /\ SameTraced(runs'[n], runs[n]) /\ SameEnd(runs'[n], runs[n])
              /\ runs'[n].todo = IF n = Len(runs) THEN Tail(Top.todo) ELSE runs[n].todo
              /\ \A q \in 1..Len(runs'[n].todo) : Known(runs'[n].todo[q], called')
<1>1. /\ Idle /\ runs # <<>> /\ Top.todo # <<>> /\ called' = called
      /\ Head(Top.todo).kind = "answer"
  BY DEF Answer, Due, Idle, tools
<1>2. PICK f \in RunType :
        /\ f = Done /\ SameTraced(f, Top) /\ f.todo = Tail(Top.todo)
        /\ \A q \in 1..Len(f.todo) : Known(f.todo[q], called')
  BY <1>1, TopDone
<1>3. PICK base : base = WithTop(f) OBVIOUS
<1>4. PICK r \in Reports :
        runs' = [n \in DOMAIN runs |->
                   [base[n] EXCEPT !.reports = Append(@, r),
                                   !.report = IF n = Len(runs) THEN r ELSE @]]
  <2>1. base = WithTop(Done) BY <1>2, <1>3
  <2>2. PICK r \in Reported :
          runs' = [n \in DOMAIN runs |->
                     [WithTop(Done)[n] EXCEPT !.reports = Append(@, r),
                                              !.report = IF n = Len(runs) THEN r ELSE @]]
    BY ONLY Answer DEF Answer
  <2>3. r \in Reports BY <2>2, HostAssumption
  <2>. QED BY ONLY <2>1, <2>2, <2>3
<1>5. /\ RunsOK /\ Len(runs) \in Nat \ {0} /\ Top = runs[Len(runs)]
      /\ \A n \in 1..Len(runs) : runs[n] \in RunType
  BY <1>1, TopRun DEF Inv, TypeOK
<1>6. /\ \A n \in 1..Len(runs) - 1 : base[n] = runs[n]
      /\ base[Len(runs)] = f
  BY <1>1, <1>3, <1>5, WithTopLemma
<1>7. ASSUME NEW n \in 1..Len(runs)
      PROVE  /\ base[n] \in RunType /\ SameTraced(base[n], runs[n])
             /\ SameEnd(base[n], runs[n])
             /\ \A q \in 1..Len(base[n].todo) : Known(base[n].todo[q], called')
             /\ base[n].todo = IF n = Len(runs) THEN Tail(Top.todo) ELSE runs[n].todo
  <2>1. CASE n = Len(runs)
    <3>1. Done.over = Top.over /\ Done.cut = Top.cut
      BY <1>5, <2>1 DEF Done, RunType
    <3>. QED BY <1>2, <1>5, <1>6, <2>1, <3>1 DEF SameEnd
  <2>2. CASE n # Len(runs)
    BY <1>1, <1>5, <1>6, <2>2 DEF SameTraced, SameEnd, Inv, TodoInv
  <2>. QED BY <2>1, <2>2
<1>8. DOMAIN runs = 1..Len(runs) BY <1>5 DEF RunsOK
<1>9. ASSUME NEW g \in RunType, NEW last \in BOOLEAN
      PROVE  LET h == [g EXCEPT !.reports = Append(@, r), !.report = IF last THEN r ELSE @]
             IN h \in RunType /\ SameTraced(h, g) /\ SameEnd(h, g) /\ h.todo = g.todo
  <2>1. PICK more : more = Append(g.reports, r) OBVIOUS
  <2>2. more \in Seq(Reports) BY <2>1, AppendProperties DEF RunType
  <2>3. [g EXCEPT !.reports = Append(@, r), !.report = IF last THEN r ELSE @]
          = [g EXCEPT !.reports = more, !.report = IF last THEN r ELSE @]
    BY <2>1 DEF RunType
  <2>. QED BY <2>2, <2>3 DEF RunType, SameTraced, SameEnd
<1>10. ASSUME NEW n \in 1..Len(runs)
       PROVE  /\ runs'[n] \in RunType /\ SameTraced(runs'[n], runs[n])
              /\ SameEnd(runs'[n], runs[n])
              /\ \A q \in 1..Len(runs'[n].todo) : Known(runs'[n].todo[q], called')
              /\ runs'[n].todo = IF n = Len(runs) THEN Tail(Top.todo) ELSE runs[n].todo
  <2>1. runs'[n] = [base[n] EXCEPT !.reports = Append(@, r),
                                   !.report = IF n = Len(runs) THEN r ELSE @]
    BY <1>4, <1>8
  <2>2. /\ runs'[n] \in RunType /\ SameTraced(runs'[n], base[n])
        /\ SameEnd(runs'[n], base[n]) /\ runs'[n].todo = base[n].todo
    <3>1. PICK g \in RunType : g = base[n] BY <1>7
    <3>2. PICK last \in BOOLEAN : last <=> n = Len(runs)
      OBVIOUS
    <3>3. PICK h : h = [g EXCEPT !.reports = Append(@, r), !.report = IF last THEN r ELSE @]
      OBVIOUS
    <3>4. h \in RunType /\ SameTraced(h, g) /\ SameEnd(h, g) /\ h.todo = g.todo
      BY <1>9, <3>1, <3>2, <3>3
    <3>5. runs'[n] = h BY <2>1, <3>1, <3>2, <3>3
    <3>. QED BY <3>1, <3>4, <3>5
  <2>. QED BY <1>7, <2>2 DEF SameTraced, SameEnd
<1>11. runs' \in Seq(RunType) /\ Len(runs') = Len(runs)
  <2>1. runs' \in [1..Len(runs) -> RunType] BY <1>4, <1>8, <1>10
  <2>2. Len(runs) \in Nat BY <1>5
  <2>. QED BY <2>1, <2>2, FunctionIsSeq
<1>. QED BY <1>1, <1>10, <1>11

LEMMA AnswerInv ==
  ASSUME Inv, Answer
  PROVE  Inv'
<1>1. /\ RunsOK /\ Idle /\ runs # <<>> /\ Silence
      /\ UNCHANGED <<on_event, calling, started, usage, left, called, queue, open, working, acts>>
  BY DEF Inv, TypeOK, Answer, Due, Idle, Silence, tools
<1>2. /\ runs' \in Seq(RunType) /\ Len(runs') = Len(runs)
      /\ \A n \in 1..Len(runs) : SameTraced(runs'[n], runs[n])
      /\ \A n \in 1..Len(runs) : \A q \in 1..Len(runs'[n].todo) : Known(runs'[n].todo[q], called')
  BY AnswerRuns
<1>3. RunsOK' /\ TodoInv' /\ ToolsOK'
  <2>1. usage' \in Usages /\ hosted' = hosted
    BY <1>1 DEF RunsOK, Silence, hosts
  <2>2. RunsOK' BY <1>1, <1>2, <2>1, SameRuns
  <2>3. TodoInv' BY <1>2 DEF TodoInv
  <2>4. ToolsOK' BY <1>1 DEF Inv, TypeOK, ToolsOK
  <2>. QED BY <2>2, <2>3, <2>4
<1>4. acts' \in 0..MaxActs /\ calling[Flow] = <<>> /\ runs' # <<>>
  BY <1>1, <1>2, TopRun, EmptySeq DEF Inv, TypeOK, StreamOK, Idle
<1>5. \A w \in Workers : calling[w] # <<>> =>
        working'[w].told /\ working'[w].call = working[w].call
  BY <1>1 DEF Inv, CallInv
<1>. QED BY <1>1, <1>3, <1>4, <1>5, NoCallInv

-------------------------------------------------------------
(* Runs begin and end.                                                     *)

\* Runs that stay are still to be told of the same.
LEMMA SameBelow ==
  ASSUME RunsOK, NEW m \in 0..Len(runs), hosted' = hosted,
         \A n \in 1..m : SameTraced(runs'[n], runs[n])
  PROVE  /\ \A n \in 0..m : Listening(n)' = Listening(n)
         /\ \A n \in 1..m : runs'[n].before = Listening(n - 1)'
<1>1. Len(runs) \in Nat BY LenProperties DEF RunsOK
<1>2. ASSUME NEW n \in 0..m  PROVE Listening(n)' = Listening(n)
  <2>1. CASE n = 0 BY <2>1 DEF Listening
  <2>2. CASE n # 0 BY <1>1, <2>2 DEF Listening, SameTraced
  <2>. QED BY <2>1, <2>2
<1>3. ASSUME NEW n \in 1..m  PROVE runs'[n].before = Listening(n - 1)'
  BY <1>1, <1>2 DEF SameTraced, RunsOK
<1>. QED BY <1>2, <1>3

\* A run is entered: it is around the others, and the node that called it has
\* done so.
Entered(run, base, traced) ==
  /\ run \in RunType /\ base \in Seq(RunType)
  /\ run.id = started + 1 /\ run.traced = traced /\ run.before = on_event
  /\ run.todo = <<>> /\ ~run.over /\ run.since = usage /\ run.reports = <<>>
  /\ Len(base) = Len(runs) /\ runs' = Append(base, run)
  /\ \A n \in 1..Len(runs) : SameTraced(base[n], runs[n])
  /\ \A n \in 1..Len(runs) - 1 : base[n] = runs[n]
  /\ runs # <<>> => /\ Top.todo # <<>> /\ Head(Top.todo).kind = "agent"
                   /\ base[Len(runs)] = Done /\ Done.todo = Tail(Top.todo)
  /\ \A n \in 1..Len(runs) : \A q \in 1..Len(base[n].todo) :
       Known(base[n].todo[q], called')

LEMMA EnterRuns ==
  ASSUME Inv, NEW traced \in BOOLEAN, Enter(traced)
  PROVE  \E run, base : Entered(run, base, traced)
<1>1. /\ RunsOK /\ TodoInv /\ runs \in Seq(RunType) /\ Len(runs) \in Nat
      /\ started \in Nat /\ MaxRuns \in Nat /\ started < MaxRuns /\ called' = called
  BY LenProperties, EventBoundAssumption DEF Inv, TypeOK, RunsOK, Enter, MayStart, tools
<1>2. PICK id : id = started + 1 OBVIOUS
<1>3. PICK run :
        run = [id |-> id, traced |-> traced, before |-> on_event, since |-> usage,
               todo |-> <<>>, over |-> FALSE, visits |-> 0, reports |-> <<>>,
               report |-> {}, how |-> "end", cut |-> FALSE]
  OBVIOUS
<1>4. /\ run \in RunType /\ run.id = id /\ run.traced = traced /\ run.before = on_event
      /\ run.todo = <<>> /\ ~run.over /\ run.since = usage /\ run.reports = <<>>
  BY <1>1, <1>2, <1>3, EmptySeq DEF RunIds, RunsOK, Reports, RunType
<1>5. runs # <<>> => Top.todo # <<>> /\ Head(Top.todo).kind = "agent"
  BY DEF Enter, Due, Idle
<1>6. CASE runs = <<>>
  <2>1. runs' = <<run>> BY <1>2, <1>3, <1>6 DEF Enter, Due, Idle
  <2>2. runs' = Append(runs, run) BY <1>6, <2>1
  <2>3. \A n \in 1..Len(runs) : FALSE
    BY <1>6
  <2>4. \A n \in 1..Len(runs) - 1 : FALSE
    BY <1>6
  <2>5. Entered(run, runs, traced)
    BY ONLY <1>1, <1>2, <1>4, <1>5, <1>6, <2>2, <2>3, <2>4 DEF Entered
  <2>. QED BY <2>5
<1>7. CASE runs # <<>>
  <2>1. runs' = Append(WithTop(Done), run) BY <1>2, <1>3, <1>7 DEF Enter, Due
  <2>2. PICK f \in RunType :
          /\ f = Done /\ SameTraced(f, Top) /\ f.todo = Tail(Top.todo)
          /\ \A q \in 1..Len(f.todo) : Known(f.todo[q], called')
    BY <1>1, <1>5, <1>7, TopDone
  <2>3. PICK base : base = WithTop(f) OBVIOUS
  <2>4. /\ base \in Seq(RunType) /\ Len(base) = Len(runs)
        /\ \A n \in 1..Len(runs) - 1 : base[n] = runs[n]
        /\ base[Len(runs)] = f
    BY <1>1, <1>7, <2>3, WithTopLemma
  <2>5. Top = runs[Len(runs)] BY <1>1, <1>7, TopRun
  <2>6. ASSUME NEW n \in 1..Len(runs)
        PROVE  /\ SameTraced(base[n], runs[n])
               /\ \A q \in 1..Len(base[n].todo) : Known(base[n].todo[q], called')
    <3>1. CASE n = Len(runs) BY <2>2, <2>4, <2>5, <3>1
    <3>2. CASE n # Len(runs) BY <1>1, <2>4, <3>2 DEF SameTraced, TodoInv
    <3>. QED BY <3>1, <3>2
  <2>7. runs' = Append(base, run) BY <2>1, <2>2, <2>3
  <2>8. base[Len(runs)] = Done /\ Done.todo = Tail(Top.todo)
    BY <2>2, <2>4
  <2>9. Entered(run, base, traced)
    BY ONLY <1>1, <1>2, <1>4, <1>5, <2>4, <2>6, <2>7, <2>8 DEF Entered
  <2>. QED BY <2>9
<1>. QED BY <1>6, <1>7

LEMMA EnterInv ==
  ASSUME Inv, NEW traced \in BOOLEAN, Enter(traced)
  PROVE  Inv'
<1>1. /\ RunsOK /\ TodoInv /\ Len(runs) \in Nat
      /\ started \in Nat /\ MaxRuns \in Nat /\ started < MaxRuns /\ started' = started + 1
  BY LenProperties, EventBoundAssumption DEF Inv, TypeOK, RunsOK, Enter, MayStart
<1>2. PICK id : id = started + 1 OBVIOUS
<1>5. /\ on_event' = IF traced THEN Append(on_event, id) ELSE on_event
      /\ UNCHANGED <<calling, usage, called, queue, open, working, acts, left>>
      /\ Silence /\ calling[Flow] = <<>>
  BY <1>2 DEF Enter, Chained, Silence, tools
<1>3. PICK run, base : Entered(run, base, traced) BY EnterRuns
<1>7. /\ run \in RunType /\ base \in Seq(RunType)
      /\ run.id = id /\ run.traced = traced /\ run.before = on_event /\ run.todo = <<>>
      /\ Len(base) = Len(runs) /\ runs' = Append(base, run)
      /\ \A n \in 1..Len(runs) : SameTraced(base[n], runs[n])
      /\ \A n \in 1..Len(runs) : \A q \in 1..Len(base[n].todo) :
           Known(base[n].todo[q], called')
  BY <1>2, <1>3 DEF Entered
<1>4. \A q \in 1..Len(run.todo) : FALSE
  BY <1>7, EmptySeq
<1>8. PICK m \in Nat : m = Len(runs) BY <1>1
<1>9. /\ runs' \in Seq(RunType) /\ Len(runs') = m + 1 /\ runs'[m + 1] = run
      /\ \A n \in 1..m : runs'[n] = base[n]
  BY <1>7, <1>8, AppendProperties
<1>10. /\ \A n \in 0..m : Listening(n)' = Listening(n)
       /\ \A n \in 1..m : runs'[n].before = Listening(n - 1)'
  <2>1. hosted' = hosted /\ m \in 0..Len(runs)
    BY <1>5, <1>8 DEF Silence, hosts
  <2>2. \A n \in 1..m : SameTraced(runs'[n], runs[n])
    BY <1>7, <1>8, <1>9
  <2>. QED BY <1>1, <2>1, <2>2, SameBelow
<1>11. RunsOK'
  <2>1. on_event = Listening(m) /\ on_event \in Seq(Subscribers)
    BY <1>1, <1>8 DEF RunsOK
  <2>2. on_event' = Listening(m + 1)'
    <3>1. m + 1 # 0 BY <1>8
    <3>. QED BY <1>5, <1>7, <1>9, <3>1 DEF Listening
  <2>3. on_event' \in Seq(Subscribers)
    BY <1>1, <1>2, <1>5, <2>1, AppendProperties DEF Subscribers, RunIds
  <2>4. ASSUME NEW n \in 1..Len(runs')  PROVE runs'[n].before = Listening(n - 1)'
    <3>1. CASE n = m + 1 BY <1>7, <1>8, <1>9, <1>10, <2>1, <3>1
    <3>2. CASE n # m + 1 BY <1>9, <1>10, <3>2
    <3>. QED BY <3>1, <3>2
  <2>5. started' \in 0..MaxRuns /\ usage' \in Usages
        /\ \A o \in left' : o.id \in RunIds /\ o.how \in {"end", "raised"}
    BY <1>1, <1>5 DEF RunsOK
  <2>. QED BY <1>9, <2>2, <2>3, <2>4, <2>5 DEF RunsOK
<1>12. TodoInv'
  <2>1. ASSUME NEW n \in 1..Len(runs'), NEW q \in 1..Len(runs'[n].todo)
        PROVE  Known(runs'[n].todo[q], called')
    BY <1>4, <1>7, <1>8, <1>9, <2>1
  <2>. QED BY <2>1 DEF TodoInv
<1>13. ToolsOK' /\ acts' \in 0..MaxActs
  BY <1>5 DEF Inv, TypeOK, ToolsOK, StreamOK
<1>14. \A w \in Workers : calling[w] # <<>> =>
         working'[w].told /\ working'[w].call = working[w].call
  BY <1>5 DEF Inv, CallInv
<1>. QED BY <1>5, <1>11, <1>12, <1>13, <1>14, NoCallInv

LEMMA LeaveRuns ==
  ASSUME Inv, Leave
  PROVE  \E m \in Nat :
           /\ m = Len(runs) - 1 /\ runs' \in Seq(RunType) /\ Len(runs') = m
           /\ \A n \in 1..m : SameTraced(runs'[n], runs[n])
           /\ \A n \in 1..m - 1 : runs'[n] = runs[n]
           /\ m # 0 => runs'[m] = runs[m] \/ runs'[m] = Failed(runs[m])
           /\ \A n \in 1..m :
                \/ runs'[n].todo = runs[n].todo
                \/ \A q \in 1..Len(runs'[n].todo) : runs'[n].todo[q].kind \in {"end", "verdict"}
<1>1. /\ RunsOK /\ runs # <<>>
  BY DEF Inv, TypeOK, Leave, Idle
<1>2. /\ Len(runs) \in Nat \ {0}
      /\ \A n \in 1..Len(runs) : runs[n] \in RunType
      /\ runs \in Seq(RunType)
  BY <1>1, TopRun DEF RunsOK
<1>3. PICK m \in Nat : m = Len(runs) - 1 BY <1>2
<1>4. PICK base : base = Front(runs) OBVIOUS
<1>5. /\ base \in Seq(RunType) /\ Len(base) = m
      /\ \A n \in 1..m : base[n] = runs[n]
  BY <1>1, <1>2, <1>3, <1>4, FrontLast
<1>6. CASE runs' = base BY <1>3, <1>5, <1>6 DEF SameTraced
<1>7. CASE Len(runs) # 1 /\ runs' = Append(Front(base), Failed(Last(base)))
  <2>1. base # <<>> /\ m \in Nat \ {0}
    BY <1>2, <1>3, <1>5, <1>7, EmptySeq
  <2>2. Last(base) = base[m] /\ Last(base) \in RunType
    BY <1>5, <2>1, FrontLast
  <2>3. PICK f : f = Failed(Last(base)) OBVIOUS
  <2>4. /\ f \in RunType /\ SameTraced(f, runs[m])
        /\ \A q \in 1..Len(f.todo) : f.todo[q].kind \in {"end", "verdict"}
    BY <1>5, <2>1, <2>2, <2>3, FailedRun
  <2>5. /\ runs' \in Seq(RunType) /\ Len(runs') = m
        /\ \A n \in 1..m - 1 : runs'[n] = base[n]
        /\ runs'[m] = f
    <3>1. /\ base \in Seq(RunType) /\ base # <<>> /\ m = Len(base) /\ f \in RunType
          /\ runs' = Append(Front(base), f)
      BY <1>5, <1>7, <2>1, <2>3, <2>4
    <3>. QED BY ONLY <3>1, FrontAppend
  <2>6. \A n \in 1..m - 1 : runs'[n] = runs[n]
    BY <1>5, <2>5
  <2>7. ASSUME NEW n \in 1..m
        PROVE  /\ SameTraced(runs'[n], runs[n])
               /\ \/ runs'[n].todo = runs[n].todo
                  \/ \A q \in 1..Len(runs'[n].todo) : runs'[n].todo[q].kind \in {"end", "verdict"}
    BY <2>4, <2>5, <2>6 DEF SameTraced
  <2>8. runs'[m] = Failed(runs[m]) BY <1>5, <2>1, <2>2, <2>3, <2>5
  <2>. QED BY <1>3, <2>5, <2>6, <2>7, <2>8
<1>8. runs' = IF Len(runs) = 1 \/ Top.how = "end" THEN base
              ELSE Append(Front(base), Failed(Last(base)))
  BY <1>4 DEF Leave
<1>. QED BY <1>6, <1>7, <1>8

LEMMA LeaveInv ==
  ASSUME Inv, Leave
  PROVE  Inv'
<1>1. /\ RunsOK /\ TodoInv /\ runs # <<>> /\ calling[Flow] = <<>>
      /\ Silence
      /\ UNCHANGED <<calling, started, usage, called, queue, open, working, acts>>
  BY DEF Inv, TypeOK, Leave, Idle, Silence, tools
<1>2. /\ Len(runs) \in Nat \ {0} /\ Top = runs[Len(runs)] /\ Top \in RunType
  BY <1>1, TopRun DEF RunsOK
<1>3. PICK m \in Nat :
        /\ m = Len(runs) - 1 /\ runs' \in Seq(RunType) /\ Len(runs') = m
        /\ \A n \in 1..m : SameTraced(runs'[n], runs[n])
        /\ \A n \in 1..m :
             \/ runs'[n].todo = runs[n].todo
             \/ \A q \in 1..Len(runs'[n].todo) : runs'[n].todo[q].kind \in {"end", "verdict"}
  BY LeaveRuns
<1>6. \A n \in 1..m : \A q \in 1..Len(runs'[n].todo) : Known(runs'[n].todo[q], called')
  <2>. SUFFICES ASSUME NEW n \in 1..m
                PROVE  \A q \in 1..Len(runs'[n].todo) : Known(runs'[n].todo[q], called')
    OBVIOUS
  <2>1. CASE runs'[n].todo = runs[n].todo BY <1>1, <1>2, <1>3, <2>1 DEF TodoInv
  <2>2. CASE \A q \in 1..Len(runs'[n].todo) : runs'[n].todo[q].kind \in {"end", "verdict"}
    BY <2>2 DEF Known
  <2>. QED BY <1>3, <2>1, <2>2
<1>7. /\ \A n \in 0..m : Listening(n)' = Listening(n)
      /\ \A n \in 1..m : runs'[n].before = Listening(n - 1)'
  <2>1. hosted' = hosted /\ m \in 0..Len(runs)
    BY <1>1, <1>2, <1>3 DEF Silence, hosts
  <2>. QED BY <1>1, <1>3, <2>1, SameBelow
<1>8. RunsOK'
  <2>1. on_event = Listening(Len(runs)) /\ Top.before = Listening(m)
    BY <1>1, <1>2, <1>3 DEF RunsOK
  <2>2. on_event' = Top.before BY <1>2, <2>1 DEF Leave, Restored, Listening
  <2>3. on_event' = Listening(m)' /\ on_event' \in Seq(Subscribers)
    BY <1>2, <1>7, <2>1, <2>2 DEF RunType
  <2>4. \A o \in left' : o.id \in RunIds /\ o.how \in {"end", "raised"}
    BY <1>1, <1>2 DEF Leave, Outcome, RunsOK, RunType
  <2>5. started' \in 0..MaxRuns /\ usage' \in Usages
    BY <1>1 DEF RunsOK
  <2>. QED BY <1>3, <1>7, <2>3, <2>4, <2>5 DEF RunsOK
<1>9. TodoInv' BY <1>3, <1>6 DEF TodoInv
<1>10. ToolsOK' /\ acts' \in 0..MaxActs
  BY <1>1 DEF Inv, TypeOK, ToolsOK, StreamOK
<1>11. \A w \in Workers : calling[w] # <<>> =>
         working'[w].told /\ working'[w].call = working[w].call
  BY <1>1 DEF Inv, CallInv
<1>. QED BY <1>1, <1>8, <1>9, <1>10, <1>11, NoCallInv

-------------------------------------------------------------
(* Calls begin; the steps of tools.                                        *)

LEMMA SaysInv ==
  ASSUME Inv, Says
  PROVE  Inv'
<1>1. /\ Inv /\ RunsOK /\ CallInv /\ runs # <<>> /\ calling[Flow] = <<>> /\ Top.todo # <<>>
      /\ Silence /\ runs' = WithTop(Done)
      /\ UNCHANGED <<on_event, started, usage, called, queue, open, working, acts, left>>
  BY DEF Inv, TypeOK, Says, Idle, Silence, tools
<1>2. PICK kind, of :
        kind = Head(Top.todo).kind /\ of = Head(Top.todo).of
  OBVIOUS
<1>3. kind \in Kinds /\ of \in Nat /\ Calls(Flow, kind, of) /\ Flow \in Threads
  BY <1>1, <1>2, DoneRun DEF Item, Says, Threads
<1>4. PICK t : t = Flow OBVIOUS
<1>5. /\ CallsOK'
      /\ \A u \in Threads : \A n \in 1..Len(calling'[u]) : CallOK(u, n)'
      /\ lock' # NoThread => Step(lock, "number")'
      /\ \A u \in Threads \ {t} : calling'[u] = calling[u]
  <2>1. Silence /\ Inv /\ t \in Threads /\ calling[t] = <<>> /\ Calls(t, kind, of)
        /\ kind \in Kinds /\ of \in Nat
    BY <1>1, <1>3, <1>4
  <2>. QED BY ONLY <2>1, CallsInv
<1>6. PICK f \in RunType :
        /\ f = Done /\ SameTraced(f, Top)
        /\ \A q \in 1..Len(f.todo) : Known(f.todo[q], called')
  BY <1>1, TopDone
<1>7. runs' = WithTop(f) BY <1>1, <1>6
<1>8. RunsOK' /\ runs' # <<>>
  BY <1>1, <1>6, <1>7, TopGoesOn DEF RunsOK, Silence, hosts
<1>9. TodoInv' BY <1>1, <1>6, <1>7, TodoKept DEF Inv, TypeOK, ToolsOK
<1>10. StreamOK' /\ ToolsOK'
  BY <1>1, SilenceInv DEF Inv, TypeOK, StreamOK, ToolsOK
<1>11. CallInv'
  BY <1>1, <1>4, <1>5, <1>8, ThreadAssumption DEF Silence, stream, Threads, CallInv
<1>. QED BY <1>5, <1>8, <1>9, <1>10, <1>11 DEF Inv, TypeOK

\* The runs and what they are to tell do not change.
LEMMA WorksInv ==
  ASSUME Inv, Works
  PROVE  RunsOK' /\ TodoInv' /\ Silence /\ acts' \in 0..MaxActs /\ called' = called
         /\ (calling[Flow] # <<>> => runs' # <<>>)
<1>1. UNCHANGED <<hosted, on_event, runs, started, usage, called, acts, left>> /\ Silence
  BY DEF Works, hosts, Silence
<1>2. RunsOK' /\ TodoInv'
  BY <1>1 DEF Inv, TypeOK, RunsOK, Listening, TodoInv
<1>. QED BY <1>1, <1>2 DEF Inv, TypeOK, StreamOK, CallInv

LEMMA InProgressType ==
  ASSUME RunsOK
  PROVE  InProgress \subseteq RunIds
<1>1. \A n \in DOMAIN runs : runs[n] \in RunType
  BY DEF RunsOK
<1>. QED BY <1>1 DEF InProgress, RunType

LEMMA StartToolInv ==
  ASSUME Inv, NEW w \in Workers, StartTool(w)
  PROVE  Inv'
<1>1. /\ RunsOK' /\ TodoInv' /\ Silence /\ acts' \in 0..MaxActs /\ called' = called
      /\ (calling[Flow] # <<>> => runs' # <<>>)
      /\ UNCHANGED <<calling, open>>
  BY WorksInv DEF StartTool
<1>2. /\ queue \in Seq(1..called) /\ queue # <<>> /\ called \in Nat
      /\ working \in [Workers -> [call : 0..called, for : SUBSET RunIds, told : BOOLEAN]]
  BY DEF Inv, TypeOK, ToolsOK, StartTool
<1>3. Head(queue) \in 1..called /\ Tail(queue) \in Seq(1..called)
  BY <1>2, HeadTailProperties
<1>4. PICK work :
        work = [Resting EXCEPT !.call = Head(queue), !.for = InProgress]
  OBVIOUS
<1>5. work \in [call : 0..called, for : SUBSET RunIds, told : BOOLEAN]
  <2>1. InProgress \in SUBSET RunIds BY InProgressType DEF Inv, TypeOK
  <2>2. PICK head, in : head = Head(queue) /\ in = InProgress
    OBVIOUS
  <2>3. work = [call |-> head, for |-> in, told |-> FALSE] BY <1>4, <2>2 DEF Resting
  <2>4. head \in 0..called BY <1>2, <1>3, <2>2
  <2>. QED BY <2>1, <2>2, <2>3, <2>4
<1>6. working' = [working EXCEPT ![w] = work] /\ queue' = Tail(queue)
  BY <1>4 DEF StartTool
<1>7. working' \in [Workers -> [call : 0..called, for : SUBSET RunIds, told : BOOLEAN]]
  BY <1>2, <1>5, <1>6
<1>8. ToolsOK' BY <1>1, <1>2, <1>3, <1>6, <1>7 DEF Inv, TypeOK, ToolsOK
<1>9. ASSUME NEW v \in Workers, calling[v] # <<>>
      PROVE  working'[v].told /\ working'[v].call = working[v].call
  BY <1>2, <1>6, <1>9 DEF Inv, CallInv, StartTool, Resting
<1>. QED BY <1>1, <1>8, <1>9, NoCallInv

LEMMA ProgressInv ==
  ASSUME Inv, NEW w \in Workers, Progress(w)
  PROVE  Inv'
<1>1. /\ Inv /\ RunsOK' /\ TodoInv' /\ Silence /\ acts' \in 0..MaxActs /\ called' = called
      /\ (calling[Flow] # <<>> => runs' # <<>>)
      /\ UNCHANGED <<queue, open>>
  BY WorksInv DEF Progress
<1>2. /\ called \in Nat
      /\ working \in [Workers -> [call : 0..called, for : SUBSET RunIds, told : BOOLEAN]]
  BY DEF Inv, TypeOK, ToolsOK
<1>3. working' = [working EXCEPT ![w].told = TRUE] BY DEF Progress
<1>4. /\ working' \in [Workers -> [call : 0..called, for : SUBSET RunIds, told : BOOLEAN]]
      /\ working'[w].told /\ working'[w].call = working[w].call
      /\ \A v \in Workers \ {w} : working'[v] = working[v]
  BY <1>2, <1>3
<1>5. ToolsOK' BY <1>1, <1>4 DEF Inv, TypeOK, ToolsOK
<1>6. PICK kind, of : kind = "progress" /\ of = working[w].call
  OBVIOUS
<1>7. /\ w \in Threads /\ calling[w] = <<>> /\ Calls(w, kind, of)
      /\ kind \in Kinds /\ of \in Nat
  BY <1>2, <1>6 DEF Progress, Inv, CallInv, Threads, Kinds, Notified
<1>8. /\ CallsOK'
      /\ \A u \in Threads : \A n \in 1..Len(calling'[u]) : CallOK(u, n)'
      /\ lock' # NoThread => Step(lock, "number")'
      /\ \A u \in Threads \ {w} : calling'[u] = calling[u]
      /\ calling'[w] \in {<<>>, <<Call(w, kind, of)>>}
  BY ONLY <1>1, <1>7, CallsInv
<1>9. calling'[w] # <<>> => calling'[w][1].kind = "progress" /\ calling'[w][1].of = working'[w].call
  BY <1>4, <1>6, <1>8 DEF Call
<1>10. calling'[Flow] = calling[Flow] BY <1>8, ThreadAssumption DEF Threads
<1>11. \A v \in Workers : calling'[v] # <<>> =>
         /\ working'[v].told
         /\ calling'[v][1].kind = "progress" /\ calling'[v][1].of = working'[v].call
  BY <1>4, <1>8, <1>9 DEF Threads, Inv, CallInv
<1>12. CallInv' BY <1>1, <1>8, <1>10, <1>11 DEF Silence, stream, Inv, CallInv
<1>13. StreamOK' BY <1>1, SilenceInv
<1>. QED BY <1>1, <1>5, <1>8, <1>12, <1>13 DEF Inv, TypeOK

LEMMA EndToolInv ==
  ASSUME Inv, NEW w \in Workers, EndTool(w)
  PROVE  Inv'
<1>1. /\ RunsOK' /\ TodoInv' /\ Silence /\ acts' \in 0..MaxActs /\ called' = called
      /\ (calling[Flow] # <<>> => runs' # <<>>)
      /\ UNCHANGED <<calling, queue>> /\ open' = open \ {working[w].call}
      /\ working' = [working EXCEPT ![w] = Resting]
  BY WorksInv DEF EndTool
<1>2. /\ called \in Nat
      /\ working \in [Workers -> [call : 0..called, for : SUBSET RunIds, told : BOOLEAN]]
  BY DEF Inv, TypeOK, ToolsOK
<1>3. working' \in [Workers -> [call : 0..called, for : SUBSET RunIds, told : BOOLEAN]]
  BY <1>1, <1>2 DEF Resting
<1>4. ToolsOK' BY <1>1, <1>3 DEF Inv, TypeOK, ToolsOK
<1>5. ASSUME NEW v \in Workers, calling[v] # <<>>
      PROVE  working'[v].told /\ working'[v].call = working[v].call
  <2>1. v # w BY <1>5 DEF EndTool
  <2>. QED BY <1>1, <1>2, <1>5, <2>1 DEF Inv, CallInv
<1>. QED BY <1>1, <1>4, <1>5, NoCallInv

-------------------------------------------------------------
LEMMA InvInit ==
  ASSUME Init
  PROVE  Inv
<1>1. StreamOK BY EmptySeq, EventBoundAssumption DEF Init, StreamOK
<1>2. CallsOK BY EmptySeq DEF Init, CallsOK
<1>3. RunsOK
  <2>1. runs = <<>> /\ Len(runs) = 0 /\ runs \in Seq(RunType) /\ left = {}
    BY EmptySeq DEF Init
  <2>2. on_event = Listening(0) /\ on_event \in Seq(Subscribers)
    <3>1. \A S : \A e \in S : <<e>> \in Seq(S)
      OBVIOUS
    <3>2. 0 \in Subscribers BY DEF Subscribers
    <3>3. <<0>> \in Seq(Subscribers) /\ <<>> \in Seq(Subscribers)
      BY <3>1, <3>2, EmptySeq
    <3>4. on_event = Listening(0) BY DEF Init, Listening
    <3>. QED BY <3>3, <3>4 DEF Init
  <2>3. usage \in Usages BY DEF Init, Zero, Usages
  <2>4. started \in 0..MaxRuns BY EventBoundAssumption DEF Init
  <2>. QED BY <2>1, <2>2, <2>3, <2>4 DEF RunsOK
<1>4. ToolsOK BY EmptySeq DEF Init, ToolsOK, Resting
<1>5. CallInv BY EmptySeq DEF Init, CallInv, Threads
<1>6. TodoInv BY EmptySeq DEF Init, TodoInv
<1>. QED BY <1>1, <1>2, <1>3, <1>4, <1>5, <1>6 DEF Inv, TypeOK

LEMMA InvStutter ==
  ASSUME Inv, UNCHANGED vars
  PROVE  Inv'
<1>1. UNCHANGED <<sequence, lock, made, events, observed, hosted, heard, traces, on_event,
                  calling, runs, started, usage, called, queue, open, working, refused,
                  acts, left>>
  BY DEF vars, stream, hosts, tools
<1>2. StreamOK' /\ CallsOK' /\ ToolsOK'
  BY <1>1 DEF Inv, TypeOK, StreamOK, CallsOK, ToolsOK
<1>3. RunsOK' /\ TodoInv'
  BY <1>1 DEF Inv, TypeOK, RunsOK, Listening, TodoInv
<1>4. CallInv' BY <1>1 DEF Inv, CallInv, CallOK, Step, Current
<1>. QED BY <1>2, <1>3, <1>4 DEF Inv, TypeOK

LEMMA InvStep ==
  ASSUME Inv, [Next]_vars
  PROVE  Inv'
<1>1. CASE \E t \in Threads : InCall(t)
  BY <1>1, AcquireInv, NumberInv, ObserveInv, ReadInv, DeliverInv, ReturnInv, RaiseInv DEF InCall
<1>2. CASE InFlow
  BY <1>2, EnterInv, VisitsInv, ConcludeInv, LeaveInv, SaysInv, AnswerInv, ItemsInv, AbandonInv
     DEF InFlow
<1>3. CASE \E w \in Workers : InTool(w)
  BY <1>3, StartToolInv, ProgressInv, EndToolInv DEF InTool
<1>4. CASE UNCHANGED vars BY <1>4, InvStutter
<1>. QED BY <1>1, <1>2, <1>3, <1>4 DEF Next, Stop

LEMMA AlwaysInv == Spec => []Inv
<1>1. Init => Inv
  BY InvInit
<1>2. Inv /\ [Next]_vars => Inv'
  BY InvStep
<1>. QED BY <1>1, <1>2, PTL DEF Spec

\* Every variable keeps its type; on_event is, at any time, the host's
\* subscriber and those of the traced runs in progress, each of which remembers
\* what was there before it (node.py:287-300, 387-391).
THEOREM StreamTypeCorrect == Spec => []TypeOK
<1>1. Inv => TypeOK
  BY DEF Inv
<1>. QED BY <1>1, AlwaysInv, PTL

\* The lock is not reentrant, and nobody calls the context again while holding
\* it: whoever waits waits for another thread, that is about to release it
\* (context.py:127-131, 157-171).
THEOREM LockIsBrief == Spec => []NobodyWaitsForLong
<1>1. Inv => NobodyWaitsForLong
  <2>. SUFFICES ASSUME Inv, NEW t \in Threads, Step(t, "lock"), lock # NoThread
                PROVE  lock # t /\ Step(lock, "number")
    BY DEF NobodyWaitsForLong
  <2>1. Step(lock, "number") BY DEF Inv, CallInv
  <2>. QED BY <2>1 DEF Step
<1>. QED BY <1>1, AlwaysInv, PTL

-------------------------------------------------------------
(* THE ORDER OF EVENTS: the events of a tool call, for any number of calls *)
(* and threads (OrderedBySeq).                                             *)

-------------------------------------------------------------
(* The invariant: where a tool call is between its announcement and its    *)
(* result.                                                                 *)

\* What is told, or done, about tool calls.
CallKinds == {"call", "submit", "join", "result", "progress"}

Telling(todo, kind, c) == \E p \in 1..Len(todo) : todo[p].kind = kind /\ todo[p].of = c

NoCalls(todo) == \A p \in 1..Len(todo) : todo[p].kind \notin CallKinds

\* Calls are announced, then handed over, each once, then joined, and then
\* their results are told.
Shape(todo) ==
  \A q \in 1..Len(todo) :
    /\ todo[q].kind = "call" =>
         \A p \in 1..q : todo[p].kind \notin {"submit", "join", "result"}
    /\ todo[q].kind = "submit" =>
         \A p \in 1..q - 1 : /\ todo[p].kind \notin {"join", "result"}
                             /\ todo[p].kind = "submit" => todo[p].of # todo[q].of
    /\ todo[q].kind = "result" /\ (\E p \in 1..Len(todo) : todo[p].kind = "submit") =>
         \E p \in 1..q - 1 : todo[p].kind = "join"
    /\ todo[q].kind = "agent" => NoCalls(todo)
    /\ todo[q].kind # "progress"

\* The results of c come after the join.
Joined(todo, c) ==
  \A q \in 1..Len(todo) : todo[q].kind = "result" /\ todo[q].of = c =>
    \E p \in 1..q - 1 : todo[p].kind = "join"

TopTodo == IF runs = <<>> THEN <<>> ELSE Top.todo

\* The flow is about to make this event.
Saying(kind, c) ==
  /\ calling[Flow] # <<>> /\ calling[Flow][1].event = 0
  /\ calling[Flow][1].kind = kind /\ calling[Flow][1].of = c

\* A call that waits for a thread, or has one, may still report progress.
Active(c) ==
  /\ c \in 1..called
  /\ (\E k \in 1..Len(queue) : queue[k] = c) \/ (\E w \in Workers : working[w].call = c)

Silent(kinds, c) == \A k \in 1..Len(made) : ~(made[k].kind \in kinds /\ made[k].of = c)

\* A call that is to be announced or handed over has reported nothing; one that
\* may still report progress has no result, and its batch is not joined.
LifeOK(c) ==
  /\ Telling(TopTodo, "call", c) \/ Telling(TopTodo, "submit", c) \/ Saying("call", c) =>
       /\ ~Active(c) /\ ~Saying("result", c) /\ Silent({"progress", "result"}, c)
  /\ Active(c) => ~Saying("result", c) /\ Silent({"result"}, c)
  /\ Active(c) /\ Telling(TopTodo, "result", c) => c \in open /\ Joined(TopTodo, c)

\* A call is in the queue once, or with one thread.
WorkOK ==
  /\ \A k, l \in 1..Len(queue) : k # l => queue[k] # queue[l]
  /\ \A w \in Workers : working[w].call = 0 => working[w] = Resting
  /\ \A w \in Workers : \A k \in 1..Len(queue) : queue[k] # working[w].call
  /\ \A w \in Workers : \A v \in Workers \ {w} :
       working[w].call # 0 => working[v].call # working[w].call

\* Only the innermost run has calls to tell of.
TodoOK ==
  /\ Shape(TopTodo)
  /\ \A n \in 1..Len(runs) - 1 : NoCalls(runs[n].todo)

\* Progress and results are of calls that were made; the flow itself makes none
\* of the former.
OfOK ==
  /\ \A k \in 1..Len(made) : made[k].kind \in {"progress", "result"} => made[k].of \in 1..called
  /\ \A c \in Nat : Saying("result", c) => c \in 1..called
  /\ \A c \in Nat : ~Saying("progress", c)

LifeInv == TodoOK /\ WorkOK /\ OfOK /\ \A c \in Nat : LifeOK(c)

-------------------------------------------------------------
(* What is left to tell.                                                   *)

LEMMA TopTodoType ==
  ASSUME RunsOK
  PROVE  TopTodo \in Seq(Item)
<1>1. CASE runs = <<>> BY <1>1, EmptySeq DEF TopTodo
<1>2. CASE runs # <<>> BY <1>2, TopRun DEF TopTodo, RunType
<1>. QED BY <1>1, <1>2

\* The innermost run goes on as f, and those around it stay.
LEMMA TopTodoGoesOn ==
  ASSUME RunsOK, runs # <<>>, NEW f \in RunType, runs' = WithTop(f)
  PROVE  /\ TopTodo' = f.todo /\ Len(runs') = Len(runs)
         /\ \A n \in 1..Len(runs) - 1 : runs'[n] = runs[n]
<1>1. /\ runs' \in Seq(RunType) /\ Len(runs') = Len(runs) /\ runs' # <<>>
      /\ \A n \in 1..Len(runs) - 1 : runs'[n] = runs[n]
      /\ runs'[Len(runs)] = f
  BY WithTopLemma
<1>2. TopTodo' = f.todo BY <1>1, FrontLast DEF TopTodo, Top
<1>. QED BY <1>1, <1>2

\* What is left to tell of the calls is less.
LessTold(old, new) ==
  /\ Shape(new)
  /\ \A c \in Nat : \A kind \in {"call", "submit", "result"} :
       Telling(new, kind, c) => Telling(old, kind, c)

LessJoined(old, new) == \A c \in Nat : Joined(old, c) => Joined(new, c)

LEMMA TailTold ==
  ASSUME NEW todo \in Seq(Item), todo # <<>>, Shape(todo), NEW rest, rest = Tail(todo)
  PROVE  /\ LessTold(todo, rest)
         /\ Head(todo).kind # "join" => LessJoined(todo, rest)
<1>1. /\ Len(todo) \in Nat \ {0} /\ Len(rest) = Len(todo) - 1 /\ Head(todo) = todo[1]
      /\ \A q \in 1..Len(rest) : rest[q] = todo[q + 1]
  BY EmptySeq, HeadTailProperties
<1>2. PICK m \in Nat : m = Len(rest) /\ Len(todo) = m + 1
  <2>1. Len(rest) \in Nat /\ Len(todo) = Len(rest) + 1
    BY ONLY <1>1
  <2>. QED BY <2>1
<1>3. \A q \in 1..m : rest[q] = todo[q + 1] /\ q + 1 \in 1..m + 1 /\ q \in Nat
  BY <1>1, <1>2
<1>4. ASSUME NEW q \in 1..m, rest[q].kind = "call"
      PROVE  \A p \in 1..q : rest[p].kind \notin {"submit", "join", "result"}
  <2>1. \A p \in 1..q + 1 : todo[p].kind \notin {"submit", "join", "result"}
    BY <1>2, <1>3, <1>4 DEF Shape
  <2>2. \A p \in 1..q : p \in 1..m /\ p + 1 \in 1..q + 1
    BY <1>2
  <2>. QED BY <1>3, <2>1, <2>2
<1>5. ASSUME NEW q \in 1..m, rest[q].kind = "submit"
      PROVE  \A p \in 1..q - 1 : /\ rest[p].kind \notin {"join", "result"}
                                 /\ rest[p].kind = "submit" => rest[p].of # rest[q].of
  BY <1>2, <1>3, <1>5 DEF Shape
<1>6. ASSUME NEW q \in 1..m, rest[q].kind = "result",
             NEW s \in 1..m, rest[s].kind = "submit"
      PROVE  \E p \in 1..q - 1 : rest[p].kind = "join"
  <2>1. PICK p \in 1..q + 1 - 1 : todo[p].kind = "join" BY <1>2, <1>3, <1>6 DEF Shape
  <2>2. \A r \in 1..s + 1 - 1 : todo[r].kind # "join"
    BY <1>2, <1>3, <1>6 DEF Shape
  <2>3. p # 1 BY <1>2, <2>1, <2>2
  <2>4. p - 1 \in 1..q - 1 /\ p - 1 \in 1..m /\ rest[p - 1] = todo[p]
    BY <1>2, <1>3, <2>1, <2>3
  <2>. QED BY <2>1, <2>4
<1>7. ASSUME NEW q \in 1..m, rest[q].kind = "agent"
      PROVE  NoCalls(rest)
  BY <1>2, <1>3, <1>7 DEF Shape, NoCalls
<1>8. \A q \in 1..m : rest[q].kind # "progress"
  BY <1>2, <1>3 DEF Shape
<1>9. Shape(rest) BY <1>2, <1>4, <1>5, <1>6, <1>7, <1>8 DEF Shape
<1>10. \A c, kind : Telling(rest, kind, c) => Telling(todo, kind, c)
  BY <1>2, <1>3 DEF Telling
<1>11. ASSUME Head(todo).kind # "join", NEW c, Joined(todo, c)
       PROVE  Joined(rest, c)
  <2>. SUFFICES ASSUME NEW q \in 1..m, rest[q].kind = "result", rest[q].of = c
                PROVE  \E p \in 1..q - 1 : rest[p].kind = "join"
    BY <1>2 DEF Joined
  <2>1. PICK p \in 1..q + 1 - 1 : todo[p].kind = "join" BY <1>2, <1>3, <1>11 DEF Joined
  <2>2. p # 1 BY <1>1, <1>11, <2>1
  <2>3. p - 1 \in 1..q - 1 /\ p - 1 \in 1..m /\ rest[p - 1] = todo[p]
    BY <1>2, <1>3, <2>1, <2>2
  <2>. QED BY <2>1, <2>3
<1>. QED BY <1>9, <1>10, <1>11 DEF LessTold, LessJoined

\* Nothing of calls is left to tell.
LEMMA NoCallsTold ==
  ASSUME NEW old, NEW new, NoCalls(new)
  PROVE  LessTold(old, new) /\ LessJoined(old, new)
         /\ \A c : ~Telling(new, "result", c)
BY DEF LessTold, LessJoined, NoCalls, CallKinds, Shape, Telling, Joined

\* A visit that calls tools tells of its own calls, in the order.
LEMMA ToolShape ==
  ASSUME NEW first \in Nat, NEW a \in Nat, NEW b \in Nat, a <= b, NEW todo \in Seq(Item),
         ToolVisit(todo, first, a, b)
  PROVE  /\ Shape(todo)
         /\ \A c : \A kind \in {"call", "submit", "result"} :
              Telling(todo, kind, c) => c \in first + 1..first + (b - a)
<1>0. PICK m \in Nat : m = Len(todo) BY LenProperties
<1>1. ASSUME NEW q \in 1..m
      PROVE  /\ q \in Nat /\ ToolItem(todo[q], q, first, a, b)
  BY <1>0 DEF ToolVisit
<1>2. ASSUME NEW q \in 1..m
      PROVE  /\ todo[q].kind = "call" => q <= a
             /\ todo[q].kind = "submit" => a < q /\ q <= b /\ todo[q].of = first + (q - a)
             /\ todo[q].kind = "join" => q = b + 1
             /\ todo[q].kind = "result" => q > b + 1
             /\ todo[q].kind \notin {"agent", "progress"}
             /\ q = b + 1 => todo[q].kind = "join"
             /\ todo[q].kind \in {"call", "result"} => todo[q].of \in first + 1..first + (b - a)
  <2>0. ToolItem(todo[q], q, first, a, b) /\ q \in Nat
    BY <1>1
  <2>1. CASE q <= a BY <2>0, <2>1 DEF ToolItem
  <2>2. CASE a < q /\ q <= b
    BY <2>0, <2>2 DEF ToolItem, Tell
  <2>3. CASE q = b + 1 BY <2>0, <2>3 DEF ToolItem
  <2>4. CASE q > b + 1 BY <2>0, <2>4 DEF ToolItem
  <2>. QED BY <2>0, <2>1, <2>2, <2>3, <2>4
<1>3. ASSUME NEW c, NEW kind \in {"call", "submit", "result"}, Telling(todo, kind, c)
      PROVE  c \in first + 1..first + (b - a)
  <2>1. PICK p \in 1..m : todo[p].kind = kind /\ todo[p].of = c
    BY <1>0, <1>3 DEF Telling
  <2>. QED BY <1>2, <2>1
<1>4. ASSUME NEW q \in 1..m, todo[q].kind = "call"
      PROVE  \A p \in 1..q : todo[p].kind \notin {"submit", "join", "result"}
  BY <1>2, <1>4
<1>5. ASSUME NEW q \in 1..m, todo[q].kind = "submit"
      PROVE  \A p \in 1..q - 1 : /\ todo[p].kind \notin {"join", "result"}
                                 /\ todo[p].kind = "submit" => todo[p].of # todo[q].of
  <2>1. q <= b /\ a < q /\ \A p \in 1..q - 1 : p \in 1..m /\ p < q /\ p <= b
    BY <1>2, <1>5
  <2>2. ASSUME NEW p \in 1..q - 1, todo[p].kind = "submit"  PROVE todo[p].of # todo[q].of
    BY <1>2, <1>5, <2>1, <2>2
  <2>. QED BY <1>2, <2>1, <2>2
<1>6. ASSUME NEW q \in 1..m, todo[q].kind = "result"
      PROVE  \E p \in 1..q - 1 : todo[p].kind = "join"
  <2>1. b + 1 \in 1..q - 1 /\ b + 1 \in 1..m
    BY <1>2, <1>6
  <2>. QED BY <1>2, <2>1
<1>7. Shape(todo) BY <1>0, <1>2, <1>4, <1>5, <1>6 DEF Shape
<1>. QED BY <1>3, <1>7

-------------------------------------------------------------
(* Steps that take from a call's life, and add nothing to it.              *)

\* The flow is about to make no event that it was not about to make.
SayLess ==
  \A kind \in {"call", "result", "progress"} : \A c \in Nat :
    Saying(kind, c)' => Saying(kind, c)

Below == \A n \in 1..Len(runs) - 1 : NoCalls(runs[n].todo)

LEMMA LifeLess ==
  ASSUME LifeInv, WorkOK', Below', SayLess, made' = made, called' = called,
         NEW todo, todo = TopTodo', LessTold(TopTodo, todo),
         \A c \in Nat : Active(c)' => Active(c),
         \A c \in Nat : Active(c)' /\ Telling(todo, "result", c) =>
           c \in open' /\ Joined(todo, c)
  PROVE  LifeInv'
<1>1. TodoOK' BY DEF TodoOK, LessTold, Below
<1>2. OfOK' BY DEF OfOK, LifeInv, SayLess
<1>3. ASSUME NEW c \in Nat  PROVE LifeOK(c)'
  <2>1. LifeOK(c) BY DEF LifeInv
  <2>2. /\ Telling(todo, "call", c) => Telling(TopTodo, "call", c)
        /\ Telling(todo, "submit", c) => Telling(TopTodo, "submit", c)
    BY DEF LessTold
  <2>3. /\ Saying("call", c)' => Saying("call", c)
        /\ Saying("result", c)' => Saying("result", c)
    BY DEF SayLess
  <2>4. \A kinds : Silent(kinds, c) => Silent(kinds, c)'
    BY DEF Silent
  <2>5. /\ Telling(todo, "call", c) = Telling(TopTodo, "call", c)'
        /\ Telling(todo, "submit", c) = Telling(TopTodo, "submit", c)'
        /\ Telling(todo, "result", c) = Telling(TopTodo, "result", c)'
        /\ Joined(todo, c) = Joined(TopTodo, c)'
    BY DEF Telling, Joined
  <2>. QED BY <2>1, <2>2, <2>3, <2>4, <2>5 DEF LifeOK
<1>. QED BY <1>1, <1>2, <1>3 DEF LifeInv

LEMMA LifeSame ==
  ASSUME LifeInv, Below', SayLess, made' = made, UNCHANGED tools,
         NEW todo, todo = TopTodo', LessTold(TopTodo, todo), LessJoined(TopTodo, todo)
  PROVE  LifeInv'
<1>1. UNCHANGED <<called, queue, open, working>> BY DEF tools
<1>2. WorkOK' BY <1>1 DEF LifeInv, WorkOK
<1>3. \A c \in Nat : Active(c)' => Active(c)
  BY <1>1 DEF Active
<1>4. ASSUME NEW c \in Nat, Active(c)', Telling(todo, "result", c)
      PROVE  c \in open' /\ Joined(todo, c)
  BY <1>1, <1>3, <1>4 DEF LessTold, LifeInv, LifeOK, LessJoined
<1>. QED BY <1>1, <1>2, <1>3, <1>4, LifeLess

\* Nothing that is to be told changes.
LEMMA SameTold ==
  ASSUME LifeInv, runs' = runs
  PROVE  Below' /\ TopTodo' = TopTodo /\ LessTold(TopTodo, TopTodo)
         /\ LessJoined(TopTodo, TopTodo)
BY DEF LifeInv, TodoOK, Below, TopTodo, Top, LessTold, LessJoined

LEMMA LifeStill ==
  ASSUME LifeInv, runs' = runs, SayLess, made' = made, UNCHANGED tools
  PROVE  LifeInv'
<1>1. PICK todo : todo = TopTodo OBVIOUS
<1>2. Below' /\ todo = TopTodo' /\ LessTold(TopTodo, todo) /\ LessJoined(TopTodo, todo)
  BY <1>1, SameTold
<1>. QED BY <1>2, LifeSame

-------------------------------------------------------------
(* The steps of a call.                                                    *)

\* The outermost call of a thread is still about the same, and the same event.
LEMMA FirstKept ==
  ASSUME CallsOK, NEW t \in Threads, NEW c, GoesOn(t, c), calling'[t] # <<>>
  PROVE  /\ calling[t] # <<>>
         /\ calling'[t][1].kind = calling[t][1].kind
         /\ calling'[t][1].of = calling[t][1].of
         /\ calling'[t][1].event = calling[t][1].event
<1>1. Goes(t, c) /\ c.kind = Current(t).kind /\ c.of = Current(t).of
      /\ c.event = Current(t).event
  BY DEF GoesOn
<1>2. calling[t] # <<>> BY <1>1, EmptySeq DEF Goes
<1>3. PICK m \in Nat \ {0} : m = Len(calling[t]) /\ Current(t) = calling[t][m]
  BY <1>2, CurrentCall
<1>4. Len(calling'[t]) \in Nat \ {0} BY <1>1, EmptySeq DEF Goes
<1>5. CASE m = 1 BY <1>1, <1>2, <1>3, <1>4, <1>5 DEF Goes
<1>6. CASE m # 1
  <2>1. 1 \in 1..m - 1 BY ONLY m \in Nat \ {0}, <1>6
  <2>2. calling'[t][1] = calling[t][1] BY <1>1, <1>3, <2>1 DEF Goes
  <2>. QED BY <1>2, <2>2
<1>. QED BY <1>5, <1>6

LEMMA InnerLife ==
  ASSUME Inv, LifeInv, NEW t \in Threads,
         Acquire(t) \/ Observe(t) \/ Read(t) \/ Deliver(t) \/ Return(t)
  PROVE  LifeInv'
<1>1. PICK c : GoesOn(t, c)
  BY AcquireGoes, ObserveGoes, ReadGoes, DeliverGoes, ReturnGoes
<1>2. UNCHANGED <<made, runs, tools>>
  BY DEF Acquire, Observe, Read, Deliver, Return, stream
<1>3. \A u \in Threads \ {t} : calling'[u] = calling[u]
  BY <1>1 DEF GoesOn, Goes
<1>4. SayLess
  <2>1. CASE t = Flow BY <1>1, <2>1, FirstKept DEF Inv, TypeOK, SayLess, Saying
  <2>2. CASE t # Flow BY <1>3, <2>2 DEF SayLess, Saying, Threads
  <2>. QED BY <2>1, <2>2
<1>. QED BY <1>2, <1>4, LifeStill

\* The event that a thread is about to make, if it is a tool's.
LEMMA NewEvent ==
  ASSUME Inv, LifeInv, NEW t \in Threads, Number(t)
  PROVE  \E e :
           /\ made' = Append(made, e) /\ Len(made') = Len(made) + 1
           /\ made'[Len(made) + 1] = e /\ \A k \in 1..Len(made) : made'[k] = made[k]
           /\ Len(made) \in Nat /\ e.of \in Nat
           /\ e.kind = "progress" => Active(e.of)
           /\ e.kind \in {"call", "result"} => Saying(e.kind, e.of)
           /\ SayLess /\ \A kind, c : ~Saying(kind, c)' \/ t # Flow
<1>1. CallsOK /\ StreamOK /\ CallInv /\ ToolsOK /\ calling[t] # <<>> /\ Current(t).at = "number"
  BY DEF Inv, TypeOK, Number, Step
<1>2. PICK m \in Nat \ {0} :
        /\ m = Len(calling[t]) /\ Current(t) = calling[t][m] /\ CallOK(t, m)
        /\ Current(t) \in CallType
  BY <1>1, CurrentCall DEF CallInv
<1>3. PICK e :
        e = [seq |-> Current(t).read + 1, kind |-> Current(t).kind,
             of |-> Current(t).of, by |-> t, for |-> RunsOf(t),
             inside |-> {calling[t][n].event : n \in 1..Len(calling[t]) - 1}]
  OBVIOUS
<1>4. made' = Append(made, e) BY <1>3 DEF Number
<1>5. e.kind = Current(t).kind /\ e.of = Current(t).of /\ e.of \in Nat /\ e.kind \in Kinds
  BY <1>2, <1>3 DEF CallType
<1>6. /\ Len(made') = Len(made) + 1 /\ Len(made) \in Nat
      /\ made'[Len(made) + 1] = e /\ \A k \in 1..Len(made) : made'[k] = made[k]
  BY <1>1, <1>4, LenProperties, NumberInv DEF StreamOK, Inv, TypeOK
<1>7. e.kind \in {"call", "result", "progress"} => m = 1
  <2>1. m > 1 => Current(t).kind = "artifact"
    BY <1>2 DEF CallOK
  <2>2. m > 1 \/ m = 1
    BY ONLY m \in Nat \ {0}
  <2>. QED BY <1>5, <2>1, <2>2
<1>8. Current(t).event = 0 BY <1>1, <1>2 DEF CallOK, Numbered
<1>9. CASE t = Flow
  <2>1. e.kind \in {"call", "result", "progress"} => Saying(e.kind, e.of)
    BY <1>1, <1>2, <1>5, <1>7, <1>8, <1>9 DEF Saying
  <2>2. e.kind # "progress" BY <1>5, <2>1 DEF LifeInv, OfOK
  <2>3. ASSUME NEW kind, NEW c, Saying(kind, c)'  PROVE FALSE
    <3>1. PICK id, d : /\ id = Len(made) + 1
                       /\ d = [Current(t) EXCEPT !.event = id, !.at = AfterLock(Current(t).kind)]
      OBVIOUS
    <3>2. calling' = Becomes(t, d) BY <3>1 DEF Number
    <3>3. d.event = id /\ id # 0 /\ d.at # "return" /\ d \in CallType
      <4>1. PICK at : at = AfterLock(Current(t).kind) OBVIOUS
      <4>2. at \in {"observe", "call"} BY <4>1 DEF AfterLock
      <4>3. d = [Current(t) EXCEPT !.event = id, !.at = at] /\ id \in Nat \ {0}
        BY <1>6, <3>1, <4>1
      <4>. QED BY <1>2, <4>2, <4>3 DEF CallType, Places
    <3>4. Goes(t, d) /\ Len(calling'[t]) # Len(calling[t]) + 1
      BY <1>1, <3>2, <3>3, BecomesGoes
    <3>5. calling'[t][m] = d /\ \A n \in 1..m - 1 : calling'[t][n] = calling[t][n]
      BY <1>2, <3>3, <3>4 DEF Goes
    <3>6. calling'[t][1].event = 0 BY <1>9, <2>3 DEF Saying
    <3>7. m # 1 BY <3>3, <3>5, <3>6
    <3>8. 1 \in 1..m - 1 /\ 1 \in 1..m /\ 1 # m
      BY ONLY m \in Nat \ {0}, <3>7
    <3>9. calling[t][1].event = 0 /\ CallOK(t, 1)
      BY <1>1, <1>2, <3>5, <3>6, <3>8 DEF CallInv
    <3>. QED BY <1>1, <1>2, <1>6, <3>8, <3>9 DEF CallOK
  <2>4. SayLess BY <2>3 DEF SayLess
  <2>. QED BY <1>4, <1>5, <1>6, <2>1, <2>2, <2>3, <2>4
<1>10. CASE t # Flow
  <2>1. t \in Workers BY <1>10 DEF Threads
  <2>2. calling[t][1].kind = "progress" /\ calling[t][1].of = working[t].call /\ working[t].told
    BY <1>1, <2>1 DEF CallInv
  <2>3. e.kind \notin {"call", "result"} BY <1>2, <1>5, <1>7, <2>2
  <2>4. ASSUME e.kind = "progress"  PROVE Active(e.of)
    <3>1. e.of = working[t].call BY <1>2, <1>5, <1>7, <2>2, <2>4
    <3>2. working[t] # Resting BY <2>2 DEF Resting
    <3>3. working[t].call # 0 BY <2>1, <3>2 DEF LifeInv, WorkOK
    <3>4. working[t].call \in 1..called BY <1>1, <2>1, <3>3 DEF ToolsOK
    <3>. QED BY <2>1, <3>1, <3>4 DEF Active
  <2>5. calling'[Flow] = calling[Flow]
    BY <1>1, <1>10 DEF Number, Becomes, CallsOK, Threads
  <2>6. SayLess BY <2>5 DEF SayLess, Saying
  <2>. QED BY <1>4, <1>5, <1>6, <1>10, <2>3, <2>4, <2>6
<1>. QED BY <1>9, <1>10

LEMMA NumberLife ==
  ASSUME Inv, LifeInv, NEW t \in Threads, Number(t)
  PROVE  LifeInv'
<1>1. PICK e :
        /\ Len(made') = Len(made) + 1
        /\ made'[Len(made) + 1] = e /\ \A k \in 1..Len(made) : made'[k] = made[k]
        /\ Len(made) \in Nat /\ e.of \in Nat
        /\ e.kind = "progress" => Active(e.of)
        /\ e.kind \in {"call", "result"} => Saying(e.kind, e.of)
        /\ SayLess
  BY NewEvent
<1>2. UNCHANGED <<runs, called, queue, open, working>> BY DEF Number, tools
<1>3. TodoOK' /\ WorkOK' /\ TopTodo' = TopTodo
  BY <1>2 DEF LifeInv, TodoOK, WorkOK, TopTodo, Top
<1>4. OfOK'
  <2>1. ASSUME NEW k \in 1..Len(made'), made'[k].kind \in {"progress", "result"}
        PROVE  made'[k].of \in 1..called
    BY <1>1, <2>1 DEF Active, LifeInv, OfOK
  <2>2. \A c \in Nat : (Saying("result", c)' => c \in 1..called) /\ ~Saying("progress", c)'
    BY <1>1 DEF SayLess, LifeInv, OfOK
  <2>. QED BY <1>2, <2>1, <2>2 DEF OfOK
<1>5. ASSUME NEW c \in Nat  PROVE LifeOK(c)'
  <2>1. LifeOK(c) BY DEF LifeInv
  <2>2. /\ Telling(TopTodo, "call", c)' = Telling(TopTodo, "call", c)
        /\ Telling(TopTodo, "submit", c)' = Telling(TopTodo, "submit", c)
        /\ Telling(TopTodo, "result", c)' = Telling(TopTodo, "result", c)
        /\ Joined(TopTodo, c)' = Joined(TopTodo, c)
        /\ Active(c)' = Active(c)
    BY <1>2, <1>3 DEF Telling, Joined, Active
  <2>3. (Saying("call", c)' => Saying("call", c)) /\ (Saying("result", c)' => Saying("result", c))
    BY <1>1 DEF SayLess
  <2>4. ASSUME NEW kinds, Silent(kinds, c), ~(e.kind \in kinds /\ e.of = c)
        PROVE  Silent(kinds, c)'
    <3>1. ASSUME NEW k \in 1..Len(made')  PROVE ~(made'[k].kind \in kinds /\ made'[k].of = c)
      BY <1>1, <2>4 DEF Silent
    <3>. QED BY <3>1 DEF Silent
  <2>5. ~Active(c) /\ ~Saying("result", c) => ~(e.kind \in {"progress", "result"} /\ e.of = c)
    BY <1>1
  <2>6. ~Saying("result", c) => ~(e.kind \in {"result"} /\ e.of = c)
    BY <1>1
  <2>. QED BY <1>2, <2>1, <2>2, <2>3, <2>4, <2>5, <2>6 DEF LifeOK
<1>. QED BY <1>3, <1>4, <1>5 DEF LifeInv

LEMMA RaiseLife ==
  ASSUME Inv, LifeInv, NEW t \in Threads, Raise(t)
  PROVE  LifeInv'
<1>1. UNCHANGED <<made, tools>> /\ calling' = [calling EXCEPT ![t] = <<>>]
  BY DEF Raise, stream
<1>2. SayLess BY <1>1 DEF SayLess, Saying, Inv, TypeOK, CallsOK, Threads
<1>3. CASE t # Flow
  <2>1. runs' = runs BY <1>3 DEF Raise
  <2>. QED BY <1>1, <1>2, <2>1, LifeStill
<1>4. CASE t = Flow
  <2>1. runs # <<>> /\ RunsOK
    BY <1>4 DEF Raise, Heard, Step, Inv, TypeOK, CallInv
  <2>2. Top \in RunType BY <2>1, TopRun
  <2>3. PICK f \in RunType : runs' = WithTop(f) /\ NoCalls(f.todo)
    BY <1>4, <2>2, FailedRun, EmptySeq DEF Raise, NoCalls, CallKinds
  <2>4. /\ TopTodo' = f.todo /\ Len(runs') = Len(runs)
        /\ \A n \in 1..Len(runs) - 1 : runs'[n] = runs[n]
    BY <2>1, <2>3, TopTodoGoesOn
  <2>5. Below' BY <2>4 DEF LifeInv, TodoOK, Below
  <2>6. LessTold(TopTodo, f.todo) /\ LessJoined(TopTodo, f.todo)
    BY <2>3, NoCallsTold
  <2>. QED BY <1>1, <1>2, <2>4, <2>5, <2>6, LifeSame
<1>. QED BY <1>3, <1>4

-------------------------------------------------------------
(* The steps of a flow.                                                    *)

\* The flow makes no call, before and after.
LEMMA FlowSilent ==
  ASSUME calling[Flow] = <<>>, calling' = calling
  PROVE  SayLess
BY DEF SayLess, Saying

\* The innermost run goes on as f, with less to tell of calls.
LEMMA TopLess ==
  ASSUME RunsOK, LifeInv, runs # <<>>, NEW f \in RunType, runs' = WithTop(f),
         LessTold(Top.todo, f.todo), LessJoined(Top.todo, f.todo),
         SayLess, made' = made, UNCHANGED tools
  PROVE  LifeInv'
<1>1. /\ TopTodo' = f.todo /\ Len(runs') = Len(runs)
      /\ \A n \in 1..Len(runs) - 1 : runs'[n] = runs[n]
  BY TopTodoGoesOn
<1>2. Below' BY <1>1 DEF LifeInv, TodoOK, Below
<1>3. TopTodo = Top.todo BY DEF TopTodo
<1>. QED BY <1>1, <1>2, <1>3, LifeSame

\* The next thing is told, or done, and was not a join.
LEMMA TopTold ==
  ASSUME RunsOK, LifeInv, runs # <<>>, Top.todo # <<>>
  PROVE  \E rest :
           /\ rest = Tail(Top.todo) /\ rest = Done.todo /\ Done \in RunType
           /\ LessTold(Top.todo, rest)
           /\ Head(Top.todo).kind # "join" => LessJoined(Top.todo, rest)
<1>1. Top \in RunType /\ Top.todo \in Seq(Item)
  BY TopRun DEF RunType
<1>2. PICK todo, rest : todo = Top.todo /\ rest = Tail(todo)
  OBVIOUS
<1>3. Shape(todo) /\ todo \in Seq(Item) /\ todo # <<>>
  BY <1>1, <1>2 DEF LifeInv, TodoOK, TopTodo
<1>4. LessTold(todo, rest) /\ (Head(todo).kind # "join" => LessJoined(todo, rest))
  BY ONLY <1>2, <1>3, TailTold
<1>. QED BY <1>2, <1>4, DoneRun

LEMMA EnterLife ==
  ASSUME Inv, LifeInv, NEW traced \in BOOLEAN, Enter(traced)
  PROVE  LifeInv'
<1>1. RunsOK /\ calling[Flow] = <<>> /\ UNCHANGED <<made, calling, tools>>
  BY DEF Inv, TypeOK, Enter, stream
<1>0. PICK run, base : Entered(run, base, traced) BY EnterRuns
<1>2. /\ run \in RunType /\ base \in Seq(RunType)
      /\ run.todo = <<>>
      /\ Len(base) = Len(runs) /\ runs' = Append(base, run)
      /\ \A n \in 1..Len(runs) - 1 : base[n] = runs[n]
      /\ runs # <<>> => /\ Top.todo # <<>> /\ Head(Top.todo).kind = "agent"
                       /\ base[Len(runs)].todo = Tail(Top.todo)
  BY <1>0 DEF Entered
<1>3. PICK m \in Nat : m = Len(runs) BY <1>1, LenProperties DEF RunsOK
<1>4. /\ runs' \in Seq(RunType) /\ Len(runs') = m + 1 /\ runs'[m + 1] = run
      /\ \A n \in 1..m : runs'[n] = base[n]
  BY <1>2, <1>3, AppendProperties
<1>5. TopTodo' = <<>>
  <2>1. runs' # <<>> BY <1>3, <1>4, EmptySeq
  <2>2. Last(runs') = runs'[m + 1] BY <1>4, <2>1, FrontLast
  <2>. QED BY <1>2, <1>4, <2>1, <2>2 DEF TopTodo, Top
<1>6. ASSUME NEW n \in 1..m  PROVE NoCalls(runs'[n].todo)
  <2>1. CASE n # m BY <1>2, <1>3, <1>4, <2>1 DEF LifeInv, TodoOK
  <2>2. CASE n = m
    <3>1. runs # <<>> BY <1>3, <2>2, EmptySeq
    <3>2. PICK rest : rest = Tail(Top.todo) /\ LessTold(Top.todo, rest)
      BY <1>1, <1>2, <3>1, TopTold
    <3>3. NoCalls(rest)
      <4>1. PICK todo : todo = Top.todo OBVIOUS
      <4>2. /\ todo \in Seq(Item) /\ Shape(todo) /\ todo # <<>> /\ Head(todo).kind = "agent"
            /\ rest = Tail(todo)
        BY <1>1, <1>2, <3>1, <3>2, <4>1, TopRun DEF RunType, LifeInv, TodoOK, TopTodo
      <4>3. Len(todo) \in Nat \ {0} /\ Head(todo) = todo[1]
        <5>1. Head(todo) = todo[1] BY ONLY <4>2
        <5>. QED BY <4>2, <5>1, EmptySeq
      <4>4. NoCalls(todo) BY <4>2, <4>3 DEF Shape
      <4>5. /\ Len(rest) = Len(todo) - 1
            /\ \A q \in 1..Len(rest) : rest[q] = todo[q + 1]
        BY <4>2, HeadTailProperties
      <4>. QED BY <4>3, <4>4, <4>5 DEF NoCalls
    <3>4. runs'[n].todo = rest BY <1>2, <1>3, <1>4, <2>2, <3>1, <3>2
    <3>. QED BY <3>3, <3>4
  <2>. QED BY <2>1, <2>2
<1>7. Below' BY <1>3, <1>4, <1>6 DEF Below
<1>8. PICK todo : todo = <<>> /\ NoCalls(todo)
  BY EmptySeq DEF NoCalls
<1>9. LessTold(TopTodo, todo) /\ LessJoined(TopTodo, todo)
  BY <1>8, NoCallsTold
<1>10. SayLess /\ todo = TopTodo'
  BY <1>1, <1>5, <1>8, FlowSilent
<1>. QED BY <1>1, <1>7, <1>9, <1>10, LifeSame

LEMMA LeaveLife ==
  ASSUME Inv, LifeInv, Leave
  PROVE  LifeInv'
<1>1. RunsOK /\ calling[Flow] = <<>> /\ UNCHANGED <<made, calling, tools>>
  BY DEF Inv, TypeOK, Leave, Idle, stream
<1>2. PICK m \in Nat :
        /\ m = Len(runs) - 1 /\ runs' \in Seq(RunType) /\ Len(runs') = m
        /\ \A n \in 1..m :
             \/ runs'[n].todo = runs[n].todo
             \/ \A q \in 1..Len(runs'[n].todo) : runs'[n].todo[q].kind \in {"end", "verdict"}
  BY LeaveRuns
<1>3. \A n \in 1..m : NoCalls(runs'[n].todo)
  BY <1>2 DEF LifeInv, TodoOK, NoCalls, CallKinds
<1>4. Below' BY <1>2, <1>3 DEF Below
<1>5. PICK todo : todo = TopTodo' /\ NoCalls(todo)
  <2>1. CASE runs' = <<>> BY <2>1, EmptySeq DEF TopTodo, NoCalls
  <2>2. CASE runs' # <<>>
    <3>1. m \in Nat \ {0} /\ m \in 1..m
      BY <1>2, <2>2, EmptySeq
    <3>2. TopTodo' = runs'[m].todo BY <1>2, <2>2, FrontLast DEF TopTodo, Top
    <3>. QED BY <1>3, <3>1, <3>2
  <2>. QED BY <2>1, <2>2
<1>6. LessTold(TopTodo, todo) /\ LessJoined(TopTodo, todo)
  BY <1>5, NoCallsTold
<1>. QED BY <1>1, <1>4, <1>5, <1>6, FlowSilent, LifeSame

LEMMA ConcludeLife ==
  ASSUME Inv, LifeInv, NEW how \in {"end", "raised"}, Conclude(how)
  PROVE  LifeInv'
<1>1. /\ RunsOK /\ runs # <<>> /\ calling[Flow] = <<>> /\ UNCHANGED <<made, calling, tools>>
  BY DEF Inv, TypeOK, Conclude, Between, Idle, stream
<1>2. Top \in RunType BY <1>1, TopRun
<1>3. PICK todo : todo = <<Tell("verdict", Top.id)>> OBVIOUS
<1>4. todo \in Seq(Item) /\ Len(todo) = 1 /\ todo[1].kind = "verdict"
  BY <1>2, <1>3, OneTold, RunIdType DEF Kinds, Emitted
<1>5. PICK f \in RunType : runs' = WithTop(f) /\ f.todo = todo
  <2>1. PICK f : f = [Top EXCEPT !.over = TRUE, !.how = how, !.todo = todo] OBVIOUS
  <2>2. f \in RunType BY <1>2, <1>4, <2>1, RunEdits
  <2>3. f.todo = todo BY <1>2, <2>1 DEF RunType
  <2>4. runs' = WithTop(f) BY <1>3, <2>1 DEF Conclude
  <2>. QED BY <2>2, <2>3, <2>4
<1>6. NoCalls(todo)
  <2>1. ASSUME NEW q \in 1..Len(todo)  PROVE todo[q].kind = "verdict"
    <3>1. q = 1 BY ONLY <1>4, <2>1
    <3>. QED BY <1>4, <3>1
  <2>. QED BY <2>1 DEF NoCalls, CallKinds
<1>7. LessTold(Top.todo, f.todo) /\ LessJoined(Top.todo, f.todo)
  BY <1>5, <1>6, NoCallsTold
<1>. QED BY <1>1, <1>5, <1>7, FlowSilent, TopLess

LEMMA AnswerLife ==
  ASSUME Inv, LifeInv, Answer
  PROVE  LifeInv'
<1>1. /\ RunsOK /\ calling[Flow] = <<>> /\ UNCHANGED <<made, calling, tools>>
  BY DEF Inv, TypeOK, Answer, Due, Idle, stream
<1>2. /\ runs # <<>> /\ Top.todo # <<>> /\ Head(Top.todo).kind = "answer"
      /\ runs' \in Seq(RunType) /\ Len(runs') = Len(runs)
      /\ \A n \in 1..Len(runs) :
           runs'[n].todo = IF n = Len(runs) THEN Tail(Top.todo) ELSE runs[n].todo
  BY AnswerRuns
<1>3. Len(runs) \in Nat \ {0} BY <1>1, <1>2, TopRun
<1>4. PICK rest :
        /\ rest = Tail(Top.todo) /\ LessTold(Top.todo, rest) /\ LessJoined(Top.todo, rest)
  BY <1>1, <1>2, TopTold
<1>5. TopTodo' = rest /\ TopTodo = Top.todo
  <2>1. runs' # <<>> /\ Top' = runs'[Len(runs)]
    BY <1>2, <1>3, EmptySeq, FrontLast DEF Top
  <2>2. runs'[Len(runs)].todo = Tail(Top.todo) BY <1>2, <1>3
  <2>. QED BY <1>2, <1>4, <2>1, <2>2 DEF TopTodo
<1>6. Below' BY <1>2, <1>3 DEF LifeInv, TodoOK, Below
<1>. QED BY <1>1, <1>4, <1>5, <1>6, FlowSilent, LifeSame

LEMMA RecordLife ==
  ASSUME Inv, LifeInv, Record
  PROVE  LifeInv'
<1>1. /\ RunsOK /\ calling[Flow] = <<>> /\ UNCHANGED <<made, calling, tools>>
      /\ runs # <<>> /\ Top.todo # <<>> /\ Head(Top.todo).kind = "record"
      /\ runs' = WithTop(Done)
  BY DEF Inv, TypeOK, Record, Due, Idle, stream
<1>2. PICK rest : /\ rest = Done.todo /\ Done \in RunType
                  /\ LessTold(Top.todo, rest) /\ LessJoined(Top.todo, rest)
  BY <1>1, TopTold
<1>3. PICK f : f = Done OBVIOUS
<1>4. f \in RunType /\ runs' = WithTop(f) /\ LessTold(Top.todo, f.todo)
      /\ LessJoined(Top.todo, f.todo)
  BY <1>1, <1>2, <1>3
<1>. QED BY <1>1, <1>4, FlowSilent, TopLess

\* The batch is joined when all its calls have ended.
LEMMA JoinLife ==
  ASSUME Inv, LifeInv, Join
  PROVE  LifeInv'
<1>1. /\ RunsOK /\ calling[Flow] = <<>>
      /\ UNCHANGED <<made, calling, called, queue, open, working>>
      /\ runs # <<>> /\ Top.todo # <<>> /\ runs' = WithTop(Done) /\ open = {}
  BY DEF Inv, TypeOK, Join, Due, Idle, Runs, stream, tools
<1>2. PICK rest : rest = Done.todo /\ Done \in RunType /\ LessTold(Top.todo, rest)
  BY <1>1, TopTold
<1>3. PICK f \in RunType : f = Done /\ runs' = WithTop(f)
  BY <1>1, <1>2
<1>4. /\ TopTodo' = rest /\ Len(runs') = Len(runs) /\ TopTodo = Top.todo
      /\ \A n \in 1..Len(runs) - 1 : runs'[n] = runs[n]
  BY <1>1, <1>2, <1>3, TopTodoGoesOn DEF TopTodo
<1>5. Below' /\ WorkOK'
  BY <1>1, <1>4 DEF LifeInv, TodoOK, Below, WorkOK
<1>6. \A c \in Nat : Active(c)' => Active(c)
  BY <1>1 DEF Active
<1>7. ASSUME NEW c \in Nat, Active(c)', Telling(rest, "result", c)
      PROVE  c \in open' /\ Joined(rest, c)
  BY <1>1, <1>2, <1>4, <1>6, <1>7 DEF LessTold, LifeInv, LifeOK
<1>8. SayLess /\ LessTold(TopTodo, rest)
  BY <1>1, <1>2, <1>4, FlowSilent
<1>. QED BY <1>1, <1>4, <1>5, <1>6, <1>7, <1>8, LifeLess

LEMMA AbandonLife ==
  ASSUME Inv, LifeInv, Abandon
  PROVE  LifeInv'
<1>1. /\ RunsOK /\ calling[Flow] = <<>> /\ runs # <<>> /\ runs' = WithTop(Failed(Top))
      /\ UNCHANGED <<made, calling, called, working>> /\ queue' = <<>>
  BY DEF Inv, TypeOK, Abandon, Due, Idle, stream
<1>2. PICK f \in RunType : f = Failed(Top) /\ NoCalls(f.todo)
  BY <1>1, TopRun, FailedRun DEF NoCalls, CallKinds
<1>3. /\ TopTodo' = f.todo /\ Len(runs') = Len(runs)
      /\ \A n \in 1..Len(runs) - 1 : runs'[n] = runs[n]
  BY <1>1, <1>2, TopTodoGoesOn
<1>4. Below' BY <1>3 DEF LifeInv, TodoOK, Below
<1>5. \A k \in 1..Len(queue') : FALSE
  BY <1>1, EmptySeq
<1>6. WorkOK' BY <1>1, <1>5 DEF LifeInv, WorkOK
<1>7. \A c \in Nat : Active(c)' => Active(c)
  BY <1>1, <1>5 DEF Active
<1>8. PICK todo : todo = f.todo OBVIOUS
<1>9. LessTold(TopTodo, todo) /\ \A c : ~Telling(todo, "result", c)
  BY <1>2, <1>8, NoCallsTold
<1>10. SayLess /\ todo = TopTodo'
  BY <1>1, <1>3, <1>8, FlowSilent
<1>. QED BY <1>1, <1>4, <1>6, <1>7, <1>9, <1>10, LifeLess

\* A call is handed over, once.
LEMMA SubmitLife ==
  ASSUME Inv, LifeInv, Submit
  PROVE  LifeInv'
<1>1. /\ RunsOK /\ StreamOK /\ calling[Flow] = <<>> /\ UNCHANGED <<made, calling, called, working>>
      /\ runs # <<>> /\ Top.todo # <<>> /\ Head(Top.todo).kind = "submit"
      /\ runs' = WithTop(Done) /\ TopTodo = Top.todo
  BY DEF Inv, TypeOK, Submit, Due, Idle, Runs, stream, TopTodo
<1>2. PICK rest : /\ rest = Tail(Top.todo) /\ rest = Done.todo /\ Done \in RunType
                  /\ LessTold(Top.todo, rest) /\ LessJoined(Top.todo, rest)
  BY <1>1, TopTold
<1>3. PICK f \in RunType : f = Done /\ runs' = WithTop(f)
  BY <1>1, <1>2
<1>4. /\ TopTodo' = rest /\ Len(runs') = Len(runs)
      /\ \A n \in 1..Len(runs) - 1 : runs'[n] = runs[n]
  BY <1>1, <1>2, <1>3, TopTodoGoesOn
<1>5. PICK of, todo : of = Head(Top.todo).of /\ todo = Top.todo
  OBVIOUS
<1>6. of \in 1..called /\ of \in Nat /\ called \in Nat
  BY <1>1, <1>5, DoneKnown DEF Known, Inv, TypeOK, ToolsOK
<1>7. /\ todo \in Seq(Item) /\ todo # <<>> /\ Shape(todo) /\ Len(todo) \in Nat \ {0}
      /\ todo[1].kind = "submit" /\ todo[1].of = of
      /\ Len(rest) = Len(todo) - 1
      /\ \A q \in 1..Len(rest) : rest[q] = todo[q + 1]
  <2>1. todo \in Seq(Item) /\ todo # <<>> /\ Shape(todo)
    BY <1>1, <1>5, TopRun DEF RunType, LifeInv, TodoOK
  <2>2. Len(todo) \in Nat \ {0} BY <2>1, EmptySeq
  <2>3. Head(todo) = todo[1] BY ONLY <2>1
  <2>4. rest = Tail(todo) BY <1>2, <1>5
  <2>5. Len(rest) = Len(todo) - 1 /\ \A q \in 1..Len(rest) : rest[q] = todo[q + 1]
    BY <2>1, <2>4, HeadTailProperties
  <2>. QED BY <1>1, <1>5, <2>1, <2>2, <2>3, <2>5
\* It was to be handed over: nothing has happened to it yet.
<1>8. /\ ~Active(of) /\ Silent({"progress", "result"}, of)
  BY <1>1, <1>5, <1>6, <1>7 DEF Telling, LifeInv, LifeOK
\* It is not announced after that, nor handed over again, and its result waits
\* for the join.
<1>9. /\ ~Telling(rest, "call", of) /\ ~Telling(rest, "submit", of)
      /\ \A c : Joined(rest, c)
  <2>1. \A q \in 1..Len(rest) : q \in Nat /\ q + 1 \in 1..Len(todo) /\ 1 \in 1..q + 1 - 1
                              /\ 1 \in 1..q + 1 /\ 1 \in 1..Len(todo)
    BY <1>7
  <2>2. ASSUME NEW q \in 1..Len(rest), rest[q].kind = "call"  PROVE FALSE
    BY <1>7, <2>1, <2>2 DEF Shape
  <2>3. ASSUME NEW q \in 1..Len(rest), rest[q].kind = "submit"  PROVE rest[q].of # of
    BY <1>7, <2>1, <2>3 DEF Shape
  <2>4. ASSUME NEW q \in 1..Len(rest), rest[q].kind = "result"
        PROVE  \E p \in 1..q - 1 : rest[p].kind = "join"
    <3>1. todo[q + 1].kind = "result" BY <1>7, <2>4
    <3>2. PICK p \in 1..q + 1 - 1 : todo[p].kind = "join" BY <1>7, <2>1, <3>1 DEF Shape
    <3>3. p # 1 BY <1>7, <3>2
    <3>4. p - 1 \in 1..q - 1 /\ p - 1 \in 1..Len(rest) /\ p - 1 + 1 = p
      BY <1>7, <3>2, <3>3
    <3>. QED BY <1>7, <3>2, <3>4
  <2>. QED BY <2>2, <2>3, <2>4 DEF Telling, Joined
<1>10. /\ Len(queue') = Len(queue) + 1 /\ Len(queue) \in Nat /\ queue'[Len(queue) + 1] = of
       /\ \A k \in 1..Len(queue) : queue'[k] = queue[k]
       /\ open' = open \cup {of}
  BY <1>5, <1>6, LenProperties, AppendProperties DEF Submit, Inv, TypeOK, ToolsOK
<1>11. (\A k \in 1..Len(queue) : queue[k] # of) /\ (\A w \in Workers : working[w].call # of)
  BY <1>6, <1>8 DEF Active
<1>12. WorkOK'
  <2>1. ASSUME NEW k \in 1..Len(queue'), NEW l \in 1..Len(queue'), k # l
        PROVE  queue'[k] # queue'[l]
    BY <1>10, <1>11, <2>1 DEF LifeInv, WorkOK
  <2>2. ASSUME NEW w \in Workers, NEW k \in 1..Len(queue')
        PROVE  queue'[k] # working[w].call
    BY <1>10, <1>11 DEF LifeInv, WorkOK
  <2>. QED BY <1>1, <2>1, <2>2 DEF LifeInv, WorkOK
<1>13. \A c \in Nat : Active(c)' => Active(c) \/ c = of
  BY <1>1, <1>10 DEF Active
<1>14. TodoOK' BY <1>2, <1>4 DEF LifeInv, TodoOK, LessTold
<1>15. SayLess BY <1>1, FlowSilent
<1>16. OfOK' BY <1>1, <1>15 DEF LifeInv, OfOK, SayLess
<1>17. ASSUME NEW c \in Nat  PROVE LifeOK(c)'
  <2>1. LifeOK(c) /\ Joined(TopTodo, c)'
    BY <1>4, <1>9 DEF LifeInv, Joined
  <2>2. /\ Telling(TopTodo, "call", c)' => Telling(TopTodo, "call", c) /\ c # of
        /\ Telling(TopTodo, "submit", c)' => Telling(TopTodo, "submit", c) /\ c # of
        /\ Telling(TopTodo, "result", c)' => Telling(TopTodo, "result", c)
    <3>1. /\ Telling(rest, "call", c) => Telling(Top.todo, "call", c)
          /\ Telling(rest, "submit", c) => Telling(Top.todo, "submit", c)
          /\ Telling(rest, "result", c) => Telling(Top.todo, "result", c)
      BY <1>2 DEF LessTold
    <3>2. /\ Telling(TopTodo, "call", c)' = Telling(rest, "call", c)
          /\ Telling(TopTodo, "submit", c)' = Telling(rest, "submit", c)
          /\ Telling(TopTodo, "result", c)' = Telling(rest, "result", c)
      BY <1>4 DEF Telling
    <3>. QED BY <1>1, <1>9, <3>1, <3>2
  <2>3. /\ ~Saying("call", c)' /\ ~Saying("result", c)'
        /\ \A kinds : Silent(kinds, c)' = Silent(kinds, c)
    BY <1>1 DEF Saying, Silent
  <2>4. c # of => (Active(c)' => Active(c))
    BY <1>13
  <2>5. c = of => Silent({"result"}, c)
    BY <1>8 DEF Silent
  <2>. QED BY <1>10, <2>1, <2>2, <2>3, <2>4, <2>5 DEF LifeOK
<1>. QED BY <1>12, <1>14, <1>16, <1>17 DEF LifeInv

-------------------------------------------------------------
(* A visit begins.                                                         *)

\* What the visited node is to tell is what is left to tell.
LEMMA VisitTodo ==
  ASSUME Inv, LifeInv, NEW body, Visit(body), Visited(body, Top.id) \in Seq(Item)
  PROVE  /\ TopTodo' = Visited(body, Top.id) /\ Below' /\ TopTodo = <<>>
         /\ \E f \in RunType : /\ f.todo = Visited(body, Top.id) /\ runs' = WithTop(f)
                              /\ SameTraced(f, Top) /\ SameEnd(f, Top)
         /\ RunsOK /\ runs # <<>> /\ calling[Flow] = <<>>
         /\ UNCHANGED <<made, calling, queue, open, working>>
<1>1. /\ RunsOK /\ runs # <<>> /\ calling[Flow] = <<>> /\ Top.todo = <<>>
      /\ UNCHANGED <<made, calling, queue, open, working>>
  BY DEF Inv, TypeOK, Visit, Between, Idle, stream
<1>2. Top \in RunType BY <1>1, TopRun
<1>3. PICK todo, n : todo = Visited(body, Top.id) /\ n = Top.visits + 1
  OBVIOUS
<1>4. PICK f : f = [Top EXCEPT !.visits = n, !.todo = todo] OBVIOUS
<1>5. f \in RunType /\ f.todo = todo /\ SameTraced(f, Top) /\ SameEnd(f, Top)
  <2>1. todo \in Seq(Item) /\ n \in Nat
    BY <1>2, <1>3 DEF RunType
  <2>2. [Top EXCEPT !.visits = n, !.todo = todo] \in RunType BY <1>2, <2>1, RunEdits
  <2>3. f.todo = todo /\ SameTraced(f, Top) /\ SameEnd(f, Top)
    BY <1>2, <1>4 DEF RunType, SameTraced, SameEnd
  <2>. QED BY <1>4, <2>2, <2>3
<1>6. runs' = WithTop(f) BY <1>2, <1>3, <1>4 DEF RunType, Visited, Visit
<1>7. /\ TopTodo' = f.todo /\ Len(runs') = Len(runs)
      /\ \A n1 \in 1..Len(runs) - 1 : runs'[n1] = runs[n1]
  BY <1>1, <1>5, <1>6, TopTodoGoesOn
<1>8. Below' BY <1>7 DEF LifeInv, TodoOK, Below
<1>. QED BY <1>1, <1>3, <1>5, <1>6, <1>7, <1>8 DEF TopTodo

\* A node that calls no tools.
LEMMA VisitLife ==
  ASSUME Inv, LifeInv, VisitModel \/ VisitAgent
  PROVE  LifeInv'
<1>1. PICK body :
        /\ Visit(body) /\ called' = called /\ Visited(body, Top.id) \in Seq(Item)
        /\ NoCalls(Visited(body, Top.id))
  <2>1. Top.id \in Nat
    BY TopRun, RunIdType DEF Inv, TypeOK, VisitModel, VisitAgent, Visit, Between, Idle
  <2>2. CASE VisitModel
    BY <2>1, <2>2, BodyTodo DEF VisitModel, NoCalls, CallKinds, ModelKinds
  <2>3. CASE VisitAgent BY <2>1, <2>3, BodyTodo DEF VisitAgent, NoCalls, CallKinds
  <2>. QED BY <2>2, <2>3
<1>2. PICK f \in RunType : f.todo = Visited(body, Top.id) /\ runs' = WithTop(f)
  BY <1>1, VisitTodo
<1>3. RunsOK /\ runs # <<>> /\ calling[Flow] = <<>>
      /\ UNCHANGED <<made, calling, queue, open, working, called>>
  BY <1>1, VisitTodo
<1>4. LessTold(Top.todo, f.todo) /\ LessJoined(Top.todo, f.todo)
  BY <1>1, <1>2, NoCallsTold
<1>5. SayLess /\ UNCHANGED tools
  BY <1>3, FlowSilent DEF tools
<1>. QED BY <1>2, <1>3, <1>4, <1>5, TopLess

\* The calls of a visit are new: nothing is told of them yet.
LEMMA VisitToolsLife ==
  ASSUME Inv, LifeInv, VisitTools
  PROVE  LifeInv'
<1>1. PICK n \in 1..MaxWork - started - called :
        Visit(ToolBody([k \in 1..n |-> called + k])) /\ called' = called + n
  BY DEF VisitTools
<1>2. called \in Nat /\ started \in Nat /\ n \in Nat \ {0}
  BY EventBoundAssumption DEF Inv, TypeOK, ToolsOK, RunsOK
<1>3. Visit(ToolBody(Batch(called, n))) /\ runs # <<>>
  BY <1>1 DEF Batch, Visit, Between, Idle
<1>4. PICK todo, a :
        /\ a \in Nat /\ todo = Visited(ToolBody(Batch(called, n)), Top.id)
        /\ todo \in Seq(Item) /\ ToolVisit(todo, called, a, a + n)
  <2>1. PICK id \in Nat : id = Top.id BY <1>3, TopRun, RunIdType DEF Inv, TypeOK
  <2>2. /\ Visited(ToolBody(Batch(called, n)), id) \in Seq(Item)
        /\ \E a \in Nat : ToolVisit(Visited(ToolBody(Batch(called, n)), id), called, a, a + n)
    BY ONLY <1>2, <2>1, ToolTodo
  <2>. QED BY <2>1, <2>2
<1>5. PICK first \in Nat, b \in Nat :
        first = called /\ b = a + n /\ a <= b /\ b - a = n
  BY <1>2, <1>4
<1>6. /\ Shape(todo)
      /\ \A c : \A kind \in {"call", "submit", "result"} :
           Telling(todo, kind, c) => c \in called + 1..called + n
  <2>1. ToolVisit(todo, first, a, b) /\ todo \in Seq(Item) /\ a \in Nat /\ a <= b
    BY <1>4, <1>5
  <2>2. /\ Shape(todo)
        /\ \A c : \A kind \in {"call", "submit", "result"} :
             Telling(todo, kind, c) => c \in first + 1..first + (b - a)
    BY ONLY <1>5, <2>1, ToolShape
  <2>. QED BY <1>5, <2>2
<1>7. PICK body : body = ToolBody(Batch(called, n)) OBVIOUS
<1>8. /\ TopTodo' = todo /\ Below' /\ calling[Flow] = <<>>
      /\ UNCHANGED <<made, calling, queue, open, working>>
  BY <1>3, <1>4, <1>7, VisitTodo
<1>9. /\ WorkOK' /\ TodoOK'
  BY <1>6, <1>8 DEF LifeInv, WorkOK, TodoOK, Below
<1>10. 1..called \subseteq 1..called' /\ called' \in Nat
  BY <1>1, <1>2
<1>11. \A kind, c : ~Saying(kind, c)'
  BY <1>8 DEF Saying
<1>12. OfOK' BY <1>8, <1>10, <1>11 DEF LifeInv, OfOK
<1>13. \A c \in Nat : Active(c)' => Active(c)
  <2>1. queue \in Seq(1..called)
        /\ working \in [Workers -> [call : 0..called, for : SUBSET RunIds, told : BOOLEAN]]
    BY DEF Inv, TypeOK, ToolsOK
  <2>2. ASSUME NEW k \in 1..Len(queue)  PROVE queue[k] \in 1..called
    <3>1. queue \in Seq(1..called) BY <2>1
    <3>. QED BY ONLY <3>1, k \in 1..Len(queue), ElementOfSeq
  <2>3. \A c \in Nat : c \in 0..called /\ c \in 1..called' => c \in 1..called
    BY <1>2, <1>10
  <2>. QED BY <1>8, <2>1, <2>2, <2>3 DEF Active
<1>14. ASSUME NEW c \in Nat  PROVE LifeOK(c)'
  <2>1. CASE c \in called + 1..called + n
    <3>1. c \notin 1..called BY <1>2, <2>1
    <3>2. ~Active(c)' BY <1>13, <3>1 DEF Active
    <3>3. Silent({"progress", "result"}, c)' BY <1>8, <3>1 DEF Silent, LifeInv, OfOK
    <3>. QED BY <1>11, <3>2, <3>3 DEF LifeOK
  <2>2. CASE c \notin called + 1..called + n
    BY <1>6, <1>8, <1>11, <1>13, <2>2 DEF Telling, LifeInv, Silent, LifeOK
  <2>. QED BY <2>1, <2>2
<1>. QED BY <1>9, <1>12, <1>14 DEF LifeInv

-------------------------------------------------------------
(* The flow tells the next thing.                                          *)

\* The next thing is not a join, nor progress; if it is a result, nothing else
\* is left to tell but results, and its call may report no more.
LEMMA SaysTodo ==
  ASSUME Inv, LifeInv, Says
  PROVE  \E kind \in Kinds : \E of \in Nat : \E rest :
           /\ kind \notin {"join", "progress"}
           /\ TopTodo' = rest /\ LessTold(TopTodo, rest) /\ LessJoined(TopTodo, rest)
           /\ Below'
           /\ \A k, c : Saying(k, c)' => k = kind /\ c = of
           /\ kind = "call" => Telling(TopTodo, "call", of)
           /\ kind = "result" =>
                /\ of \in 1..called /\ ~Active(of)
                /\ ~Telling(rest, "call", of) /\ ~Telling(rest, "submit", of)
<1>1. /\ RunsOK /\ runs # <<>> /\ calling[Flow] = <<>> /\ Top.todo # <<>>
      /\ Silence /\ runs' = WithTop(Done) /\ TopTodo = Top.todo /\ called' = called
  BY DEF Inv, TypeOK, Says, Idle, Silence, tools, TopTodo
<1>2. PICK kind, of :
        kind = Head(Top.todo).kind /\ of = Head(Top.todo).of
  OBVIOUS
<1>3. kind \in Kinds /\ of \in Nat /\ Calls(Flow, kind, of) /\ Flow \in Threads
  BY <1>1, <1>2, DoneRun DEF Item, Says, Threads
<1>4. PICK t : t = Flow OBVIOUS
<1>5. calling'[t] \in {<<>>, <<Call(t, kind, of)>>}
  <2>1. Silence /\ Inv /\ t \in Threads /\ calling[t] = <<>> /\ Calls(t, kind, of)
        /\ kind \in Kinds /\ of \in Nat
    BY <1>1, <1>3, <1>4
  <2>. QED BY ONLY <2>1, CallsInv
<1>6. ASSUME NEW k, NEW c, Saying(k, c)'  PROVE k = kind /\ c = of
  BY <1>4, <1>5, <1>6 DEF Saying, Call
<1>7. kind # "join" BY <1>3 DEF Kinds, Emitted, Notified
<1>8. PICK todo, rest :
        /\ todo = Top.todo /\ rest = Tail(todo) /\ rest = Done.todo /\ Done \in RunType
        /\ LessTold(todo, rest) /\ LessJoined(todo, rest)
  BY <1>1, <1>2, <1>7, TopTold
<1>9. PICK f \in RunType : f = Done /\ runs' = WithTop(f)
  BY <1>1, <1>8
<1>10. /\ TopTodo' = rest /\ Len(runs') = Len(runs)
       /\ \A n \in 1..Len(runs) - 1 : runs'[n] = runs[n]
  BY <1>1, <1>8, <1>9, TopTodoGoesOn
<1>11. Below' BY <1>10 DEF LifeInv, TodoOK, Below
<1>12. /\ todo \in Seq(Item) /\ todo # <<>> /\ Shape(todo) /\ Len(todo) \in Nat \ {0}
       /\ todo[1].kind = kind /\ todo[1].of = of /\ 1 \in 1..Len(todo)
       /\ Len(rest) = Len(todo) - 1
       /\ \A q \in 1..Len(rest) : rest[q] = todo[q + 1]
  <2>1. todo \in Seq(Item) /\ todo # <<>> /\ Shape(todo)
    BY <1>1, <1>8, TopRun DEF RunType, LifeInv, TodoOK
  <2>2. Len(todo) \in Nat \ {0} BY <2>1, EmptySeq
  <2>3. Head(todo) = todo[1] BY ONLY <2>1
  <2>4. Len(rest) = Len(todo) - 1 /\ \A q \in 1..Len(rest) : rest[q] = todo[q + 1]
    BY <1>8, <2>1, HeadTailProperties
  <2>. QED BY <1>2, <1>8, <2>1, <2>2, <2>3, <2>4
<1>13. kind # "progress" /\ Telling(todo, kind, of)
  BY <1>12 DEF Shape, Telling
<1>14. ASSUME kind = "result"
       PROVE  /\ of \in 1..called /\ ~Active(of)
              /\ ~Telling(rest, "call", of) /\ ~Telling(rest, "submit", of)
  <2>1. of \in 1..called BY <1>1, <1>2, <1>14, DoneKnown DEF Known
  <2>2. ~Joined(todo, of) BY <1>12, <1>14 DEF Joined
  <2>3. ~Active(of) BY <1>1, <1>3, <1>8, <1>13, <1>14, <2>2 DEF LifeInv, LifeOK
  <2>4. ASSUME NEW q \in 1..Len(rest)  PROVE rest[q].kind \notin {"call", "submit"}
    BY <1>12, <1>14 DEF Shape
  <2>. QED BY <2>1, <2>3, <2>4 DEF Telling
<1>. QED BY <1>1, <1>3, <1>6, <1>7, <1>8, <1>10, <1>11, <1>13, <1>14

LEMMA SaysLife ==
  ASSUME Inv, LifeInv, Says
  PROVE  LifeInv'
<1>1. PICK kind, of, rest :
        /\ kind \in Kinds /\ of \in Nat /\ kind \notin {"join", "progress"}
        /\ TopTodo' = rest /\ LessTold(TopTodo, rest) /\ LessJoined(TopTodo, rest)
        /\ Below'
        /\ \A k, c : Saying(k, c)' => k = kind /\ c = of
        /\ kind = "call" => Telling(TopTodo, "call", of)
        /\ kind = "result" =>
             /\ of \in 1..called /\ ~Active(of)
             /\ ~Telling(rest, "call", of) /\ ~Telling(rest, "submit", of)
  BY SaysTodo
<1>2. UNCHANGED <<made, called, queue, open, working>> BY DEF Says, stream, tools
<1>3. WorkOK' /\ TodoOK'
  BY <1>1, <1>2 DEF LifeInv, WorkOK, TodoOK, Below, LessTold
<1>4. OfOK' BY <1>1, <1>2 DEF LifeInv, OfOK
<1>5. ASSUME NEW c \in Nat  PROVE LifeOK(c)'
  <2>1. LifeOK(c) /\ (Active(c)' = Active(c)) /\ \A kinds : Silent(kinds, c)' = Silent(kinds, c)
    BY <1>2 DEF LifeInv, Active, Silent
  <2>2. /\ Telling(rest, "call", c) => Telling(TopTodo, "call", c)
        /\ Telling(rest, "submit", c) => Telling(TopTodo, "submit", c)
        /\ Telling(rest, "result", c) => Telling(TopTodo, "result", c)
        /\ Joined(TopTodo, c) => Joined(rest, c)
    BY <1>1 DEF LessTold, LessJoined
  <2>3. /\ Telling(TopTodo, "call", c)' = Telling(rest, "call", c)
        /\ Telling(TopTodo, "submit", c)' = Telling(rest, "submit", c)
        /\ Telling(TopTodo, "result", c)' = Telling(rest, "result", c)
        /\ Joined(TopTodo, c)' = Joined(rest, c)
    BY <1>1 DEF Telling, Joined
  <2>4. CASE kind = "call" /\ c = of
    BY <1>1, <2>1, <2>4 DEF LifeOK
  <2>5. CASE kind = "result" /\ c = of
    BY <1>1, <2>1, <2>3, <2>5 DEF LifeOK
  <2>6. CASE kind \notin {"call", "result"} \/ c # of
    BY <1>1, <1>2, <2>1, <2>2, <2>3, <2>6 DEF LifeOK
  <2>. QED BY <2>4, <2>5, <2>6
<1>. QED BY <1>3, <1>4, <1>5 DEF LifeInv

-------------------------------------------------------------
(* The steps of a tool.                                                    *)

\* A call that waited has a thread now.
LEMMA StartToolLife ==
  ASSUME Inv, LifeInv, NEW w \in Workers, StartTool(w)
  PROVE  LifeInv'
<1>1. /\ queue \in Seq(1..called) /\ queue # <<>> /\ working[w] = Resting /\ queue' = Tail(queue)
      /\ working \in [Workers -> [call : 0..called, for : SUBSET RunIds, told : BOOLEAN]]
      /\ UNCHANGED <<made, calling, runs, called, open>>
  BY DEF Inv, TypeOK, ToolsOK, StartTool, Works, stream
<1>2. PICK call : call = Head(queue) OBVIOUS
<1>3. /\ working'[w].call = call /\ \A v \in Workers \ {w} : working'[v] = working[v]
  BY <1>1, <1>2 DEF StartTool, Resting
<1>4. PICK m \in Nat :
        /\ Len(queue) = m + 1 /\ Len(queue') = m /\ queue[1] = call
        /\ \A k \in 1..m : queue'[k] = queue[k + 1]
  <2>1. Len(queue) \in Nat \ {0} /\ Head(queue) = queue[1]
    BY <1>1, EmptySeq
  <2>2. Len(queue') = Len(queue) - 1 /\ \A k \in 1..Len(queue') : queue'[k] = queue[k + 1]
    BY <1>1, HeadTailProperties
  <2>3. Len(queue') \in Nat /\ Len(queue) = Len(queue') + 1
    BY ONLY <2>1, <2>2
  <2>. QED BY <1>2, <2>1, <2>2, <2>3
<1>5. call \in 1..called /\ 1 \in 1..m + 1
  <2>1. 1 \in 1..m + 1 BY <1>4
  <2>2. Head(queue) \in 1..called BY <1>1, HeadTailProperties
  <2>. QED BY <1>2, <2>1, <2>2
<1>6. \A k \in 1..m : k + 1 \in 1..m + 1 /\ k + 1 # 1 /\ k \in Nat
  OBVIOUS
<1>7. WorkOK'
  <2>1. ASSUME NEW k \in 1..Len(queue'), NEW l \in 1..Len(queue'), k # l
        PROVE  queue'[k] # queue'[l]
    <3>1. k \in 1..m /\ l \in 1..m
      BY <1>4, <2>1
    <3>2. k + 1 \in 1..m + 1 /\ l + 1 \in 1..m + 1 /\ k \in Nat /\ l \in Nat
      BY <1>6, <3>1
    <3>3. k + 1 # l + 1
      <4>1. k # l /\ k \in Nat /\ l \in Nat
        BY <2>1, <3>2
      <4>. QED BY ONLY <4>1
    <3>4. queue[k + 1] # queue[l + 1] BY <1>4, <3>2, <3>3 DEF LifeInv, WorkOK
    <3>. QED BY <1>4, <2>1, <3>4
  <2>2. ASSUME NEW v \in Workers, working'[v].call = 0
        PROVE  working'[v] = Resting
    <3>1. v # w BY <1>3, <1>5, <2>2
    <3>. QED BY <1>3, <2>2, <3>1 DEF LifeInv, WorkOK
  <2>3. ASSUME NEW v \in Workers, NEW k \in 1..Len(queue')
        PROVE  queue'[k] # working'[v].call
    BY <1>3, <1>4, <1>5, <1>6, <2>3 DEF LifeInv, WorkOK
  <2>4. ASSUME NEW v \in Workers, NEW u \in Workers \ {v}, working'[v].call # 0
        PROVE  working'[u].call # working'[v].call
    BY <1>3, <1>4, <1>5, <2>4 DEF LifeInv, WorkOK
  <2>. QED BY <2>1, <2>2, <2>3, <2>4 DEF WorkOK
<1>8. \A c \in Nat : Active(c)' => Active(c)
  <2>1. ASSUME NEW c \in Nat, Active(c)'  PROVE Active(c)
    BY <1>1, <1>3, <1>4, <1>5, <1>6, <2>1 DEF Active
  <2>. QED BY <2>1
<1>9. PICK todo : todo = TopTodo OBVIOUS
<1>10. Below' /\ todo = TopTodo' /\ LessTold(TopTodo, todo)
  BY <1>1, <1>9, SameTold
<1>11. ASSUME NEW c \in Nat, Active(c)', Telling(todo, "result", c)
       PROVE  c \in open' /\ Joined(todo, c)
  BY <1>1, <1>8, <1>9, <1>11 DEF LifeInv, LifeOK
<1>12. SayLess BY <1>1 DEF SayLess, Saying
<1>. QED BY <1>1, <1>7, <1>8, <1>10, <1>11, <1>12, LifeLess

LEMMA ProgressLife ==
  ASSUME Inv, LifeInv, NEW w \in Workers, Progress(w)
  PROVE  LifeInv'
<1>1. /\ working \in [Workers -> [call : 0..called, for : SUBSET RunIds, told : BOOLEAN]]
      /\ UNCHANGED <<made, runs, called, queue, open>>
      /\ working' = [working EXCEPT ![w].told = TRUE] /\ working[w] # Resting
      /\ calling' = [calling EXCEPT ![w] = calling'[w]] /\ CallsOK
  BY DEF Inv, TypeOK, ToolsOK, Progress, Works, stream, Calls, CallsOK
<1>2. /\ \A v \in Workers : working'[v].call = working[v].call
      /\ \A v \in Workers \ {w} : working'[v] = working[v]
  BY <1>1
<1>3. calling'[Flow] = calling[Flow] BY <1>1, ThreadAssumption DEF CallsOK, Threads
<1>4. WorkOK' BY <1>1, <1>2 DEF LifeInv, WorkOK
<1>5. \A c \in Nat : Active(c)' => Active(c)
  BY <1>1, <1>2 DEF Active
<1>6. PICK todo : todo = TopTodo OBVIOUS
<1>7. Below' /\ todo = TopTodo' /\ LessTold(TopTodo, todo)
  BY <1>1, <1>6, SameTold
<1>8. ASSUME NEW c \in Nat, Active(c)', Telling(todo, "result", c)
      PROVE  c \in open' /\ Joined(todo, c)
  BY <1>1, <1>5, <1>6, <1>8 DEF LifeInv, LifeOK
<1>9. SayLess BY <1>3 DEF SayLess, Saying
<1>. QED BY <1>1, <1>4, <1>5, <1>7, <1>8, <1>9, LifeLess

LEMMA EndToolLife ==
  ASSUME Inv, LifeInv, NEW w \in Workers, EndTool(w)
  PROVE  LifeInv'
<1>1. /\ working \in [Workers -> [call : 0..called, for : SUBSET RunIds, told : BOOLEAN]]
      /\ UNCHANGED <<made, runs, called, queue, calling>>
      /\ working' = [working EXCEPT ![w] = Resting] /\ working[w] # Resting
      /\ open' = open \ {working[w].call}
  BY DEF Inv, TypeOK, ToolsOK, EndTool, Works, stream
<1>2. /\ working'[w] = Resting /\ Resting.call = 0
      /\ \A v \in Workers \ {w} : working'[v] = working[v]
  BY <1>1 DEF Resting
<1>3. working[w].call # 0 BY <1>1 DEF LifeInv, WorkOK
<1>4. \A k \in 1..Len(queue) : queue[k] # 0
  <2>1. ASSUME NEW k \in 1..Len(queue)  PROVE queue[k] \in 1..called
    <3>1. queue \in Seq(1..called) BY DEF Inv, TypeOK, ToolsOK
    <3>. QED BY ONLY <3>1, k \in 1..Len(queue), ElementOfSeq
  <2>. QED BY <2>1
<1>5. WorkOK' BY <1>1, <1>2, <1>4 DEF LifeInv, WorkOK
<1>6. \A c \in Nat : Active(c)' => Active(c) /\ c # working[w].call
  <2>1. ASSUME NEW c \in Nat, Active(c)'  PROVE Active(c) /\ c # working[w].call
    BY <1>1, <1>2, <1>3, <2>1 DEF Active, LifeInv, WorkOK
  <2>. QED BY <2>1
<1>7. PICK todo : todo = TopTodo OBVIOUS
<1>8. Below' /\ todo = TopTodo' /\ LessTold(TopTodo, todo)
  BY <1>1, <1>7, SameTold
<1>9. ASSUME NEW c \in Nat, Active(c)', Telling(todo, "result", c)
      PROVE  c \in open' /\ Joined(todo, c)
  BY <1>1, <1>6, <1>7, <1>9 DEF LifeInv, LifeOK
<1>10. SayLess BY <1>1 DEF SayLess, Saying
<1>. QED BY <1>1, <1>5, <1>6, <1>8, <1>9, <1>10, LifeLess

-------------------------------------------------------------
LEMMA LifeInit ==
  ASSUME Init
  PROVE  LifeInv
<1>1. /\ runs = <<>> /\ made = <<>> /\ queue = <<>> /\ called = 0 /\ calling[Flow] = <<>>
      /\ \A w \in Workers : working[w] = Resting
  BY DEF Init, Threads
<1>2. TopTodo = <<>> /\ Len(runs) = 0 /\ Len(made) = 0 /\ Len(queue) = 0 /\ Len(TopTodo) = 0
  BY <1>1, EmptySeq DEF TopTodo
<1>3. TodoOK BY <1>2 DEF TodoOK, Shape
<1>4. WorkOK BY <1>1, <1>2 DEF Resting, WorkOK
<1>5. OfOK BY <1>1, <1>2 DEF OfOK, Saying
<1>6. ASSUME NEW c \in Nat  PROVE LifeOK(c)
  BY <1>1, <1>2 DEF Active, Saying, Silent, LifeOK
<1>. QED BY <1>3, <1>4, <1>5, <1>6 DEF LifeInv

LEMMA LifeStep ==
  ASSUME Inv, LifeInv, [Next]_vars
  PROVE  LifeInv'
<1>1. CASE \E t \in Threads : InCall(t)
  BY <1>1, InnerLife, NumberLife, RaiseLife DEF InCall
<1>2. CASE InFlow
  BY <1>2, EnterLife, VisitLife, VisitToolsLife, ConcludeLife, LeaveLife, SaysLife, AnswerLife,
     RecordLife, SubmitLife, JoinLife, AbandonLife
     DEF InFlow
<1>3. CASE \E w \in Workers : InTool(w)
  BY <1>3, StartToolLife, ProgressLife, EndToolLife DEF InTool
<1>4. CASE UNCHANGED vars BY <1>4, LifeStill DEF vars, stream, SayLess, Saying
<1>. QED BY <1>1, <1>2, <1>3, <1>4 DEF Next, Stop

LEMMA AlwaysLife == Spec => []LifeInv
<1>1. Init => LifeInv
  BY LifeInit
<1>2. Inv /\ LifeInv /\ [Next]_vars => LifeInv'
  BY LifeStep
<1>. QED BY <1>1, <1>2, AlwaysInv, PTL DEF Spec

-------------------------------------------------------------
(* The order of the events.                                                *)

\* What an event of a call comes after.
InOrder(k) ==
  /\ made[k].kind = "call" => Said({"progress", "result"}, made[k].of) \cap 1..k = {}
  /\ made[k].kind = "progress" => Said({"result"}, made[k].of) \cap 1..k = {}

LEMMA OrderStep ==
  ASSUME Inv, LifeInv, \A k \in DOMAIN made : InOrder(k), [Next]_vars
  PROVE  \A k \in DOMAIN made' : InOrder(k)'
<1>1. CASE \E t \in Threads : Number(t)
  <2>1. PICK e :
          /\ Len(made') = Len(made) + 1
          /\ made'[Len(made) + 1] = e /\ \A k \in 1..Len(made) : made'[k] = made[k]
          /\ Len(made) \in Nat /\ e.of \in Nat
          /\ e.kind = "progress" => Active(e.of)
          /\ e.kind \in {"call", "result"} => Saying(e.kind, e.of)
    BY <1>1, NewEvent
  <2>2. DOMAIN made = 1..Len(made) /\ DOMAIN made' = 1..Len(made')
    BY <1>1, NumberInv DEF Inv, TypeOK, StreamOK
  <2>3. ASSUME NEW k \in 1..Len(made)  PROVE InOrder(k)'
    <3>1. made'[k] = made[k] /\ InOrder(k)
      BY <2>1, <2>2
    <3>2. ASSUME NEW kinds, NEW c, Said(kinds, c) \cap 1..k = {}
          PROVE  Said(kinds, c)' \cap 1..k = {}
      BY <2>1, <2>2, <3>2 DEF Said
    <3>3. PICK c, kind : c = made[k].of /\ kind = made[k].kind
      OBVIOUS
    <3>4. /\ kind = "call" => Said({"progress", "result"}, c)' \cap 1..k = {}
          /\ kind = "progress" => Said({"result"}, c)' \cap 1..k = {}
      BY <3>1, <3>2, <3>3 DEF InOrder
    <3>. QED BY <3>1, <3>3, <3>4 DEF InOrder, Said
  <2>4. ASSUME NEW k, k = Len(made) + 1  PROVE InOrder(k)'
    <3>0. PICK c, kind : c = e.of /\ kind = e.kind
      OBVIOUS
    <3>1. k = Len(made) + 1 /\ c = e.of /\ kind = e.kind
      BY <2>4, <3>0
    <3>2. LifeOK(c) /\ c \in Nat
      BY <2>1, <3>1 DEF LifeInv
    <3>3. ASSUME NEW kinds, Silent(kinds, c), kind \notin kinds
          PROVE  Said(kinds, c)' \cap 1..k = {}
      BY <2>1, <2>2, <3>1, <3>3 DEF Said, Silent
    <3>4. kind = "call" => Said({"progress", "result"}, c)' \cap 1..k = {}
      BY <2>1, <3>1, <3>2, <3>3 DEF LifeOK
    <3>5. kind = "progress" => Said({"result"}, c)' \cap 1..k = {}
      BY <2>1, <3>1, <3>2, <3>3 DEF LifeOK
    <3>6. made'[k].kind = kind /\ made'[k].of = c
      BY <2>1, <3>1
    <3>. QED BY <3>4, <3>5, <3>6 DEF InOrder, Said
  <2>5. \A k \in 1..Len(made) + 1 : k \in 1..Len(made) \/ k = Len(made) + 1
    BY <2>1
  <2>. QED BY <2>1, <2>2, <2>3, <2>4, <2>5
<1>2. CASE ~\E t \in Threads : Number(t)
  <2>1. made' = made
    <3>1. CASE \E t \in Threads : InCall(t)
      BY <1>2, <3>1 DEF InCall, Acquire, Observe, Read, Deliver, Return, Raise, stream
    <3>2. CASE InFlow
      BY <3>2 DEF InFlow, Enter, VisitModel, VisitAgent, VisitTools, Visit, Conclude, Leave, Says,
         Answer, Record, Submit, Join, Runs, Abandon, stream
    <3>3. CASE \E w \in Workers : InTool(w)
      BY <3>3 DEF InTool, StartTool, Progress, EndTool, Works, stream
    <3>4. CASE UNCHANGED vars BY <3>4 DEF vars, stream
    <3>. QED BY <3>1, <3>2, <3>3, <3>4 DEF Next, Stop
  <2>. QED BY <2>1 DEF InOrder, Said
<1>. QED BY <1>1, <1>2

\* The numbers of the events grow in the order in which they were made, though
\* many threads make them; a call's announcement comes before any progress and
\* before its result, and no progress comes after the result
\* (context.py:157-166, llm/nodes.py:322-386).
THEOREM EventsAreOrdered == Spec => []OrderedBySeq
<1>1. Init => \A k \in DOMAIN made : InOrder(k)
  BY EmptySeq DEF Init
<1>2. Inv /\ LifeInv /\ (\A k \in DOMAIN made : InOrder(k)) /\ [Next]_vars
        => (\A k \in DOMAIN made : InOrder(k))'
  BY OrderStep
<1>3. Inv /\ (\A k \in DOMAIN made : InOrder(k)) => OrderedBySeq
  <2>. SUFFICES ASSUME Inv, \A k \in DOMAIN made : InOrder(k), NEW k \in DOMAIN made, k > 1
                PROVE  made[k - 1].seq < made[k].seq
    BY DEF OrderedBySeq, InOrder
  <2>1. DOMAIN made = 1..Len(made) /\ Len(made) \in Nat
    BY DEF Inv, TypeOK, StreamOK
  <2>2. \A n \in 1..Len(made) : made[n].seq = n
    BY DEF Inv, CallInv
  <2>3. k \in 1..Len(made) /\ k - 1 \in 1..Len(made)
    BY <2>1
  <2>. QED BY <2>2, <2>3
<1>. QED BY <1>1, <1>2, <1>3, AlwaysInv, AlwaysLife, PTL DEF Spec

-------------------------------------------------------------
(* THE HOST: which events it hears, and when (HostHearsAll).               *)

-------------------------------------------------------------
(* The invariant: whom the event of a call in progress has yet to reach.   *)

\* The host was told of the event.
Told(e) == \E k \in 1..Len(heard) : heard[k] = e

\* The host comes first: a call that is past it has told it, and one that is
\* not has not.
Reaches(c) ==
  /\ c.at = "return" \/ (c.at = "deliver" /\ c.to[1] # 0) =>
       Told(c.event) \/ c.kind = "payload"
  /\ c.at \in {"observe", "call"} \/ (c.at = "deliver" /\ c.to[1] = 0) => ~Told(c.event)
  /\ c.at = "deliver" => \A k \in 2..Len(c.to) : c.to[k] # 0

\* What a thread emits while it is told of an event came later, and inside.
Nested(t, n) ==
  LET c == calling[t][n] IN
  /\ \A m \in 1..n - 1 : calling[t][m].event < c.event
  /\ \A e \in 1..Len(made) : e > c.event /\ made[e].by = t => c.event \in made[e].inside

HearOK(t, n) == Numbered(calling[t][n]) => Reaches(calling[t][n]) /\ Nested(t, n)

InDelivery(e) == \E t \in Threads : \E n \in 1..Len(calling[t]) : calling[t][n].event = e

\* An event that is not lost.
Accounted(e) == InDelivery(e) \/ e \in refused \/ Told(e) \/ made[e].kind = "payload"

HeardOnce == \A k, l \in 1..Len(heard) : k # l => heard[k] # heard[l]

\* The last event heard came after those of its thread that were heard before
\* it, or these were made inside it.
LastHeard ==
  \A n \in 1..Len(heard) : \A l \in 1..Len(made) :
    l = heard[Len(heard)] /\ made[heard[n]].by = made[l].by /\ heard[n] > l =>
      l \in made[heard[n]].inside

HearInv ==
  hosted =>
    /\ \A t \in Threads : \A n \in 1..Len(calling[t]) : HearOK(t, n)
    /\ \A e \in 1..Len(made) : Accounted(e)
    /\ HeardOnce /\ LastHeard

-------------------------------------------------------------
(* The chain of subscribers.                                               *)

\* A set of numbers that holds 0 and, with each number, the next holds all.
LEMMA SetInduction ==
  ASSUME NEW T, 0 \in T, \A n \in Nat : n \in T => n + 1 \in T
  PROVE  Nat \subseteq T
<1>. DEFINE R == OpToRel(<, Nat)
            B == Nat \ T
<1>1. IsWellFoundedOn(R, Nat) BY NatLessThanWellFounded
<1>2. \A x, y \in Nat : x < y => <<x, y>> \in R
  BY DEF OpToRel
<1>. SUFFICES ASSUME B # {}  PROVE FALSE
  OBVIOUS
<1>3. PICK x \in B : \A y \in B : <<y, x>> \notin R
  <2>1. B \subseteq Nat OBVIOUS
  <2>. HIDE DEF B, R
  <2>. QED BY <1>1, <2>1, WFMin
<1>. HIDE DEF R
<1>4. x \in Nat /\ x # 0 /\ x - 1 \in Nat /\ x - 1 < x
  OBVIOUS
<1>5. x - 1 \in T BY <1>2, <1>3, <1>4
<1>. QED BY <1>3, <1>4, <1>5

\* The host's subscriber comes first, and no other is the host's.
HostFirst(s) ==
  /\ s \in Seq(Subscribers) /\ Len(s) \in Nat \ {0} /\ s[1] = 0
  /\ \A k \in 2..Len(s) : s[k] # 0

LEMMA Chain ==
  ASSUME Inv, hosted
  PROVE  HostFirst(on_event)
<1>. DEFINE T == {n \in Nat : n <= Len(runs) => HostFirst(Listening(n))}
<1>1. RunsOK /\ Len(runs) \in Nat /\ on_event = Listening(Len(runs))
  BY LenProperties DEF Inv, TypeOK, RunsOK
<1>2. 0 \in T
  <2>1. HostFirst(<<0>>) BY DEF Subscribers, HostFirst
  <2>. QED BY <2>1 DEF Listening
<1>3. ASSUME NEW n \in Nat, n \in T  PROVE n + 1 \in T
  <2>. SUFFICES ASSUME n + 1 <= Len(runs)  PROVE HostFirst(Listening(n + 1))
    OBVIOUS
  <2>1. PICK m \in 1..Len(runs) : m = n + 1 /\ m - 1 = n
    BY <1>1
  <2>2. HostFirst(Listening(n)) /\ runs[m].before = Listening(n) /\ runs[m] \in RunType
    BY <1>1, <1>3, <2>1, ElementOfSeq DEF RunsOK
  <2>3. PICK s, id : s = runs[m].before /\ id = runs[m].id
    OBVIOUS
  <2>4. HostFirst(s) /\ id \in Subscribers /\ id # 0
    BY <2>2, <2>3, EventBoundAssumption DEF RunType, Subscribers, RunIds
  <2>5. HostFirst(Append(s, id)) BY <2>4, AppendProperties DEF HostFirst
  <2>6. Listening(m) = IF runs[m].traced THEN Append(s, id) ELSE s
    BY <2>1, <2>3 DEF Listening
  <2>. QED BY <2>1, <2>4, <2>5, <2>6
<1>4. Len(runs) \in T
  <2>. HIDE DEF T
  <2>. QED BY <1>1, <1>2, <1>3, SetInduction
<1>. QED BY <1>1, <1>4

-------------------------------------------------------------
(* What the host hears.                                                    *)

\* t tells the host the event of its innermost call, or nobody does anything.
Hearing(t) ==
  \/ heard' = heard
  \/ /\ heard' = Append(heard, Current(t).event)
     /\ calling[t] # <<>> /\ Current(t).at = "deliver" /\ Current(t).to[1] = 0

\* What is known of the innermost call of t once it has made its event.
LEMMA CurrentHears ==
  ASSUME Inv, HearInv, hosted, NEW t \in Threads, calling[t] # <<>>, Numbered(Current(t))
  PROVE  \E m \in Nat \ {0} :
           /\ m = Len(calling[t]) /\ Current(t) = calling[t][m] /\ Current(t) \in CallType
           /\ Current(t).event \in 1..Len(made) /\ Reaches(Current(t)) /\ Nested(t, m)
           /\ made[Current(t).event].by = t /\ made[Current(t).event].kind = Current(t).kind
<1>1. CallsOK BY DEF Inv, TypeOK
<1>2. PICK m \in Nat \ {0} :
        m = Len(calling[t]) /\ Current(t) = calling[t][m] /\ Current(t) \in CallType
  BY <1>1, CurrentCall
<1>3. m \in 1..Len(calling[t]) BY <1>2
<1>4. CallOK(t, m) /\ HearOK(t, m)
  BY <1>3 DEF Inv, CallInv, HearInv
<1>. QED BY <1>2, <1>4 DEF CallOK, HearOK

LEMMA HearingTold ==
  ASSUME Inv, HearInv, hosted, NEW t \in Threads, Hearing(t), made' = made
  PROVE  /\ \A e : Told(e) => Told(e)'
         /\ \A e : Told(e)' =>
              Told(e) \/ (e = Current(t).event /\ calling[t] # <<>> /\ Numbered(Current(t)))
         /\ heard' # heard => \E e : e = Current(t).event /\ Told(e)'
         /\ HeardOnce' /\ LastHeard'
<1>1. /\ heard \in Seq(1..Len(made)) /\ Len(heard) \in Nat
      /\ \A k \in 1..Len(heard) : heard[k] \in 1..Len(made)
  BY LenProperties, ElementOfSeq DEF Inv, TypeOK, StreamOK
<1>2. HeardOnce /\ LastHeard
  BY DEF HearInv
<1>3. CASE heard' = heard BY <1>2, <1>3 DEF Told, HeardOnce, LastHeard
<1>4. CASE heard' # heard
  <2>1. /\ heard' = Append(heard, Current(t).event) /\ calling[t] # <<>>
        /\ Current(t).at = "deliver" /\ Current(t).to[1] = 0
    BY <1>4 DEF Hearing
  <2>2. Numbered(Current(t)) BY <2>1 DEF Numbered
  <2>3. PICK m, e0 :
          /\ m \in Nat \ {0} /\ m = Len(calling[t]) /\ calling[t][m].event = e0
          /\ e0 = Current(t).event /\ e0 \in 1..Len(made) /\ ~Told(e0) /\ Nested(t, m) /\ made[e0].by = t
    BY <2>1, <2>2, CurrentHears DEF Reaches
  <2>4. PICK h \in Nat :
          /\ h = Len(heard) /\ Len(heard') = h + 1 /\ heard'[h + 1] = e0
          /\ \A k \in 1..h : heard'[k] = heard[k]
    <3>1. heard \in Seq(1..Len(made)) /\ e0 \in 1..Len(made) /\ heard' = Append(heard, e0)
      BY <1>1, <2>1, <2>3
    <3>2. /\ Len(heard') = Len(heard) + 1 /\ heard'[Len(heard) + 1] = e0
          /\ \A k \in 1..Len(heard) : heard'[k] = heard[k]
      BY ONLY <3>1, AppendProperties
    <3>. QED BY <1>1, <3>2
  <2>5. \A k \in 1..h : heard[k] # e0
    BY <2>3, <2>4 DEF Told
  <2>6. HeardOnce'
    <3>1. ASSUME NEW k \in 1..h + 1, NEW l \in 1..h + 1, k # l  PROVE heard'[k] # heard'[l]
      BY <1>2, <2>4, <2>5, <3>1 DEF HeardOnce
    <3>. QED BY <2>4, <3>1 DEF HeardOnce
  <2>7. LastHeard'
    <3>1. ASSUME NEW n \in 1..h + 1, made[heard'[n]].by = made[e0].by, heard'[n] > e0
          PROVE  e0 \in made[heard'[n]].inside
      <4>1. n # h + 1 BY <2>3, <2>4, <3>1
      <4>2. heard'[n] \in 1..Len(made)
        <5>1. n \in 1..h BY <2>4, <3>1, <4>1
        <5>. QED BY <1>1, <2>4, <5>1
      <4>. QED BY <2>3, <3>1, <4>2 DEF Nested
    <3>2. heard'[Len(heard')] = e0 BY <2>4
    <3>. QED BY <2>4, <3>1, <3>2 DEF LastHeard
  <2>8. \A e : Told(e) => Told(e)'
    BY <2>4 DEF Told
  <2>9. \A e : Told(e)' => Told(e) \/ e = e0
    BY <2>4 DEF Told
  <2>10. Told(e0)' BY <2>4 DEF Told
  <2>. QED BY <2>1, <2>2, <2>3, <2>6, <2>7, <2>8, <2>9, <2>10
<1>. QED BY <1>3, <1>4

\* The other calls still have to reach whom they had to.
LEMMA HearKept ==
  ASSUME Inv, HearInv, hosted, NEW t \in Threads, Hearing(t), made' = made,
         NEW u \in Threads, NEW n \in 1..Len(calling[u]), u # t \/ n < Len(calling[t]),
         \A k \in 1..n : calling'[u][k] = calling[u][k]
  PROVE  HearOK(u, n)'
<1>. SUFFICES ASSUME Numbered(calling[u][n])
              PROVE  Reaches(calling[u][n])' /\ Nested(u, n)'
  BY DEF HearOK, Numbered
<1>1. CallOK(u, n) /\ HearOK(u, n) /\ n \in Nat
  BY DEF Inv, CallInv, HearInv
<1>2. PICK c : c = calling[u][n] /\ c = calling'[u][n]
  BY <1>1
<1>3. c.event \in 1..Len(made) /\ made[c.event].by = u
  BY <1>1, <1>2 DEF CallOK
<1>4. calling[t] # <<>> /\ Numbered(Current(t)) => c.event # Current(t).event
  <2>. SUFFICES ASSUME calling[t] # <<>>, Numbered(Current(t))
                PROVE  c.event # Current(t).event
    OBVIOUS
  <2>1. PICK m \in Nat \ {0} :
          /\ m = Len(calling[t]) /\ Current(t) = calling[t][m]
          /\ Current(t).event \in 1..Len(made) /\ Nested(t, m) /\ made[Current(t).event].by = t
    BY CurrentHears
  <2>2. CASE u # t BY <1>3, <2>1, <2>2
  <2>3. CASE u = t BY <1>1, <1>2, <1>3, <2>1, <2>3 DEF Nested
  <2>. QED BY <2>2, <2>3
<1>5. Told(c.event)' <=> Told(c.event)
  <2>1. /\ \A e : Told(e) => Told(e)'
        /\ \A e : Told(e)' =>
              Told(e) \/ (e = Current(t).event /\ calling[t] # <<>> /\ Numbered(Current(t)))
    BY HearingTold
  <2>2. PICK e : e = c.event OBVIOUS
  <2>3. Told(e)' <=> Told(e)
    BY <1>4, <2>1, <2>2
  <2>. QED BY <2>2, <2>3 DEF Told
<1>6. Reaches(c)' BY <1>1, <1>2, <1>5 DEF HearOK, Reaches
<1>7. Nested(u, n)' BY <1>1, <1>2 DEF HearOK, Nested
<1>. QED BY <1>2, <1>6, <1>7 DEF Reaches

-------------------------------------------------------------
(* The steps of a call.                                                    *)

\* The innermost call goes on as c, that has told the host or not, as it should.
LEMMA InnerHear ==
  ASSUME Inv, HearInv, hosted, NEW t \in Threads, calling[t] # <<>>, NEW c, GoesOn(t, c),
         UNCHANGED <<made, refused>>, Hearing(t),
         Numbered(c) => Numbered(Current(t)) /\ Reaches(c)'
  PROVE  HearInv'
<1>1. PICK m \in Nat \ {0} :
        /\ m = Len(calling[t]) /\ Current(t) = calling[t][m] /\ Current(t) \in CallType
  BY CurrentCall DEF Inv, TypeOK
<1>2. /\ \A u \in Threads \ {t} : calling'[u] = calling[u]
      /\ \A n \in 1..m - 1 : calling'[t][n] = calling[t][n]
      /\ \/ Len(calling'[t]) = m - 1 /\ c.at = "return"
         \/ Len(calling'[t]) = m /\ calling'[t][m] = c /\ c.at # "return"
         \/ /\ Len(calling'[t]) = m + 1 /\ calling'[t][m] = c
            /\ calling'[t][m + 1] = Call(t, "artifact", 0)
      /\ c.kind = Current(t).kind /\ c.event = Current(t).event /\ t \in Threads
  BY <1>1 DEF GoesOn, Goes
<1>3. ASSUME NEW u \in Threads, NEW n \in 1..Len(calling'[u])  PROVE HearOK(u, n)'
  <2>1. CASE u # t BY <1>2, <1>3, <2>1, HearKept
  <2>2. CASE u = t /\ n < m
    BY <1>1, <1>2, <1>3, <2>2, HearKept
  <2>3. CASE u = t /\ n = m
    <3>1. calling'[t][m] = c /\ (Numbered(c) => Numbered(Current(t)) /\ Reaches(c)')
      BY <1>1, <1>2, <1>3, <2>3
    <3>2. ASSUME Numbered(c)  PROVE Nested(t, m)'
      <4>1. Nested(t, m) BY <1>1, <3>1, <3>2, CurrentHears
      <4>2. /\ \A k \in 1..m - 1 : calling'[t][k] = calling[t][k]
            /\ calling'[t][m].event = calling[t][m].event
        BY <1>1, <1>2, <3>1
      <4>. QED BY <4>1, <4>2 DEF Nested
    <3>3. Reaches(calling[t][m])' <=> Reaches(c)'
      BY <3>1 DEF Reaches
    <3>. QED BY <2>3, <3>1, <3>2, <3>3 DEF HearOK
  <2>4. CASE u = t /\ n = m + 1
    BY <1>1, <1>2, <1>3, <2>4 DEF HearOK, Numbered, Call
  <2>. QED BY <1>1, <1>2, <1>3, <2>1, <2>2, <2>3, <2>4
<1>4. ASSUME NEW e \in 1..Len(made')  PROVE Accounted(e)'
  <2>1. Accounted(e) /\ e \in 1..Len(made)
    BY <1>4 DEF HearInv
  <2>2. Told(e) => Told(e)'
    BY HearingTold
  <2>3. ASSUME InDelivery(e)  PROVE InDelivery(e)' \/ Told(e)' \/ made[e].kind = "payload"
    <3>1. PICK u \in Threads : \E n \in 1..Len(calling[u]) : calling[u][n].event = e
      BY <2>3 DEF InDelivery
    <3>2. PICK n \in 1..Len(calling[u]) : calling[u][n].event = e BY <3>1
    <3>3. CASE u # t BY <1>2, <3>2, <3>3 DEF InDelivery
    <3>4. CASE u = t /\ n # m
      <4>1. n \in 1..m - 1 /\ n \in 1..Len(calling'[t])
        BY <1>1, <1>2, <3>4
      <4>. QED BY <1>2, <3>2, <3>4, <4>1 DEF InDelivery
    <3>5. CASE u = t /\ n = m
      <4>1. c.event = e BY <1>1, <1>2, <3>2, <3>5
      <4>2. CASE Len(calling'[t]) = m - 1 /\ c.at = "return"
        <5>1. Reaches(c)' /\ Numbered(Current(t))
          BY <4>2 DEF Numbered
        <5>2. made[e].kind = c.kind
          <6>1. made[Current(t).event].kind = Current(t).kind BY <5>1, CurrentHears
          <6>. QED BY <1>2, <4>1, <6>1
        <5>3. Told(c.event)' \/ c.kind = "payload"
          BY <4>2, <5>1 DEF Reaches
        <5>. QED BY <4>1, <5>2, <5>3 DEF Told
      <4>3. CASE calling'[t][m] = c /\ m \in 1..Len(calling'[t])
        BY <1>2, <4>1, <4>3 DEF InDelivery
      <4>. QED BY <1>1, <1>2, <4>2, <4>3
    <3>. QED BY <1>1, <3>2, <3>3, <3>4, <3>5
  <2>. QED BY <2>1, <2>2, <2>3 DEF Accounted
<1>5. HeardOnce' /\ LastHeard'
  BY HearingTold
<1>. QED BY <1>3, <1>4, <1>5 DEF HearInv

\* What the innermost call of t still has to reach, if t goes on as c.
LEMMA AcquireHear ==
  ASSUME Inv, HearInv, hosted, NEW t \in Threads, Acquire(t)
  PROVE  HearInv'
<1>1. PICK c : GoesOn(t, c) /\ c.at = "number"
  BY AcquireGoes
<1>2. ~Numbered(c) /\ calling[t] # <<>>
  BY <1>1 DEF Numbered, Acquire, Step
<1>3. UNCHANGED <<made, refused>> /\ Hearing(t)
  BY DEF Acquire, Hearing, hosts
<1>. QED BY <1>1, <1>2, <1>3, InnerHear

LEMMA ObserveHear ==
  ASSUME Inv, HearInv, hosted, NEW t \in Threads, Observe(t)
  PROVE  HearInv'
<1>1. PICK c : /\ GoesOn(t, c)
               /\ c.at = IF Current(t).kind = "payload" THEN "return" ELSE "call"
  BY ObserveGoes
<1>2. calling[t] # <<>> /\ Current(t).at = "observe" /\ Numbered(Current(t))
  BY DEF Observe, Step, Numbered
<1>3. UNCHANGED <<made, refused>> /\ heard' = heard /\ Hearing(t)
  BY DEF Observe, Hearing, hosts, stream
<1>4. PICK e : e = c.event /\ e = Current(t).event
  BY <1>1 DEF GoesOn
<1>5. ~Told(e)'
  <2>1. ~Told(e) BY <1>2, <1>4, CurrentHears DEF Reaches
  <2>. QED BY <1>3, <2>1 DEF Told
<1>6. Reaches(c)' BY <1>1, <1>4, <1>5 DEF GoesOn, Reaches, Told
<1>. QED BY <1>1, <1>2, <1>3, <1>6, InnerHear

LEMMA ReadHear ==
  ASSUME Inv, HearInv, hosted, NEW t \in Threads, Read(t)
  PROVE  HearInv'
<1>1. HostFirst(on_event) /\ on_event # <<>>
  BY Chain DEF HostFirst
<1>2. PICK c : GoesOn(t, c) /\ c.at = "deliver" /\ c.to = on_event
  BY <1>1, ReadGoes
<1>3. calling[t] # <<>> /\ Current(t).at = "call" /\ Numbered(Current(t))
  BY DEF Read, Step, Numbered
<1>4. UNCHANGED <<made, refused>> /\ heard' = heard /\ Hearing(t)
  BY DEF Read, Hearing, hosts, stream
<1>5. PICK e : e = c.event /\ e = Current(t).event
  BY <1>2 DEF GoesOn
<1>6. ~Told(e)'
  <2>1. ~Told(e) BY <1>3, <1>5, CurrentHears DEF Reaches
  <2>. QED BY <1>4, <2>1 DEF Told
<1>7. Reaches(c)' BY <1>1, <1>2, <1>5, <1>6 DEF HostFirst, Reaches, Told
<1>. QED BY <1>2, <1>3, <1>4, <1>7, InnerHear

LEMMA DeliverHear ==
  ASSUME Inv, HearInv, hosted, NEW t \in Threads, Deliver(t)
  PROVE  HearInv'
<1>1. PICK c : /\ GoesOn(t, c) /\ c.to = Tail(Current(t).to)
               /\ c.at = IF c.to = <<>> THEN "return" ELSE "deliver"
  BY DeliverGoes
<1>2. /\ calling[t] # <<>> /\ Current(t).at = "deliver" /\ Numbered(Current(t))
      /\ Current(t).to \in Seq(Subscribers) /\ Current(t).to # <<>>
  BY CollectType, DeliverGoes DEF Deliver, Numbered
<1>3. PICK to : to = Current(t).to OBVIOUS
<1>4. PICK m \in Nat :
        /\ Len(to) = m + 1 /\ Len(c.to) = m /\ \A k \in 1..m : c.to[k] = to[k + 1]
  <2>1. Len(to) \in Nat \ {0} BY <1>2, <1>3, EmptySeq
  <2>2. Len(c.to) = Len(to) - 1 /\ \A k \in 1..Len(c.to) : c.to[k] = to[k + 1]
    BY <1>1, <1>2, <1>3, HeadTailProperties
  <2>3. Len(c.to) \in Nat /\ Len(to) = Len(c.to) + 1
    BY ONLY <2>1, <2>2
  <2>. QED BY <2>2, <2>3
<1>5. Head(to) = to[1] BY <1>2, <1>3
<1>6. /\ UNCHANGED <<made, refused>>
      /\ heard' = IF to[1] = 0 THEN Append(heard, Current(t).event) ELSE heard
      /\ Hearing(t)
  BY <1>2, <1>3, <1>5 DEF Deliver, Collect, stream, Hearing
<1>7. PICK e : e = c.event /\ e = Current(t).event
  BY <1>1 DEF GoesOn
<1>8. Reaches(Current(t)) BY <1>2, CurrentHears
<1>9. \A k \in 1..m : c.to[k] # 0
  <2>1. \A k \in 2..m + 1 : to[k] # 0
    BY <1>2, <1>3, <1>4, <1>8 DEF Reaches
  <2>2. \A k \in 1..m : k + 1 \in 2..m + 1
    OBVIOUS
  <2>. QED BY <1>4, <2>1, <2>2
<1>10. Told(e)' \/ c.kind = "payload"
  <2>1. CASE to[1] = 0
    <3>1. heard \in Seq(1..Len(made)) /\ Current(t).event \in 1..Len(made)
      BY <1>2, CurrentHears DEF Inv, TypeOK, StreamOK
    <3>2. /\ Len(heard') = Len(heard) + 1 /\ heard'[Len(heard) + 1] = e
          /\ Len(heard) \in Nat
      BY <1>6, <1>7, <2>1, <3>1, AppendProperties, LenProperties
    <3>3. Len(heard) + 1 \in 1..Len(heard') BY <3>2
    <3>. QED BY <3>2, <3>3 DEF Told
  <2>2. CASE to[1] # 0
    <3>1. Told(e) \/ c.kind = "payload"
      BY <1>1, <1>2, <1>3, <1>7, <1>8, <2>2 DEF Reaches, GoesOn
    <3>. QED BY <1>6, <2>2, <3>1 DEF Told
  <2>. QED BY <2>1, <2>2
<1>11. Reaches(c)'
  <2>1. c.at = "deliver" => c.to[1] # 0
    <3>. SUFFICES ASSUME c.at = "deliver"  PROVE c.to[1] # 0
      OBVIOUS
    <3>1. c.to # <<>> /\ c.to \in Seq(Subscribers)
      BY <1>1, <1>2, <1>3, HeadTailProperties
    <3>2. Len(c.to) # 0 BY <3>1, EmptySeq
    <3>3. 1 \in 1..m BY <1>4, <3>2
    <3>. QED BY <1>9, <3>3
  <2>2. c.at \in {"return", "deliver"} BY <1>1
  <2>3. \A k \in 2..Len(c.to) : c.to[k] # 0
    BY <1>4, <1>9
  <2>. QED BY <1>7, <1>10, <2>1, <2>2, <2>3 DEF Reaches, Told
<1>. QED BY <1>1, <1>2, <1>6, <1>11, InnerHear

LEMMA ReturnHear ==
  ASSUME Inv, HearInv, hosted, NEW t \in Threads, Return(t)
  PROVE  HearInv'
<1>1. PICK c : c = Current(t) /\ c.at = "return" /\ calling[t] # <<>> /\ GoesOn(t, c)
  BY ReturnGoes
<1>2. UNCHANGED <<made, refused>> /\ heard' = heard /\ Hearing(t)
  BY DEF Return, Hearing, hosts, stream
<1>3. Numbered(Current(t)) BY <1>1 DEF Numbered
<1>4. Reaches(c) BY <1>1, <1>3, CurrentHears
<1>5. Reaches(c)' BY <1>2, <1>4 DEF Reaches, Told
<1>. QED BY <1>1, <1>2, <1>3, <1>5, InnerHear

\* The events that t was delivering are refused.
LEMMA RaiseHear ==
  ASSUME Inv, HearInv, hosted, NEW t \in Threads, Raise(t)
  PROVE  HearInv'
<1>1. /\ made' = made /\ calling[t] # <<>> /\ CallsOK
      /\ refused' = refused \cup {calling[t][n].event : n \in DOMAIN calling[t]}
      /\ calling' = [calling EXCEPT ![t] = <<>>]
  BY DEF Raise, Heard, Step, stream, Inv, TypeOK
<1>2. calling'[t] = <<>> /\ \A u \in Threads \ {t} : calling'[u] = calling[u]
  BY <1>1 DEF CallsOK
<1>3. Hearing(t)
  <2>1. CASE Heard(t) /\ Act(1) /\ Collect(t)
    <3>1. /\ Current(t).at = "deliver" /\ Current(t).to # <<>> /\ Current(t).to \in Seq(Subscribers)
      BY <2>1, CollectType DEF CallType
    <3>2. Head(Current(t).to) = Current(t).to[1] BY <3>1
    <3>3. heard' = IF Head(Current(t).to) = 0 THEN Append(heard, Current(t).event) ELSE heard
      BY <2>1 DEF Collect
    <3>. QED BY <1>1, <3>1, <3>2, <3>3 DEF Hearing
  <2>2. CASE heard' = heard BY <2>2 DEF Hearing
  <2>. QED BY <2>1, <2>2 DEF Raise
<1>4. ASSUME NEW u \in Threads, NEW n \in 1..Len(calling'[u])  PROVE HearOK(u, n)'
  BY <1>1, <1>2, <1>3, <1>4, EmptySeq, HearKept
<1>5. ASSUME NEW e \in 1..Len(made')  PROVE Accounted(e)'
  <2>1. Accounted(e) /\ made' = made
    BY <1>1, <1>5 DEF HearInv
  <2>2. Told(e) => Told(e)'
    BY <1>1, <1>3, HearingTold
  <2>3. ASSUME InDelivery(e)  PROVE InDelivery(e)' \/ e \in refused'
    <3>1. PICK u \in Threads : \E n \in 1..Len(calling[u]) : calling[u][n].event = e
      BY <2>3 DEF InDelivery
    <3>2. PICK n \in 1..Len(calling[u]) : calling[u][n].event = e BY <3>1
    <3>3. CASE u # t BY <1>2, <3>2, <3>3 DEF InDelivery
    <3>4. CASE u = t BY <1>1, <3>2, <3>4 DEF CallsOK
    <3>. QED BY <3>3, <3>4
  <2>. QED BY <1>1, <2>1, <2>2, <2>3 DEF Accounted
<1>6. HeardOnce' /\ LastHeard'
  BY <1>1, <1>3, HearingTold
<1>. QED BY <1>4, <1>5, <1>6 DEF HearInv

-------------------------------------------------------------
(* The steps between the calls.                                            *)

\* Nobody is told of an event; a thread without a call may begin one.
LEMMA CalmHear ==
  ASSUME HearInv, hosted, UNCHANGED <<made, heard, refused>>,
         \A u \in Threads :
           \/ calling'[u] = calling[u]
           \/ calling[u] = <<>> /\ \A n \in 1..Len(calling'[u]) : ~Numbered(calling'[u][n])
  PROVE  HearInv'
<1>1. \A e : Told(e)' <=> Told(e)
  BY DEF Told
<1>2. ASSUME NEW u \in Threads, NEW n \in 1..Len(calling'[u])  PROVE HearOK(u, n)'
  <2>1. CASE calling'[u] = calling[u]
    <3>1. HearOK(u, n) BY <1>2, <2>1 DEF HearInv
    <3>2. PICK c : c = calling[u][n] /\ c = calling'[u][n]
      BY <2>1
    <3>3. Reaches(c)' <=> Reaches(c)
      BY DEF Reaches, Told
    <3>4. Nested(u, n)' <=> Nested(u, n)
      BY <2>1 DEF Nested
    <3>5. Reaches(calling[u][n])' <=> Reaches(c)'
      BY <3>2 DEF Reaches
    <3>. QED BY <3>1, <3>2, <3>3, <3>4, <3>5 DEF HearOK
  <2>2. CASE ~Numbered(calling'[u][n]) BY <2>2 DEF HearOK, Numbered
  <2>. QED BY <1>2, <2>1, <2>2
<1>3. ASSUME NEW e \in 1..Len(made')  PROVE Accounted(e)'
  <2>1. Accounted(e) /\ (Told(e)' <=> Told(e))
    BY <1>1, <1>3 DEF HearInv
  <2>2. ASSUME InDelivery(e)  PROVE InDelivery(e)'
    <3>1. PICK u \in Threads : \E n \in 1..Len(calling[u]) : calling[u][n].event = e
      BY <2>2 DEF InDelivery
    <3>2. PICK n \in 1..Len(calling[u]) : calling[u][n].event = e BY <3>1
    <3>3. calling[u] # <<>> BY <3>2, EmptySeq
    <3>4. calling'[u] = calling[u] BY <3>3
    <3>. QED BY <3>2, <3>4 DEF InDelivery
  <2>. QED BY <2>1, <2>2 DEF Accounted
<1>4. HeardOnce' /\ LastHeard'
  BY DEF HearInv, HeardOnce, LastHeard
<1>. QED BY <1>2, <1>3, <1>4 DEF HearInv

LEMMA BeginHear ==
  ASSUME Inv, HearInv, hosted, Silence, NEW t \in Threads, calling[t] = <<>>,
         NEW kind \in Kinds, NEW of \in Nat, Calls(t, kind, of)
  PROVE  HearInv'
<1>1. /\ \A u \in Threads \ {t} : calling'[u] = calling[u]
      /\ calling'[t] \in {<<>>, <<Call(t, kind, of)>>}
  BY CallsInv
<1>2. \A n \in 1..Len(calling'[t]) : ~Numbered(calling'[t][n])
  <2>1. CASE calling'[t] = <<>> BY <2>1, EmptySeq
  <2>2. CASE calling'[t] = <<Call(t, kind, of)>> BY <2>2 DEF Numbered, Call
  <2>. QED BY <1>1, <2>1, <2>2
<1>3. UNCHANGED <<made, heard, refused>> BY DEF Silence, stream, hosts
<1>. QED BY <1>1, <1>2, <1>3, CalmHear

LEMMA SaysHear ==
  ASSUME Inv, HearInv, hosted, Says
  PROVE  HearInv'
<1>1. PICK t, kind, of :
        /\ t = Flow /\ kind = Head(Top.todo).kind /\ of = Head(Top.todo).of
  OBVIOUS
<1>2. /\ Silence /\ t \in Threads /\ calling[t] = <<>> /\ Calls(t, kind, of) /\ kind \in Kinds
  BY <1>1 DEF Says, Idle, Silence, Threads
<1>3. of \in Nat BY <1>1, DoneRun DEF Inv, TypeOK, Says, Idle, Item
<1>. QED BY <1>2, <1>3, BeginHear

LEMMA ProgressHear ==
  ASSUME Inv, HearInv, hosted, NEW w \in Workers, Progress(w)
  PROVE  HearInv'
<1>1. PICK kind, of : kind = "progress" /\ of = working[w].call
  OBVIOUS
<1>2. Silence /\ w \in Threads /\ Calls(w, kind, of) /\ kind \in Kinds
  BY <1>1, WorksInv DEF Progress, Threads, Kinds, Notified
<1>3. calling[w] = <<>> /\ of \in Nat
  BY <1>1 DEF Progress, Inv, TypeOK, ToolsOK, CallInv
<1>. QED BY <1>2, <1>3, BeginHear

\* The innermost of the m calls of t makes e, the event id, and goes on as d.
Makes(t, m, id, d, e) ==
  /\ m = Len(calling[t]) /\ Len(calling'[t]) = m
  /\ id = Len(made) + 1 /\ Len(made) \in Nat /\ Len(made') = id /\ made'[id] = e
  /\ \A k \in 1..Len(made) : made'[k] = made[k]
  /\ calling'[t][m] = d /\ d.event = id /\ d.at \in {"observe", "call"}
  /\ calling[t][m].event = 0
  /\ \A n \in 1..m - 1 : /\ calling'[t][n] = calling[t][n]
                         /\ calling[t][n].event \in (1..Len(made)) \cap e.inside
  /\ \A u \in Threads \ {t} : calling'[u] = calling[u]
  /\ e.by = t /\ e.for = RunsOf(t)
  /\ e.kind = calling[t][m].kind /\ e.of = calling[t][m].of
  /\ d.kind = calling[t][m].kind /\ d.of = calling[t][m].of
  /\ events' = IF e.kind \in Emitted THEN Append(events, id) ELSE events

LEMMA NumberGoes ==
  ASSUME Inv, NEW t \in Threads, Number(t)
  PROVE  \E m, id, d, e :
           m \in Nat \ {0} /\ Makes(t, m, id, d, e)
<1>1. CallsOK /\ StreamOK /\ CallInv /\ calling[t] # <<>> /\ Current(t).at = "number"
  BY DEF Inv, TypeOK, Number, Step
<1>2. PICK m \in Nat \ {0} :
        /\ m = Len(calling[t]) /\ Current(t) = calling[t][m] /\ CallOK(t, m)
        /\ Current(t) \in CallType
  BY <1>1, CurrentCall DEF CallInv
<1>3. PICK id, at, e, in :
        /\ id = Len(made) + 1 /\ at = AfterLock(Current(t).kind)
        /\ in = {calling[t][n].event : n \in 1..Len(calling[t]) - 1}
        /\ e = [seq |-> Current(t).read + 1, kind |-> Current(t).kind,
                of |-> Current(t).of, by |-> t, for |-> RunsOf(t), inside |-> in]
  OBVIOUS
<1>4. PICK d : d = [Current(t) EXCEPT !.event = id, !.at = at] OBVIOUS
<1>5. made' = Append(made, e) /\ calling' = Becomes(t, d)
  BY <1>3, <1>4 DEF Number
<1>6. /\ Len(made) \in Nat /\ Len(made') = id /\ made'[id] = e
      /\ \A k \in 1..Len(made) : made'[k] = made[k]
  BY <1>1, <1>3, <1>5, LenProperties, NumberInv DEF StreamOK, Inv, TypeOK
<1>7. d \in CallType /\ d.event = id /\ d.at \in {"observe", "call"}
  <2>1. at \in {"observe", "call"} /\ id \in Nat
    BY <1>3, <1>6 DEF AfterLock
  <2>. QED BY <1>2, <1>4, <2>1 DEF CallType, Places
<1>8. Goes(t, d) /\ Len(calling'[t]) # Len(calling[t]) + 1
  BY <1>1, <1>5, <1>7, BecomesGoes
<1>9. Len(calling'[t]) = m /\ calling'[t][m] = d
  BY <1>2, <1>7, <1>8 DEF Goes
<1>10. calling[t][m].event = 0 BY <1>1, <1>2 DEF CallOK, Numbered
<1>11. ASSUME NEW n \in 1..m - 1
       PROVE  calling[t][n].event \in 1..Len(made) /\ calling[t][n].event \in e.inside
  BY <1>1, <1>2, <1>3 DEF CallInv, CallOK
<1>12. /\ e.by = t /\ e.for = RunsOf(t)
       /\ e.kind = calling[t][m].kind /\ e.of = calling[t][m].of
       /\ events' = IF e.kind \in Emitted THEN Append(events, id) ELSE events
  BY <1>2, <1>3 DEF Number
<1>15. d.kind = calling[t][m].kind /\ d.of = calling[t][m].of
  BY <1>2, <1>4 DEF CallType
<1>13. /\ \A n \in 1..m - 1 : calling'[t][n] = calling[t][n]
       /\ \A u \in Threads \ {t} : calling'[u] = calling[u]
  BY <1>2, <1>8 DEF Goes
<1>14. Makes(t, m, id, d, e)
  BY <1>2, <1>3, <1>6, <1>7, <1>9, <1>10, <1>11, <1>12, <1>13, <1>15 DEF Makes
<1>. QED BY <1>2, <1>14

LEMMA NumberHear ==
  ASSUME Inv, HearInv, hosted, NEW t \in Threads, Number(t)
  PROVE  HearInv'
<1>1. PICK m, id, d, e : m \in Nat \ {0} /\ Makes(t, m, id, d, e)
  BY NumberGoes
<1>2. /\ m \in Nat \ {0}
      /\ m = Len(calling[t]) /\ Len(calling'[t]) = m
      /\ id = Len(made) + 1 /\ Len(made) \in Nat /\ Len(made') = id /\ made'[id] = e
      /\ \A k \in 1..Len(made) : made'[k] = made[k]
      /\ calling'[t][m] = d /\ d.event = id /\ d.at \in {"observe", "call"}
      /\ calling[t][m].event = 0
      /\ \A n \in 1..m - 1 : /\ calling'[t][n] = calling[t][n]
                             /\ calling[t][n].event \in (1..Len(made)) \cap e.inside
      /\ \A u \in Threads \ {t} : calling'[u] = calling[u]
      /\ e.by = t
  BY <1>1 DEF Makes
<1>3. UNCHANGED <<heard, refused>> /\ \A k : Told(k)' <=> Told(k)
  BY DEF Number, hosts, Told
<1>4. /\ Len(heard) \in Nat /\ \A k \in 1..Len(heard) : heard[k] \in 1..Len(made)
      /\ HeardOnce /\ LastHeard
  BY LenProperties, ElementOfSeq DEF Inv, TypeOK, StreamOK, HearInv
<1>5. \A k \in 1..Len(made') : k \in 1..Len(made) \/ k = id
  BY <1>2
<1>6. ASSUME NEW u \in Threads, NEW n \in 1..Len(calling[u]), u # t \/ n < m
      PROVE  HearOK(u, n)'
  <2>1. calling'[u][n] = calling[u][n] /\ \A k \in 1..n : calling'[u][k] = calling[u][k]
    <3>1. CASE u # t BY <1>2, <3>1
    <3>2. CASE u = t BY <1>2, <1>6, <3>2
    <3>. QED BY <3>1, <3>2
  <2>2. SUFFICES ASSUME Numbered(calling[u][n])
                 PROVE  Reaches(calling[u][n])' /\ Nested(u, n)'
    BY <2>1 DEF HearOK, Numbered
  <2>3. PICK c : c = calling[u][n] /\ c = calling'[u][n]
    BY <2>1
  <2>4. Reaches(c) /\ Nested(u, n) /\ CallOK(u, n)
    BY <1>6, <2>2, <2>3 DEF HearInv, HearOK, Inv, CallInv
  <2>5. Reaches(c)' BY <1>3, <2>4 DEF Reaches, Told
  <2>6. ASSUME NEW k \in 1..Len(made'), k > c.event, made'[k].by = u
        PROVE  c.event \in made'[k].inside
    <3>1. CASE k \in 1..Len(made) BY <1>2, <2>3, <2>4, <2>6, <3>1 DEF Nested
    <3>2. CASE k = id
      <4>1. u = t /\ n \in 1..m - 1
        BY <1>2, <1>6, <2>6, <3>2
      <4>. QED BY <1>2, <2>3, <3>2, <4>1
    <3>. QED BY <1>5, <3>1, <3>2
  <2>7. \A k \in 1..n - 1 : calling'[u][k].event < c.event
    BY <2>1, <2>3, <2>4 DEF Nested
  <2>8. Nested(u, n)' BY <2>3, <2>6, <2>7 DEF Nested
  <2>9. Reaches(calling[u][n])' <=> Reaches(c)'
    BY <2>3 DEF Reaches, Told
  <2>. QED BY <2>5, <2>8, <2>9
<1>7. HearOK(t, m)'
  <2>1. ~Told(id)' BY <1>2, <1>3, <1>4 DEF Told
  <2>2. Reaches(d)' BY <1>2, <2>1 DEF Reaches, Told
  <2>3. Nested(t, m)'
    <3>1. \A n \in 1..m - 1 : calling'[t][n].event < id
      BY <1>2
    <3>2. \A k \in 1..Len(made') : ~(k > id)
      BY <1>2
    <3>. QED BY <1>2, <3>1, <3>2 DEF Nested
  <2>4. Reaches(calling[t][m])' <=> Reaches(d)'
    BY <1>2 DEF Reaches, Told
  <2>. QED BY <2>2, <2>3, <2>4 DEF HearOK, Reaches
<1>8. ASSUME NEW u \in Threads, NEW n \in 1..Len(calling'[u])  PROVE HearOK(u, n)'
  <2>1. CASE u # t BY <1>2, <1>6, <1>8, <2>1
  <2>2. CASE u = t /\ n # m
    BY <1>2, <1>6, <1>8, <2>2
  <2>3. CASE u = t /\ n = m
    BY <1>7, <2>3
  <2>. QED BY <2>1, <2>2, <2>3
<1>9. ASSUME NEW k \in 1..Len(made')  PROVE Accounted(k)'
  <2>1. CASE k = id BY <1>2, <2>1 DEF InDelivery, Accounted
  <2>2. CASE k \in 1..Len(made)
    <3>1. Accounted(k) /\ made'[k] = made[k] /\ (Told(k)' <=> Told(k))
      BY <1>2, <1>3, <2>2 DEF HearInv
    <3>2. ASSUME InDelivery(k)  PROVE InDelivery(k)'
      <4>1. PICK u \in Threads : \E n \in 1..Len(calling[u]) : calling[u][n].event = k
        BY <3>2 DEF InDelivery
      <4>2. PICK n \in 1..Len(calling[u]) : calling[u][n].event = k BY <4>1
      <4>3. u # t \/ n # m
        BY <1>2, <2>2, <4>2
      <4>4. n \in 1..Len(calling'[u]) /\ calling'[u][n] = calling[u][n]
        BY <1>2, <4>2, <4>3
      <4>. QED BY <4>2, <4>4 DEF InDelivery
    <3>. QED BY <1>3, <3>1, <3>2 DEF Accounted
  <2>. QED BY <1>5, <1>9, <2>1, <2>2
<1>10. HeardOnce' BY <1>3, <1>4 DEF HeardOnce
<1>11. LastHeard'
  <2>1. ASSUME NEW n \in 1..Len(heard), NEW l \in 1..Len(made'),
               l = heard[Len(heard)], made'[heard[n]].by = made'[l].by, heard[n] > l
        PROVE  l \in made'[heard[n]].inside
    <3>1. Len(heard) \in 1..Len(heard) BY <1>4, <2>1
    <3>2. l \in 1..Len(made) /\ heard[n] \in 1..Len(made)
      BY <1>4, <2>1, <3>1
    <3>3. made'[l] = made[l] /\ made'[heard[n]] = made[heard[n]]
      BY <1>2, <3>2
    <3>. QED BY <1>4, <2>1, <3>2, <3>3 DEF LastHeard
  <2>. QED BY <1>3, <2>1 DEF LastHeard
<1>. QED BY <1>8, <1>9, <1>10, <1>11 DEF HearInv

\* Nothing of a call happens.
LEMMA QuietHear ==
  ASSUME HearInv, hosted, UNCHANGED <<made, heard, refused, calling>>
  PROVE  HearInv'
BY CalmHear

LEMMA HearInit ==
  ASSUME Init
  PROVE  HearInv
<1>1. made = <<>> /\ heard = <<>> /\ \A t \in Threads : calling[t] = <<>>
  BY DEF Init
<1>2. Len(<<>>) = 0 OBVIOUS
<1>. QED BY <1>1, <1>2 DEF HearInv, HeardOnce, LastHeard

LEMMA HearStep ==
  ASSUME Inv, HearInv, [Next]_vars
  PROVE  HearInv'
<1>1. hosted' = hosted
  <2>1. CASE \E t \in Threads : InCall(t)
    BY <2>1 DEF InCall, Acquire, Number, Observe, Read, Deliver, Return, Raise, hosts
  <2>2. CASE InFlow
    BY <2>2 DEF InFlow, Enter, VisitModel, VisitAgent, VisitTools, Visit, Conclude, Leave, Says,
       Answer, Record, Submit, Join, Runs, Abandon, hosts
  <2>3. CASE \E w \in Workers : InTool(w)
    BY <2>3 DEF InTool, StartTool, Progress, EndTool, Works, hosts
  <2>4. CASE UNCHANGED vars BY <2>4 DEF vars, hosts
  <2>. QED BY <2>1, <2>2, <2>3, <2>4 DEF Next, Stop
<1>. SUFFICES ASSUME hosted  PROVE HearInv'
  BY <1>1 DEF HearInv
<1>2. CASE \E t \in Threads : InCall(t)
  BY <1>2, AcquireHear, NumberHear, ObserveHear, ReadHear, DeliverHear, ReturnHear, RaiseHear
     DEF InCall
<1>3. CASE InFlow /\ ~Says
  <2>1. UNCHANGED <<made, heard, refused, calling>>
    BY <1>3 DEF InFlow, Enter, VisitModel, VisitAgent, VisitTools, Visit, Conclude, Leave,
       Answer, Record, Submit, Join, Runs, Abandon, hosts, stream
  <2>. QED BY <2>1, QuietHear
<1>4. CASE Says BY <1>4, SaysHear
<1>5. CASE \E w \in Workers : InTool(w)
  <2>1. PICK w \in Workers : InTool(w) BY <1>5
  <2>2. CASE Progress(w) BY <2>2, ProgressHear
  <2>3. CASE StartTool(w) \/ EndTool(w)
    BY <2>3, QuietHear DEF StartTool, EndTool, Works, hosts, stream
  <2>. QED BY <2>1, <2>2, <2>3 DEF InTool
<1>6. CASE UNCHANGED vars BY <1>6, QuietHear DEF vars, hosts, stream
<1>. QED BY <1>2, <1>3, <1>4, <1>5, <1>6 DEF Next, Stop

LEMMA AlwaysHear == Spec => []HearInv
<1>1. Init => HearInv
  BY HearInit
<1>2. Inv /\ HearInv /\ [Next]_vars => HearInv'
  BY HearStep
<1>. QED BY <1>1, <1>2, AlwaysInv, PTL DEF Spec

-------------------------------------------------------------
LEMMA OnceEachLemma ==
  ASSUME NEW S, NEW s \in Seq(S), \A k, l \in 1..Len(s) : k # l => s[k] # s[l]
  PROVE  OnceEach(s)
<1>1. Len(s) \in Nat /\ DOMAIN s = 1..Len(s)
  BY LenProperties
<1>2. Range(s) = {s[k] : k \in 1..Len(s)} BY <1>1 DEF Range
<1>3. s \in Bijection(1..Len(s), Range(s))
  BY <1>1, <1>2, Fun_IsInj, Fun_IsSurj DEF Bijection
<1>4. ExistsBijection(1..Len(s), Range(s)) BY <1>3 DEF ExistsBijection
<1>5. Cardinality(Range(s)) = Len(s) BY <1>1, <1>4, FS_CountingElements
<1>. QED BY <1>5 DEF OnceEach

LEMMA HearAll ==
  ASSUME Inv, HearInv
  PROVE  HostHearsAll
<1>. SUFFICES ASSUME hosted
              PROVE  /\ OnceEach(heard)
                     /\ \A e \in (DOMAIN made) \ (Delivering \cup refused \cup Range(heard)) :
                          made[e].kind = "payload"
                     /\ \A n \in DOMAIN heard :
                          LET e == heard[n]  latest == Last(heard)
                          IN made[e].by = made[latest].by /\ made[e].seq > made[latest].seq =>
                               latest \in made[e].inside
  BY DEF HostHearsAll
<1>1. /\ heard \in Seq(1..Len(made)) /\ Len(heard) \in Nat /\ DOMAIN heard = 1..Len(heard)
      /\ \A k \in 1..Len(heard) : heard[k] \in 1..Len(made)
      /\ DOMAIN made = 1..Len(made) /\ CallsOK
  BY LenProperties, ElementOfSeq DEF Inv, TypeOK, StreamOK
<1>2. OnceEach(heard) BY <1>1, OnceEachLemma DEF HearInv, HeardOnce
<1>3. ASSUME NEW e \in DOMAIN made, e \notin Delivering \cup refused \cup Range(heard)
      PROVE  made[e].kind = "payload"
  <2>1. Accounted(e) BY <1>1 DEF HearInv
  <2>2. ~Told(e) BY <1>1, <1>3 DEF Told, Range
  <2>3. ~InDelivery(e)
    <3>. SUFFICES ASSUME NEW t \in Threads, NEW n \in 1..Len(calling[t]), calling[t][n].event = e
                  PROVE  FALSE
      BY DEF InDelivery
    <3>1. DOMAIN calling[t] = 1..Len(calling[t]) BY <1>1 DEF CallsOK
    <3>2. e \in {calling[t][k].event : k \in DOMAIN calling[t]} BY <3>1
    <3>. QED BY <1>3, <3>2 DEF Delivering
  <2>. QED BY <1>3, <2>1, <2>2, <2>3 DEF Accounted
<1>4. ASSUME NEW n \in DOMAIN heard,
             made[heard[n]].by = made[Last(heard)].by,
             made[heard[n]].seq > made[Last(heard)].seq
      PROVE  Last(heard) \in made[heard[n]].inside
  <2>1. n \in 1..Len(heard) /\ Len(heard) \in 1..Len(heard)
    BY <1>1, <1>4
  <2>2. PICK l : l = Last(heard) /\ l = heard[Len(heard)]
    BY DEF Last
  <2>3. l \in 1..Len(made) /\ heard[n] \in 1..Len(made)
    BY <1>1, <2>1, <2>2
  <2>4. made[heard[n]].seq = heard[n] /\ made[l].seq = l
    BY <2>3 DEF Inv, CallInv
  <2>. QED BY <1>4, <2>1, <2>2, <2>3, <2>4 DEF HearInv, LastHeard
<1>. QED BY <1>2, <1>3, <1>4

\* Whatever was made, delivered in full and not raised upon has reached the
\* host's on_event, once; traced runs, that put a subscriber of their own in
\* between, come and go.  It hears the events of each thread in the order of
\* their numbers, but for those that a subscriber emits while it is told of an
\* earlier one (context.py:157-171, 213-225, node.py:287-300, 387-391).
THEOREM HostIsTold == Spec => []HostHearsAll
<1>1. Inv /\ HearInv => HostHearsAll
  BY HearAll
<1>. QED BY <1>1, AlwaysInv, AlwaysHear, PTL

-------------------------------------------------------------
(* THE VERDICTS OF RUNS: for any number of runs, one inside the other or   *)
(* after it (VerdictUnlessRaised).                                         *)

-------------------------------------------------------------
(* The invariant: where a run is between its end and its verdict.          *)

\* The k-th event is the verdict of the run id.
IsVerdict(k, id) == made[k].kind = "verdict" /\ made[k].of = id

Judged(id) == \E k \in 1..Len(made) : IsVerdict(k, id)

\* The verdict comes last of what a run tells.
LastVerdict(f) == f.todo # <<>> /\ f.todo[Len(f.todo)].kind = "verdict"

\* A run that is over has told its verdict, is about to, or has it left to
\* tell, unless it was cut off.
Course(f, judged, judging) ==
  /\ \A p \in 1..Len(f.todo) :
       /\ f.todo[p].kind = "verdict" => f.over /\ p = Len(f.todo) /\ f.todo[p].of = f.id
       /\ f.over => OfInterpreter(f.todo[p].kind)
  /\ judged \/ judging => f.over /\ f.todo = <<>>
  /\ ~(judged /\ judging)
  /\ f.over /\ ~f.cut => judged \/ judging \/ LastVerdict(f)

CourseOK(n) ==
  Course(runs[n], Judged(runs[n].id), Saying("verdict", runs[n].id))

\* Runs in progress have different ids; only the innermost may be over.
RunsInTurn ==
  \A n \in 1..Len(runs) :
    /\ runs[n].id <= started /\ (n < Len(runs) => ~runs[n].over)
    /\ \A m \in 1..n - 1 : runs[m].id # runs[n].id

\* Runs that have ended.
LeftOK ==
  \A o \in left :
    /\ o.id <= started /\ (o.cut \/ Judged(o.id))
    /\ \A n \in 1..Len(runs) : runs[n].id # o.id

\* What the flow tells is of the innermost run; once that has told its verdict,
\* whatever it tells is told inside it.
FlowOK ==
  calling[Flow] # <<>> =>
    /\ Top.over => OfInterpreter(calling[Flow][1].kind)
    /\ calling[Flow][1].kind = "verdict" => calling[Flow][1].of = Top.id
    /\ \A k \in 1..Len(made) : IsVerdict(k, Top.id) => calling[Flow][1].event = k

\* No run has two verdicts, or says anything after it.
VerdictsOK ==
  \A k \in 1..Len(made) : made[k].kind = "verdict" =>
    /\ made[k].of <= started
    /\ \A l \in k + 1..Len(made) :
         /\ ~IsVerdict(l, made[k].of)
         /\ made[k].of \in made[l].for /\ made[l].by = Flow => k \in made[l].inside

\* The events that are emitted are retained, in their order.
Retained ==
  /\ \A k \in 1..Len(made) :
       made[k].kind \in Emitted => \E n \in 1..Len(events) : events[n] = k
  /\ \A m, n \in 1..Len(events) : m < n => events[m] < events[n]

JudgeInv ==
  /\ \A n \in 1..Len(runs) : CourseOK(n)
  /\ RunsInTurn /\ LeftOK /\ FlowOK /\ VerdictsOK /\ Retained

-------------------------------------------------------------
(* The course of a run.                                                    *)

\* The flow tells, or does, the next thing.
LEMMA CourseGoesOn ==
  ASSUME NEW f \in RunType, f.todo # <<>>, NEW judged \in BOOLEAN, Course(f, judged, FALSE),
         NEW g \in RunType, SameTraced(g, f), SameEnd(g, f), g.todo = Tail(f.todo)
  PROVE  ~judged /\ Course(g, FALSE, Head(f.todo).kind = "verdict")
<1>1. f.todo \in Seq(Item) /\ Len(f.todo) \in Nat \ {0}
  BY EmptySeq DEF RunType
<1>2. PICK todo, m : todo = f.todo /\ m \in Nat /\ Len(todo) = m + 1
  <2>1. Len(f.todo) - 1 \in Nat /\ Len(f.todo) = (Len(f.todo) - 1) + 1
    BY <1>1
  <2>. QED BY <2>1
<1>3. /\ g.todo \in Seq(Item) /\ Len(g.todo) = m /\ Head(todo) = todo[1]
      /\ \A q \in 1..m : g.todo[q] = todo[q + 1]
  BY <1>1, <1>2, HeadTailProperties
<1>4. /\ \A p \in 1..m + 1 :
           /\ todo[p].kind = "verdict" => f.over /\ p = m + 1 /\ todo[p].of = f.id
           /\ f.over => OfInterpreter(todo[p].kind)
      /\ ~judged
      /\ f.over /\ ~f.cut => todo[m + 1].kind = "verdict"
  BY <1>2 DEF Course, LastVerdict
<1>5. g.id = f.id /\ g.over = f.over /\ g.cut = f.cut
  BY DEF SameTraced, SameEnd
<1>6. ASSUME NEW p \in 1..m
      PROVE  /\ g.todo[p].kind = "verdict" => g.over /\ p = m /\ g.todo[p].of = g.id
             /\ g.over => OfInterpreter(g.todo[p].kind)
  BY <1>2, <1>3, <1>4, <1>5
<1>7. g.todo = <<>> <=> m = 0
  BY <1>3, EmptySeq
<1>8. 1 \in 1..m + 1 BY <1>2
<1>9. CASE Head(f.todo).kind = "verdict"
  BY <1>2, <1>3, <1>4, <1>5, <1>6, <1>7, <1>8, <1>9 DEF Course
<1>10. CASE Head(f.todo).kind # "verdict"
  <2>1. ASSUME g.over, ~g.cut  PROVE LastVerdict(g)
    BY <1>2, <1>3, <1>4, <1>5, <1>7, <1>10, <2>1 DEF LastVerdict
  <2>. QED BY <1>3, <1>4, <1>6, <1>10, <2>1 DEF Course
<1>. QED BY <1>9, <1>10

\* A run fails, or is cut off.
LEMMA CourseBroken ==
  ASSUME NEW f \in RunType
  PROVE  /\ Course(Failed(f), FALSE, FALSE) /\ Failed(f).id = f.id
         /\ \A judged \in BOOLEAN : Course(Cut(f), judged, FALSE) /\ Cut(f).id = f.id
<1>1. /\ Failed(f).todo = <<Tell("end", f.id), Tell("verdict", f.id)>>
      /\ Failed(f).over /\ Failed(f).id = f.id
      /\ Cut(f).todo = <<>> /\ Cut(f).over /\ Cut(f).cut /\ Cut(f).id = f.id
  BY DEF Failed, Cut, RunType
<1>2. PICK d, e : d = Tell("end", f.id) /\ e = Tell("verdict", f.id)
  OBVIOUS
<1>3. d.kind = "end" /\ e.kind = "verdict" /\ e.of = f.id
  BY <1>2 DEF Tell
<1>4. /\ Len(<<d, e>>) = 2 /\ <<d, e>>[2] = e /\ <<d, e>> # <<>>
      /\ \A p \in 1..Len(<<d, e>>) : (p = 1 /\ <<d, e>>[p] = d) \/ (p = 2 /\ <<d, e>>[p] = e)
  OBVIOUS
<1>5. PICK todo : todo = <<d, e>> OBVIOUS
<1>6. /\ Len(todo) = 2 /\ todo[2] = e /\ todo # <<>>
      /\ \A p \in 1..Len(todo) : (p = 1 /\ todo[p] = d) \/ (p = 2 /\ todo[p] = e)
      /\ Failed(f).todo = todo
  BY <1>1, <1>2, <1>4, <1>5
<1>7. Course(Failed(f), FALSE, FALSE)
  BY <1>1, <1>3, <1>6 DEF Course, LastVerdict, OfInterpreter
<1>8. \A judged \in BOOLEAN : Course(Cut(f), judged, FALSE)
  BY <1>1, EmptySeq DEF Course
<1>. QED BY <1>1, <1>7, <1>8

-------------------------------------------------------------
(* Steps that touch one run, or none.                                      *)

\* Verdicts are told by the flow, of runs in progress.
LEMMA JudgeTypes ==
  ASSUME Inv, JudgeInv
  PROVE  /\ Len(runs) \in Nat /\ started \in Nat /\ Flow \in Threads
         /\ \A n \in 1..Len(runs) : runs[n].id \in Nat /\ runs[n] \in RunType
         /\ runs # <<>> => /\ Len(runs) \in 1..Len(runs) /\ Top = runs[Len(runs)]
                           /\ Top \in RunType /\ Course(Top, Judged(Top.id), Saying("verdict", Top.id))
         /\ \A id : Saying("verdict", id) => runs # <<>> /\ id = Top.id
<1>1. RunsOK /\ Len(runs) \in Nat /\ started \in Nat
  BY EventBoundAssumption, LenProperties DEF Inv, TypeOK, RunsOK
<1>2. ASSUME runs # <<>>
      PROVE  /\ Len(runs) \in 1..Len(runs) /\ Top = runs[Len(runs)] /\ Top \in RunType
             /\ \A n \in 1..Len(runs) : runs[n] \in RunType
             /\ Course(Top, Judged(Top.id), Saying("verdict", Top.id))
  BY <1>1, <1>2, TopRun DEF JudgeInv, CourseOK
<1>3. \A n \in 1..Len(runs) : runs[n] \in RunType
  BY <1>2, EmptySeq
<1>4. \A id : Saying("verdict", id) => runs # <<>> /\ id = Top.id
  BY DEF Saying, JudgeInv, FlowOK, Inv, CallInv
<1>. QED BY <1>1, <1>2, <1>3, <1>4, RunIdType DEF Threads

\* The events stay, and so do the runs that have ended.
LEMMA EventsKept ==
  ASSUME JudgeInv, UNCHANGED <<made, events, started>>
  PROVE  VerdictsOK' /\ Retained'
<1>1. VerdictsOK' BY DEF JudgeInv, VerdictsOK, IsVerdict
<1>. QED BY <1>1 DEF JudgeInv, Retained

\* Nothing of the runs changes, and the flow goes on with its call.
LEMMA JudgeStill ==
  ASSUME Inv, JudgeInv, UNCHANGED <<made, events, runs, started, left>>,
         \A id : Saying("verdict", id)' <=> Saying("verdict", id),
         calling'[Flow] # <<>> =>
           /\ calling[Flow] # <<>>
           /\ calling'[Flow][1].kind = calling[Flow][1].kind
           /\ calling'[Flow][1].of = calling[Flow][1].of
           /\ calling'[Flow][1].event = calling[Flow][1].event
  PROVE  JudgeInv'
<1>1. \A id : Judged(id)' <=> Judged(id)
  BY DEF Judged, IsVerdict
<1>2. ASSUME NEW n \in 1..Len(runs')  PROVE CourseOK(n)'
  <2>1. PICK f : f = runs[n] /\ f = runs'[n]
    OBVIOUS
  <2>2. Course(f, Judged(f.id), Saying("verdict", f.id))
    BY <1>2, <2>1 DEF JudgeInv, CourseOK
  <2>3. PICK id : id = f.id OBVIOUS
  <2>4. (Judged(id)' <=> Judged(id)) /\ (Saying("verdict", id)' <=> Saying("verdict", id))
    BY <1>1
  <2>5. Course(f, Judged(id)', Saying("verdict", id)') BY <2>2, <2>3, <2>4 DEF Course
  <2>. QED BY <2>1, <2>3, <2>5 DEF CourseOK, Judged, IsVerdict, Saying
<1>3. RunsInTurn' BY DEF JudgeInv, RunsInTurn
<1>4. LeftOK' BY <1>1 DEF JudgeInv, LeftOK, Judged, IsVerdict
<1>5. FlowOK' BY DEF JudgeInv, FlowOK, Top, IsVerdict
<1>. QED BY <1>2, <1>3, <1>4, <1>5, EventsKept DEF JudgeInv

\* The runs go on, the innermost as f, and the flow is about to tell its verdict
\* or not.
LEMMA JudgeTop ==
  ASSUME Inv, JudgeInv, UNCHANGED <<made, events, started, left>>, runs # <<>>,
         NEW f, runs' \in Seq(RunType), Len(runs') = Len(runs), runs'[Len(runs)] = f,
         f.id = Top.id,
         \A n \in 1..Len(runs) - 1 : /\ SameTraced(runs'[n], runs[n]) /\ SameEnd(runs'[n], runs[n])
                                     /\ runs'[n].todo = runs[n].todo,
         NEW judging \in BOOLEAN, Course(f, Judged(Top.id), judging),
         \A id : Saying("verdict", id)' <=> judging /\ id = Top.id,
         calling'[Flow] # <<>> =>
           /\ f.over => OfInterpreter(calling'[Flow][1].kind)
           /\ calling'[Flow][1].kind = "verdict" => calling'[Flow][1].of = f.id
           /\ Judged(f.id) => FALSE
  PROVE  JudgeInv'
<1>1. \A id : Judged(id)' <=> Judged(id)
  BY DEF Judged, IsVerdict
<1>2. /\ Len(runs) \in Nat \ {0} /\ Top = runs[Len(runs)]
      /\ \A id : Saying("verdict", id) => id = Top.id
  BY JudgeTypes
<1>3. \A n \in 1..Len(runs) : n = Len(runs) \/ n \in 1..Len(runs) - 1
  BY <1>2
<1>4. \A n \in 1..Len(runs) : runs'[n].id = runs[n].id
  BY <1>2, <1>3 DEF SameTraced
<1>5. ASSUME NEW n \in 1..Len(runs')  PROVE CourseOK(n)'
  <2>1. PICK g, id : g = runs'[n] /\ id = runs'[n].id
    OBVIOUS
  <2>2. Course(g, Judged(id)', Saying("verdict", id)')
    <3>1. CASE n = Len(runs) BY <1>1, <1>2, <1>4, <1>5, <2>1, <3>1 DEF Course
    <3>2. CASE n # Len(runs)
      <4>1. n \in 1..Len(runs) - 1 /\ n \in 1..Len(runs) /\ n < Len(runs)
        BY <1>2, <1>5, <3>2
      <4>2. id = runs[n].id /\ id # Top.id
        BY <1>2, <1>4, <2>1, <4>1 DEF JudgeInv, RunsInTurn
      <4>3. ~Saying("verdict", id) /\ ~Saying("verdict", id)' /\ (Judged(id)' <=> Judged(id))
        BY <1>1, <1>2, <4>2
      <4>4. CourseOK(n) BY <4>1 DEF JudgeInv
      <4>5. Course(runs[n], Judged(id), FALSE) BY <4>2, <4>3, <4>4 DEF CourseOK, Course
      <4>6. g.id = runs[n].id /\ g.todo = runs[n].todo /\ g.over = runs[n].over /\ g.cut = runs[n].cut
        BY <2>1, <4>1 DEF SameTraced, SameEnd
      <4>. QED BY <4>3, <4>5, <4>6 DEF Course, LastVerdict
    <3>. QED BY <3>1, <3>2
  <2>. QED BY <2>1, <2>2 DEF CourseOK, Judged, IsVerdict, Saying
<1>6. RunsInTurn'
  <2>. SUFFICES ASSUME NEW n \in 1..Len(runs)
                PROVE  /\ runs'[n].id <= started' /\ (n < Len(runs) => ~runs'[n].over)
                       /\ \A m \in 1..n - 1 : runs'[m].id # runs'[n].id
    BY DEF RunsInTurn
  <2>1. /\ runs[n].id <= started /\ (n < Len(runs) => ~runs[n].over)
        /\ \A m \in 1..n - 1 : runs[m].id # runs[n].id
    BY DEF JudgeInv, RunsInTurn
  <2>2. \A m \in 1..n - 1 : m \in 1..Len(runs)
    BY <1>2
  <2>3. n < Len(runs) => n \in 1..Len(runs) - 1
    BY <1>2
  <2>. QED BY <1>4, <2>1, <2>2, <2>3 DEF SameEnd
<1>7. LeftOK' BY <1>1, <1>4 DEF JudgeInv, LeftOK, Judged, IsVerdict
<1>8. FlowOK'
  <2>1. Top' = f BY <1>2, EmptySeq, FrontLast DEF Top
  <2>2. \A k \in 1..Len(made) : IsVerdict(k, f.id)' => Judged(f.id)
    BY DEF Judged, IsVerdict
  <2>. QED BY <2>1, <2>2 DEF FlowOK, IsVerdict
<1>. QED BY <1>5, <1>6, <1>7, <1>8, EventsKept DEF JudgeInv

-------------------------------------------------------------
(* The steps of a call.                                                    *)

LEMMA InnerJudge ==
  ASSUME Inv, JudgeInv, NEW t \in Threads,
         Acquire(t) \/ Observe(t) \/ Read(t) \/ Deliver(t) \/ Return(t)
  PROVE  JudgeInv'
<1>1. PICK c : GoesOn(t, c)
  BY AcquireGoes, ObserveGoes, ReadGoes, DeliverGoes, ReturnGoes
<1>2. UNCHANGED <<made, events, runs, started, left>>
  BY DEF Acquire, Observe, Read, Deliver, Return, stream
<1>3. CASE t # Flow BY <1>1, <1>2, <1>3, JudgeStill DEF GoesOn, Goes, Threads, Saying
<1>4. CASE t = Flow
  <2>1. calling'[Flow] # <<>> =>
          /\ calling[Flow] # <<>>
          /\ calling'[Flow][1].kind = calling[Flow][1].kind
          /\ calling'[Flow][1].of = calling[Flow][1].of
          /\ calling'[Flow][1].event = calling[Flow][1].event
    BY <1>1, <1>4, FirstKept DEF Inv, TypeOK
  <2>2. ASSUME calling'[Flow] = <<>>, NEW id  PROVE ~Saying("verdict", id)
    <3>1. calling[t] # <<>>
      BY DEF Acquire, Observe, Read, Deliver, Return, Step, Collect
    <3>2. /\ Len(calling[t]) \in Nat \ {0} /\ Current(t) = calling[t][Len(calling[t])]
          /\ CallOK(t, Len(calling[t])) /\ Len(calling'[t]) = 0
      BY <1>4, <2>2, <3>1, CurrentCall, EmptySeq DEF Inv, TypeOK, CallInv
    <3>3. ~Acquire(t) BY <3>2, AcquireGoes
    <3>4. Numbered(Current(t))
      BY <3>3 DEF Observe, Read, Deliver, Return, Step, Collect, Numbered
    <3>5. Len(calling[t]) = 1 BY <1>1, <3>2 DEF GoesOn, Goes
    <3>6. calling[t][1].event # 0 BY <3>2, <3>4, <3>5 DEF CallOK
    <3>. QED BY <1>4, <3>6 DEF Saying
  <2>3. ASSUME NEW id  PROVE Saying("verdict", id)' <=> Saying("verdict", id)
    BY <2>1, <2>2 DEF Saying
  <2>. QED BY <1>2, <2>1, <2>3, JudgeStill
<1>. QED BY <1>3, <1>4

\* The flow makes no call, before and after, and its innermost run goes on as f.
LEMMA FlowJudge ==
  ASSUME Inv, JudgeInv, UNCHANGED <<made, events, started, left>>, runs # <<>>,
         NEW f \in RunType, runs' = WithTop(f), f.id = Top.id,
         Course(f, Judged(Top.id), FALSE), calling'[Flow] = <<>>
  PROVE  JudgeInv'
<1>1. /\ runs' \in Seq(RunType) /\ Len(runs') = Len(runs)
      /\ \A n \in 1..Len(runs) - 1 : runs'[n] = runs[n]
      /\ runs'[Len(runs)] = f
  BY WithTopLemma DEF Inv, TypeOK
<1>2. \A n \in 1..Len(runs) - 1 :
        /\ SameTraced(runs'[n], runs[n]) /\ SameEnd(runs'[n], runs[n])
        /\ runs'[n].todo = runs[n].todo
  BY <1>1 DEF SameTraced, SameEnd
<1>3. \A id : ~Saying("verdict", id)'
  BY DEF Saying
<1>. QED BY <1>1, <1>2, <1>3, JudgeTop

LEMMA RaiseJudge ==
  ASSUME Inv, JudgeInv, NEW t \in Threads, Raise(t)
  PROVE  JudgeInv'
<1>1. /\ UNCHANGED <<made, events, started, left>>
      /\ calling' = [calling EXCEPT ![t] = <<>>] /\ CallsOK
  BY DEF Raise, stream, Inv, TypeOK
<1>2. CASE t # Flow BY <1>1, <1>2, JudgeStill DEF Raise, CallsOK, Threads, Saying
<1>3. CASE t = Flow
  <2>1. calling'[Flow] = <<>> /\ calling[Flow] # <<>>
    BY <1>1, <1>3 DEF CallsOK, Raise, Heard, Step
  <2>2. runs # <<>> BY <2>1 DEF Inv, CallInv
  <2>3. Top \in RunType /\ Course(Top, Judged(Top.id), Saying("verdict", Top.id))
    BY <2>2, JudgeTypes
  <2>4. PICK f \in RunType :
          runs' = WithTop(f) /\ f.id = Top.id /\ Course(f, Judged(Top.id), FALSE)
    <3>1. CASE OfInterpreter(calling[t][1].kind)
      BY <1>3, <2>3, <3>1, FailedRun, CourseBroken DEF Raise, Judged
    <3>2. CASE ~OfInterpreter(calling[t][1].kind)
      <4>1. runs' = WithTop(Failed(Top)) BY <1>3, <3>2 DEF Raise
      <4>2. ~Top.over BY <1>3, <2>1, <3>2 DEF JudgeInv, FlowOK
      <4>3. ~Judged(Top.id) BY <2>3, <4>2 DEF Course
      <4>4. Course(Failed(Top), FALSE, FALSE) BY <2>3, CourseBroken
      <4>5. Course(Failed(Top), Judged(Top.id), FALSE) BY <4>3, <4>4 DEF Course
      <4>. QED BY <2>3, <4>1, <4>5, FailedRun, CourseBroken
    <3>. QED BY <3>1, <3>2
  <2>. QED BY <1>1, <2>1, <2>2, <2>4, FlowJudge
<1>. QED BY <1>2, <1>3

-------------------------------------------------------------
(* An event is made.                                                       *)

\* A run in progress whose verdict was told is the innermost, and the flow is
\* inside the call that tells it.
LEMMA JudgedIsTop ==
  ASSUME Inv, JudgeInv, NEW k \in 1..Len(made), made[k].kind = "verdict",
         made[k].of \in InProgress
  PROVE  /\ runs # <<>> /\ made[k].of = Top.id /\ Judged(Top.id)
         /\ calling[Flow] # <<>> => calling[Flow][1].event = k
<1>1. DOMAIN runs = 1..Len(runs) /\ Len(runs) \in Nat
  BY LenProperties DEF Inv, TypeOK, RunsOK
<1>2. PICK n \in 1..Len(runs) : runs[n].id = made[k].of BY <1>1 DEF InProgress
<1>3. Judged(runs[n].id) BY <1>2 DEF Judged, IsVerdict
<1>4. runs[n].over BY <1>2, <1>3 DEF JudgeInv, CourseOK, Course
<1>5. n = Len(runs)
  <2>1. ~(n < Len(runs)) BY <1>2, <1>4 DEF JudgeInv, RunsInTurn
  <2>2. PICK m \in Nat : m = Len(runs) BY <1>1
  <2>3. n \in 1..m BY <1>2, <2>2
  <2>. QED BY <2>1, <2>2, <2>3
<1>6. runs # <<>> /\ Top = runs[n]
  <2>1. runs # <<>> BY <1>1, <1>2, EmptySeq
  <2>. QED BY <1>5, <2>1, JudgeTypes
<1>7. IsVerdict(k, Top.id) BY <1>2, <1>6 DEF IsVerdict
<1>. QED BY <1>2, <1>3, <1>6, <1>7 DEF JudgeInv, FlowOK

LEMMA NumberJudge ==
  ASSUME Inv, JudgeInv, NEW t \in Threads, Number(t)
  PROVE  JudgeInv'
<1>1. PICK m, id, d, e : m \in Nat \ {0} /\ Makes(t, m, id, d, e)
  BY NumberGoes
<1>2. /\ m \in Nat \ {0}
      /\ m = Len(calling[t]) /\ Len(calling'[t]) = m
      /\ id = Len(made) + 1 /\ Len(made) \in Nat /\ Len(made') = id /\ made'[id] = e
      /\ \A k \in 1..Len(made) : made'[k] = made[k]
      /\ calling'[t][m] = d /\ d.event = id
      /\ calling[t][m].event = 0
      /\ \A n \in 1..m - 1 : /\ calling'[t][n] = calling[t][n]
                             /\ calling[t][n].event \in e.inside
      /\ \A u \in Threads \ {t} : calling'[u] = calling[u]
      /\ e.by = t /\ e.for = RunsOf(t)
      /\ e.kind = calling[t][m].kind /\ e.of = calling[t][m].of
      /\ d.kind = calling[t][m].kind /\ d.of = calling[t][m].of
      /\ events' = IF e.kind \in Emitted THEN Append(events, id) ELSE events
  BY <1>1 DEF Makes
<1>3. UNCHANGED <<runs, started, left>> BY DEF Number
<1>4. \A k \in 1..Len(made') : k \in 1..Len(made) \/ k = id
  BY <1>2
<1>5. calling[t] # <<>> /\ calling'[t] # <<>> /\ 1 \in 1..m /\ (m # 1 => 1 \in 1..m - 1)
  <2>1. calling[t] # <<>> /\ calling'[t] # <<>>
    BY <1>2, EmptySeq
  <2>2. 1 \in 1..m /\ (m # 1 => 1 \in 1..m - 1)
    BY <1>1
  <2>. QED BY <2>1, <2>2
<1>6. ASSUME NEW x
      PROVE  Judged(x)' <=> Judged(x) \/ (e.kind = "verdict" /\ e.of = x)
  <2>1. \A k \in 1..Len(made) : k \in 1..Len(made') /\ (IsVerdict(k, x)' <=> IsVerdict(k, x))
    BY <1>2 DEF IsVerdict
  <2>2. id \in 1..Len(made') /\ (IsVerdict(id, x)' <=> e.kind = "verdict" /\ e.of = x)
    BY <1>2 DEF IsVerdict
  <2>. QED BY <1>4, <2>1, <2>2 DEF Judged
\* A verdict is told by the flow, of the innermost run.
<1>7. ASSUME e.kind = "verdict"
      PROVE  /\ t = Flow /\ m = 1 /\ runs # <<>> /\ e.of = Top.id
             /\ Saying("verdict", Top.id) /\ ~Judged(Top.id)
  <2>1. CallOK(t, m) BY <1>2 DEF Inv, CallInv
  <2>2. m = 1
    <3>1. calling[t][m].kind = "verdict" BY <1>2, <1>7
    <3>2. m > 1 => calling[t][m].kind = "artifact"
      BY <2>1 DEF CallOK
    <3>. QED BY <1>1, <3>1, <3>2
  <2>3. t = Flow
    <3>1. calling[t][1].kind # "progress" BY <1>2, <1>7, <2>2
    <3>. QED BY <1>5, <3>1 DEF Inv, CallInv, Threads
  <2>4. runs # <<>> /\ calling[Flow][1].of = Top.id
    BY <1>2, <1>5, <1>7, <2>2, <2>3 DEF Inv, CallInv, JudgeInv, FlowOK
  <2>5. Saying("verdict", Top.id) BY <1>2, <1>5, <1>7, <2>2, <2>3, <2>4 DEF Saying
  <2>6. ~Judged(Top.id) BY <2>4, <2>5, JudgeTypes DEF Course
  <2>. QED BY <1>2, <2>2, <2>3, <2>4, <2>5, <2>6
<1>8. ASSUME NEW x
      PROVE  Saying("verdict", x)' <=> Saying("verdict", x) /\ e.kind # "verdict"
  <2>1. CASE t # Flow BY <1>2, <1>7, <2>1 DEF Threads, Saying
  <2>2. CASE t = Flow /\ m = 1
    BY <1>2, <2>2 DEF Saying
  <2>3. CASE t = Flow /\ m # 1
    BY <1>2, <1>5, <1>7, <2>3 DEF Saying
  <2>. QED BY <2>1, <2>2, <2>3
\* The flow makes an event after a verdict only inside it.
<1>9. ASSUME NEW k \in 1..Len(made), made[k].kind = "verdict", made[k].of \in e.for, t = Flow
      PROVE  m # 1 /\ k \in e.inside
  BY <1>2, <1>5, <1>9, JudgedIsTop DEF RunsOf
<1>10. ASSUME NEW n \in 1..Len(runs')  PROVE CourseOK(n)'
  <2>1. PICK f, x : f = runs'[n] /\ f = runs[n] /\ x = f.id
    BY <1>3
  <2>2. Course(f, Judged(x), Saying("verdict", x))
    BY <1>3, <1>10, <2>1 DEF JudgeInv, CourseOK
  <2>3. Course(f, Judged(x)', Saying("verdict", x)')
    <3>1. CASE e.kind = "verdict" /\ x = Top.id
      BY <1>6, <1>7, <1>8, <2>2, <3>1 DEF Course
    <3>2. CASE e.kind = "verdict" /\ x # Top.id
      BY <1>6, <1>7, <1>8, <2>2, <3>2, JudgeTypes DEF Course
    <3>3. CASE e.kind # "verdict" BY <1>6, <1>8, <2>2, <3>3 DEF Course
    <3>. QED BY <3>1, <3>2, <3>3
  <2>. QED BY <2>1, <2>3 DEF CourseOK, Judged, IsVerdict, Saying
<1>11. RunsInTurn' BY <1>3 DEF JudgeInv, RunsInTurn
<1>12. LeftOK' BY <1>3, <1>6 DEF JudgeInv, LeftOK, Judged, IsVerdict
<1>13. FlowOK'
  <2>1. CASE t # Flow
    <3>1. calling'[Flow] = calling[Flow] /\ e.kind # "verdict" /\ Top' = Top
      BY <1>2, <1>3, <1>7, <2>1 DEF Threads, Top
    <3>2. \A k \in 1..Len(made') : IsVerdict(k, Top.id)' => k \in 1..Len(made) /\ IsVerdict(k, Top.id)
      BY <1>2, <1>3, <1>4, <3>1 DEF IsVerdict
    <3>. QED BY <3>1, <3>2 DEF JudgeInv, FlowOK, IsVerdict
  <2>2. CASE t = Flow
    <3>1. /\ calling[Flow] # <<>> /\ Top' = Top
          /\ calling'[Flow][1].kind = calling[Flow][1].kind
          /\ calling'[Flow][1].of = calling[Flow][1].of
      BY <1>2, <1>3, <1>5, <2>2 DEF Top
    <3>2. ASSUME NEW k \in 1..Len(made'), IsVerdict(k, Top.id)'
          PROVE  calling'[Flow][1].event = k
      <4>1. CASE k = id BY <1>2, <1>3, <1>7, <2>2, <3>1, <3>2, <4>1 DEF IsVerdict
      <4>2. CASE k \in 1..Len(made)
        <5>1. IsVerdict(k, Top.id) BY <1>2, <1>3, <3>1, <3>2, <4>2 DEF IsVerdict
        <5>2. calling[Flow][1].event = k BY <3>1, <4>2, <5>1 DEF JudgeInv, FlowOK
        <5>. QED BY <1>2, <1>5, <2>2, <4>2, <5>2
      <4>. QED BY <1>4, <3>2, <4>1, <4>2
    <3>. QED BY <3>1, <3>2 DEF JudgeInv, FlowOK, IsVerdict
  <2>. QED BY <2>1, <2>2
<1>14. VerdictsOK'
  <2>. SUFFICES ASSUME NEW k \in 1..Len(made'), made'[k].kind = "verdict"
                PROVE  /\ made'[k].of <= started
                       /\ \A l \in k + 1..Len(made') :
                            /\ ~(made'[l].kind = "verdict" /\ made'[l].of = made'[k].of)
                            /\ made'[k].of \in made'[l].for /\ made'[l].by = Flow =>
                                 k \in made'[l].inside
    BY <1>3 DEF VerdictsOK, IsVerdict
  <2>1. CASE k = id
    <3>1. made'[k].of = Top.id /\ runs # <<>>
      BY <1>2, <1>7, <2>1
    <3>2. Top.id <= started BY <3>1, JudgeTypes DEF JudgeInv, RunsInTurn
    <3>3. \A l \in k + 1..Len(made') : FALSE
      BY <1>2, <2>1
    <3>. QED BY <3>1, <3>2, <3>3
  <2>2. CASE k \in 1..Len(made)
    <3>1. made'[k] = made[k] /\ made[k].kind = "verdict" /\ made[k].of <= started
      BY <1>2, <2>2 DEF JudgeInv, VerdictsOK
    <3>2. ASSUME NEW l \in k + 1..Len(made')
          PROVE  /\ ~(made'[l].kind = "verdict" /\ made'[l].of = made'[k].of)
                 /\ made'[k].of \in made'[l].for /\ made'[l].by = Flow => k \in made'[l].inside
      <4>1. CASE l = id
        <5>1. ASSUME e.kind = "verdict", e.of = made[k].of  PROVE FALSE
          BY <1>7, <2>2, <3>1, <5>1 DEF Judged, IsVerdict
        <5>. QED BY <1>2, <1>9, <2>2, <3>1, <4>1, <5>1
      <4>2. CASE l \in k + 1..Len(made)
        BY <1>2, <2>2, <3>1, <4>2 DEF JudgeInv, VerdictsOK, IsVerdict
      <4>3. l = id \/ l \in k + 1..Len(made)
        BY <1>2, <2>2
      <4>. QED BY <4>1, <4>2, <4>3
    <3>. QED BY <3>1, <3>2
  <2>. QED BY <1>4, <2>1, <2>2
<1>15. Retained'
  <2>1. events \in Seq(1..Len(made)) /\ Len(events) \in Nat
        /\ \A n \in 1..Len(events) : events[n] \in 1..Len(made)
    BY LenProperties, ElementOfSeq DEF Inv, TypeOK, StreamOK
  <2>2. CASE e.kind \notin Emitted
    <3>1. Retained /\ events' = events
      BY <1>2, <2>2 DEF JudgeInv
    <3>2. \A k \in 1..Len(made') : made'[k].kind \in Emitted =>
                                    k \in 1..Len(made) /\ made'[k] = made[k]
      BY <1>2, <1>4, <2>2
    <3>. QED BY <3>1, <3>2 DEF Retained
  <2>3. CASE e.kind \in Emitted
    <3>1. /\ Len(events') = Len(events) + 1 /\ events'[Len(events) + 1] = id
          /\ \A n \in 1..Len(events) : events'[n] = events[n]
      BY <1>2, <2>1, <2>3, AppendProperties
    <3>2. ASSUME NEW k \in 1..Len(made'), made'[k].kind \in Emitted
          PROVE  \E n \in 1..Len(events') : events'[n] = k
      <4>1. CASE k = id BY <2>1, <3>1, <4>1
      <4>2. CASE k \in 1..Len(made)
        <5>1. PICK n \in 1..Len(events) : events[n] = k
          BY <1>2, <3>2, <4>2 DEF JudgeInv, Retained
        <5>. QED BY <2>1, <3>1, <5>1
      <4>. QED BY <1>4, <3>2, <4>1, <4>2
    <3>3. ASSUME NEW a \in 1..Len(events'), NEW b \in 1..Len(events'), a < b
          PROVE  events'[a] < events'[b]
      <4>1. a \in 1..Len(events) BY <2>1, <3>1, <3>3
      <4>2. CASE b \in 1..Len(events) BY <3>1, <3>3, <4>1, <4>2 DEF JudgeInv, Retained
      <4>3. CASE b = Len(events) + 1 BY <1>2, <2>1, <3>1, <4>1, <4>3
      <4>. QED BY <2>1, <3>1, <4>2, <4>3
    <3>. QED BY <3>2, <3>3 DEF Retained
  <2>. QED BY <2>2, <2>3
<1>. QED BY <1>10, <1>11, <1>12, <1>13, <1>14, <1>15 DEF JudgeInv

-------------------------------------------------------------
(* The steps of a flow.                                                    *)

\* The next thing is done, and is not to tell a verdict.
LEMMA DoneJudge ==
  ASSUME Inv, JudgeInv, UNCHANGED <<made, events, started, left, calling>>,
         calling[Flow] = <<>>, runs # <<>>, Top.todo # <<>>, runs' = WithTop(Done),
         Head(Top.todo).kind # "verdict"
  PROVE  JudgeInv'
<1>1. /\ Top \in RunType /\ Course(Top, Judged(Top.id), Saying("verdict", Top.id)) /\ RunsOK
      /\ ~Saying("verdict", Top.id)
  BY JudgeTypes DEF Inv, TypeOK, Saying
<1>2. PICK f \in RunType : f = Done /\ SameTraced(f, Top) /\ f.todo = Tail(Top.todo)
  BY <1>1, DoneRun
<1>3. SameEnd(f, Top) BY <1>1, <1>2 DEF Done, RunType, SameEnd
<1>4. PICK judged \in BOOLEAN : judged = Judged(Top.id) BY DEF Judged
<1>5. Course(Top, judged, FALSE) BY <1>1, <1>4 DEF Course
<1>6. ~judged /\ Course(f, FALSE, Head(Top.todo).kind = "verdict")
  BY <1>1, <1>2, <1>3, <1>5, CourseGoesOn
<1>7. Course(f, Judged(Top.id), FALSE) /\ f.id = Top.id
  BY <1>2, <1>4, <1>6 DEF SameTraced, Course
<1>. QED BY <1>2, <1>7, FlowJudge

LEMMA ItemsJudge ==
  ASSUME Inv, JudgeInv, Record \/ Submit \/ Join
  PROVE  JudgeInv'
<1>1. /\ UNCHANGED <<made, events, started, left, calling>>
      /\ calling[Flow] = <<>> /\ runs # <<>> /\ Top.todo # <<>> /\ runs' = WithTop(Done)
      /\ Head(Top.todo).kind # "verdict"
  BY DEF Record, Submit, Join, Due, Idle, Runs, stream
<1>. QED BY <1>1, DoneJudge

LEMMA AnswerJudge ==
  ASSUME Inv, JudgeInv, Answer
  PROVE  JudgeInv'
<1>1. /\ UNCHANGED <<made, events, started, left, calling>> /\ calling[Flow] = <<>>
  BY DEF Answer, Due, Idle, stream
<1>2. /\ runs # <<>> /\ Top.todo # <<>> /\ Head(Top.todo).kind = "answer"
      /\ runs' \in Seq(RunType) /\ Len(runs') = Len(runs)
      /\ \A n \in 1..Len(runs) :
           /\ SameTraced(runs'[n], runs[n]) /\ SameEnd(runs'[n], runs[n])
           /\ runs'[n].todo = IF n = Len(runs) THEN Tail(Top.todo) ELSE runs[n].todo
  BY AnswerRuns
<1>3. /\ Top \in RunType /\ Course(Top, Judged(Top.id), Saying("verdict", Top.id))
      /\ Len(runs) \in Nat \ {0} /\ Top = runs[Len(runs)]
      /\ ~Saying("verdict", Top.id)
  <2>1. ~Saying("verdict", Top.id) BY <1>1 DEF Saying
  <2>2. Top \in RunType /\ Top = runs[Len(runs)] /\ Len(runs) \in 1..Len(runs) /\ Len(runs) \in Nat
        /\ Course(Top, Judged(Top.id), Saying("verdict", Top.id))
    BY <1>2, JudgeTypes
  <2>. QED BY <2>1, <2>2
<1>4. PICK f \in RunType : f = runs'[Len(runs)] BY <1>2, <1>3, ElementOfSeq
<1>5. SameTraced(f, Top) /\ SameEnd(f, Top) /\ f.todo = Tail(Top.todo)
  BY <1>2, <1>3, <1>4
<1>6. PICK judged \in BOOLEAN : judged = Judged(Top.id) BY DEF Judged
<1>7. Course(Top, judged, FALSE) BY <1>3, <1>6 DEF Course
<1>8. ~judged /\ Course(f, FALSE, Head(Top.todo).kind = "verdict")
  BY <1>2, <1>3, <1>5, <1>7, CourseGoesOn
<1>9. Course(f, Judged(Top.id), FALSE) /\ f.id = Top.id
  BY <1>2, <1>5, <1>6, <1>8 DEF SameTraced, Course
<1>10. \A n \in 1..Len(runs) - 1 :
         /\ SameTraced(runs'[n], runs[n]) /\ SameEnd(runs'[n], runs[n])
         /\ runs'[n].todo = runs[n].todo
  BY <1>2, <1>3
<1>11. (\A id : ~Saying("verdict", id)') /\ calling'[Flow] = <<>>
  BY <1>1 DEF Saying
<1>. QED BY <1>1, <1>2, <1>4, <1>9, <1>10, <1>11, JudgeTop

\* The visited node tells of itself and of its calls, and gives no verdict.
LEMMA VisitJudge ==
  ASSUME Inv, LifeInv, JudgeInv, NEW body, Visit(body), Visited(body, Top.id) \in Seq(Item),
         \A q \in 1..Len(Visited(body, Top.id)) : Visited(body, Top.id)[q].kind # "verdict"
  PROVE  JudgeInv'
<1>1. PICK f \in RunType : /\ f.todo = Visited(body, Top.id) /\ runs' = WithTop(f)
                           /\ SameTraced(f, Top) /\ SameEnd(f, Top)
  BY VisitTodo
<1>2. /\ UNCHANGED <<made, events, started, left, calling>>
      /\ calling[Flow] = <<>> /\ runs # <<>> /\ ~Top.over
  BY DEF Visit, Between, Idle, stream
<1>3. Top \in RunType /\ Course(Top, Judged(Top.id), Saying("verdict", Top.id))
  BY <1>2, JudgeTypes
<1>4. ~Judged(Top.id) /\ ~f.over /\ f.id = Top.id
  BY <1>1, <1>2, <1>3 DEF Course, SameTraced, SameEnd
<1>5. \A p \in 1..Len(f.todo) : f.todo[p].kind # "verdict"
  BY <1>1
<1>6. Course(f, Judged(Top.id), FALSE) BY <1>4, <1>5 DEF Course
<1>. QED BY <1>1, <1>2, <1>4, <1>6, FlowJudge

LEMMA VisitsJudge ==
  ASSUME Inv, LifeInv, JudgeInv, VisitModel \/ VisitAgent \/ VisitTools
  PROVE  JudgeInv'
<1>1. PICK id \in Nat : id = Top.id
  <2>1. runs # <<>> /\ RunsOK
    BY DEF Inv, TypeOK, VisitModel, VisitAgent, VisitTools, Visit, Between, Idle
  <2>. QED BY <2>1, TopRun, RunIdType
<1>2. CASE VisitModel BY <1>1, <1>2, BodyTodo, VisitJudge DEF ModelKinds, VisitModel
<1>3. CASE VisitAgent BY <1>1, <1>3, BodyTodo, VisitJudge DEF VisitAgent
<1>4. CASE VisitTools
  <2>1. PICK n \in 1..MaxWork - started - called :
          Visit(ToolBody([k \in 1..n |-> called + k])) /\ called' = called + n
    BY <1>4 DEF VisitTools
  <2>2. called \in Nat /\ n \in Nat \ {0}
    BY EventBoundAssumption DEF Inv, TypeOK, ToolsOK, RunsOK
  <2>3. PICK body, todo :
          /\ body = ToolBody(Batch(called, n)) /\ todo = Visited(body, id)
    OBVIOUS
  <2>4. Visit(body) BY <2>1, <2>3 DEF Batch
  <2>5. PICK a \in Nat : todo \in Seq(Item) /\ ToolVisit(todo, called, a, a + n)
    <3>1. /\ Visited(ToolBody(Batch(called, n)), id) \in Seq(Item)
          /\ \E a \in Nat : ToolVisit(Visited(ToolBody(Batch(called, n)), id), called, a, a + n)
      BY ONLY <1>1, <2>2, ToolTodo
    <3>. QED BY <2>3, <3>1
  <2>6. ASSUME NEW q \in 1..Len(todo)  PROVE todo[q].kind # "verdict"
    <3>1. PICK b \in Nat : b = a + n BY <2>2, <2>5
    <3>2. ToolItem(todo[q], q, called, a, b) /\ q \in Nat
      BY <2>5, <3>1 DEF ToolVisit
    <3>3. CASE q <= a BY <3>2, <3>3 DEF ToolItem
    <3>4. CASE a < q /\ q <= b
      BY <3>2, <3>4 DEF ToolItem, Tell
    <3>5. CASE q = b + 1 BY <3>2, <3>5 DEF ToolItem
    <3>6. CASE q > b + 1 BY <3>2, <3>6 DEF ToolItem
    <3>. QED BY <2>5, <3>1, <3>2, <3>3, <3>4, <3>5, <3>6
  <2>. QED BY <1>1, <2>3, <2>4, <2>5, <2>6, VisitJudge
<1>. QED BY <1>2, <1>3, <1>4

LEMMA ConcludeJudge ==
  ASSUME Inv, JudgeInv, NEW how \in {"end", "raised"}, Conclude(how)
  PROVE  JudgeInv'
<1>1. /\ UNCHANGED <<made, events, started, left, calling>>
      /\ calling[Flow] = <<>> /\ runs # <<>> /\ ~Top.over
  BY DEF Conclude, Between, Idle, stream
<1>2. Top \in RunType /\ Course(Top, Judged(Top.id), Saying("verdict", Top.id))
  BY <1>1, JudgeTypes
<1>3. PICK todo : todo = <<Tell("verdict", Top.id)>> OBVIOUS
<1>4. todo \in Seq(Item) /\ Len(todo) = 1 /\ todo[1].kind = "verdict" /\ todo[1].of = Top.id
  BY <1>2, <1>3, OneTold, RunIdType DEF Kinds, Emitted, Tell
<1>5. PICK f : f = [Top EXCEPT !.over = TRUE, !.how = how, !.todo = todo] OBVIOUS
<1>6. f \in RunType /\ f.todo = todo /\ f.over /\ f.id = Top.id /\ runs' = WithTop(f)
  <2>1. f \in RunType BY <1>2, <1>4, <1>5, RunEdits
  <2>2. f.todo = todo /\ f.over /\ f.id = Top.id
    BY <1>2, <1>5 DEF RunType
  <2>3. runs' = WithTop(f) BY <1>3, <1>5 DEF Conclude
  <2>. QED BY <2>1, <2>2, <2>3
<1>7. ~Judged(Top.id) BY <1>1, <1>2 DEF Course
<1>8. \A p \in 1..Len(todo) : p = 1
  <2>1. Len(todo) = 1 BY <1>4
  <2>2. \A p \in 1..1 : p = 1
    OBVIOUS
  <2>. QED BY ONLY <2>1, <2>2
<1>9. todo # <<>> BY <1>3
<1>10. Course(f, Judged(Top.id), FALSE)
  BY <1>4, <1>6, <1>7, <1>8, <1>9 DEF Course, LastVerdict, OfInterpreter
<1>. QED BY <1>1, <1>6, <1>10, FlowJudge

LEMMA AbandonJudge ==
  ASSUME Inv, JudgeInv, Abandon
  PROVE  JudgeInv'
<1>1. /\ UNCHANGED <<made, events, started, left, calling>>
      /\ calling[Flow] = <<>> /\ runs # <<>> /\ runs' = WithTop(Failed(Top))
      /\ Top.todo # <<>> /\ Head(Top.todo).kind \in {"join", "answer"}
  BY DEF Abandon, Due, Idle, stream
<1>2. Top \in RunType /\ Course(Top, Judged(Top.id), Saying("verdict", Top.id))
  BY <1>1, JudgeTypes
<1>3. ~Judged(Top.id) BY <1>1, <1>2 DEF Course
<1>4. Course(Failed(Top), FALSE, FALSE) /\ Failed(Top).id = Top.id
  BY <1>2, CourseBroken
<1>5. Course(Failed(Top), Judged(Top.id), FALSE) BY <1>3, <1>4 DEF Course
<1>. QED BY <1>1, <1>2, <1>4, <1>5, FailedRun, FlowJudge

-------------------------------------------------------------
(* Runs begin and end.                                                     *)

\* The flow makes no call, before and after; the first m runs stay in progress,
\* and none of them but the last is over.
LEMMA RunsStay ==
  ASSUME Inv, JudgeInv, UNCHANGED <<made, calling>>, calling[Flow] = <<>>,
         NEW m \in 0..Len(runs),
         \A n \in 1..m : /\ runs'[n].id = runs[n].id /\ (n < Len(runs') => ~runs'[n].over)
                         /\ Course(runs'[n], Judged(runs[n].id), FALSE),
         started <= started', started' \in Nat
  PROVE  /\ \A n \in 1..m : /\ CourseOK(n)' /\ runs'[n].id <= started'
                            /\ (n < Len(runs') => ~runs'[n].over)
                            /\ \A l \in 1..n - 1 : runs'[l].id # runs'[n].id
         /\ \A id : /\ Judged(id)' <=> Judged(id)
                    /\ ~Saying("verdict", id)'
         /\ FlowOK'
<1>1. ASSUME NEW id  PROVE (Judged(id)' <=> Judged(id)) /\ ~Saying("verdict", id)'
  BY DEF Judged, IsVerdict, Saying
<1>2. FlowOK' BY DEF FlowOK
<1>. SUFFICES ASSUME NEW n \in 1..m
              PROVE  /\ CourseOK(n)' /\ runs'[n].id <= started'
                     /\ (n < Len(runs') => ~runs'[n].over)
                     /\ \A l \in 1..n - 1 : runs'[l].id # runs'[n].id
  BY <1>1, <1>2
<1>3. PICK f, id : f = runs'[n] /\ id = f.id
  OBVIOUS
<1>4. Len(runs) \in Nat /\ started \in Nat /\ \A l \in 1..Len(runs) : runs[l].id \in Nat
  BY JudgeTypes
<1>5. n \in 1..Len(runs) /\ id = runs[n].id /\ \A l \in 1..n - 1 : l \in 1..m /\ l \in 1..Len(runs)
  <2>1. m \in Nat /\ m <= Len(runs)
    BY <1>4
  <2>2. id = runs[n].id BY <1>3
  <2>. QED BY <1>4, <2>1, <2>2
<1>6. id <= started /\ \A l \in 1..n - 1 : runs[l].id # id
  BY <1>5 DEF JudgeInv, RunsInTurn
<1>7. id <= started' BY <1>4, <1>5, <1>6
<1>8. CourseOK(n)'
  <2>1. Course(f, Judged(id), FALSE) BY <1>3, <1>5
  <2>2. Course(f, Judged(id)', Saying("verdict", id)') BY <1>1, <2>1 DEF Course
  <2>. QED BY <1>3, <2>2 DEF CourseOK, Judged, IsVerdict, Saying
<1>. QED BY <1>3, <1>5, <1>6, <1>7, <1>8

LEMMA EnterJudge ==
  ASSUME Inv, JudgeInv, NEW traced \in BOOLEAN, Enter(traced)
  PROVE  JudgeInv'
<1>1. PICK run, base : Entered(run, base, traced) BY EnterRuns
<1>2. /\ UNCHANGED <<made, events, left, calling>> /\ calling[Flow] = <<>>
      /\ started' = started + 1
  BY DEF Enter, stream
<1>3. Len(runs) \in Nat /\ started \in Nat
  BY JudgeTypes
<1>4. PICK m \in Nat : m = Len(runs) BY <1>3
<1>5. /\ run \in RunType /\ run.id = started + 1 /\ run.todo = <<>> /\ ~run.over
      /\ Len(runs') = m + 1 /\ runs'[m + 1] = run
      /\ \A n \in 1..m : runs'[n] = base[n] /\ runs'[n].id = runs[n].id
  BY <1>1, <1>4, AppendProperties DEF Entered, SameTraced
<1>6. ~Judged(run.id)
  <2>. SUFFICES ASSUME NEW k \in 1..Len(made), IsVerdict(k, run.id)  PROVE FALSE
    BY DEF Judged
  <2>1. made[k].of = started + 1 /\ made[k].of <= started
    BY <1>5 DEF IsVerdict, JudgeInv, VerdictsOK
  <2>. QED BY <1>3, <2>1
\* The node that called it has not ended, and goes on.
<1>7. ASSUME m # 0
      PROVE  ~Done.over /\ Course(Done, Judged(Top.id), FALSE) /\ Top = runs[m] /\ base[m] = Done
  <2>1. runs # <<>> /\ RunsOK
    BY <1>4, <1>7, EmptySeq DEF Inv, TypeOK
  <2>2. Top.todo # <<>> /\ Head(Top.todo).kind = "agent" /\ base[m] = Done
    BY <1>1, <1>4, <2>1 DEF Entered
  <2>3. /\ Top = runs[m] /\ Top \in RunType
        /\ Course(Top, Judged(Top.id), Saying("verdict", Top.id))
    BY <1>4, <2>1, JudgeTypes
  <2>4. Done \in RunType /\ SameTraced(Done, Top) /\ Done.todo = Tail(Top.todo)
        /\ Head(Top.todo) = Top.todo[1]
    BY <2>1, <2>2, DoneRun
  <2>5. SameEnd(Done, Top) BY <2>3 DEF Done, RunType, SameEnd
  <2>6. ~Saying("verdict", Top.id) BY <1>2 DEF Saying
  <2>7. PICK judged \in BOOLEAN : judged = Judged(Top.id) BY DEF Judged
  <2>8. Course(Top, judged, FALSE) BY <2>3, <2>6, <2>7 DEF Course
  <2>9. ~judged /\ Course(Done, FALSE, Head(Top.todo).kind = "verdict")
    BY <2>2, <2>3, <2>4, <2>5, <2>8, CourseGoesOn
  <2>10. Course(Done, Judged(Top.id), FALSE) BY <2>2, <2>7, <2>9 DEF Course
  <2>11. ~Top.over
    <3>1. 1 \in 1..Len(Top.todo) /\ Top.todo[1].kind = "agent"
      BY <2>2, <2>3, <2>4, EmptySeq DEF RunType
    <3>. QED BY <2>3, <3>1 DEF Course, OfInterpreter
  <2>. QED BY <2>2, <2>3, <2>5, <2>10, <2>11 DEF SameEnd
<1>8. ASSUME NEW n \in 1..m
      PROVE  ~runs'[n].over /\ Course(runs'[n], Judged(runs[n].id), FALSE)
  <2>1. CASE n = m
    <3>1. m # 0 /\ runs'[n] = base[m]
      BY <1>5, <2>1
    <3>2. ~Done.over /\ Course(Done, Judged(Top.id), FALSE) /\ Top = runs[m] /\ base[m] = Done
      BY <1>7, <3>1
    <3>. QED BY <2>1, <3>1, <3>2
  <2>2. CASE n # m
    <3>1. n \in 1..Len(runs) - 1 /\ n \in 1..Len(runs) /\ n < Len(runs)
      BY <1>4, <2>2
    <3>2. runs'[n] = runs[n] BY <1>1, <1>5, <3>1 DEF Entered
    <3>3. ~runs[n].over /\ Course(runs[n], Judged(runs[n].id), Saying("verdict", runs[n].id))
      BY <3>1 DEF JudgeInv, RunsInTurn, CourseOK
    <3>4. ~Saying("verdict", runs[n].id) BY <1>2 DEF Saying
    <3>. QED BY <3>2, <3>3, <3>4 DEF Course
  <2>. QED BY <2>1, <2>2
<1>9. m \in 0..Len(runs) /\ started <= started' /\ started' \in Nat
  BY <1>2, <1>3, <1>4
<1>10. /\ \A n \in 1..m : /\ CourseOK(n)' /\ runs'[n].id <= started'
                          /\ (n < Len(runs') => ~runs'[n].over)
                          /\ \A l \in 1..n - 1 : runs'[l].id # runs'[n].id
       /\ \A id : (Judged(id)' <=> Judged(id)) /\ ~Saying("verdict", id)'
       /\ FlowOK'
  BY <1>2, <1>5, <1>8, <1>9, RunsStay
<1>11. \A n \in 1..m : runs'[n].id <= started
  BY <1>4, <1>5 DEF JudgeInv, RunsInTurn
<1>12. CourseOK(m + 1)'
  <2>1. PICK id : id = run.id OBVIOUS
  <2>2. ~Judged(id)' /\ ~Saying("verdict", id)'
    BY <1>6, <1>10, <2>1
  <2>3. \A p \in 1..Len(run.todo) : FALSE
    BY <1>5, EmptySeq
  <2>4. Course(run, Judged(id)', Saying("verdict", id)') BY <1>5, <2>2, <2>3 DEF Course
  <2>. QED BY <1>5, <2>1, <2>4 DEF CourseOK, Judged, IsVerdict, Saying
<1>13. \A n \in 1..Len(runs') : n \in 1..m \/ n = m + 1
  BY <1>5
<1>14. RunsInTurn'
  <2>. SUFFICES ASSUME NEW n \in 1..Len(runs')
                PROVE  /\ runs'[n].id <= started' /\ (n < Len(runs') => ~runs'[n].over)
                       /\ \A l \in 1..n - 1 : runs'[l].id # runs'[n].id
    BY DEF RunsInTurn
  <2>1. CASE n \in 1..m BY <1>10, <2>1
  <2>2. CASE n = m + 1 BY <1>2, <1>3, <1>4, <1>5, <1>11, <2>2, JudgeTypes
  <2>. QED BY <1>13, <2>1, <2>2
<1>15. LeftOK'
  <2>. SUFFICES ASSUME NEW o \in left
                PROVE  /\ o.id <= started' /\ (o.cut \/ Judged(o.id)')
                       /\ \A n \in 1..Len(runs') : runs'[n].id # o.id
    BY <1>2 DEF LeftOK, Judged, IsVerdict
  <2>1. /\ o.id <= started /\ (o.cut \/ Judged(o.id))
        /\ \A n \in 1..Len(runs) : runs[n].id # o.id
    BY DEF JudgeInv, LeftOK
  <2>2. o.id \in Nat BY RunIdType DEF Inv, TypeOK, RunsOK
  <2>3. \A n \in 1..m : n \in 1..Len(runs)
    BY <1>4
  <2>. QED BY <1>2, <1>3, <1>5, <1>10, <1>13, <2>1, <2>2, <2>3
<1>16. VerdictsOK' /\ Retained'
  <2>1. \A k \in 1..Len(made) : made[k].of \in Nat
    <3>1. \A k \in 1..Len(made) : made[k] \in EventType
      BY ElementOfSeq DEF Inv, TypeOK, StreamOK
    <3>. QED BY <3>1 DEF EventType
  <2>2. \A k \in 1..Len(made) : made[k].of <= started => made[k].of <= started'
    BY <1>2, <1>3, <2>1
  <2>. QED BY <1>2, <2>2 DEF JudgeInv, VerdictsOK, IsVerdict, Retained
<1>. QED BY <1>10, <1>12, <1>13, <1>14, <1>15, <1>16 DEF JudgeInv

LEMMA LeaveJudge ==
  ASSUME Inv, JudgeInv, Leave
  PROVE  JudgeInv'
<1>1. PICK m \in Nat :
        /\ m = Len(runs) - 1 /\ runs' \in Seq(RunType) /\ Len(runs') = m
        /\ \A n \in 1..m : SameTraced(runs'[n], runs[n])
        /\ \A n \in 1..m - 1 : runs'[n] = runs[n]
        /\ m # 0 => runs'[m] = runs[m] \/ runs'[m] = Failed(runs[m])
  BY LeaveRuns
<1>2. /\ UNCHANGED <<made, events, started, calling>> /\ calling[Flow] = <<>>
      /\ runs # <<>> /\ Top.todo = <<>> /\ Top.over /\ left' = left \cup {Outcome(Top)}
  BY DEF Leave, Idle, stream
<1>3. /\ Len(runs) \in Nat /\ started \in Nat /\ Len(runs) \in 1..Len(runs)
      /\ Top = runs[Len(runs)] /\ Top \in RunType
      /\ Course(Top, Judged(Top.id), Saying("verdict", Top.id))
      /\ \A n \in 1..Len(runs) : runs[n] \in RunType
  BY <1>2, JudgeTypes
<1>4. \A id : ~Saying("verdict", id)
  BY <1>2 DEF Saying
<1>5. Top.cut \/ Judged(Top.id)
  BY <1>2, <1>3, <1>4 DEF Course, LastVerdict
<1>6. ASSUME NEW n \in 1..m
      PROVE  /\ n \in 1..Len(runs) /\ runs'[n].id = runs[n].id
             /\ (n < Len(runs') => ~runs'[n].over)
             /\ Course(runs'[n], Judged(runs[n].id), FALSE)
  <2>1. n \in 1..Len(runs) /\ n < Len(runs) /\ n \in Nat
    BY <1>1, <1>3
  <2>2. ~runs[n].over /\ Course(runs[n], Judged(runs[n].id), FALSE)
    BY <1>4, <2>1 DEF JudgeInv, RunsInTurn, CourseOK, Course
  <2>3. CASE runs'[n] = runs[n] BY <2>1, <2>2, <2>3
  <2>4. CASE n = m /\ runs'[n] = Failed(runs[n])
    BY <1>1, <1>3, <2>1, <2>2, <2>4, CourseBroken DEF Course
  <2>5. n \in 1..m - 1 \/ (n = m /\ m # 0)
    OBVIOUS
  <2>. QED BY <1>1, <2>3, <2>4, <2>5
<1>7. m \in 0..Len(runs) /\ started <= started' /\ started' \in Nat
  BY <1>1, <1>2, <1>3
<1>8. /\ \A n \in 1..m : /\ CourseOK(n)' /\ runs'[n].id <= started'
                         /\ (n < Len(runs') => ~runs'[n].over)
                         /\ \A l \in 1..n - 1 : runs'[l].id # runs'[n].id
      /\ \A id : (Judged(id)' <=> Judged(id)) /\ ~Saying("verdict", id)'
      /\ FlowOK'
  BY <1>2, <1>6, <1>7, RunsStay
<1>9. RunsInTurn' BY <1>1, <1>8 DEF RunsInTurn
<1>10. LeftOK'
  <2>. SUFFICES ASSUME NEW o \in left'
                PROVE  /\ o.id <= started' /\ (o.cut \/ Judged(o.id)')
                       /\ \A n \in 1..Len(runs') : runs'[n].id # o.id
    BY DEF LeftOK, Judged, IsVerdict
  <2>1. CASE o \in left BY <1>1, <1>2, <1>6, <1>8, <2>1 DEF JudgeInv, LeftOK
  <2>2. CASE o = Outcome(Top)
    <3>1. o.id = Top.id /\ o.cut = Top.cut
      BY <2>2 DEF Outcome
    <3>2. /\ Top.id <= started
          /\ \A n \in 1..Len(runs) - 1 : runs[n].id # Top.id
      BY <1>3 DEF JudgeInv, RunsInTurn
    <3>. QED BY <1>1, <1>2, <1>5, <1>6, <1>8, <3>1, <3>2
  <2>. QED BY <1>2, <2>1, <2>2
<1>. QED BY <1>1, <1>2, <1>8, <1>9, <1>10, EventsKept DEF JudgeInv

-------------------------------------------------------------
(* Something is told; the steps of tools.                                  *)

\* Nobody looks whether a verdict is heard.
LEMMA SaysJudge ==
  ASSUME Inv, JudgeInv, Says
  PROVE  JudgeInv'
<1>1. /\ UNCHANGED <<made, events, started, left>> /\ Silence
      /\ calling[Flow] = <<>> /\ runs # <<>> /\ Top.todo # <<>> /\ runs' = WithTop(Done)
      /\ RunsOK
  BY DEF Says, Idle, stream, Silence, Inv, TypeOK
<1>2. PICK kind, of : kind = Head(Top.todo).kind /\ of = Head(Top.todo).of
  OBVIOUS
<1>3. /\ Top \in RunType /\ Course(Top, Judged(Top.id), Saying("verdict", Top.id))
      /\ ~Saying("verdict", Top.id)
  BY <1>1, JudgeTypes DEF Saying
<1>4. /\ Done \in RunType /\ SameTraced(Done, Top) /\ Done.todo = Tail(Top.todo)
      /\ Head(Top.todo) \in Item /\ Head(Top.todo) = Top.todo[1]
  BY <1>1, DoneRun
<1>5. SameEnd(Done, Top) BY <1>3 DEF Done, RunType, SameEnd
<1>6. PICK judged \in BOOLEAN : judged = Judged(Top.id) BY DEF Judged
<1>7. PICK judging \in BOOLEAN : judging = (kind = "verdict") OBVIOUS
<1>8. Course(Top, judged, FALSE) BY <1>3, <1>6 DEF Course
<1>9. ~judged /\ Course(Done, FALSE, kind = "verdict")
  BY <1>1, <1>2, <1>3, <1>4, <1>5, <1>8, CourseGoesOn
<1>10. PICK f \in RunType : f = Done BY <1>4
<1>11. Course(f, Judged(Top.id), judging) /\ f.id = Top.id /\ ~Judged(f.id)
  BY <1>4, <1>6, <1>7, <1>9, <1>10 DEF Course, SameTraced
<1>12. 1 \in 1..Len(Top.todo) /\ Top.todo[1].kind = kind /\ Top.todo[1].of = of
  BY <1>1, <1>2, <1>3, <1>4, EmptySeq DEF RunType
<1>13. (f.over => OfInterpreter(kind)) /\ (kind = "verdict" => of = f.id)
  BY <1>3, <1>5, <1>10, <1>11, <1>12 DEF Course, SameEnd
<1>14. calling'[Flow] \in {<<>>, <<Call(Flow, kind, of)>>}
  <2>1. PICK t : t = Flow OBVIOUS
  <2>2. kind \in Kinds /\ of \in Nat /\ Calls(t, kind, of) /\ t \in Threads /\ calling[t] = <<>>
    BY <1>1, <1>2, <1>4, <2>1 DEF Says, Item, Threads
  <2>3. calling'[t] \in {<<>>, <<Call(t, kind, of)>>} BY ONLY <1>1, <2>2, CallsInv, Inv
  <2>. QED BY <2>1, <2>3
<1>15. kind = "verdict" => calling'[Flow] = <<Call(Flow, kind, of)>>
  BY <1>2 DEF Says, Inv, TypeOK, Threads, Unheard, Notified, Calls, CallsOK
<1>16. PICK c : c = Call(Flow, kind, of) OBVIOUS
<1>17. /\ c.kind = kind /\ c.of = of /\ c.event = 0
       /\ <<c>> # <<>> /\ <<c>>[1] = c
       /\ calling'[Flow] = <<>> \/ calling'[Flow] = <<c>>
       /\ kind = "verdict" => calling'[Flow] = <<c>>
  BY <1>14, <1>15, <1>16 DEF Call
<1>18. ASSUME NEW id  PROVE Saying("verdict", id)' <=> judging /\ id = Top.id
  BY <1>7, <1>11, <1>13, <1>17 DEF Saying
<1>19. calling'[Flow] # <<>> =>
         /\ f.over => OfInterpreter(calling'[Flow][1].kind)
         /\ calling'[Flow][1].kind = "verdict" => calling'[Flow][1].of = f.id
         /\ Judged(f.id) => FALSE
  BY <1>11, <1>13, <1>17
<1>20. /\ runs' \in Seq(RunType) /\ Len(runs') = Len(runs) /\ runs'[Len(runs)] = f
       /\ \A n \in 1..Len(runs) - 1 : runs'[n] = runs[n]
  BY <1>1, <1>10, WithTopLemma
<1>21. \A n \in 1..Len(runs) - 1 :
         /\ SameTraced(runs'[n], runs[n]) /\ SameEnd(runs'[n], runs[n])
         /\ runs'[n].todo = runs[n].todo
  BY <1>20 DEF SameTraced, SameEnd
<1>. QED BY <1>1, <1>11, <1>18, <1>19, <1>20, <1>21, JudgeTop

LEMMA ToolJudge ==
  ASSUME Inv, JudgeInv, NEW w \in Workers, InTool(w)
  PROVE  JudgeInv'
<1>1. UNCHANGED <<made, events, runs, started, left>>
  BY DEF InTool, StartTool, Progress, EndTool, Works, stream
<1>2. calling'[Flow] = calling[Flow]
  BY ThreadAssumption DEF InTool, StartTool, Progress, EndTool, Calls, Inv, TypeOK, CallsOK, Threads
<1>3. \A id : Saying("verdict", id)' <=> Saying("verdict", id)
  BY <1>2 DEF Saying
<1>. QED BY <1>1, <1>2, <1>3, JudgeStill

-------------------------------------------------------------
LEMMA JudgeInit ==
  ASSUME Init
  PROVE  JudgeInv
<1>1. runs = <<>> /\ made = <<>> /\ events = <<>> /\ calling[Flow] = <<>> /\ left = {}
  BY DEF Init, Threads
<1>2. Len(<<>>) = 0 /\ \A k \in 1..0 : FALSE
  OBVIOUS
<1>. QED BY <1>1, <1>2 DEF JudgeInv, RunsInTurn, LeftOK, FlowOK, VerdictsOK, Retained

LEMMA JudgeStep ==
  ASSUME Inv, LifeInv, JudgeInv, [Next]_vars
  PROVE  JudgeInv'
<1>1. CASE \E t \in Threads : InCall(t)
  BY <1>1, InnerJudge, NumberJudge, RaiseJudge DEF InCall
<1>2. CASE InFlow
  BY <1>2, EnterJudge, VisitsJudge, ConcludeJudge, LeaveJudge, SaysJudge, AnswerJudge,
     ItemsJudge, AbandonJudge DEF InFlow
<1>3. CASE \E w \in Workers : InTool(w)
  BY <1>3, ToolJudge
<1>4. CASE UNCHANGED vars BY <1>4, JudgeStill DEF vars, stream, Saying
<1>. QED BY <1>1, <1>2, <1>3, <1>4 DEF Next, Stop

LEMMA AlwaysJudge == Spec => []JudgeInv
<1>1. Init => JudgeInv
  BY JudgeInit
<1>2. Inv /\ LifeInv /\ JudgeInv /\ [Next]_vars => JudgeInv'
  BY JudgeStep
<1>. QED BY <1>1, <1>2, AlwaysInv, AlwaysLife, PTL DEF Spec

\* The events are retained in their order, so the verdict is found among them
\* once, and what they tell of the run comes before it or inside it.
LEMMA VerdictTold ==
  ASSUME Inv, JudgeInv
  PROVE  VerdictUnlessRaised
<1>. SUFFICES ASSUME NEW o \in left, NEW v,
                     v = {n \in DOMAIN events : made[events[n]].kind = "verdict"
                                                /\ made[events[n]].of = o.id}
              PROVE  /\ Cardinality(v) <= 1
                     /\ ~o.cut => v # {}
                     /\ \A n \in v : \A m \in n + 1..Len(events) :
                          o.id \in made[events[m]].for /\ made[events[m]].by = Flow =>
                            events[n] \in made[events[m]].inside
  BY DEF VerdictUnlessRaised
<1>1. /\ DOMAIN events = 1..Len(events) /\ Len(events) \in Nat /\ Len(made) \in Nat
      /\ \A n \in 1..Len(events) : events[n] \in 1..Len(made)
  BY LenProperties, ElementOfSeq DEF Inv, TypeOK, StreamOK
<1>2. \A m, n \in 1..Len(events) : m < n => events[n] \in events[m] + 1..Len(made)
  BY <1>1 DEF JudgeInv, Retained
<1>3. ASSUME NEW n \in v
      PROVE  /\ n \in 1..Len(events) /\ events[n] \in 1..Len(made)
             /\ made[events[n]].kind = "verdict" /\ made[events[n]].of = o.id
             /\ \A l \in events[n] + 1..Len(made) :
                  /\ ~IsVerdict(l, o.id)
                  /\ o.id \in made[l].for /\ made[l].by = Flow => events[n] \in made[l].inside
  BY <1>1 DEF JudgeInv, VerdictsOK
<1>4. ASSUME NEW m \in v, NEW n \in v, m < n  PROVE FALSE
  BY <1>2, <1>3, <1>4 DEF IsVerdict
<1>5. Cardinality(v) <= 1
  <2>1. CASE v = {} BY <2>1, FS_EmptySet
  <2>2. CASE v # {}
    <3>1. PICK n : n \in v BY <2>2
    <3>2. v = {n}
      <4>1. ASSUME NEW m \in v  PROVE m = n
        <5>1. m \in Nat /\ n \in Nat
          BY <1>1, <1>3, <3>1
        <5>2. ~(m < n) /\ ~(n < m)
          BY <1>4, <3>1
        <5>. QED BY ONLY <5>1, <5>2
      <4>. QED BY ONLY <3>1, <4>1
    <3>3. Cardinality({n}) = 1 BY FS_Singleton
    <3>. QED BY ONLY <3>2, <3>3
  <2>. QED BY <2>1, <2>2
<1>6. ASSUME ~o.cut  PROVE v # {}
  <2>1. PICK k \in 1..Len(made) : made[k].kind = "verdict" /\ made[k].of = o.id
    BY <1>6 DEF JudgeInv, LeftOK, Judged, IsVerdict
  <2>2. PICK n \in 1..Len(events) : events[n] = k
    BY <2>1 DEF JudgeInv, Retained, Emitted
  <2>. QED BY <1>1, <2>1, <2>2
<1>7. ASSUME NEW n \in v, NEW m \in n + 1..Len(events)
      PROVE  o.id \in made[events[m]].for /\ made[events[m]].by = Flow =>
               events[n] \in made[events[m]].inside
  BY <1>1, <1>2, <1>3
<1>. QED BY <1>5, <1>6, <1>7

\* Every run tells its verdict, finished, failed or cancelled, once, and the
\* flow says nothing of it afterwards but what a subscriber emits while it is
\* told of the verdict; only a subscriber that raises outside a node's body can
\* take the verdict away (node.py:351-410, context.py:157-171).
THEOREM RunsTellTheirVerdict == Spec => []VerdictUnlessRaised
<1>1. Inv /\ JudgeInv => VerdictUnlessRaised
  BY VerdictTold
<1>. QED BY <1>1, AlwaysInv, AlwaysJudge, PTL

-------------------------------------------------------------
(* THE USAGE OF RUNS: for any number of answers and runs (UsageOfRun).     *)

-------------------------------------------------------------
(* The invariant: every answer is counted, but for the one that the model  *)
(* has given and the node has yet to record.                               *)

Asking(todo) == \E p \in 1..Len(todo) : todo[p].kind = "record"

\* What a model node tells, from the end: its answer, the message, the record.
Shaped(todo) ==
  \A p \in 1..Len(todo) :
    /\ todo[p].kind = "answer" => Asking(todo)
    /\ Asking(todo) =>
         /\ todo[p].kind # "agent"
         /\ todo[p].kind = "record" <=> p = Len(todo) - 3
         /\ todo[p].kind = "answer" <=> p = Len(todo) - 5
         /\ p = Len(todo) - 4 => todo[p].kind = "message"

\* The answer was given and is yet to be recorded.
Owes(todo) == Asking(todo) /\ Len(todo) <= 5

Owing == runs # <<>> /\ Owes(Top.todo)

\* A subscriber raised on a message of the run.
Spoiled(id) ==
  \E e \in refused : e # 0 /\ id \in made[e].for /\ made[e].kind = "message"

\* How many of the first k reports have a field.
With(reports, k, field) == Cardinality({n \in 1..k : field \in reports[n]})

\* The usage u has grown by the first k reports.
Counts(u, since, reports, k) ==
  /\ u.requests - since.requests = k
  /\ u.usage_requests - since.usage_requests = With(reports, k, "tokens")
  /\ u.tokens - since.tokens = With(reports, k, "tokens")
  /\ u.cached_tokens - since.cached_tokens = With(reports, k, "cached")
  /\ u.cached_usage_requests - since.cached_usage_requests = With(reports, k, "cached")

\* All reports of a run are counted in the usage u, or all but the last.
Tallied(f, owing, report, u) ==
  IF owing
  THEN /\ Len(f.reports) > 0 /\ f.reports[Len(f.reports)] = report
       /\ Counts(u, f.since, f.reports, Len(f.reports) - 1)
  ELSE Counts(u, f.since, f.reports, Len(f.reports))

AskingOK ==
  \A n \in 1..Len(runs) : /\ Shaped(runs[n].todo)
                          /\ n < Len(runs) => ~Asking(runs[n].todo)

TallyOK ==
  \A n \in 1..Len(runs) : Spoiled(runs[n].id) \/ Tallied(runs[n], Owing, Top.report, usage)

\* Only the message is between the answer and its record; what the flow tells
\* is of the runs in progress.
TellingOK ==
  calling[Flow] # <<>> =>
    /\ Owing => calling[Flow][1].kind = "message"
    /\ calling[Flow][1].event # 0 => made[calling[Flow][1].event].for = InProgress

LeftTallied == \A o \in left : Spoiled(o.id) \/ o.usage = Truth(o.reports)

UsageInv == AskingOK /\ TallyOK /\ TellingOK /\ LeftTallied

-------------------------------------------------------------
(* What a node has yet to tell.                                            *)

LEMMA ShapedTail ==
  ASSUME NEW todo \in Seq(Item), todo # <<>>, Shaped(todo)
  PROVE  /\ Shaped(Tail(todo))
         /\ ~Asking(todo) => ~Asking(Tail(todo))
         /\ Owes(todo) => Head(todo).kind \in {"message", "record"}
         /\ Head(todo).kind = "answer" => ~Owes(todo) /\ Owes(Tail(todo))
         /\ Head(todo).kind = "record" => Owes(todo) /\ ~Asking(Tail(todo))
         /\ Head(todo).kind = "agent" => ~Asking(todo)
         /\ Head(todo).kind \notin {"answer", "record"} => (Owes(Tail(todo)) <=> Owes(todo))
<1>1. PICK m \in Nat : Len(todo) = m + 1 BY EmptySeq
<1>2. PICK rest : rest = Tail(todo) OBVIOUS
<1>3. /\ Len(rest) = m /\ Head(todo) = todo[1]
      /\ \A q \in 1..m : rest[q] = todo[q + 1]
  BY <1>1, <1>2, HeadTailProperties
<1>4. /\ 1 \in 1..m + 1 /\ \A p \in 1..m : p + 1 \in 1..m + 1
      /\ \A p \in 1..m + 1 : p = 1 \/ (p - 1 \in 1..m /\ (p - 1) + 1 = p)
  BY <1>1
<1>5. Asking(rest) => Asking(todo)
  BY <1>1, <1>3, <1>4 DEF Asking
<1>6. Asking(todo) => Asking(rest) \/ todo[1].kind = "record"
  <2>. SUFFICES ASSUME NEW p \in 1..m + 1, todo[p].kind = "record"
                PROVE  Asking(rest) \/ todo[1].kind = "record"
    BY <1>1 DEF Asking
  <2>1. CASE p = 1 BY <2>1
  <2>2. CASE p # 1
    <3>1. PICK q \in 1..m : q + 1 = p BY <1>4, <2>2
    <3>. QED BY <1>3, <3>1 DEF Asking
  <2>. QED BY <2>1, <2>2
<1>7. /\ todo[1].kind = "answer" => Asking(todo)
      /\ Asking(todo) =>
           /\ todo[1].kind # "agent" /\ m + 1 >= 4
           /\ todo[1].kind = "record" <=> m = 3
           /\ todo[1].kind = "answer" <=> m = 5
           /\ m = 4 => todo[1].kind = "message"
  <2>1. /\ todo[1].kind = "answer" => Asking(todo)
        /\ Asking(todo) =>
           /\ todo[1].kind # "agent"
           /\ todo[1].kind = "record" <=> 1 = m + 1 - 3
           /\ todo[1].kind = "answer" <=> 1 = m + 1 - 5
           /\ 1 = m + 1 - 4 => todo[1].kind = "message"
    BY <1>1, <1>4 DEF Shaped
  <2>2. Asking(todo) => m + 1 >= 4
    <3>. SUFFICES ASSUME NEW p \in 1..m + 1, todo[p].kind = "record", Asking(todo)
                  PROVE  m + 1 >= 4
      BY <1>1 DEF Asking
    <3>1. p = m + 1 - 3 BY <1>1 DEF Shaped
    <3>. QED BY <3>1
  <2>. QED BY <2>1, <2>2
<1>8. Shaped(rest)
  <2>. SUFFICES ASSUME NEW p \in 1..m
                PROVE  /\ rest[p].kind = "answer" => Asking(rest)
                       /\ Asking(rest) =>
                            /\ rest[p].kind # "agent"
                            /\ rest[p].kind = "record" <=> p = m - 3
                            /\ rest[p].kind = "answer" <=> p = m - 5
                            /\ p = m - 4 => rest[p].kind = "message"
    BY <1>3 DEF Shaped
  <2>1. /\ todo[p + 1].kind = "answer" => Asking(todo)
        /\ Asking(todo) =>
             /\ todo[p + 1].kind # "agent"
             /\ todo[p + 1].kind = "record" <=> p + 1 = m + 1 - 3
             /\ todo[p + 1].kind = "answer" <=> p + 1 = m + 1 - 5
             /\ p + 1 = m + 1 - 4 => todo[p + 1].kind = "message"
    BY <1>1, <1>4 DEF Shaped
  <2>2. rest[p].kind = "answer" => Asking(rest)
    <3>. SUFFICES ASSUME rest[p].kind = "answer", ~Asking(rest)  PROVE FALSE
      OBVIOUS
    <3>1. Asking(todo) /\ p + 1 = m + 1 - 5
      BY <1>3, <2>1
    <3>2. m = 3 BY <1>6, <1>7, <3>1
    <3>. QED BY <3>1, <3>2
  <2>3. rest[p] = todo[p + 1] /\ p \in Int BY <1>3
  <2>. QED BY <1>1, <1>5, <2>1, <2>2, <2>3
<1>9. /\ Owes(todo) <=> Asking(todo) /\ m + 1 <= 5
      /\ Owes(rest) <=> Asking(rest) /\ m <= 5
  BY <1>1, <1>3 DEF Owes
<1>10. m = 3 => ~Asking(rest)
  <2>. SUFFICES ASSUME m = 3, NEW p \in 1..m, rest[p].kind = "record", Asking(rest)  PROVE FALSE
    BY <1>3 DEF Asking
  <2>1. p = m - 3 BY <1>3, <1>8 DEF Shaped
  <2>. QED BY <2>1
<1>11. todo[1].kind = "record" => Asking(todo)
  BY <1>1, <1>4 DEF Asking
<1>. QED BY <1>2, <1>3, <1>5, <1>6, <1>7, <1>8, <1>9, <1>10, <1>11

\* Whoever does not ask a model.
LEMMA NothingAsked ==
  ASSUME NEW todo, \A p \in 1..Len(todo) : todo[p].kind \notin {"answer", "record"}
  PROVE  Shaped(todo) /\ ~Asking(todo) /\ ~Owes(todo)
BY DEF Shaped, Asking, Owes

LEMMA ModelShaped ==
  ASSUME NEW id \in Nat
  PROVE  Shaped(Visited(ModelBody, id)) /\ ~Owes(Visited(ModelBody, id))
<1>1. PICK a, b, c, d, e, f, g, h, i :
        /\ a = Tell("start", id) /\ b = Tell("payload", 0) /\ c = Tell("request", 0)
        /\ d = Tell("delta", 0) /\ e = Tell("answer", 0) /\ f = Tell("message", 0)
        /\ g = Tell("record", 0) /\ h = Tell("response", 0) /\ i = Tell("end", id)
  OBVIOUS
<1>2. /\ a.kind = "start" /\ b.kind = "payload" /\ c.kind = "request" /\ d.kind = "delta"
      /\ e.kind = "answer" /\ f.kind = "message" /\ g.kind = "record" /\ h.kind = "response"
      /\ i.kind = "end"
  BY <1>1 DEF Tell
<1>3. PICK S, body : /\ S = {a, b, c, d, e, f, g, h, i}
                      /\ body = <<b, c, d, e, f, g, b, h>>
  OBVIOUS
<1>4. PICK todo : todo = <<a>> \o body \o <<i>> OBVIOUS
<1>11. Visited(ModelBody, id) = todo BY <1>1, <1>3, <1>4 DEF Visited, ModelBody
<1>5. /\ Len(todo) = 10
      /\ todo[1] = a /\ todo[2] = b /\ todo[3] = c /\ todo[4] = d /\ todo[5] = e
      /\ todo[6] = f /\ todo[7] = g /\ todo[8] = b /\ todo[9] = h /\ todo[10] = i
  <2>1. body \in Seq(S) /\ <<a>> \in Seq(S) /\ <<i>> \in Seq(S)
    BY <1>3
  <2>2. /\ Len(body) = 8
        /\ body[1] = b /\ body[2] = c /\ body[3] = d /\ body[4] = e /\ body[5] = f
        /\ body[6] = g /\ body[7] = b /\ body[8] = h
    BY <1>3
  <2>3. PICK y, z, x : y = <<a>> /\ z = <<i>> /\ x = y \o body
    OBVIOUS
  <2>7. y \in Seq(S) /\ Len(y) = 1 /\ y[1] = a /\ z \in Seq(S) /\ Len(z) = 1 /\ z[1] = i
    BY <2>1, <2>3
  <2>4. /\ x \in Seq(S) /\ Len(x) = 1 + 8
        /\ \A n \in 1..1 + 8 : x[n] = IF n <= 1 THEN y[n] ELSE body[n - 1]
    <3>1. y \in Seq(S) /\ body \in Seq(S) /\ x = y \o body
      BY <2>1, <2>3
    <3>2. /\ x \in Seq(S) /\ Len(x) = Len(y) + Len(body)
          /\ \A n \in 1..Len(y) + Len(body) :
               x[n] = IF n <= Len(y) THEN y[n] ELSE body[n - Len(y)]
      BY ONLY <3>1, ConcatProperties
    <3>. QED BY <2>2, <2>7, <3>2
  <2>5. /\ Len(todo) = 9 + 1
        /\ \A n \in 1..9 + 1 : todo[n] = IF n <= 9 THEN x[n] ELSE z[n - 9]
    <3>1. x \in Seq(S) /\ z \in Seq(S) /\ todo = x \o z /\ Len(x) = 9
      BY <1>4, <2>3, <2>4, <2>7
    <3>2. /\ Len(todo) = Len(x) + Len(z)
          /\ \A n \in 1..Len(x) + Len(z) :
               todo[n] = IF n <= Len(x) THEN x[n] ELSE z[n - Len(x)]
      BY ONLY <3>1, ConcatProperties
    <3>. QED BY <2>7, <3>1, <3>2
  <2>6. /\ x[1] = a /\ x[2] = b /\ x[3] = c /\ x[4] = d /\ x[5] = e
        /\ x[6] = f /\ x[7] = g /\ x[8] = b /\ x[9] = h
    BY <2>2, <2>4, <2>7
  <2>. QED BY <2>5, <2>6, <2>7
<1>6. \A p \in 1..10 : p \in {1, 2, 3, 4, 5, 6, 7, 8, 9, 10}
  OBVIOUS
<1>7. Asking(todo) BY <1>2, <1>5 DEF Asking
<1>8. \A p \in 1..10 :
        /\ todo[p].kind # "agent"
        /\ todo[p].kind = "record" <=> p = 7
        /\ todo[p].kind = "answer" <=> p = 5
        /\ p = 6 => todo[p].kind = "message"
  BY <1>2, <1>5, <1>6
<1>9. Shaped(todo) BY <1>5, <1>7, <1>8 DEF Shaped
<1>. QED BY <1>5, <1>9, <1>11 DEF Owes

-------------------------------------------------------------
(* Reports counted.                                                        *)

LEMMA WithLemma ==
  ASSUME NEW reports \in Seq(Reports), NEW k \in Nat, NEW field
  PROVE  /\ With(reports, k, field) \in Nat
         /\ With(reports, 0, field) = 0
         /\ With(reports, k + 1, field) = With(reports, k, field) + One(reports[k + 1], field)
         /\ \A r : k <= Len(reports) =>
              With(Append(reports, r), k, field) = With(reports, k, field)
         /\ k = Len(reports) =>
              With(reports, k, field) = Cardinality({n \in DOMAIN reports : field \in reports[n]})
<1>. DEFINE S(m) == {n \in 1..m : field \in reports[n]}
<1>1. IsFiniteSet(S(k)) /\ Cardinality(S(k)) \in Nat
  <2>1. IsFiniteSet(1..k) BY FS_Interval
  <2>2. S(k) \subseteq 1..k OBVIOUS
  <2>3. IsFiniteSet(S(k)) BY <2>1, <2>2, FS_Subset
  <2>. QED BY <2>3, FS_CardinalityType
<1>2. S(0) = {} OBVIOUS
<1>3. With(reports, 0, field) = 0 BY <1>2, FS_EmptySet DEF With
<1>4. With(reports, k + 1, field) = With(reports, k, field) + One(reports[k + 1], field)
  <2>1. CASE field \in reports[k + 1]
    <3>1. S(k + 1) = S(k) \cup {k + 1} /\ k + 1 \notin S(k)
      BY <2>1
    <3>2. Cardinality(S(k) \cup {k + 1}) = Cardinality(S(k)) + 1
      BY <1>1, <3>1, FS_AddElement
    <3>. QED BY <2>1, <3>1, <3>2 DEF With, One
  <2>2. CASE field \notin reports[k + 1]
    <3>1. S(k + 1) = S(k) BY <2>2
    <3>2. One(reports[k + 1], field) = 0 BY <2>2 DEF One
    <3>3. PICK c \in Nat : c = Cardinality(S(k)) BY <1>1
    <3>4. With(reports, k + 1, field) = c /\ With(reports, k, field) = c
      BY <3>1, <3>3 DEF With
    <3>. QED BY <3>2, <3>4
  <2>. QED BY <2>1, <2>2
<1>5. ASSUME NEW r, k <= Len(reports)
      PROVE  With(Append(reports, r), k, field) = With(reports, k, field)
  <2>1. \A n \in 1..k : Append(reports, r)[n] = reports[n]
    BY <1>5, LenProperties
  <2>2. {n \in 1..k : field \in Append(reports, r)[n]} = S(k) BY <2>1
  <2>. QED BY <2>2 DEF With
<1>6. k = Len(reports) => S(k) = {n \in DOMAIN reports : field \in reports[n]}
  OBVIOUS
<1>. QED BY <1>1, <1>3, <1>4, <1>5, <1>6 DEF With

\* RunUsage.record.
LEMMA RecordedCounts ==
  ASSUME NEW u \in Usages, NEW since \in Usages, NEW reports \in Seq(Reports), NEW k \in Nat,
         Counts(u, since, reports, k)
  PROVE  Counts(Recorded(u, reports[k + 1]), since, reports, k + 1)
<1>1. PICK r, v : r = reports[k + 1] /\ v = Recorded(u, r)
  OBVIOUS
<1>5. PICK a, b : a = One(r, "tokens") /\ b = One(r, "cached")
  OBVIOUS
<1>2. /\ v.requests = u.requests + 1
      /\ v.usage_requests = u.usage_requests + a
      /\ v.tokens = u.tokens + a
      /\ v.cached_tokens = u.cached_tokens + b
      /\ v.cached_usage_requests = u.cached_usage_requests + b
  BY <1>1, <1>5 DEF Recorded
<1>3. /\ u.requests \in Nat /\ u.usage_requests \in Nat /\ u.tokens \in Nat
      /\ u.cached_tokens \in Nat /\ u.cached_usage_requests \in Nat
      /\ since.requests \in Nat /\ since.usage_requests \in Nat /\ since.tokens \in Nat
      /\ since.cached_tokens \in Nat /\ since.cached_usage_requests \in Nat
  BY DEF Usages
<1>4. PICK x, y, x1, y1 :
        /\ x = With(reports, k, "tokens") /\ y = With(reports, k, "cached")
        /\ x1 = With(reports, k + 1, "tokens") /\ y1 = With(reports, k + 1, "cached")
  OBVIOUS
<1>6. x \in Nat /\ y \in Nat /\ x1 = x + a /\ y1 = y + b /\ a \in Nat /\ b \in Nat
  BY <1>1, <1>4, <1>5, WithLemma DEF One
<1>7. /\ u.requests - since.requests = k
      /\ u.usage_requests - since.usage_requests = x
      /\ u.tokens - since.tokens = x
      /\ u.cached_tokens - since.cached_tokens = y
      /\ u.cached_usage_requests - since.cached_usage_requests = y
  BY <1>4 DEF Counts
<1>9. /\ v.usage_requests - since.usage_requests = x1
      /\ v.tokens - since.tokens = x1
      /\ v.cached_tokens - since.cached_tokens = y1
      /\ v.cached_usage_requests - since.cached_usage_requests = y1
  <2>1. ASSUME NEW field \in {"usage_requests", "tokens"}  PROVE v[field] - since[field] = x1
    <3>1. PICK p, q, w : p = u[field] /\ q = since[field] /\ w = v[field]
      OBVIOUS
    <3>2. p \in Nat /\ q \in Nat /\ p - q = x /\ w = p + a
      BY <1>2, <1>3, <1>7, <3>1
    <3>3. w - q = x1 BY ONLY <1>6, <3>2
    <3>. QED BY <3>1, <3>3
  <2>2. ASSUME NEW field \in {"cached_tokens", "cached_usage_requests"}
        PROVE  v[field] - since[field] = y1
    <3>1. PICK p, q, w : p = u[field] /\ q = since[field] /\ w = v[field]
      OBVIOUS
    <3>2. p \in Nat /\ q \in Nat /\ p - q = y /\ w = p + b
      BY <1>2, <1>3, <1>7, <3>1
    <3>3. w - q = y1 BY ONLY <1>6, <3>2
    <3>. QED BY <3>1, <3>3
  <2>. QED BY <2>1, <2>2
<1>8. /\ v.requests - since.requests = k + 1
      /\ v.usage_requests - since.usage_requests = x1
      /\ v.tokens - since.tokens = x1
      /\ v.cached_tokens - since.cached_tokens = y1
      /\ v.cached_usage_requests - since.cached_usage_requests = y1
  <2>1. PICK p, q : p = u.requests /\ q = since.requests
    OBVIOUS
  <2>2. v.requests - since.requests = k + 1
    <3>1. p \in Nat /\ q \in Nat /\ p - q = k /\ v.requests = p + 1 /\ since.requests = q
      BY <1>2, <1>3, <1>7, <2>1
    <3>2. (p + 1) - q = k + 1 BY ONLY <3>1, k \in Nat
    <3>. QED BY <3>1, <3>2
  <2>. QED BY <1>6, <1>9, <2>2
<1>. QED BY <1>1, <1>4, <1>8 DEF Counts

\* RunUsage.since and RunUsage.to_dict.
LEMMA CountsTruth ==
  ASSUME NEW u \in Usages, NEW since \in Usages, NEW reports \in Seq(Reports),
         Counts(u, since, reports, Len(reports))
  PROVE  ToDict(Since(u, since)) = Truth(reports)
<1>1. PICK x, y : x = With(reports, Len(reports), "tokens") /\ y = With(reports, Len(reports), "cached")
  OBVIOUS
<1>2. /\ Len(reports) \in Nat
      /\ x = Cardinality({n \in DOMAIN reports : "tokens" \in reports[n]})
      /\ y = Cardinality({n \in DOMAIN reports : "cached" \in reports[n]})
  BY <1>1, LenProperties, WithLemma
<1>3. Truth(reports) =
        [requests |-> Len(reports),
         tokens |-> IF x = Len(reports) THEN Len(reports) ELSE Unknown,
         cached |-> IF y > 0 THEN y ELSE Unknown]
  BY <1>2 DEF Truth
<1>4. PICK w : w = Since(u, since) OBVIOUS
<1>5. /\ w.requests = Len(reports) /\ w.usage_requests = x /\ w.tokens = x
      /\ w.cached_tokens = y /\ w.cached_usage_requests = y
  BY <1>1, <1>4 DEF Since, Usages, Counts
<1>. QED BY <1>3, <1>4, <1>5 DEF ToDict

-------------------------------------------------------------
(* Runs that answered, and runs that were spoiled.                         *)

\* What somebody raised upon, stays.
LEMMA SpoiledGrows ==
  ASSUME Inv, Grows, refused \subseteq refused'
  PROVE  \A id : Spoiled(id) => Spoiled(id)'
<1>. SUFFICES ASSUME NEW id, Spoiled(id)  PROVE Spoiled(id)'
  OBVIOUS
<1>1. PICK e \in refused : e # 0 /\ id \in made[e].for /\ made[e].kind = "message"
  BY DEF Spoiled
<1>2. e \in 1..Len(made) BY <1>1, LenProperties DEF Inv, TypeOK, StreamOK
<1>3. made'[e] = made[e] /\ e \in refused'
  BY <1>1, <1>2 DEF Grows
<1>. QED BY <1>1, <1>3 DEF Spoiled

LEMMA UsageTypes ==
  ASSUME Inv, UsageInv
  PROVE  /\ Len(runs) \in Nat /\ usage \in Usages
         /\ \A n \in 1..Len(runs) : runs[n] \in RunType
         /\ \A f \in RunType : f.todo \in Seq(Item) /\ f.since \in Usages
                               /\ f.reports \in Seq(Reports) /\ f.id \in Nat
         /\ runs # <<>> => /\ Len(runs) \in 1..Len(runs) /\ Top = runs[Len(runs)]
                           /\ Top \in RunType /\ Shaped(Top.todo)
<1>1. /\ RunsOK /\ Len(runs) \in Nat /\ usage \in Usages
      /\ \A n \in 1..Len(runs) : runs[n] \in RunType
  BY LenProperties, ElementOfSeq DEF Inv, TypeOK, RunsOK
<1>2. \A f \in RunType : f.todo \in Seq(Item) /\ f.since \in Usages
                         /\ f.reports \in Seq(Reports) /\ f.id \in Nat
  BY RunIdType DEF RunType
<1>3. ASSUME runs # <<>>
      PROVE  /\ Len(runs) \in 1..Len(runs) /\ Top = runs[Len(runs)] /\ Top \in RunType
             /\ Shaped(Top.todo)
  BY <1>1, <1>3, TopRun DEF UsageInv, AskingOK
<1>. QED BY <1>1, <1>2, <1>3

\* Nothing of the runs changes, and the flow goes on with its call, if any.
LEMMA UsageStill ==
  ASSUME Inv, UsageInv, UNCHANGED <<runs, usage, left>>,
         \A id : Spoiled(id) => Spoiled(id)',
         TellingOK'
  PROVE  UsageInv'
<1>1. AskingOK' BY DEF UsageInv, AskingOK
<1>2. TallyOK' BY DEF UsageInv, TallyOK, Owing, Top
<1>3. LeftTallied' BY DEF UsageInv, LeftTallied
<1>. QED BY <1>1, <1>2, <1>3 DEF UsageInv

\* The runs go on, the innermost as f.
LEMMA UsageTop ==
  ASSUME Inv, UsageInv, left' = left, runs # <<>>,
         \A id : Spoiled(id) => Spoiled(id)',
         NEW f, Len(runs') = Len(runs), runs'[Len(runs)] = f, Shaped(f.todo),
         \A n \in 1..Len(runs) - 1 : runs'[n].todo = runs[n].todo,
         \A n \in 1..Len(runs) :
           \E id : /\ id = runs'[n].id
                   /\ Spoiled(id)' \/ Tallied(runs'[n], Owes(f.todo), f.report, usage'),
         runs' \in Seq(RunType), TellingOK'
  PROVE  UsageInv'
<1>1. Len(runs) \in Nat \ {0} /\ Len(runs) \in 1..Len(runs)
  BY UsageTypes
<1>2. Top' = f /\ (Owing' <=> Owes(f.todo))
  BY <1>1, EmptySeq, FrontLast DEF Top, Owing
<1>3. AskingOK'
  <2>. SUFFICES ASSUME NEW n \in 1..Len(runs)
                PROVE  Shaped(runs'[n].todo) /\ (n < Len(runs) => ~Asking(runs'[n].todo))
    BY DEF AskingOK
  <2>1. CASE n = Len(runs) BY <1>1, <2>1
  <2>2. CASE n # Len(runs) BY <1>1, <2>2 DEF UsageInv, AskingOK
  <2>. QED BY <2>1, <2>2
<1>4. TallyOK'
  <2>. SUFFICES ASSUME NEW n \in 1..Len(runs), NEW id, id = runs'[n].id
                PROVE  Spoiled(id)' \/ Tallied(runs'[n], Owes(f.todo), f.report, usage')
    BY <1>2 DEF TallyOK, Spoiled, Tallied
  <2>. QED OBVIOUS
<1>5. LeftTallied' BY DEF UsageInv, LeftTallied
<1>. QED BY <1>3, <1>4, <1>5 DEF UsageInv

\* What is counted for a run.
SameTally(f, g) ==
  f.id = g.id /\ f.since = g.since /\ f.reports = g.reports /\ f.report = g.report

LEMMA DoneTally ==
  ASSUME Inv, UsageInv, runs # <<>>, Top.todo # <<>>
  PROVE  /\ Done \in RunType /\ SameTally(Done, Top) /\ Done.todo = Tail(Top.todo)
         /\ Head(Top.todo) \in Item
         /\ Shaped(Done.todo)
         /\ ~Asking(Top.todo) => ~Asking(Done.todo)
         /\ Owes(Top.todo) => Head(Top.todo).kind \in {"message", "record"}
         /\ Head(Top.todo).kind = "answer" => ~Owes(Top.todo) /\ Owes(Done.todo)
         /\ Head(Top.todo).kind = "record" => Owes(Top.todo) /\ ~Owes(Done.todo)
         /\ Head(Top.todo).kind = "agent" => ~Asking(Top.todo)
         /\ Head(Top.todo).kind \notin {"answer", "record"} =>
              (Owes(Done.todo) <=> Owes(Top.todo))
<1>1. Top \in RunType /\ Shaped(Top.todo) /\ Top.todo \in Seq(Item) /\ RunsOK
  BY UsageTypes DEF Inv, TypeOK
<1>2. /\ Done \in RunType /\ Done.todo = Tail(Top.todo) /\ Head(Top.todo) \in Item
  BY <1>1, DoneRun
<1>3. SameTally(Done, Top) BY <1>1 DEF Done, RunType, SameTally
<1>. QED BY <1>1, <1>2, <1>3, ShapedTail DEF Owes

\* A run that fails, or is cut off, asks nobody.
LEMMA BrokenTally ==
  ASSUME NEW f \in RunType
  PROVE  /\ Failed(f) \in RunType /\ SameTally(Failed(f), f)
         /\ Shaped(Failed(f).todo) /\ ~Asking(Failed(f).todo) /\ ~Owes(Failed(f).todo)
         /\ Cut(f) \in RunType /\ SameTally(Cut(f), f)
         /\ Shaped(Cut(f).todo) /\ ~Asking(Cut(f).todo) /\ ~Owes(Cut(f).todo)
<1>1. /\ Failed(f) \in RunType /\ Cut(f) \in RunType
      /\ \A q \in 1..Len(Failed(f).todo) : Failed(f).todo[q].kind \in {"end", "verdict"}
      /\ \A q \in 1..Len(Cut(f).todo) : FALSE
  BY FailedRun, EmptySeq
<1>2. SameTally(Failed(f), f) /\ SameTally(Cut(f), f)
  BY DEF Failed, Cut, RunType, SameTally
<1>3. Shaped(Failed(f).todo) /\ ~Asking(Failed(f).todo) /\ ~Owes(Failed(f).todo)
  BY <1>1, NothingAsked
<1>4. Shaped(Cut(f).todo) /\ ~Asking(Cut(f).todo) /\ ~Owes(Cut(f).todo)
  BY <1>1, NothingAsked
<1>. QED BY <1>1, <1>2, <1>3, <1>4

\* The innermost run goes on as f with the usage it had.
LEMMA UsageGoesOn ==
  ASSUME Inv, UsageInv, UNCHANGED <<left, usage>>, runs # <<>>,
         \A id : Spoiled(id) => Spoiled(id)',
         NEW f \in RunType, runs' = WithTop(f), SameTally(f, Top), Shaped(f.todo),
         Owes(f.todo) <=> Owes(Top.todo),
         TellingOK'
  PROVE  UsageInv'
<1>1. /\ runs' \in Seq(RunType) /\ Len(runs') = Len(runs) /\ runs'[Len(runs)] = f
      /\ \A n \in 1..Len(runs) - 1 : runs'[n] = runs[n]
  BY WithTopLemma DEF Inv, TypeOK
<1>2. Len(runs) \in Nat /\ Top = runs[Len(runs)]
  BY UsageTypes
<1>3. ASSUME NEW n \in 1..Len(runs)
      PROVE  /\ runs'[n].id = runs[n].id /\ runs'[n].since = runs[n].since
             /\ runs'[n].reports = runs[n].reports
  BY <1>1, <1>2 DEF SameTally
<1>4. ASSUME NEW n \in 1..Len(runs)
      PROVE  \E id : /\ id = runs'[n].id
                     /\ Spoiled(id)' \/ Tallied(runs'[n], Owes(f.todo), f.report, usage')
  <2>1. PICK id : id = runs[n].id OBVIOUS
  <2>2. Spoiled(id) \/ Tallied(runs[n], Owes(Top.todo), Top.report, usage)
    BY <2>1 DEF Owing, UsageInv, TallyOK, Tallied
  <2>3. Tallied(runs'[n], Owes(f.todo), f.report, usage')
          <=> Tallied(runs[n], Owes(Top.todo), Top.report, usage)
    BY <1>3 DEF Tallied, SameTally
  <2>. QED BY <1>3, <2>1, <2>2, <2>3
<1>. QED BY <1>1, <1>4, UsageTop

-------------------------------------------------------------
(* The steps of a call.                                                    *)

\* The flow's call goes on, and nothing of the runs changes.
LEMMA TellingKept ==
  ASSUME Inv, UsageInv, UNCHANGED runs, Grows,
         calling'[Flow] # <<>> =>
           /\ calling[Flow] # <<>>
           /\ calling'[Flow][1].kind = calling[Flow][1].kind
           /\ calling'[Flow][1].event = calling[Flow][1].event
  PROVE  TellingOK'
<1>. SUFFICES ASSUME calling'[Flow] # <<>>
              PROVE  /\ Owing' => calling'[Flow][1].kind = "message"
                     /\ calling'[Flow][1].event # 0 =>
                          made'[calling'[Flow][1].event].for = InProgress'
  BY DEF TellingOK
<1>1. (Owing' <=> Owing) /\ InProgress' = InProgress
  BY DEF Owing, Top, InProgress
<1>2. CallOK(Flow, 1) BY EmptySeq DEF Inv, TypeOK, CallsOK, Threads, CallInv
<1>3. calling[Flow][1].event # 0 => calling[Flow][1].event \in 1..Len(made)
  BY <1>2 DEF CallOK
<1>. QED BY <1>1, <1>3 DEF UsageInv, TellingOK, Grows

LEMMA InnerUsage ==
  ASSUME Inv, UsageInv, NEW t \in Threads,
         Acquire(t) \/ Observe(t) \/ Read(t) \/ Deliver(t) \/ Return(t)
  PROVE  UsageInv'
<1>1. PICK c : GoesOn(t, c)
  BY AcquireGoes, ObserveGoes, ReadGoes, DeliverGoes, ReturnGoes
<1>2. UNCHANGED <<made, runs, usage, left, refused>>
  BY DEF Acquire, Observe, Read, Deliver, Return, stream
<1>3. Grows /\ \A id : Spoiled(id) => Spoiled(id)'
  BY <1>2, LenProperties, SpoiledGrows DEF Inv, TypeOK, StreamOK, Grows
<1>4. calling'[Flow] # <<>> =>
        /\ calling[Flow] # <<>>
        /\ calling'[Flow][1].kind = calling[Flow][1].kind
        /\ calling'[Flow][1].event = calling[Flow][1].event
  BY <1>1, FirstKept DEF GoesOn, Goes, Threads, Inv, TypeOK
<1>5. TellingOK' BY <1>2, <1>3, <1>4, TellingKept
<1>. QED BY <1>2, <1>3, <1>5, UsageStill

\* An event is made.
LEMMA NumberUsage ==
  ASSUME Inv, UsageInv, NEW t \in Threads, Number(t)
  PROVE  UsageInv'
<1>1. PICK m, id, d, e : m \in Nat \ {0} /\ Makes(t, m, id, d, e)
  BY NumberGoes
<1>2. /\ m = Len(calling[t]) /\ Len(calling'[t]) = m
      /\ id = Len(made) + 1 /\ Len(made) \in Nat /\ Len(made') = id /\ made'[id] = e
      /\ \A k \in 1..Len(made) : made'[k] = made[k]
      /\ calling'[t][m] = d /\ d.event = id
      /\ \A n \in 1..m - 1 : calling'[t][n] = calling[t][n]
      /\ \A u \in Threads \ {t} : calling'[u] = calling[u]
      /\ e.for = RunsOf(t) /\ d.kind = calling[t][m].kind
  BY <1>1 DEF Makes
<1>3. UNCHANGED <<runs, usage, left, refused>> BY DEF Number
<1>4. Grows BY <1>2 DEF Grows
<1>6. calling[t] # <<>> /\ calling'[t] # <<>> /\ (m # 1 => 1 \in 1..m - 1)
  <2>1. m # 0 /\ (m # 1 => 1 \in 1..m - 1)
    BY <1>1
  <2>. QED BY <1>2, <2>1, EmptySeq
<1>5. TellingOK'
  <2>1. CASE t # Flow BY <1>2, <1>3, <1>4, <2>1, TellingKept DEF Threads
  <2>2. CASE t = Flow /\ m # 1
    BY <1>2, <1>3, <1>4, <1>6, <2>2, TellingKept
  <2>3. CASE t = Flow /\ m = 1
    <3>1. /\ calling[Flow] # <<>> /\ calling'[Flow][1].kind = calling[Flow][1].kind
          /\ calling'[Flow][1].event = id
      BY <1>2, <1>6, <2>3
    <3>2. made'[id].for = InProgress' /\ (Owing' <=> Owing)
      BY <1>2, <1>3, <2>3 DEF RunsOf, InProgress, Owing, Top
    <3>. QED BY <3>1, <3>2 DEF UsageInv, TellingOK
  <2>. QED BY <2>1, <2>2, <2>3
<1>. QED BY <1>3, <1>4, <1>5, SpoiledGrows, UsageStill

\* Who raises on the message of an answer, spoils the runs it is of.
LEMMA RaiseUsage ==
  ASSUME Inv, UsageInv, NEW t \in Threads, Raise(t)
  PROVE  UsageInv'
<1>1. /\ UNCHANGED <<made, left, usage>> /\ calling[t] # <<>> /\ Numbered(Current(t))
      /\ calling' = [calling EXCEPT ![t] = <<>>] /\ CallsOK
      /\ refused' = refused \cup {calling[t][n].event : n \in DOMAIN calling[t]}
  BY DEF Raise, stream, Inv, TypeOK, Heard, Step, Numbered
<1>2. Grows /\ refused \subseteq refused' /\ \A id : Spoiled(id) => Spoiled(id)'
  BY <1>1, LenProperties, SpoiledGrows DEF Inv, TypeOK, StreamOK, Grows
<1>3. CASE t # Flow
  BY <1>1, <1>2, <1>3, TellingKept, UsageStill DEF Raise, CallsOK, Threads
<1>4. CASE t = Flow
  <2>1. calling'[Flow] = <<>> /\ calling[Flow] # <<>>
    BY <1>1, <1>4 DEF CallsOK
  <2>2. TellingOK' BY <2>1 DEF TellingOK
  <2>3. runs # <<>> /\ RunsOK
    BY <2>1 DEF Inv, TypeOK, CallInv
  <2>4. Top \in RunType /\ Top = runs[Len(runs)] /\ Len(runs) \in Nat
    BY <2>3, UsageTypes
  <2>5. PICK f \in RunType : /\ runs' = WithTop(f) /\ SameTally(f, Top)
                             /\ Shaped(f.todo) /\ ~Owes(f.todo)
    BY <1>4, <2>4, BrokenTally DEF Raise
  <2>6. CASE ~Owing
    BY <1>1, <1>2, <2>2, <2>3, <2>5, <2>6, UsageGoesOn DEF Owing, SameTally
  <2>7. CASE Owing
    <3>1. PICK e : e = calling[Flow][1].event OBVIOUS
    <3>2. e \in refused' /\ e # 0 /\ made[e].kind = "message" /\ made[e].for = InProgress
      <4>1. /\ CallOK(Flow, 1) /\ 1 \in DOMAIN calling[Flow] /\ e # 0
            /\ Numbered(calling[Flow][1])
        <5>1. /\ Len(calling[t]) \in Nat \ {0} /\ Current(t) = calling[t][Len(calling[t])]
              /\ calling[t] \in Seq(CallType)
          BY <1>1, CurrentCall DEF CallsOK
        <5>2. 1 \in 1..Len(calling[t]) /\ DOMAIN calling[t] = 1..Len(calling[t])
          BY <5>1
        <5>3. CallOK(t, 1) BY <5>2 DEF Inv, CallInv
        <5>4. Numbered(calling[t][1]) BY <1>1, <5>1, <5>3 DEF CallOK
        <5>5. calling[t][1].event \in 1..Len(made) BY <5>3, <5>4 DEF CallOK
        <5>6. e \in 1..Len(made) /\ Len(made) \in Nat
          BY <1>4, <3>1, <5>5, LenProperties DEF Inv, TypeOK, StreamOK
        <5>. QED BY <1>4, <5>2, <5>3, <5>4, <5>6
      <4>2. calling[Flow][1].kind = "message" /\ made[e].for = InProgress
        BY <2>1, <2>7, <3>1, <4>1 DEF UsageInv, TellingOK
      <4>3. made[e].kind = "message" BY <3>1, <4>1, <4>2 DEF CallOK
      <4>. QED BY <1>1, <1>4, <3>1, <4>1, <4>2, <4>3
    <3>3. /\ runs' \in Seq(RunType) /\ Len(runs') = Len(runs) /\ runs'[Len(runs)] = f
          /\ \A n \in 1..Len(runs) - 1 : runs'[n] = runs[n]
      BY <2>3, <2>5, WithTopLemma
    <3>4. ASSUME NEW n \in 1..Len(runs)
          PROVE  \E id : id = runs'[n].id /\ Spoiled(id)'
      <4>1. PICK id : id = runs[n].id OBVIOUS
      <4>2. n \in DOMAIN runs BY <2>4 DEF RunsOK
      <4>3. id \in InProgress BY <4>1, <4>2 DEF InProgress
      <4>4. Spoiled(id)' BY <1>1, <3>2, <4>3 DEF Spoiled
      <4>5. id = runs'[n].id BY <2>4, <2>5, <3>3, <4>1 DEF SameTally
      <4>. QED BY <4>4, <4>5
    <3>5. \A n \in 1..Len(runs) :
            \E id : /\ id = runs'[n].id
                    /\ Spoiled(id)' \/ Tallied(runs'[n], Owes(f.todo), f.report, usage')
      BY <3>4
    <3>. QED BY <1>1, <1>2, <2>2, <2>3, <2>5, <3>3, <3>5, UsageTop
  <2>. QED BY <2>6, <2>7
<1>. QED BY <1>3, <1>4

-------------------------------------------------------------
(* The steps of a flow.                                                    *)

\* The flow makes no call, before and after, and its innermost run goes on as f.
LEMMA FlowUsage ==
  ASSUME Inv, UsageInv, UNCHANGED <<made, refused, left, usage, calling>>, Idle,
         NEW f \in RunType, runs' = WithTop(f), SameTally(f, Top), Shaped(f.todo),
         Owes(f.todo) <=> Owes(Top.todo)
  PROVE  UsageInv'
<1>1. \A id : Spoiled(id) => Spoiled(id)'
  BY DEF Spoiled
<1>2. TellingOK' /\ runs # <<>>
  BY DEF Idle, TellingOK
<1>. QED BY <1>1, <1>2, UsageGoesOn

LEMMA SaysUsage ==
  ASSUME Inv, UsageInv, Says
  PROVE  UsageInv'
<1>1. /\ UNCHANGED <<made, refused, left, usage>> /\ Silence
      /\ calling[Flow] = <<>> /\ runs # <<>> /\ Top.todo # <<>> /\ runs' = WithTop(Done)
      /\ Head(Top.todo).kind \in Kinds
  BY DEF Says, Idle, stream, Silence
<1>2. PICK kind, of : kind = Head(Top.todo).kind /\ of = Head(Top.todo).of
  OBVIOUS
<1>3. /\ Done \in RunType /\ SameTally(Done, Top) /\ Shaped(Done.todo)
      /\ Head(Top.todo) \in Item
      /\ Owes(Top.todo) => kind \in {"message", "record"}
      /\ kind \notin {"answer", "record"} => (Owes(Done.todo) <=> Owes(Top.todo))
  BY <1>1, <1>2, DoneTally
<1>4. kind \notin {"answer", "record"} BY <1>1, <1>2 DEF Kinds, Emitted, Notified
<1>5. calling'[Flow] \in {<<>>, <<Call(Flow, kind, of)>>}
  <2>1. PICK t : t = Flow OBVIOUS
  <2>2. kind \in Kinds /\ of \in Nat /\ Calls(t, kind, of) /\ t \in Threads /\ calling[t] = <<>>
    BY <1>1, <1>2, <1>3, <2>1 DEF Says, Item, Threads
  <2>3. calling'[t] \in {<<>>, <<Call(t, kind, of)>>} BY ONLY <1>1, <2>2, CallsInv, Inv
  <2>. QED BY <2>1, <2>3
<1>6. PICK c : c = Call(Flow, kind, of) OBVIOUS
<1>7. c.kind = kind /\ c.event = 0 /\ <<c>>[1] = c /\ (calling'[Flow] = <<>> \/ calling'[Flow] = <<c>>)
  BY <1>5, <1>6 DEF Call
<1>8. Owing' <=> Owes(Done.todo)
  <2>1. Top' = Done /\ runs' # <<>>
    <3>1. /\ runs' \in Seq(RunType) /\ Len(runs') = Len(runs) /\ runs'[Len(runs)] = Done
          /\ runs' # <<>>
      BY <1>1, <1>3, WithTopLemma DEF Inv, TypeOK
    <3>. QED BY <3>1, FrontLast DEF Top
  <2>. QED BY <2>1 DEF Owing
<1>9. TellingOK' BY <1>3, <1>4, <1>7, <1>8 DEF TellingOK
<1>10. \A id : Spoiled(id) => Spoiled(id)'
  BY <1>1 DEF Spoiled
<1>. QED BY <1>1, <1>3, <1>4, <1>2, <1>9, <1>10, UsageGoesOn

LEMMA ItemsUsage ==
  ASSUME Inv, UsageInv, Submit \/ Join
  PROVE  UsageInv'
<1>1. /\ UNCHANGED <<made, refused, left, usage, calling>> /\ Idle
      /\ Top.todo # <<>> /\ runs # <<>> /\ runs' = WithTop(Done)
      /\ Head(Top.todo).kind \notin {"answer", "record"}
  BY DEF Submit, Join, Due, Idle, Runs, stream
<1>2. /\ Done \in RunType /\ SameTally(Done, Top) /\ Shaped(Done.todo)
      /\ Owes(Done.todo) <=> Owes(Top.todo)
  BY <1>1, DoneTally
<1>. QED BY <1>1, <1>2, FlowUsage

\* A visit that tells todo, and owes nothing yet.
LEMMA VisitUsage ==
  ASSUME Inv, UsageInv, NEW body, Visit(body), Visited(body, Top.id) \in Seq(Item),
         Shaped(Visited(body, Top.id)), ~Owes(Visited(body, Top.id))
  PROVE  UsageInv'
<1>1. /\ UNCHANGED <<made, refused, left, usage, calling>> /\ Idle /\ runs # <<>>
      /\ Top.todo = <<>>
  BY DEF Visit, Between, Idle, stream
<1>2. Top \in RunType BY <1>1, UsageTypes
<1>3. PICK todo, n : todo = Visited(body, Top.id) /\ n = Top.visits + 1
  OBVIOUS
<1>4. PICK f : f = [Top EXCEPT !.visits = n, !.todo = todo] OBVIOUS
<1>5. f \in RunType /\ f.todo = todo /\ SameTally(f, Top) /\ runs' = WithTop(f)
  <2>1. todo \in Seq(Item) /\ n \in Nat
    BY <1>2, <1>3 DEF RunType
  <2>2. f \in RunType BY <1>2, <1>4, <2>1, RunEdits
  <2>3. f.todo = todo /\ SameTally(f, Top)
    BY <1>2, <1>4 DEF RunType, SameTally
  <2>4. [Top EXCEPT !.visits = @ + 1,
                    !.todo = <<Tell("start", Top.id)>> \o body \o <<Tell("end", Top.id)>>] = f
    BY <1>2, <1>3, <1>4 DEF RunType, Visited
  <2>5. runs' = WithTop(f) BY <2>4 DEF Visit
  <2>. QED BY <2>2, <2>3, <2>5
<1>6. ~Owes(Top.todo) BY <1>1, EmptySeq DEF Owes, Asking
<1>. QED BY <1>1, <1>3, <1>5, <1>6, FlowUsage

LEMMA VisitsUsage ==
  ASSUME Inv, UsageInv, VisitModel \/ VisitAgent \/ VisitTools
  PROVE  UsageInv'
<1>1. PICK id \in Nat : id = Top.id
  <2>1. runs # <<>> /\ RunsOK
    BY DEF Inv, TypeOK, VisitModel, VisitAgent, VisitTools, Visit, Between, Idle
  <2>. QED BY <2>1, TopRun, RunIdType
<1>2. CASE VisitModel BY <1>1, <1>2, BodyTodo, ModelShaped, VisitUsage DEF VisitModel
<1>3. CASE VisitAgent BY <1>1, <1>3, BodyTodo, NothingAsked, VisitUsage DEF VisitAgent
<1>4. CASE VisitTools
  <2>1. PICK n \in 1..MaxWork - started - called :
          Visit(ToolBody([k \in 1..n |-> called + k])) /\ called' = called + n
    BY <1>4 DEF VisitTools
  <2>2. called \in Nat /\ n \in Nat \ {0}
    BY EventBoundAssumption DEF Inv, TypeOK, ToolsOK, RunsOK
  <2>3. PICK body, todo :
          /\ body = ToolBody(Batch(called, n)) /\ todo = Visited(body, id)
    OBVIOUS
  <2>4. Visit(body) BY <2>1, <2>3 DEF Batch
  <2>5. PICK a \in Nat : todo \in Seq(Item) /\ ToolVisit(todo, called, a, a + n)
    <3>1. /\ Visited(ToolBody(Batch(called, n)), id) \in Seq(Item)
          /\ \E a \in Nat : ToolVisit(Visited(ToolBody(Batch(called, n)), id), called, a, a + n)
      BY ONLY <1>1, <2>2, ToolTodo
    <3>. QED BY <2>3, <3>1
  <2>6. ASSUME NEW q \in 1..Len(todo)  PROVE todo[q].kind \notin {"answer", "record"}
    <3>1. PICK b \in Nat : b = a + n BY <2>2, <2>5
    <3>2. ToolItem(todo[q], q, called, a, b) /\ q \in Nat
      BY <2>5, <3>1 DEF ToolVisit
    <3>3. CASE q <= a BY <3>2, <3>3 DEF ToolItem
    <3>4. CASE a < q /\ q <= b
      BY <3>2, <3>4 DEF ToolItem, Tell
    <3>5. CASE q = b + 1 BY <3>2, <3>5 DEF ToolItem
    <3>6. CASE q > b + 1 BY <3>2, <3>6 DEF ToolItem
    <3>. QED BY <2>5, <3>1, <3>2, <3>3, <3>4, <3>5, <3>6
  <2>. QED BY <1>1, <2>3, <2>4, <2>5, <2>6, NothingAsked, VisitUsage
<1>. QED BY <1>2, <1>3, <1>4

LEMMA ConcludeUsage ==
  ASSUME Inv, UsageInv, NEW how \in {"end", "raised"}, Conclude(how)
  PROVE  UsageInv'
<1>1. /\ UNCHANGED <<made, refused, left, usage, calling>> /\ Idle /\ runs # <<>>
      /\ Top.todo = <<>>
  BY DEF Conclude, Between, Idle, stream
<1>2. Top \in RunType BY <1>1, UsageTypes
<1>3. PICK todo : todo = <<Tell("verdict", Top.id)>> OBVIOUS
<1>4. todo \in Seq(Item) /\ Len(todo) = 1 /\ todo[1].kind = "verdict"
  BY <1>2, <1>3, OneTold, RunIdType DEF Kinds, Emitted
<1>5. PICK f : f = [Top EXCEPT !.over = TRUE, !.how = how, !.todo = todo] OBVIOUS
<1>6. f \in RunType /\ f.todo = todo /\ SameTally(f, Top) /\ runs' = WithTop(f)
  <2>1. f \in RunType BY <1>2, <1>4, <1>5, RunEdits
  <2>2. f.todo = todo /\ SameTally(f, Top)
    BY <1>2, <1>5 DEF RunType, SameTally
  <2>3. runs' = WithTop(f) BY <1>3, <1>5 DEF Conclude
  <2>. QED BY <2>1, <2>2, <2>3
<1>7. \A p \in 1..Len(todo) : todo[p].kind \notin {"answer", "record"}
  BY <1>4
<1>8. Shaped(f.todo) /\ ~Owes(f.todo)
  BY <1>6, <1>7, NothingAsked
<1>9. ~Owes(Top.todo) BY <1>1, EmptySeq DEF Owes, Asking
<1>. QED BY <1>1, <1>6, <1>8, <1>9, FlowUsage

LEMMA AbandonUsage ==
  ASSUME Inv, UsageInv, Abandon
  PROVE  UsageInv'
<1>1. /\ UNCHANGED <<made, refused, left, usage, calling>> /\ Idle /\ runs # <<>>
      /\ runs' = WithTop(Failed(Top))
      /\ Top.todo # <<>> /\ Head(Top.todo).kind \in {"join", "answer"}
  BY DEF Abandon, Due, Idle, stream
<1>2. Top \in RunType /\ ~Owes(Top.todo)
  BY <1>1, UsageTypes, DoneTally
<1>. QED BY <1>1, <1>2, BrokenTally, FlowUsage

\* The report that was owed is recorded.
LEMMA TallyRecorded ==
  ASSUME NEW f \in RunType, NEW g, SameTally(g, f), NEW u \in Usages, NEW r, NEW q,
         Tallied(f, TRUE, r, u)
  PROVE  Tallied(g, FALSE, q, Recorded(u, r))
<1>1. PICK reports, since : reports = f.reports /\ since = f.since
  OBVIOUS
<1>2. reports \in Seq(Reports) /\ since \in Usages
  BY <1>1 DEF RunType
<1>3. Len(reports) \in Nat /\ Len(reports) > 0 /\ reports[Len(reports)] = r
      /\ Counts(u, since, reports, Len(reports) - 1)
  BY <1>1, <1>2, LenProperties DEF Tallied
<1>4. PICK k \in Nat : k = Len(reports) - 1 BY <1>3
<1>5. k + 1 = Len(reports) /\ reports[k + 1] = r /\ Counts(u, since, reports, k)
  BY <1>3, <1>4
<1>6. Counts(Recorded(u, r), since, reports, k + 1)
  <2>1. Counts(Recorded(u, reports[k + 1]), since, reports, k + 1)
    BY ONLY <1>2, <1>4, <1>5, RecordedCounts
  <2>. QED BY <1>5, <2>1
<1>. QED BY <1>1, <1>5, <1>6 DEF Tallied, SameTally

LEMMA RecordUsage ==
  ASSUME Inv, UsageInv, Record
  PROVE  UsageInv'
<1>1. /\ UNCHANGED <<made, refused, left, calling>> /\ calling[Flow] = <<>> /\ runs # <<>>
      /\ runs' = WithTop(Done) /\ usage' = Recorded(usage, Top.report)
      /\ Top.todo # <<>> /\ Head(Top.todo).kind = "record"
  BY DEF Record, Due, Idle, stream
<1>2. /\ Done \in RunType /\ SameTally(Done, Top) /\ Shaped(Done.todo)
      /\ Owes(Top.todo) /\ ~Owes(Done.todo)
  BY <1>1, DoneTally
<1>3. /\ Len(runs) \in Nat /\ usage \in Usages /\ Top = runs[Len(runs)]
      /\ \A n \in 1..Len(runs) : runs[n] \in RunType
  BY <1>1, UsageTypes
<1>4. /\ runs' \in Seq(RunType) /\ Len(runs') = Len(runs) /\ runs'[Len(runs)] = Done
      /\ \A n \in 1..Len(runs) - 1 : runs'[n] = runs[n]
  BY <1>1, <1>2, WithTopLemma DEF Inv, TypeOK
<1>5. \A id : Spoiled(id) => Spoiled(id)'
  BY <1>1 DEF Spoiled
<1>6. TellingOK' BY <1>1 DEF TellingOK
<1>7. ASSUME NEW n \in 1..Len(runs)
      PROVE  \E id : /\ id = runs'[n].id
                     /\ Spoiled(id)' \/ Tallied(runs'[n], Owes(Done.todo), Done.report, usage')
  <2>1. PICK id, f, g : id = runs[n].id /\ f = runs[n] /\ g = runs'[n]
    OBVIOUS
  <2>2. SameTally(g, f) /\ f \in RunType
    BY <1>2, <1>3, <1>4, <2>1 DEF SameTally
  <2>3. Spoiled(id) \/ Tallied(f, TRUE, Top.report, usage)
    BY <1>1, <1>2, <2>1 DEF UsageInv, TallyOK, Owing, Tallied
  <2>4. Tallied(f, TRUE, Top.report, usage) => Tallied(g, FALSE, Done.report, usage')
    BY <1>1, <1>3, <2>2, TallyRecorded
  <2>5. Tallied(f, TRUE, Top.report, usage) => Tallied(g, Owes(Done.todo), Done.report, usage')
    BY <1>2, <2>4 DEF Tallied
  <2>. QED BY <1>5, <2>1, <2>2, <2>3, <2>5 DEF SameTally
<1>8. \A n \in 1..Len(runs) - 1 : runs'[n].todo = runs[n].todo
  BY <1>4
<1>. QED BY <1>1, <1>2, <1>4, <1>5, <1>6, <1>7, <1>8, UsageTop

\* The model answers: every run in progress has its report.
LEMMA AnswerReports ==
  ASSUME Inv, Answer
  PROVE  \E r \in Reports :
           \A n \in 1..Len(runs) :
             /\ runs'[n].id = runs[n].id /\ runs'[n].since = runs[n].since
             /\ runs'[n].reports = Append(runs[n].reports, r)
             /\ n = Len(runs) => runs'[n].report = r
<1>1. Idle /\ runs # <<>> /\ Top.todo # <<>> /\ RunsOK
  BY DEF Answer, Due, Idle, Inv, TypeOK
<1>2. Done \in RunType /\ Top \in RunType /\ Top = runs[Len(runs)] /\ Len(runs) \in Nat
  BY <1>1, DoneRun, TopRun
<1>3. Done.id = Top.id /\ Done.since = Top.since /\ Done.reports = Top.reports
  BY <1>2 DEF Done, RunType
<1>4. PICK base : base = WithTop(Done) OBVIOUS
<1>5. /\ \A n \in 1..Len(runs) - 1 : base[n] = runs[n]
      /\ base[Len(runs)] = Done
      /\ \A n \in 1..Len(runs) : runs[n] \in RunType
      /\ DOMAIN runs = 1..Len(runs)
  BY <1>1, <1>2, <1>4, WithTopLemma, TopRun DEF RunsOK
<1>6. PICK r \in Reported :
        runs' = [n \in DOMAIN runs |->
                   [WithTop(Done)[n] EXCEPT !.reports = Append(@, r),
                                            !.report = IF n = Len(runs) THEN r ELSE @]]
  BY ONLY Answer DEF Answer
<1>7. runs' = [n \in DOMAIN runs |->
                 [base[n] EXCEPT !.reports = Append(@, r),
                                 !.report = IF n = Len(runs) THEN r ELSE @]]
  BY ONLY <1>4, <1>6
<1>8. ASSUME NEW g \in RunType, NEW last \in BOOLEAN
      PROVE  LET h == [g EXCEPT !.reports = Append(@, r), !.report = IF last THEN r ELSE @]
             IN /\ h.id = g.id /\ h.since = g.since /\ h.reports = Append(g.reports, r)
                /\ last => h.report = r
  BY DEF RunType
<1>9. ASSUME NEW n \in 1..Len(runs)
      PROVE  /\ runs'[n].id = runs[n].id /\ runs'[n].since = runs[n].since
             /\ runs'[n].reports = Append(runs[n].reports, r)
             /\ n = Len(runs) => runs'[n].report = r
  <2>1. PICK g \in RunType :
          g = base[n] /\ g.id = runs[n].id /\ g.since = runs[n].since /\ g.reports = runs[n].reports
    BY <1>2, <1>3, <1>5
  <2>2. PICK last \in BOOLEAN : last <=> n = Len(runs)
    OBVIOUS
  <2>3. PICK h : h = [g EXCEPT !.reports = Append(@, r), !.report = IF last THEN r ELSE @]
    OBVIOUS
  <2>4. h.id = g.id /\ h.since = g.since /\ h.reports = Append(g.reports, r) /\ (last => h.report = r)
    BY <1>8, <2>3
  <2>5. runs'[n] = [base[n] EXCEPT !.reports = Append(@, r),
                                   !.report = IF n = Len(runs) THEN r ELSE @]
    BY <1>5, <1>7
  <2>6. runs'[n] = h BY <2>1, <2>2, <2>3, <2>5
  <2>. QED BY <2>1, <2>2, <2>4, <2>6
<1>10. r \in Reports BY <1>6, HostAssumption
<1>. QED BY <1>9, <1>10

LEMMA AnswerUsage ==
  ASSUME Inv, UsageInv, Answer
  PROVE  UsageInv'
<1>1. UNCHANGED <<made, refused, left, usage, calling>> /\ calling[Flow] = <<>>
  BY DEF Answer, Due, Idle, stream
<1>2. /\ runs # <<>> /\ Top.todo # <<>> /\ Head(Top.todo).kind = "answer"
      /\ runs' \in Seq(RunType) /\ Len(runs') = Len(runs)
      /\ \A n \in 1..Len(runs) :
           runs'[n].todo = IF n = Len(runs) THEN Tail(Top.todo) ELSE runs[n].todo
  BY AnswerRuns
<1>3. PICK r \in Reports :
        \A n \in 1..Len(runs) :
          /\ runs'[n].id = runs[n].id /\ runs'[n].since = runs[n].since
          /\ runs'[n].reports = Append(runs[n].reports, r)
          /\ n = Len(runs) => runs'[n].report = r
  BY AnswerReports
<1>4. Shaped(Tail(Top.todo)) /\ ~Owes(Top.todo) /\ Owes(Tail(Top.todo))
  BY <1>2, DoneTally
<1>5. /\ Len(runs) \in Nat /\ usage \in Usages /\ Len(runs) \in 1..Len(runs)
      /\ \A n \in 1..Len(runs) : /\ runs[n] \in RunType
                                 /\ runs[n].reports \in Seq(Reports)
                                 /\ runs[n].since \in Usages
  BY <1>2, UsageTypes
<1>6. PICK f : f = runs'[Len(runs)] OBVIOUS
<1>7. f.todo = Tail(Top.todo) /\ f.report = r
  BY <1>2, <1>3, <1>5, <1>6
<1>8. ASSUME NEW n \in 1..Len(runs)
      PROVE  \E id : /\ id = runs'[n].id
                     /\ Spoiled(id)' \/ Tallied(runs'[n], Owes(f.todo), f.report, usage')
  <2>1. PICK id, reports, since, more, k :
          /\ id = runs[n].id /\ reports = runs[n].reports /\ since = runs[n].since
          /\ more = Append(reports, r) /\ k = Len(reports)
    OBVIOUS
  <2>2. reports \in Seq(Reports) /\ since \in Usages /\ k \in Nat
    BY <1>5, <2>1, LenProperties
  <2>3. Spoiled(id) \/ Counts(usage, since, reports, k)
    BY <1>4, <2>1 DEF UsageInv, TallyOK, Owing, Tallied
  <2>4. Len(more) = k + 1 /\ more[k + 1] = r
    BY <2>1, <2>2, AppendProperties
  <2>5. \A field : With(more, k, field) = With(reports, k, field)
    <3>1. k <= Len(reports) BY <2>1, <2>2
    <3>2. ASSUME NEW field  PROVE With(Append(reports, r), k, field) = With(reports, k, field)
      BY <2>2, <3>1, WithLemma
    <3>. QED BY <2>1, <3>2
  <2>6. Counts(usage, since, reports, k) => Counts(usage, since, more, k)
    BY <2>5 DEF Counts
  <2>7. Len(more) > 0 /\ Len(more) - 1 = k
    BY <2>2, <2>4
  <2>8. runs'[n].reports = more /\ runs'[n].since = since /\ runs'[n].id = id
    BY <1>3, <2>1
  <2>9. Counts(usage, since, more, k) => Tallied(runs'[n], Owes(f.todo), f.report, usage')
    BY <1>1, <1>4, <1>7, <2>4, <2>7, <2>8 DEF Tallied
  <2>10. Spoiled(id) => Spoiled(id)'
    BY <1>1 DEF Spoiled
  <2>. QED BY <2>3, <2>6, <2>8, <2>9, <2>10
<1>9. \A id : Spoiled(id) => Spoiled(id)'
  BY <1>1 DEF Spoiled
<1>10. TellingOK' BY <1>1 DEF TellingOK
<1>11. \A n \in 1..Len(runs) - 1 : runs'[n].todo = runs[n].todo
  BY <1>2, <1>5
<1>. QED BY <1>1, <1>2, <1>4, <1>6, <1>7, <1>8, <1>9, <1>10, <1>11, UsageTop

-------------------------------------------------------------
(* Runs begin and end.                                                     *)

LEMMA EnterUsage ==
  ASSUME Inv, UsageInv, NEW traced \in BOOLEAN, Enter(traced)
  PROVE  UsageInv'
<1>1. PICK run, base : Entered(run, base, traced) BY EnterRuns
<1>2. UNCHANGED <<made, refused, left, usage, calling>> /\ calling[Flow] = <<>>
  BY DEF Enter, stream
<1>3. PICK m \in Nat : m = Len(runs) BY UsageTypes
<1>4. /\ run \in RunType /\ run.todo = <<>> /\ run.since = usage /\ run.reports = <<>>
      /\ Len(runs') = m + 1 /\ runs'[m + 1] = run /\ runs' \in Seq(RunType)
      /\ \A n \in 1..m : runs'[n] = base[n]
      /\ \A n \in 1..m - 1 : base[n] = runs[n]
  BY <1>1, <1>3, AppendProperties DEF Entered
<1>5. Top' = run /\ ~Owing' /\ Shaped(run.todo)
  <2>1. \A q \in 1..Len(run.todo) : FALSE
    BY <1>4, EmptySeq
  <2>2. Shaped(run.todo) /\ ~Owes(run.todo)
    BY <2>1, NothingAsked
  <2>3. runs' # <<>> BY <1>4, EmptySeq
  <2>4. Top' = run BY <1>4, <2>3, FrontLast DEF Top
  <2>. QED BY <2>2, <2>4 DEF Owing
\* The node that called it asks no model.
<1>6. ASSUME NEW n \in 1..m
      PROVE  /\ SameTally(runs'[n], runs[n]) /\ Shaped(runs'[n].todo) /\ ~Asking(runs'[n].todo)
  <2>1. CASE n = m
    BY <1>1, <1>3, <1>4, <2>1, EmptySeq, DoneTally, UsageTypes DEF Entered
  <2>2. CASE n # m BY <1>3, <1>4, <2>2 DEF UsageInv, AskingOK, SameTally
  <2>. QED BY <2>1, <2>2
<1>7. \A n \in 1..Len(runs') : n \in 1..m \/ n = m + 1
  BY <1>4
<1>8. ~Owing
  <2>. SUFFICES ASSUME runs # <<>>  PROVE ~Owes(Top.todo)
    BY DEF Owing
  <2>1. Top.todo # <<>> /\ Head(Top.todo).kind = "agent"
    BY <1>1 DEF Entered
  <2>. QED BY <2>1, DoneTally DEF Owes
<1>9. AskingOK' BY <1>4, <1>5, <1>6, <1>7 DEF AskingOK
<1>10. Counts(usage, run.since, run.reports, Len(run.reports))
  <2>1. <<>> \in Seq(Reports) /\ Len(<<>>) = 0
    BY EmptySeq
  <2>2. \A field : With(<<>>, 0, field) = 0
    BY <2>1, WithLemma
  <2>3. /\ usage.requests \in Nat /\ usage.usage_requests \in Nat /\ usage.tokens \in Nat
        /\ usage.cached_tokens \in Nat /\ usage.cached_usage_requests \in Nat
    BY UsageTypes DEF Usages
  <2>. QED BY <1>4, <2>1, <2>2, <2>3 DEF Counts
<1>11. TallyOK'
  <2>. SUFFICES ASSUME NEW n \in 1..Len(runs'), NEW id, id = runs'[n].id
                PROVE  Spoiled(id)' \/ Tallied(runs'[n], FALSE, run.report, usage')
    BY <1>5 DEF TallyOK, Spoiled, Owing
  <2>1. CASE n \in 1..m
    <3>1. id = runs[n].id /\ SameTally(runs'[n], runs[n]) /\ n \in 1..Len(runs)
      BY <1>3, <1>6, <2>1 DEF SameTally
    <3>2. Spoiled(id) \/ Tallied(runs[n], FALSE, Top.report, usage)
      BY <1>8, <3>1 DEF UsageInv, TallyOK, Tallied
    <3>. QED BY <1>2, <3>1, <3>2 DEF Spoiled, Tallied, SameTally
  <2>2. CASE n = m + 1 BY <1>2, <1>4, <1>10, <2>2 DEF Tallied
  <2>. QED BY <1>7, <2>1, <2>2
<1>12. TellingOK' /\ LeftTallied'
  BY <1>2 DEF UsageInv, TellingOK, LeftTallied, Spoiled
<1>. QED BY <1>9, <1>11, <1>12 DEF UsageInv

LEMMA LeaveUsage ==
  ASSUME Inv, UsageInv, Leave
  PROVE  UsageInv'
<1>1. PICK m \in Nat :
        /\ m = Len(runs) - 1 /\ runs' \in Seq(RunType) /\ Len(runs') = m
        /\ \A n \in 1..m - 1 : runs'[n] = runs[n]
        /\ m # 0 => runs'[m] = runs[m] \/ runs'[m] = Failed(runs[m])
  BY LeaveRuns
<1>2. /\ UNCHANGED <<made, refused, usage, calling>> /\ calling[Flow] = <<>>
      /\ runs # <<>> /\ Top.todo = <<>> /\ left' = left \cup {Outcome(Top)}
  BY DEF Leave, Idle, stream
<1>3. /\ Len(runs) \in Nat /\ Len(runs) \in 1..Len(runs) /\ usage \in Usages
      /\ Top = runs[Len(runs)] /\ Top \in RunType
      /\ \A n \in 1..Len(runs) : runs[n] \in RunType
  BY <1>2, UsageTypes
<1>4. ~Owing BY <1>2, EmptySeq, NothingAsked DEF Owing
<1>5. ASSUME NEW n \in 1..Len(runs)
      PROVE  Spoiled(runs[n].id)
             \/ Counts(usage, runs[n].since, runs[n].reports, Len(runs[n].reports))
  BY <1>4 DEF UsageInv, TallyOK, Tallied
<1>6. ASSUME NEW n \in 1..m
      PROVE  /\ n \in 1..Len(runs) /\ SameTally(runs'[n], runs[n])
             /\ Shaped(runs'[n].todo) /\ ~Asking(runs'[n].todo)
  <2>1. n \in 1..Len(runs) /\ n < Len(runs)
    BY <1>1, <1>3
  <2>2. Shaped(runs[n].todo) /\ ~Asking(runs[n].todo)
    BY <2>1 DEF UsageInv, AskingOK
  <2>3. CASE runs'[n] = runs[n] BY <2>1, <2>2, <2>3 DEF SameTally
  <2>4. CASE runs'[n] = Failed(runs[n]) BY <1>3, <2>1, <2>4, BrokenTally
  <2>5. n \in 1..m - 1 \/ (n = m /\ m # 0)
    OBVIOUS
  <2>. QED BY <1>1, <2>3, <2>4, <2>5
<1>7. ~Owing'
  <2>. SUFFICES ASSUME runs' # <<>>  PROVE ~Owes(Top'.todo)
    BY DEF Owing
  <2>1. Len(runs') \in Nat \ {0} /\ Last(runs') = runs'[Len(runs')]
    BY <1>1, FrontLast
  <2>2. Top' = runs'[m] /\ m \in 1..m
    BY <1>1, <2>1 DEF Top
  <2>. QED BY <1>6, <2>2 DEF Owes
<1>8. AskingOK' BY <1>1, <1>6 DEF AskingOK
<1>9. TallyOK'
  <2>. SUFFICES ASSUME NEW n \in 1..m, NEW id, id = runs'[n].id
                PROVE  Spoiled(id)' \/ Counts(usage', runs'[n].since, runs'[n].reports,
                                              Len(runs'[n].reports))
    BY <1>1, <1>7 DEF TallyOK, Spoiled, Tallied, Owing
  <2>1. n \in 1..Len(runs) /\ SameTally(runs'[n], runs[n])
    BY <1>6
  <2>. QED BY <1>2, <1>5, <2>1 DEF Spoiled, SameTally
<1>10. TellingOK' BY <1>2 DEF TellingOK
<1>11. LeftTallied'
  <2>1. PICK o : o = Outcome(Top) OBVIOUS
  <2>2. o.id = Top.id /\ o.usage = ToDict(Since(usage, Top.since)) /\ o.reports = Top.reports
    BY <2>1 DEF Outcome
  <2>3. Spoiled(o.id) \/ o.usage = Truth(o.reports)
    BY <1>3, <1>5, <2>2, UsageTypes, CountsTruth
  <2>. QED BY <1>2, <2>1, <2>3 DEF UsageInv, LeftTallied, Spoiled
<1>. QED BY <1>8, <1>9, <1>10, <1>11 DEF UsageInv

LEMMA ToolUsage ==
  ASSUME Inv, UsageInv, NEW w \in Workers, InTool(w)
  PROVE  UsageInv'
<1>1. UNCHANGED <<made, refused, runs, usage, left>>
  BY DEF InTool, StartTool, Progress, EndTool, Works, stream
<1>2. calling'[Flow] = calling[Flow]
  BY ThreadAssumption DEF InTool, StartTool, Progress, EndTool, Calls, Inv, TypeOK, CallsOK, Threads
<1>3. Grows /\ \A id : Spoiled(id) => Spoiled(id)'
  BY <1>1, LenProperties DEF Grows, Spoiled, Inv, TypeOK, StreamOK
<1>4. TellingOK' BY <1>1, <1>2, <1>3, TellingKept
<1>. QED BY <1>1, <1>3, <1>4, UsageStill

-------------------------------------------------------------
LEMMA UsageInit ==
  ASSUME Init
  PROVE  UsageInv
<1>1. runs = <<>> /\ calling[Flow] = <<>> /\ left = {}
  BY DEF Init, Threads
<1>2. Len(<<>>) = 0 /\ \A k \in 1..0 : FALSE
  OBVIOUS
<1>. QED BY <1>1, <1>2 DEF UsageInv, AskingOK, TallyOK, TellingOK, LeftTallied

LEMMA UsageStep ==
  ASSUME Inv, UsageInv, [Next]_vars
  PROVE  UsageInv'
<1>1. CASE \E t \in Threads : InCall(t)
  BY <1>1, InnerUsage, NumberUsage, RaiseUsage DEF InCall
<1>2. CASE InFlow
  BY <1>2, EnterUsage, VisitsUsage, ConcludeUsage, LeaveUsage, SaysUsage, AnswerUsage,
     RecordUsage, ItemsUsage, AbandonUsage DEF InFlow
<1>3. CASE \E w \in Workers : InTool(w)
  BY <1>3, ToolUsage
<1>4. CASE UNCHANGED vars
  <2>1. UNCHANGED <<made, refused, runs, usage, left, calling>> BY <1>4 DEF vars, stream
  <2>2. TellingOK' /\ \A id : Spoiled(id) => Spoiled(id)'
    BY <2>1 DEF UsageInv, TellingOK, Owing, Top, InProgress, Spoiled
  <2>. QED BY <2>1, <2>2, UsageStill
<1>. QED BY <1>1, <1>2, <1>3, <1>4 DEF Next, Stop

LEMMA AlwaysUsage == Spec => []UsageInv
<1>1. Init => UsageInv
  BY UsageInit
<1>2. Inv /\ UsageInv /\ [Next]_vars => UsageInv'
  BY UsageStep
<1>. QED BY <1>1, <1>2, AlwaysInv, PTL DEF Spec

\* Whatever way a run ended, the usage it hands back is that of its own answers
\* and of the runs inside it, and gives totals only where every answer came with
\* them, unless somebody raised on a message of it (node.py:286, 393,
\* context.py:46-91).
THEOREM UsageIsOfTheRun == Spec => []UsageOfRun
<1>1. UsageInv => UsageOfRun
  BY DEF UsageInv, LeftTallied, Spoiled, UsageOfRun
<1>. QED BY <1>1, AlwaysUsage, PTL

-------------------------------------------------------------
(* THE TRACES OF RUNS: each has the events of its run (TraceOfRun).        *)

-------------------------------------------------------------
(* What is selected of a trace.                                            *)

\* What the loop has after the first n events, those at positions in S taken.
Takes(f, s, S, N) ==
  f = [n \in 0..N |-> IF n = 0 THEN <<>>
                      ELSE IF n \in S THEN Append(f[n - 1], s[n])
                      ELSE f[n - 1]]

LEMMA TakesUnfold ==
  ASSUME NEW f, NEW s, NEW S, NEW N \in Nat
  PROVE  Takes(f, s, S, N) <=>
           /\ f = [n \in 0..N |-> f[n]]
           /\ f[0] = <<>>
           /\ \A n \in 1..N : f[n] = IF n \in S THEN Append(f[n - 1], s[n]) ELSE f[n - 1]
<1>1. ASSUME Takes(f, s, S, N)
      PROVE  /\ f = [n \in 0..N |-> f[n]]
             /\ f[0] = <<>>
             /\ \A n \in 1..N : f[n] = IF n \in S THEN Append(f[n - 1], s[n]) ELSE f[n - 1]
  <2>1. \A n \in 0..N : f[n] = IF n = 0 THEN <<>>
                               ELSE IF n \in S THEN Append(f[n - 1], s[n]) ELSE f[n - 1]
    BY <1>1 DEF Takes
  <2>2. f = [n \in 0..N |-> f[n]] BY <1>1 DEF Takes
  <2>3. 0 \in 0..N /\ \A n \in 1..N : n \in 0..N /\ n # 0
    OBVIOUS
  <2>. QED BY <2>1, <2>2, <2>3, Zenon
<1>2. ASSUME f = [n \in 0..N |-> f[n]], f[0] = <<>>,
             \A n \in 1..N : f[n] = IF n \in S THEN Append(f[n - 1], s[n]) ELSE f[n - 1]
      PROVE  Takes(f, s, S, N)
  <2>1. \A n \in 0..N : n = 0 \/ (n # 0 /\ n \in 1..N)
    OBVIOUS
  <2>2. \A n \in 0..N : f[n] = IF n = 0 THEN <<>>
                               ELSE IF n \in S THEN Append(f[n - 1], s[n]) ELSE f[n - 1]
    BY <1>2, <2>1, Zenon
  <2>. QED BY <1>2, <2>2 DEF Takes
<1>. QED BY <1>1, <1>2

LEMMA SomethingTakes ==
  ASSUME NEW s, NEW S, NEW N \in Nat
  PROVE  \E f : Takes(f, s, S, N)
<1>. DEFINE T == {n \in Nat : \E f : Takes(f, s, S, n)}
<1>1. 0 \in T
  <2>. DEFINE f == [n \in 0..0 |-> <<>>]
  <2>1. f = [n \in 0..0 |-> f[n]] /\ f[0] = <<>> /\ 1..0 = {}
    OBVIOUS
  <2>. HIDE DEF f
  <2>2. Takes(f, s, S, 0) BY <2>1, TakesUnfold
  <2>. QED BY <2>2
<1>2. ASSUME NEW n \in Nat, n \in T  PROVE n + 1 \in T
  <2>1. PICK f : Takes(f, s, S, n) BY <1>2
  <2>2. f[0] = <<>> /\ \A k \in 1..n : f[k] = IF k \in S THEN Append(f[k - 1], s[k]) ELSE f[k - 1]
    BY <2>1, TakesUnfold
  <2>. DEFINE new == IF n + 1 \in S THEN Append(f[n], s[n + 1]) ELSE f[n]
              g == [k \in 0..n + 1 |-> IF k = n + 1 THEN new ELSE f[k]]
  <2>3. g = [k \in 0..n + 1 |-> g[k]] /\ g[n + 1] = new /\ \A k \in 0..n : g[k] = f[k]
    OBVIOUS
  <2>. HIDE DEF g
  <2>4. /\ 0 \in 0..n /\ (n + 1) - 1 = n
        /\ \A k \in 1..n + 1 : k - 1 \in 0..n /\ (k = n + 1 \/ (k \in 1..n /\ k \in 0..n))
    OBVIOUS
  <2>5. \A k \in 1..n + 1 : g[k] = IF k \in S THEN Append(g[k - 1], s[k]) ELSE g[k - 1]
    <3>. SUFFICES ASSUME NEW k \in 1..n + 1
                  PROVE  g[k] = IF k \in S THEN Append(g[k - 1], s[k]) ELSE g[k - 1]
      OBVIOUS
    <3>1. CASE k = n + 1 BY <2>3, <2>4, <3>1, Zenon
    <3>2. CASE k \in 1..n /\ k \in 0..n
      BY <2>2, <2>3, <2>4, <3>2, Zenon
    <3>. QED BY <2>4, <3>1, <3>2
  <2>6. g[0] = <<>> BY <2>2, <2>3, <2>4, Zenon
  <2>7. Takes(g, s, S, n + 1)
    <3>1. n + 1 \in Nat OBVIOUS
    <3>. QED BY <2>3, <2>5, <2>6, <3>1, TakesUnfold, Zenon
  <2>. QED BY <2>7
<1>. HIDE DEF T
<1>3. N \in T BY <1>1, <1>2, SetInduction
<1>. QED BY <1>3 DEF T

\* What s has at positions up to n that are in S, each once.
Taken(r, s, S, n) ==
  /\ r \in Seq(Nat)
  /\ \A k \in 1..Len(r) : \E i \in 1..n : i \in S /\ r[k] = s[i]
  /\ \A i \in 1..n : i \in S => \E k \in 1..Len(r) : r[k] = s[i]
  /\ \A k, l \in 1..Len(r) : k # l => r[k] # r[l]

Distinct(s) == \A k, l \in 1..Len(s) : k # l => s[k] # s[l]

LEMMA DistinctAppend ==
  ASSUME NEW S, NEW s \in Seq(S), Distinct(s), NEW e \in S, \A k \in 1..Len(s) : s[k] # e
  PROVE  /\ Append(s, e) \in Seq(S) /\ Distinct(Append(s, e))
         /\ Len(Append(s, e)) = Len(s) + 1 /\ Append(s, e)[Len(s) + 1] = e
         /\ Len(s) + 1 \in 1..Len(Append(s, e))
         /\ \A k \in 1..Len(s) : k \in 1..Len(Append(s, e)) /\ Append(s, e)[k] = s[k]
         /\ \A k \in 1..Len(Append(s, e)) : k \in 1..Len(s) \/ k = Len(s) + 1
<1>1. PICK t : t = Append(s, e) OBVIOUS
<1>2. /\ t \in Seq(S) /\ Len(t) = Len(s) + 1 /\ t[Len(s) + 1] = e /\ Len(s) \in Nat
      /\ \A k \in 1..Len(s) : t[k] = s[k]
  BY <1>1, AppendProperties, LenProperties
<1>3. Len(s) + 1 \in 1..Len(t) /\ \A k \in 1..Len(s) : k \in 1..Len(t)
  BY <1>2
<1>4. \A k \in 1..Len(t) : k \in 1..Len(s) \/ k = Len(s) + 1
  BY <1>2
<1>5. ASSUME NEW k \in 1..Len(t), NEW l \in 1..Len(t), k # l  PROVE t[k] # t[l]
  BY <1>2, <1>4, <1>5 DEF Distinct
<1>6. Distinct(t) BY <1>5 DEF Distinct
<1>. QED BY <1>1, <1>2, <1>3, <1>4, <1>6

LEMMA TakenGrows ==
  ASSUME NEW r, NEW s, NEW S, NEW n \in Nat, Taken(r, s, S, n),
         s[n + 1] \in Nat, \A i \in 1..n : s[i] # s[n + 1]
  PROVE  Taken(IF n + 1 \in S THEN Append(r, s[n + 1]) ELSE r, s, S, n + 1)
<1>1. \A i \in 1..n + 1 : i \in 1..n \/ i = n + 1
  OBVIOUS
<1>2. n + 1 \in 1..n + 1 /\ \A i \in 1..n : i \in 1..n + 1
  OBVIOUS
<1>3. CASE n + 1 \notin S BY <1>1, <1>2, <1>3 DEF Taken
<1>4. CASE n + 1 \in S
  <2>1. PICK e \in Nat : e = s[n + 1] OBVIOUS
  <2>2. r \in Seq(Nat) /\ Distinct(r) /\ \A k \in 1..Len(r) : r[k] # e
    BY <2>1 DEF Taken, Distinct
  <2>3. PICK t, m : t = Append(r, e) /\ m = Len(r)
    OBVIOUS
  <2>4. /\ t \in Seq(Nat) /\ Distinct(t) /\ t[m + 1] = e /\ m + 1 \in 1..Len(t)
        /\ \A k \in 1..m : k \in 1..Len(t) /\ t[k] = r[k]
        /\ \A k \in 1..Len(t) : k \in 1..m \/ k = m + 1
    BY <2>2, <2>3, DistinctAppend
  <2>5. \A k \in 1..Len(t) : \E i \in 1..n + 1 : i \in S /\ t[k] = s[i]
    <3>. SUFFICES ASSUME NEW k \in 1..Len(t)  PROVE \E i \in 1..n + 1 : i \in S /\ t[k] = s[i]
      OBVIOUS
    <3>1. CASE k \in 1..m
      <4>1. PICK i \in 1..n : i \in S /\ r[k] = s[i]
        BY <2>3, <3>1 DEF Taken
      <4>. QED BY <1>2, <2>4, <3>1, <4>1
    <3>2. CASE k = m + 1 BY <1>2, <1>4, <2>1, <2>4, <3>2
    <3>. QED BY <2>4, <3>1, <3>2
  <2>6. \A i \in 1..n + 1 : i \in S => \E k \in 1..Len(t) : t[k] = s[i]
    <3>. SUFFICES ASSUME NEW i \in 1..n + 1, i \in S  PROVE \E k \in 1..Len(t) : t[k] = s[i]
      OBVIOUS
    <3>1. CASE i \in 1..n
      <4>1. PICK k \in 1..m : r[k] = s[i] BY <2>3, <3>1 DEF Taken
      <4>. QED BY <2>4, <4>1
    <3>2. CASE i = n + 1 BY <2>1, <2>4, <3>2
    <3>. QED BY <1>1, <3>1, <3>2
  <2>7. Taken(t, s, S, n + 1) BY <2>4, <2>5, <2>6 DEF Taken, Distinct
  <2>. QED BY <1>4, <2>1, <2>3, <2>7
<1>. QED BY <1>3, <1>4

\* The events of a trace that are included, each once.
LEMMA SelectedIs ==
  ASSUME NEW trace \in Seq(Nat), Distinct(trace)
  PROVE  /\ Selected(trace) \in Seq(Nat) /\ Distinct(Selected(trace))
         /\ \A k \in 1..Len(Selected(trace)) :
              \E i \in 1..Len(trace) : Selected(trace)[k] = trace[i]
         /\ \A i \in 1..Len(trace) : Included(made[trace[i]].kind) =>
              \E k \in 1..Len(Selected(trace)) : Selected(trace)[k] = trace[i]
<1>. DEFINE N == Len(trace)
            S == {n \in 1..N : Included(made[trace[n]].kind)}
            g == CHOOSE f : f = [n \in 0..N |-> IF n = 0 THEN <<>>
                   ELSE IF Included(made[trace[n]].kind) THEN Append(f[n - 1], trace[n])
                   ELSE f[n - 1]]
            h == CHOOSE f : Takes(f, trace, S, N)
<1>0. N \in Nat /\ \A i \in 1..N : trace[i] \in Nat
  BY LenProperties, ElementOfSeq
<1>1. Selected(trace) = g[N] BY DEF Selected
<1>2. ASSUME NEW f
      PROVE  [n \in 0..N |-> IF n = 0 THEN <<>>
                   ELSE IF Included(made[trace[n]].kind) THEN Append(f[n - 1], trace[n])
                   ELSE f[n - 1]]
             = [n \in 0..N |-> IF n = 0 THEN <<>>
                   ELSE IF n \in S THEN Append(f[n - 1], trace[n])
                   ELSE f[n - 1]]
  <2>1. \A n \in 0..N : n # 0 => (n \in S <=> Included(made[trace[n]].kind))
    BY <1>0
  <2>. HIDE DEF S
  <2>. QED BY <2>1
<1>3. g = h
  <2>. HIDE DEF S
  <2>. QED BY <1>2 DEF Takes
<1>4. Takes(h, trace, S, N)
  <2>. HIDE DEF S, N, g
  <2>. QED BY <1>0, SomethingTakes
<1>. HIDE DEF g, h
<1>5. /\ h[0] = <<>>
      /\ \A n \in 1..N : h[n] = IF n \in S THEN Append(h[n - 1], trace[n]) ELSE h[n - 1]
  <2>. HIDE DEF S, N
  <2>. QED BY <1>0, <1>4, TakesUnfold
<1>. DEFINE T == {n \in Nat : n <= N => Taken(h[n], trace, S, n)}
<1>6. 0 \in T
  <2>1. PICK r : r = <<>> /\ r \in Seq(Nat) /\ Len(r) = 0
    BY EmptySeq
  <2>2. Taken(r, trace, S, 0) BY <2>1 DEF Taken
  <2>. QED BY <1>5, <2>1, <2>2
<1>7. ASSUME NEW n \in Nat, n \in T  PROVE n + 1 \in T
  <2>. SUFFICES ASSUME n + 1 <= N  PROVE Taken(h[n + 1], trace, S, n + 1)
    OBVIOUS
  <2>1. Taken(h[n], trace, S, n) /\ n + 1 \in 1..N /\ (n + 1) - 1 = n
    BY <1>0, <1>7
  <2>2. h[n + 1] = IF n + 1 \in S THEN Append(h[n], trace[n + 1]) ELSE h[n]
    BY <1>5, <2>1
  <2>3. trace[n + 1] \in Nat /\ \A i \in 1..n : trace[i] # trace[n + 1]
    BY <1>0, <2>1 DEF Distinct
  <2>. HIDE DEF S
  <2>. QED BY <2>1, <2>2, <2>3, TakenGrows
<1>. HIDE DEF T
<1>8. N \in T BY <1>0, <1>6, <1>7, SetInduction
<1>9. Taken(h[N], trace, S, N) BY <1>0, <1>8 DEF T
<1>10. PICK r : r = Selected(trace) /\ r = h[N]
  BY <1>1, <1>3
<1>11. /\ r \in Seq(Nat) /\ Distinct(r)
       /\ \A k \in 1..Len(r) : \E i \in 1..N : r[k] = trace[i]
       /\ \A i \in 1..N : i \in S => \E k \in 1..Len(r) : r[k] = trace[i]
  <2>. HIDE DEF S, N
  <2>. QED BY <1>9, <1>10 DEF Taken, Distinct
<1>. QED BY <1>10, <1>11

-------------------------------------------------------------
(* The invariant of a batch: whose work a tool in a thread does.           *)

\* The calls of a batch are handed over, and joined before anything else.
Joining(todo) ==
  \E p \in 1..Len(todo) :
    todo[p].kind = "join" /\ \A r \in 1..p - 1 : todo[r].kind = "submit"

Batches(todo) ==
  \A q \in 1..Len(todo) : todo[q].kind = "submit" =>
    \E p \in q + 1..Len(todo) :
      todo[p].kind = "join" /\ \A r \in q..p - 1 : todo[r].kind = "submit"

\* An exception is on its way through the runs in progress.
Failing == runs # <<>> /\ Top.over /\ Top.how = "raised"

\* A tool is of the batch in progress, or it was left behind by runs that are
\* about to fail, or have.
WorkerOK(w) ==
  /\ \A id \in working[w].for : id <= started
  /\ (\E id \in working[w].for : id \in InProgress) =>
       Failing \/ (working[w].call \in open /\ working[w].for = InProgress)

BatchInv ==
  /\ Batches(TopTodo)
  /\ open # {} => calling[Flow] = <<>> /\ Joining(TopTodo)
  /\ \A k \in 1..Len(queue) : queue[k] \in open
  /\ \A w \in Workers : WorkerOK(w)

-------------------------------------------------------------
(* What is left to tell of a batch.                                        *)

LEMMA NoBatch ==
  ASSUME NEW todo, \A q \in 1..Len(todo) : todo[q].kind # "submit"
  PROVE  Batches(todo)
BY DEF Batches

LEMMA JoiningHead ==
  ASSUME NEW todo \in Seq(Item), Joining(todo)
  PROVE  todo # <<>> /\ Head(todo).kind \in {"submit", "join"}
<1>1. PICK p \in 1..Len(todo) :
        todo[p].kind = "join" /\ \A r \in 1..p - 1 : todo[r].kind = "submit"
  BY DEF Joining
<1>2. Len(todo) \in Nat /\ todo # <<>>
  BY <1>1, EmptySeq, LenProperties
<1>3. Head(todo) = todo[1] BY <1>2
<1>4. p = 1 \/ 1 \in 1..p - 1
  BY <1>1, <1>2
<1>. QED BY <1>1, <1>2, <1>3, <1>4

LEMMA BatchesTail ==
  ASSUME NEW todo \in Seq(Item), todo # <<>>, Batches(todo)
  PROVE  /\ Batches(Tail(todo))
         /\ Head(todo).kind = "submit" => Joining(Tail(todo))
<1>1. PICK rest, m : rest = Tail(todo) /\ m \in Nat /\ Len(todo) = m + 1
  <2>1. Len(todo) \in Nat \ {0} BY EmptySeq
  <2>2. Len(todo) - 1 \in Nat /\ Len(todo) = (Len(todo) - 1) + 1
    BY <2>1
  <2>. QED BY <2>2
<1>2. Len(rest) = m /\ Head(todo) = todo[1] /\ \A q \in 1..m : rest[q] = todo[q + 1]
  BY <1>1, HeadTailProperties
<1>3. Batches(rest)
  <2>. SUFFICES ASSUME NEW q \in 1..m, rest[q].kind = "submit"
                PROVE  \E p \in q + 1..m :
                         rest[p].kind = "join" /\ \A r \in q..p - 1 : rest[r].kind = "submit"
    BY <1>2 DEF Batches
  <2>1. q + 1 \in 1..m + 1 /\ todo[q + 1].kind = "submit"
    BY <1>1, <1>2
  <2>2. PICK p \in (q + 1) + 1..m + 1 :
          todo[p].kind = "join" /\ \A r \in q + 1..p - 1 : todo[r].kind = "submit"
    BY <1>1, <2>1 DEF Batches
  <2>3. PICK l \in Nat : l + 1 = p BY <1>1, <2>2
  <2>4. l \in q + 1..m /\ l \in 1..m
    BY <1>1, <2>2, <2>3
  <2>5. \A r \in q..l - 1 : r \in 1..m /\ r + 1 \in q + 1..p - 1
    BY <1>1, <2>3, <2>4
  <2>6. rest[l].kind = "join" /\ \A r \in q..l - 1 : rest[r].kind = "submit"
    BY <1>2, <2>2, <2>3, <2>4, <2>5
  <2>. QED BY <2>4, <2>6
<1>4. ASSUME Head(todo).kind = "submit"  PROVE Joining(rest)
  <2>1. 1 \in 1..m + 1 BY <1>1
  <2>2. PICK p \in 2..m + 1 : todo[p].kind = "join" /\ \A r \in 1..p - 1 : todo[r].kind = "submit"
    BY <1>1, <1>2, <1>4, <2>1 DEF Batches
  <2>3. PICK l \in Nat : l + 1 = p BY <1>1, <2>2
  <2>4. l \in 1..m /\ \A r \in 1..l - 1 : r \in 1..m /\ r + 1 \in 1..p - 1
    BY <1>1, <2>2, <2>3
  <2>. QED BY <1>2, <2>2, <2>3, <2>4 DEF Joining
<1>. QED BY <1>1, <1>3, <1>4

LEMMA ToolBatches ==
  ASSUME NEW first \in Nat, NEW a \in Nat, NEW b \in Nat, a <= b,
         NEW todo \in Seq(Item), ToolVisit(todo, first, a, b),
         Ended(todo)
  PROVE  Batches(todo)
<1>1. PICK m \in Nat : m = Len(todo) /\ m \in 1..m /\ todo[m].kind = "end"
  BY LenProperties DEF Ended
<1>2. ASSUME NEW q \in 1..m
      PROVE  /\ todo[q].kind = "submit" => a < q /\ q <= b
             /\ a < q /\ q <= b => todo[q].kind = "submit"
             /\ q = b + 1 => todo[q].kind = "join"
             /\ todo[q].kind = "end" => q > b + 1
  <2>1. ToolItem(todo[q], q, first, a, b) BY <1>1 DEF ToolVisit
  <2>2. CASE q <= a BY <2>1, <2>2 DEF ToolItem
  <2>3. CASE a < q /\ q <= b
    BY <2>1, <2>3 DEF ToolItem, Tell
  <2>4. CASE q = b + 1 BY <2>1, <2>4 DEF ToolItem
  <2>5. CASE q > b + 1 BY <2>1, <2>5 DEF ToolItem
  <2>6. q <= a \/ (a < q /\ q <= b) \/ q = b + 1 \/ q > b + 1
    OBVIOUS
  <2>. QED BY <2>2, <2>3, <2>4, <2>5, <2>6
<1>3. m > b + 1 BY <1>1, <1>2
<1>4. ASSUME NEW q \in 1..m, todo[q].kind = "submit"
      PROVE  \E p \in q + 1..m : todo[p].kind = "join" /\ \A r \in q..p - 1 : todo[r].kind = "submit"
  <2>1. a < q /\ q <= b
    BY <1>2, <1>4
  <2>2. b + 1 \in q + 1..m /\ b + 1 \in 1..m
    BY <1>3, <2>1
  <2>3. \A r \in q..(b + 1) - 1 : r \in 1..m /\ a < r /\ r <= b
    BY <1>3, <2>1
  <2>4. todo[b + 1].kind = "join" /\ \A r \in q..(b + 1) - 1 : todo[r].kind = "submit"
    BY <1>2, <2>2, <2>3
  <2>. QED BY <2>2, <2>4
<1>. QED BY <1>1, <1>4 DEF Batches

-------------------------------------------------------------
(* Steps that leave the runs in progress where they are.                   *)

\* The innermost run goes on as f.
LEMMA TopEdited ==
  ASSUME RunsOK, runs # <<>>, NEW f \in RunType, SameTraced(f, Top), runs' = WithTop(f)
  PROVE  /\ runs' \in Seq(RunType) /\ Len(runs') = Len(runs) /\ runs' # <<>>
         /\ \A n \in 1..Len(runs) : SameTraced(runs'[n], runs[n])
         /\ Top' = f /\ TopTodo' = f.todo
<1>1. /\ runs' \in Seq(RunType) /\ Len(runs') = Len(runs) /\ runs' # <<>>
      /\ \A n \in 1..Len(runs) - 1 : runs'[n] = runs[n]
      /\ runs'[Len(runs)] = f
  BY WithTopLemma
<1>2. Len(runs) \in Nat \ {0} /\ Top = runs[Len(runs)]
  BY TopRun
<1>3. ASSUME NEW n \in 1..Len(runs)  PROVE SameTraced(runs'[n], runs[n])
  <2>1. CASE n = Len(runs) BY <1>1, <1>2, <2>1
  <2>2. CASE n # Len(runs) BY <1>1, <1>2, <2>2 DEF SameTraced
  <2>. QED BY <2>1, <2>2
<1>4. Top' = f /\ TopTodo' = f.todo
  BY <1>1, FrontLast DEF Top, TopTodo
<1>. QED BY <1>1, <1>3, <1>4

LEMMA SameProgress ==
  ASSUME RunsOK, runs' \in Seq(RunType), Len(runs') = Len(runs),
         \A n \in 1..Len(runs) : SameTraced(runs'[n], runs[n])
  PROVE  InProgress' = InProgress
<1>1. DOMAIN runs = 1..Len(runs) /\ DOMAIN runs' = 1..Len(runs)
  BY LenProperties DEF RunsOK
<1>2. \A n \in 1..Len(runs) : runs'[n].id = runs[n].id
  BY DEF SameTraced
<1>. QED BY <1>1, <1>2, Zenon DEF InProgress

\* Nothing of runs and tools changes.
LEMMA BatchStill ==
  ASSUME BatchInv, UNCHANGED <<runs, started, tools>>,
         calling[Flow] = <<>> => calling'[Flow] = <<>>
  PROVE  BatchInv'
<1>1. UNCHANGED <<queue, open, working, TopTodo, InProgress, Failing>>
  BY DEF tools, TopTodo, InProgress, Failing, Top
<1>2. \A w \in Workers : WorkerOK(w)'
  BY <1>1 DEF BatchInv, WorkerOK
<1>. QED BY <1>1, <1>2 DEF BatchInv

\* The runs in progress go on, and no tool but one left behind loses its batch.
LEMMA BatchGoesOn ==
  ASSUME Inv, BatchInv, runs' \in Seq(RunType), Len(runs') = Len(runs),
         \A n \in 1..Len(runs) : SameTraced(runs'[n], runs[n]),
         UNCHANGED <<started, working>>,
         NEW todo, TopTodo' = todo, Batches(todo),
         open' # {} => calling'[Flow] = <<>> /\ Joining(todo),
         \A k \in 1..Len(queue') : queue'[k] \in open',
         open \subseteq open' \/ Failing', Failing => Failing'
  PROVE  BatchInv'
<1>1. InProgress' = InProgress BY SameProgress DEF Inv, TypeOK
<1>2. ASSUME NEW w \in Workers  PROVE WorkerOK(w)'
  <2>1. WorkerOK(w) BY DEF BatchInv
  <2>. QED BY <1>1, <2>1 DEF WorkerOK
<1>. QED BY <1>2 DEF BatchInv

\* A run that goes on with its node is not failing, and has no batch but when
\* it hands calls over or joins them.
LEMMA BatchDue ==
  ASSUME Inv, JudgeInv, BatchInv, runs # <<>>, Top.todo # <<>>
  PROVE  /\ TopTodo = Top.todo /\ Top.todo \in Seq(Item) /\ Top \in RunType
         /\ ~OfInterpreter(Head(Top.todo).kind) => ~Top.over /\ ~Failing
         /\ Head(Top.todo).kind \notin {"submit", "join"} => open = {}
<1>1. /\ TopTodo = Top.todo /\ Top \in RunType
      /\ Course(Top, Judged(Top.id), Saying("verdict", Top.id))
  BY JudgeTypes DEF TopTodo
<1>2. Top.todo \in Seq(Item) BY <1>1 DEF RunType
<1>3. Head(Top.todo) = Top.todo[1] /\ 1 \in 1..Len(Top.todo)
  BY <1>2, EmptySeq
<1>4. ~OfInterpreter(Head(Top.todo).kind) => ~Top.over
  BY <1>1, <1>3 DEF Course
<1>5. Head(Top.todo).kind \notin {"submit", "join"} => open = {}
  BY <1>1, <1>2, JoiningHead DEF BatchInv
<1>. QED BY <1>1, <1>2, <1>4, <1>5 DEF Failing

\* Between nodes, or when it has ended, a run has no batch.
LEMMA BatchIdle ==
  ASSUME BatchInv, TopTodo = <<>>
  PROVE  open = {}
<1>1. TopTodo \in Seq(Item) BY EmptySeq
<1>. QED BY <1>1, JoiningHead DEF BatchInv

-------------------------------------------------------------
(* The steps of a call.                                                    *)

LEMMA InnerBatch ==
  ASSUME Inv, BatchInv, NEW t \in Threads,
         Acquire(t) \/ Number(t) \/ Observe(t) \/ Read(t) \/ Deliver(t) \/ Return(t)
  PROVE  BatchInv'
<1>1. UNCHANGED <<runs, started, tools>> /\ calling[t] # <<>> /\ CallsOK
  BY DEF Acquire, Number, Observe, Read, Deliver, Return, Step, Collect, Inv, TypeOK
<1>2. calling[Flow] = <<>> => calling'[Flow] = calling[Flow]
  <2>. SUFFICES ASSUME calling[Flow] = <<>>  PROVE calling'[Flow] = calling[Flow]
    OBVIOUS
  <2>1. Flow \in Threads \ {t} BY <1>1 DEF Threads
  <2>2. CASE Number(t) BY <1>1, <2>1, <2>2 DEF Number, Becomes, CallsOK
  <2>3. CASE ~Number(t)
    <3>1. PICK c : GoesOn(t, c)
      BY <2>3, AcquireGoes, ObserveGoes, ReadGoes, DeliverGoes, ReturnGoes
    <3>. QED BY <2>1, <3>1 DEF GoesOn, Goes
  <2>. QED BY <2>2, <2>3
<1>. QED BY <1>1, <1>2, BatchStill

\* What is left to tell of a run that fails or is cut off.
LEMMA BrokenBatch ==
  ASSUME NEW f \in RunType
  PROVE  /\ Batches(Failed(f).todo) /\ Failed(f).over /\ Failed(f).how = "raised"
         /\ Batches(Cut(f).todo) /\ Cut(f).over /\ Cut(f).how = "raised"
<1>1. /\ Failed(f).over /\ Failed(f).how = "raised"
      /\ Cut(f).over /\ Cut(f).how = "raised" /\ Cut(f).todo = <<>>
  BY DEF Failed, Cut, RunType
<1>2. \A q \in 1..Len(Failed(f).todo) : Failed(f).todo[q].kind # "submit"
  BY FailedRun
<1>3. \A q \in 1..Len(Cut(f).todo) : FALSE
  BY <1>1, EmptySeq
<1>. QED BY <1>1, <1>2, <1>3, NoBatch

\* The innermost run goes on as f, which fails.
LEMMA BatchFails ==
  ASSUME Inv, BatchInv, runs # <<>>, NEW f \in RunType, SameTraced(f, Top), runs' = WithTop(f),
         UNCHANGED <<started, working>>, Batches(f.todo), f.over, f.how = "raised",
         open' = {}, queue' = <<>> \/ (queue' = queue /\ open = {})
  PROVE  BatchInv'
<1>1. RunsOK BY DEF Inv, TypeOK
<1>2. /\ runs' \in Seq(RunType) /\ Len(runs') = Len(runs) /\ runs' # <<>>
      /\ \A n \in 1..Len(runs) : SameTraced(runs'[n], runs[n])
      /\ Top' = f /\ TopTodo' = f.todo
  BY <1>1, TopEdited
<1>3. Failing' BY <1>2 DEF Failing
<1>4. \A k \in 1..Len(queue') : queue'[k] \in open'
  BY EmptySeq DEF BatchInv
<1>. QED BY <1>2, <1>3, <1>4, BatchGoesOn

LEMMA RaiseBatch ==
  ASSUME Inv, BatchInv, NEW t \in Threads, Raise(t)
  PROVE  BatchInv'
<1>1. /\ UNCHANGED <<started, tools>> /\ CallsOK /\ calling[t] # <<>>
      /\ calling' = [calling EXCEPT ![t] = <<>>]
  BY DEF Raise, Heard, Step, Inv, TypeOK
<1>2. CASE t # Flow BY <1>1, <1>2, BatchStill DEF Raise, CallsOK, Threads
<1>3. CASE t = Flow
  <2>1. runs # <<>> /\ Top \in RunType /\ open = {}
    BY <1>1, <1>3, TopRun DEF Inv, TypeOK, CallInv, BatchInv
  <2>2. PICK f \in RunType : /\ runs' = WithTop(f) /\ SameTraced(f, Top)
                             /\ Batches(f.todo) /\ f.over /\ f.how = "raised"
    BY <1>3, <2>1, FailedRun, BrokenBatch DEF Raise
  <2>. QED BY <1>1, <2>1, <2>2, BatchFails DEF tools
<1>. QED BY <1>2, <1>3

-------------------------------------------------------------
(* The steps of a flow.                                                    *)

\* The innermost run goes on as f, and there is no batch, before and after.
LEMMA FlowBatch ==
  ASSUME Inv, BatchInv, runs # <<>>, NEW f \in RunType, SameTraced(f, Top), runs' = WithTop(f),
         UNCHANGED <<started, queue, open, working>>, open = {}, Batches(f.todo),
         Failing => f.over /\ f.how = "raised"
  PROVE  BatchInv'
<1>1. RunsOK BY DEF Inv, TypeOK
<1>2. /\ runs' \in Seq(RunType) /\ Len(runs') = Len(runs) /\ runs' # <<>>
      /\ \A n \in 1..Len(runs) : SameTraced(runs'[n], runs[n])
      /\ Top' = f /\ TopTodo' = f.todo
  BY <1>1, TopEdited
<1>3. Failing => Failing'
  BY <1>2 DEF Failing
<1>4. \A k \in 1..Len(queue') : queue'[k] \in open'
  BY DEF BatchInv
<1>. QED BY <1>2, <1>3, <1>4, BatchGoesOn

LEMMA DoneBatch ==
  ASSUME Inv, JudgeInv, BatchInv, Says \/ Record \/ Join
  PROVE  BatchInv'
<1>1. /\ runs # <<>> /\ Top.todo # <<>> /\ runs' = WithTop(Done) /\ RunsOK
      /\ UNCHANGED <<started, queue, open, working>>
      /\ Head(Top.todo).kind \in {"submit", "join"} => open = {}
  BY DEF Says, Record, Join, Runs, Due, Idle, tools, Kinds, Emitted, Notified, Inv, TypeOK
<1>2. Done \in RunType /\ SameTraced(Done, Top) /\ Done.todo = Tail(Top.todo)
  BY <1>1, DoneRun
<1>3. Top \in RunType /\ TopTodo = Top.todo /\ Top.todo \in Seq(Item) /\ open = {}
  BY <1>1, BatchDue
<1>4. Batches(Done.todo) BY <1>1, <1>2, <1>3, BatchesTail DEF BatchInv
<1>5. Done.over = Top.over /\ Done.how = Top.how
  BY <1>3 DEF Done, RunType
<1>. QED BY <1>1, <1>2, <1>3, <1>4, <1>5, FlowBatch DEF Failing

LEMMA AnswerBatch ==
  ASSUME Inv, JudgeInv, BatchInv, Answer
  PROVE  BatchInv'
<1>1. /\ UNCHANGED <<started, queue, open, working>> /\ runs # <<>> /\ Top.todo # <<>>
      /\ Head(Top.todo).kind = "answer"
      /\ runs' \in Seq(RunType) /\ Len(runs') = Len(runs)
      /\ \A n \in 1..Len(runs) :
           /\ SameTraced(runs'[n], runs[n])
           /\ runs'[n].todo = IF n = Len(runs) THEN Tail(Top.todo) ELSE runs[n].todo
  BY AnswerRuns DEF Answer, tools
<1>2. /\ TopTodo = Top.todo /\ Top.todo \in Seq(Item) /\ ~Failing /\ open = {}
  BY <1>1, BatchDue DEF OfInterpreter
<1>3. TopTodo' = Tail(Top.todo)
  <2>1. Len(runs) \in Nat \ {0} /\ runs' # <<>>
    BY <1>1, TopRun, EmptySeq DEF Inv, TypeOK
  <2>2. Top' = runs'[Len(runs)] BY <1>1, <2>1, FrontLast DEF Top
  <2>. QED BY <1>1, <2>1, <2>2 DEF TopTodo
<1>4. Batches(Tail(Top.todo)) BY <1>1, <1>2, BatchesTail DEF BatchInv
<1>5. \A k \in 1..Len(queue') : queue'[k] \in open'
  BY <1>1 DEF BatchInv
<1>. QED BY <1>1, <1>2, <1>3, <1>4, <1>5, BatchGoesOn

LEMMA SubmitBatch ==
  ASSUME Inv, JudgeInv, BatchInv, Submit
  PROVE  BatchInv'
<1>1. /\ runs # <<>> /\ Top.todo # <<>> /\ runs' = WithTop(Done) /\ RunsOK
      /\ UNCHANGED <<started, working, calling>> /\ calling[Flow] = <<>>
      /\ Head(Top.todo).kind = "submit"
      /\ queue' = Append(queue, Head(Top.todo).of) /\ open' = open \cup {Head(Top.todo).of}
      /\ queue \in Seq(1..called)
  BY DEF Submit, Runs, Due, Idle, tools, Inv, TypeOK, ToolsOK
<1>2. Done \in RunType /\ SameTraced(Done, Top) /\ Done.todo = Tail(Top.todo)
  BY <1>1, DoneRun
<1>3. /\ TopTodo = Top.todo /\ Top.todo \in Seq(Item) /\ ~Failing
  BY <1>1, BatchDue DEF OfInterpreter
<1>4. Batches(Done.todo) /\ Joining(Done.todo)
  BY <1>1, <1>2, <1>3, BatchesTail DEF BatchInv
<1>5. /\ runs' \in Seq(RunType) /\ Len(runs') = Len(runs)
      /\ \A n \in 1..Len(runs) : SameTraced(runs'[n], runs[n])
      /\ TopTodo' = Done.todo
  BY <1>1, <1>2, TopEdited
<1>6. \A k \in 1..Len(queue') : queue'[k] \in open'
  <2>. SUFFICES ASSUME NEW k \in 1..Len(queue')  PROVE queue'[k] \in open'
    OBVIOUS
  <2>1. PICK c : c = Head(Top.todo).of OBVIOUS
  <2>2. /\ Len(queue') = Len(queue) + 1 /\ queue'[Len(queue) + 1] = c /\ Len(queue) \in Nat
        /\ \A l \in 1..Len(queue) : queue'[l] = queue[l]
    BY <1>1, <2>1, AppendProperties, LenProperties
  <2>3. k \in 1..Len(queue) \/ k = Len(queue) + 1
    BY <2>2
  <2>. QED BY <1>1, <2>1, <2>2, <2>3 DEF BatchInv
<1>. QED BY <1>1, <1>3, <1>4, <1>5, <1>6, BatchGoesOn

LEMMA AbandonBatch ==
  ASSUME Inv, BatchInv, Abandon
  PROVE  BatchInv'
<1>1. /\ runs # <<>> /\ runs' = WithTop(Failed(Top)) /\ UNCHANGED <<started, working>>
      /\ queue' = <<>> /\ open' = {}
  BY DEF Abandon, Due, Idle
<1>2. Top \in RunType BY <1>1, TopRun DEF Inv, TypeOK
<1>. QED BY <1>1, <1>2, FailedRun, BrokenBatch, BatchFails

LEMMA VisitBatch ==
  ASSUME Inv, LifeInv, BatchInv, NEW body, Visit(body), Visited(body, Top.id) \in Seq(Item),
         Batches(Visited(body, Top.id))
  PROVE  BatchInv'
<1>1. /\ UNCHANGED <<started, queue, open, working>> /\ runs # <<>> /\ ~Failing
      /\ TopTodo = <<>>
  BY DEF Visit, Between, Idle, Failing, TopTodo
<1>2. PICK f \in RunType : /\ f.todo = Visited(body, Top.id) /\ runs' = WithTop(f)
                           /\ SameTraced(f, Top)
  BY VisitTodo
<1>3. open = {} /\ Batches(f.todo)
  BY <1>1, <1>2, BatchIdle
<1>. QED BY <1>1, <1>2, <1>3, FlowBatch

LEMMA VisitsBatch ==
  ASSUME Inv, LifeInv, BatchInv, VisitModel \/ VisitAgent \/ VisitTools
  PROVE  BatchInv'
<1>1. PICK id \in Nat : id = Top.id
  <2>1. runs # <<>> /\ RunsOK
    BY DEF Inv, TypeOK, VisitModel, VisitAgent, VisitTools, Visit, Between, Idle
  <2>. QED BY <2>1, TopRun, RunIdType
<1>2. CASE VisitModel
  BY <1>1, <1>2, BodyTodo, NoBatch, VisitBatch DEF ModelKinds, VisitModel
<1>3. CASE VisitAgent BY <1>1, <1>3, BodyTodo, NoBatch, VisitBatch DEF VisitAgent
<1>4. CASE VisitTools
  <2>1. PICK n \in 1..MaxWork - started - called :
          Visit(ToolBody([k \in 1..n |-> called + k])) /\ called' = called + n
    BY <1>4 DEF VisitTools
  <2>2. called \in Nat /\ n \in Nat \ {0}
    BY EventBoundAssumption DEF Inv, TypeOK, ToolsOK, RunsOK
  <2>3. PICK body, todo :
          /\ body = ToolBody(Batch(called, n)) /\ todo = Visited(body, id)
    OBVIOUS
  <2>4. Visit(body) BY <2>1, <2>3 DEF Batch
  <2>5. PICK a \in Nat : todo \in Seq(Item) /\ Ended(todo) /\ ToolVisit(todo, called, a, a + n)
    <3>1. /\ Visited(ToolBody(Batch(called, n)), id) \in Seq(Item)
          /\ Ended(Visited(ToolBody(Batch(called, n)), id))
          /\ \E a \in Nat : ToolVisit(Visited(ToolBody(Batch(called, n)), id), called, a, a + n)
      BY ONLY <1>1, <2>2, ToolTodo
    <3>. QED BY <2>3, <3>1
  <2>7. Batches(todo)
    <3>1. PICK b \in Nat : b = a + n /\ a <= b
      BY <2>2, <2>5
    <3>. QED BY <2>2, <2>5, <3>1, ToolBatches
  <2>. QED BY <1>1, <2>3, <2>4, <2>5, <2>7, VisitBatch
<1>. QED BY <1>2, <1>3, <1>4

LEMMA ConcludeBatch ==
  ASSUME Inv, BatchInv, NEW how \in {"end", "raised"}, Conclude(how)
  PROVE  BatchInv'
<1>1. /\ UNCHANGED <<started, queue, open, working>> /\ runs # <<>> /\ ~Failing
      /\ TopTodo = <<>>
  BY DEF Conclude, Between, Idle, Failing, TopTodo, tools
<1>2. Top \in RunType BY <1>1, TopRun DEF Inv, TypeOK
<1>3. PICK todo : todo = <<Tell("verdict", Top.id)>> OBVIOUS
<1>4. todo \in Seq(Item) /\ Len(todo) = 1 /\ todo[1].kind = "verdict"
  BY <1>2, <1>3, OneTold, RunIdType DEF Kinds, Emitted
<1>5. PICK f : f = [Top EXCEPT !.over = TRUE, !.how = how, !.todo = todo] OBVIOUS
<1>6. f \in RunType /\ f.todo = todo /\ SameTraced(f, Top) /\ runs' = WithTop(f)
  <2>1. f \in RunType /\ SameTraced(f, Top)
    BY <1>2, <1>4, <1>5, RunEdits
  <2>2. f.todo = todo BY <1>2, <1>5 DEF RunType
  <2>3. runs' = WithTop(f) BY <1>3, <1>5 DEF Conclude
  <2>. QED BY <2>1, <2>2, <2>3
<1>7. Batches(f.todo)
  <2>1. \A q \in 1..Len(todo) : todo[q].kind # "submit"
    BY <1>4
  <2>. QED BY <1>6, <2>1, NoBatch
<1>. QED BY <1>1, <1>6, <1>7, BatchIdle, FlowBatch

-------------------------------------------------------------
(* Runs begin and end.                                                     *)

LEMMA EnterBatch ==
  ASSUME Inv, JudgeInv, BatchInv, NEW traced \in BOOLEAN, Enter(traced)
  PROVE  BatchInv'
<1>1. /\ RunsOK /\ UNCHANGED <<queue, open, working>> /\ started' = started + 1
      /\ started \in Nat
  BY EventBoundAssumption DEF Inv, TypeOK, RunsOK, Enter, tools
<1>2. open = {} /\ ~Failing
  <2>1. CASE runs = <<>> BY <2>1, BatchIdle DEF TopTodo, Failing
  <2>2. CASE runs # <<>> BY <2>2, BatchDue DEF Enter, Due, Idle, OfInterpreter
  <2>. QED BY <2>1, <2>2
<1>3. PICK run, base : Entered(run, base, traced) BY EnterRuns
<1>4. PICK m \in Nat : m = Len(runs) BY <1>1, LenProperties DEF RunsOK
<1>5. /\ runs' \in Seq(RunType) /\ Len(runs') = m + 1 /\ runs'[m + 1] = run
      /\ \A n \in 1..m : runs'[n] = base[n]
  BY <1>3, <1>4, AppendProperties DEF Entered
<1>6. TopTodo' = <<>>
  <2>1. runs' # <<>> BY <1>4, <1>5, EmptySeq
  <2>2. Last(runs') = runs'[m + 1] BY <1>5, <2>1, FrontLast
  <2>. QED BY <1>3, <1>5, <2>1, <2>2 DEF TopTodo, Top, Entered
<1>7. \A id \in InProgress' : id \in InProgress \/ id = started + 1
  <2>. SUFFICES ASSUME NEW n \in 1..m + 1  PROVE runs'[n].id \in InProgress \/ runs'[n].id = started + 1
    BY <1>5, LenProperties DEF InProgress
  <2>1. CASE n = m + 1 BY <1>3, <1>5, <2>1 DEF Entered
  <2>2. CASE n # m + 1
    <3>1. n \in 1..m BY <1>4, <2>2
    <3>2. runs'[n].id = runs[n].id BY <1>3, <1>4, <1>5, <3>1 DEF Entered, SameTraced
    <3>3. n \in DOMAIN runs BY <1>1, <1>4, <3>1, LenProperties DEF RunsOK
    <3>. QED BY <3>2, <3>3 DEF InProgress
  <2>. QED BY <2>1, <2>2
<1>8. ASSUME NEW w \in Workers  PROVE WorkerOK(w)'
  BY <1>1, <1>2, <1>7 DEF BatchInv, Inv, TypeOK, ToolsOK, RunIds, WorkerOK
<1>9. Batches(TopTodo') /\ \A k \in 1..Len(queue') : queue'[k] \in open'
  BY <1>1, <1>6, EmptySeq DEF Batches, BatchInv
<1>. QED BY <1>1, <1>2, <1>8, <1>9 DEF BatchInv

\* A run that fails takes the one around it with it.
LEMMA LeaveFails ==
  ASSUME Inv, Leave, Top.how = "raised"
  PROVE  runs' = <<>> \/ Failing'
<1>1. RunsOK /\ runs # <<>> /\ runs \in Seq(RunType)
  BY DEF Inv, TypeOK, RunsOK, Leave, Idle
<1>2. PICK base : base = Front(runs) OBVIOUS
<1>3. base \in Seq(RunType) /\ Len(base) = Len(runs) - 1 /\ Len(runs) \in Nat \ {0}
  BY <1>1, <1>2, FrontLast
<1>4. CASE Len(runs) = 1 BY <1>2, <1>3, <1>4, EmptySeq DEF Leave
<1>5. CASE Len(runs) # 1
  <2>1. base # <<>> BY <1>3, <1>5, EmptySeq
  <2>2. Last(base) \in RunType BY <1>3, <2>1, FrontLast
  <2>3. PICK f : f = Failed(Last(base)) OBVIOUS
  <2>4. f \in RunType /\ f.over /\ f.how = "raised"
    BY <2>2, <2>3, FailedRun, BrokenBatch
  <2>5. runs' = Append(Front(base), f) BY <1>2, <1>5, <2>3 DEF Leave
  <2>6. runs' \in Seq(RunType) /\ Len(runs') = Len(base) /\ runs'[Len(base)] = f
    BY <1>3, <2>1, <2>4, <2>5, FrontAppend
  <2>7. runs' # <<>> /\ Last(runs') = f
    <3>1. runs' # <<>> BY <1>3, <1>5, <2>6, EmptySeq
    <3>2. Last(runs') = runs'[Len(runs')] BY <2>6, <3>1, FrontLast
    <3>. QED BY <2>6, <3>1, <3>2
  <2>. QED BY <2>4, <2>7 DEF Failing, Top
<1>. QED BY <1>4, <1>5

LEMMA LeaveBatch ==
  ASSUME Inv, LifeInv, BatchInv, Leave
  PROVE  BatchInv'
<1>1. /\ RunsOK /\ UNCHANGED <<queue, open, working, started>> /\ runs # <<>>
      /\ TopTodo = <<>>
  BY DEF Inv, TypeOK, Leave, Idle, tools, TopTodo
<1>2. open = {} BY <1>1, BatchIdle
<1>3. PICK m \in Nat :
        /\ m = Len(runs) - 1 /\ runs' \in Seq(RunType) /\ Len(runs') = m
        /\ \A n \in 1..m : SameTraced(runs'[n], runs[n])
        /\ \A n \in 1..m :
             \/ runs'[n].todo = runs[n].todo
             \/ \A q \in 1..Len(runs'[n].todo) : runs'[n].todo[q].kind \in {"end", "verdict"}
  BY LeaveRuns
<1>4. Batches(TopTodo')
  <2>1. CASE runs' = <<>> BY <2>1, EmptySeq DEF Batches, TopTodo
  <2>2. CASE runs' # <<>>
    <3>1. m \in Nat \ {0} /\ m \in 1..m
      BY <1>3, <2>2, EmptySeq
    <3>2. TopTodo' = runs'[m].todo BY <1>3, <2>2, FrontLast DEF TopTodo, Top
    <3>3. NoCalls(runs[m].todo) BY <1>3, <3>1 DEF LifeInv, TodoOK
    <3>4. \A q \in 1..Len(runs'[m].todo) : runs'[m].todo[q].kind # "submit"
      BY <1>3, <3>1, <3>3 DEF NoCalls, CallKinds
    <3>. QED BY <3>2, <3>4, NoBatch
  <2>. QED BY <2>1, <2>2
<1>5. InProgress' \subseteq InProgress
  <2>1. \A n \in 1..m : n \in 1..Len(runs) /\ runs'[n].id = runs[n].id
    BY <1>1, <1>3, LenProperties DEF RunsOK, SameTraced
  <2>2. DOMAIN runs = 1..Len(runs) /\ DOMAIN runs' = 1..m
    BY <1>1, <1>3, LenProperties DEF RunsOK
  <2>. QED BY <2>1, <2>2 DEF InProgress
<1>6. ASSUME NEW w \in Workers  PROVE WorkerOK(w)'
  <2>1. WorkerOK(w) BY DEF BatchInv
  <2>2. CASE \E id \in working[w].for : id \in InProgress'
    <3>1. Top.how = "raised" BY <1>2, <1>5, <2>1, <2>2 DEF WorkerOK, Failing
    <3>2. runs' # <<>> BY <2>2, EmptySeq DEF InProgress
    <3>3. Failing' BY <3>1, <3>2, LeaveFails
    <3>. QED BY <1>1, <2>1, <3>3 DEF WorkerOK
  <2>. QED BY <1>1, <2>1, <2>2 DEF WorkerOK
<1>7. \A k \in 1..Len(queue') : queue'[k] \in open'
  BY <1>1 DEF BatchInv
<1>. QED BY <1>1, <1>2, <1>4, <1>6, <1>7 DEF BatchInv

-------------------------------------------------------------
(* The steps of a tool.                                                    *)

\* Nothing changes but for tools.
LEMMA BatchTools ==
  ASSUME BatchInv, UNCHANGED <<runs, started>>, calling'[Flow] = calling[Flow],
         open' # {} => open # {},
         \A k \in 1..Len(queue') : queue'[k] \in open',
         \A w \in Workers : WorkerOK(w)'
  PROVE  BatchInv'
<1>1. TopTodo' = TopTodo BY DEF TopTodo, Top
<1>. QED BY <1>1 DEF BatchInv

LEMMA ToolBatch ==
  ASSUME Inv, LifeInv, JudgeInv, BatchInv, NEW w \in Workers, InTool(w)
  PROVE  BatchInv'
<1>1. /\ UNCHANGED <<runs, started>> /\ queue \in Seq(1..called)
      /\ working \in [Workers -> [call : 0..called, for : SUBSET RunIds, told : BOOLEAN]]
      /\ CallsOK /\ InProgress \subseteq RunIds
  BY InProgressType DEF InTool, StartTool, Progress, EndTool, Works, Inv, TypeOK, ToolsOK
<1>2. InProgress' = InProgress /\ (Failing' <=> Failing)
  BY <1>1 DEF InProgress, Failing, Top
<1>3. \A v \in Workers : WorkerOK(v)
  BY DEF BatchInv
<1>4. CASE StartTool(w)
  <2>1. /\ queue # <<>> /\ queue' = Tail(queue) /\ UNCHANGED <<calling, open>>
        /\ working' = [working EXCEPT ![w] = [Resting EXCEPT !.call = Head(queue), !.for = InProgress]]
    BY <1>4 DEF StartTool
  <2>2. /\ working'[w].call = Head(queue) /\ working'[w].for = InProgress
        /\ \A v \in Workers \ {w} : working'[v] = working[v]
    BY <1>1, <2>1 DEF Resting
  <2>3. PICK m \in Nat : Len(queue) = m + 1 /\ Len(queue') = m
                         /\ \A k \in 1..m : queue'[k] = queue[k + 1]
    <3>1. Len(queue) \in Nat \ {0} BY <1>1, <2>1, EmptySeq
    <3>2. Len(queue') = Len(queue) - 1 /\ \A k \in 1..Len(queue') : queue'[k] = queue[k + 1]
      BY <1>1, <2>1, HeadTailProperties
    <3>3. Len(queue') \in Nat /\ Len(queue) = Len(queue') + 1
      BY ONLY <3>1, <3>2
    <3>. QED BY <3>2, <3>3
  <2>4. \A k \in 1..m : k + 1 \in 1..m + 1
    BY <2>3
  <2>5. \A k \in 1..Len(queue') : queue'[k] \in open'
    BY <2>1, <2>3, <2>4 DEF BatchInv
  <2>6. Head(queue) \in open BY <1>1, <2>1, <2>3 DEF BatchInv
  <2>7. WorkerOK(w)'
    <3>1. \A id \in InProgress : id <= started
      BY LenProperties DEF Inv, TypeOK, RunsOK, InProgress, JudgeInv, RunsInTurn
    <3>. QED BY <1>1, <1>2, <2>1, <2>2, <2>6, <3>1 DEF WorkerOK
  <2>8. \A v \in Workers \ {w} : WorkerOK(v)'
    BY <1>1, <1>2, <1>3, <2>1, <2>2 DEF WorkerOK
  <2>. QED BY <1>1, <2>1, <2>5, <2>7, <2>8, BatchTools
<1>5. CASE Progress(w)
  <2>1. /\ working' = [working EXCEPT ![w].told = TRUE] /\ UNCHANGED <<queue, open>>
        /\ calling'[Flow] = calling[Flow]
    BY <1>1, <1>5, ThreadAssumption DEF Progress, Calls, CallsOK, Threads
  <2>2. \A v \in Workers : working'[v].call = working[v].call /\ working'[v].for = working[v].for
    BY <1>1, <2>1
  <2>3. \A v \in Workers : WorkerOK(v)'
    BY <1>1, <1>2, <1>3, <2>1, <2>2 DEF WorkerOK
  <2>. QED BY <1>1, <2>1, <2>3, BatchTools DEF BatchInv
<1>6. CASE EndTool(w)
  <2>1. /\ working' = [working EXCEPT ![w] = Resting] /\ UNCHANGED <<queue, calling>>
        /\ open' = open \ {working[w].call} /\ working[w] # Resting
    BY <1>6 DEF EndTool
  <2>2. working'[w].for = {} /\ \A v \in Workers \ {w} : working'[v] = working[v]
    BY <1>1, <2>1 DEF Resting
  <2>3. ASSUME NEW v \in Workers \ {w}  PROVE WorkerOK(v)'
    BY <1>1, <1>2, <1>3, <2>1, <2>2 DEF LifeInv, WorkOK, WorkerOK
  <2>4. WorkerOK(w)' BY <2>2 DEF WorkerOK
  <2>5. \A k \in 1..Len(queue') : queue'[k] \in open'
    BY <2>1 DEF BatchInv, LifeInv, WorkOK
  <2>. QED BY <1>1, <2>1, <2>3, <2>4, <2>5, BatchTools
<1>. QED BY <1>4, <1>5, <1>6 DEF InTool

-------------------------------------------------------------
LEMMA BatchInit ==
  ASSUME Init
  PROVE  BatchInv
<1>1. /\ TopTodo = <<>> /\ open = {} /\ queue = <<>>
      /\ \A w \in Workers : working[w] = Resting
  BY DEF Init, TopTodo
<1>2. Batches(<<>>) /\ Len(queue) = 0
  BY <1>1, EmptySeq DEF Batches
<1>3. \A w \in Workers : WorkerOK(w)
  BY <1>1 DEF Resting, WorkerOK
<1>. QED BY <1>1, <1>2, <1>3 DEF BatchInv

LEMMA BatchStep ==
  ASSUME Inv, LifeInv, JudgeInv, BatchInv, [Next]_vars
  PROVE  BatchInv'
<1>1. CASE \E t \in Threads : InCall(t)
  BY <1>1, InnerBatch, RaiseBatch DEF InCall
<1>2. CASE InFlow
  BY <1>2, EnterBatch, VisitsBatch, ConcludeBatch, LeaveBatch, DoneBatch, AnswerBatch, SubmitBatch,
     AbandonBatch
     DEF InFlow
<1>3. CASE \E w \in Workers : InTool(w)
  BY <1>3, ToolBatch
<1>4. CASE UNCHANGED vars BY <1>4, BatchStill DEF vars
<1>. QED BY <1>1, <1>2, <1>3, <1>4 DEF Next, Stop

LEMMA AlwaysBatch == Spec => []BatchInv
<1>1. Init => BatchInv
  BY BatchInit
<1>2. Inv /\ LifeInv /\ JudgeInv /\ BatchInv /\ [Next]_vars => BatchInv'
  BY BatchStep
<1>. QED BY <1>1, <1>2, AlwaysInv, AlwaysLife, AlwaysJudge, PTL DEF Spec

-------------------------------------------------------------
(* The invariant of traces: which runs the event of a call in progress has *)
(* yet to reach, and what those have that are over.                        *)

Traced(id, e) == \E k \in 1..Len(traces[id]) : traces[id][k] = e

\* The run is in progress, and a trace of it is collected.
Collecting(id) == \E n \in 1..Len(runs) : runs[n].id = id /\ runs[n].traced

\* The call c of t reaches each run that its event is of once, and a tool left
\* behind by its runs maybe others.
Collects(t, c) ==
  /\ made[c.event].for = RunsOf(t)
  /\ c.at \in {"observe", "call"} => \A id \in RunIds : ~Traced(id, c.event)
  /\ c.at = "deliver" =>
       /\ Distinct(c.to)
       /\ \A k \in 1..Len(c.to) : c.to[k] # 0 =>
            ~Traced(c.to[k], c.event) /\ (t = Flow => c.to[k] \in RunsOf(t))
  /\ \A id \in RunsOf(t) : Collecting(id) =>
       /\ c.at = "deliver" => Traced(id, c.event) \/ \E k \in 1..Len(c.to) : c.to[k] = id
       /\ c.at = "return" => Traced(id, c.event) \/ c.kind = "payload"

CollectOK(t, n) ==
  Numbered(calling[t][n]) =>
    /\ Collects(t, calling[t][n])
    /\ \A m \in 1..n - 1 : calling[t][m].event # calling[t][n].event

\* A trace has nothing twice, and of the flow's events its own.
TraceOK(id) ==
  /\ Distinct(traces[id])
  /\ \A k \in 1..Len(traces[id]) :
       made[traces[id][k]].by = Flow => id \in made[traces[id][k]].for

\* Whatever was made has reached the runs it is of, is about to, or somebody raised.
EventOK(e) ==
  \A id \in made[e].for :
    /\ id <= started
    /\ Collecting(id) =>
         InDelivery(e) \/ e \in refused \/ Traced(id, e) \/ made[e].kind = "payload"

CollectInv ==
  /\ \A t \in Threads : \A n \in 1..Len(calling[t]) : CollectOK(t, n)
  /\ \A id \in RunIds : TraceOK(id)
  /\ \A e \in 1..Len(made) : EventOK(e)

\* The trace of o is that of its events.
Complete(o) ==
  /\ o.trace \in Seq(Nat) /\ Distinct(o.trace)
  /\ \A k \in 1..Len(o.trace) :
       /\ o.trace[k] \in 1..Len(made)
       /\ made[o.trace[k]].by = Flow => o.id \in made[o.trace[k]].for
  /\ \A e \in 1..Len(made) : o.id \in made[e].for =>
       \/ e \in refused \/ made[e].kind = "payload" \/ ~Included(made[e].kind)
       \/ \E k \in 1..Len(o.trace) : o.trace[k] = e

\* A run that has ended left no tool behind.
LeftTraced ==
  \A o \in left : o.how = "end" =>
    /\ \A w \in Workers : o.id \notin working[w].for
    /\ o.traced => Complete(o)

-------------------------------------------------------------
(* The chain of subscribers: each run that collects a trace, once.         *)

Linked(s, n) ==
  /\ s \in Seq(Subscribers) /\ Distinct(s)
  /\ \A k \in 1..Len(s) : s[k] = 0 \/ \E m \in 1..n : runs[m].id = s[k]
  /\ \A m \in 1..n : runs[m].traced => \E k \in 1..Len(s) : s[k] = runs[m].id

LEMMA NoneLinked == Linked(Listening(0), 0)
<1>1. 0 \in Subscribers BY DEF Subscribers
<1>2. Linked(<<0>>, 0) BY <1>1 DEF Linked, Distinct
<1>3. Linked(<<>>, 0) BY EmptySeq DEF Linked, Distinct
<1>. QED BY <1>2, <1>3 DEF Listening

LEMMA ChainLinked ==
  ASSUME Inv, JudgeInv
  PROVE  Linked(on_event, Len(runs))
<1>. DEFINE T == {n \in Nat : n <= Len(runs) => Linked(Listening(n), n)}
<1>1. RunsOK /\ Len(runs) \in Nat /\ on_event = Listening(Len(runs))
  BY LenProperties DEF Inv, TypeOK, RunsOK
<1>2. 0 \in T BY NoneLinked
<1>3. ASSUME NEW n \in Nat, n \in T  PROVE n + 1 \in T
  <2>. SUFFICES ASSUME n + 1 <= Len(runs)  PROVE Linked(Listening(n + 1), n + 1)
    OBVIOUS
  <2>1. PICK m \in 1..Len(runs) : m = n + 1 /\ m - 1 = n
    BY <1>1
  <2>2. Linked(Listening(n), n) /\ runs[m].before = Listening(n) /\ runs[m] \in RunType
    BY <1>1, <1>3, <2>1, ElementOfSeq DEF RunsOK
  <2>3. PICK s, id : s = runs[m].before /\ id = runs[m].id
    OBVIOUS
  <2>4. Linked(s, n) /\ id \in Subscribers /\ id # 0
    BY <2>2, <2>3, EventBoundAssumption DEF RunType, Subscribers, RunIds
  <2>5. \A l \in 1..n : runs[l].id # id
    BY <2>1, <2>3 DEF JudgeInv, RunsInTurn
  <2>6. \A k \in 1..Len(s) : s[k] # id
    BY <2>4, <2>5 DEF Linked
  <2>7. /\ \A l \in 1..n + 1 : l \in 1..n \/ l = m
        /\ m \in 1..n + 1 /\ \A l \in 1..n : l \in 1..n + 1
    BY <2>1
  <2>8. CASE ~runs[m].traced BY <2>1, <2>3, <2>4, <2>7, <2>8 DEF Linked, Listening
  <2>9. CASE runs[m].traced
    <3>1. PICK r, h : r = Append(s, id) /\ h = Len(s)
      OBVIOUS
    <3>2. /\ r \in Seq(Subscribers) /\ Distinct(r) /\ r[h + 1] = id /\ h + 1 \in 1..Len(r)
          /\ \A k \in 1..h : k \in 1..Len(r) /\ r[k] = s[k]
          /\ \A k \in 1..Len(r) : k \in 1..h \/ k = h + 1
      BY <2>4, <2>6, <3>1, DistinctAppend DEF Linked
    <3>3. ASSUME NEW k \in 1..Len(r)
          PROVE  r[k] = 0 \/ \E l \in 1..n + 1 : runs[l].id = r[k]
      BY <2>3, <2>4, <2>7, <3>1, <3>2 DEF Linked
    <3>4. ASSUME NEW l \in 1..n + 1, runs[l].traced
          PROVE  \E k \in 1..Len(r) : r[k] = runs[l].id
      <4>1. CASE l = m BY <2>3, <3>2, <4>1
      <4>2. CASE l \in 1..n
        <5>1. PICK k \in 1..h : s[k] = runs[l].id BY <2>4, <3>1, <3>4, <4>2 DEF Linked
        <5>. QED BY <3>2, <5>1
      <4>. QED BY <2>7, <4>1, <4>2
    <3>5. Linked(r, n + 1) BY <3>2, <3>3, <3>4 DEF Linked
    <3>6. Listening(m) = r BY <2>1, <2>3, <2>9, <3>1 DEF Listening
    <3>. QED BY <2>1, <3>5, <3>6
  <2>. QED BY <2>8, <2>9
<1>4. Len(runs) \in T
  <2>. HIDE DEF T
  <2>. QED BY <1>1, <1>2, <1>3, SetInduction
<1>. QED BY <1>1, <1>4

\* Whom an event is delivered to: every run that collects, and among those in
\* progress only.
LEMMA Deliverees ==
  ASSUME Inv, JudgeInv
  PROVE  /\ on_event \in Seq(Subscribers) /\ Distinct(on_event)
         /\ \A k \in 1..Len(on_event) : on_event[k] # 0 => on_event[k] \in InProgress
         /\ \A id : Collecting(id) => \E k \in 1..Len(on_event) : on_event[k] = id
<1>1. Linked(on_event, Len(runs)) BY ChainLinked
<1>2. DOMAIN runs = 1..Len(runs) BY LenProperties DEF Inv, TypeOK, RunsOK
<1>. QED BY <1>1, <1>2 DEF Linked, Collecting, InProgress

-------------------------------------------------------------
(* What is collected.                                                      *)

LEMMA RunsOfType ==
  ASSUME Inv
  PROVE  /\ \A t \in Threads : RunsOf(t) \subseteq RunIds
         /\ \A id \in RunIds : id \in Nat /\ id # 0
<1>1. InProgress \subseteq RunIds BY InProgressType DEF Inv, TypeOK
<1>2. \A w \in Workers : working[w].for \subseteq RunIds
  BY DEF Inv, TypeOK, ToolsOK
<1>3. \A id \in RunIds : id \in Nat /\ id # 0
  BY DEF RunIds
<1>. QED BY <1>1, <1>2, <1>3 DEF RunsOf, Threads

\* A call that goes on as before still reaches whom it has to.
LEMMA CollectsSame ==
  ASSUME Inv, NEW u \in Threads, NEW c \in CallType, Collects(u, c),
         made'[c.event] = made[c.event], RunsOf(u)' = RunsOf(u),
         \A id \in RunsOf(u) : Collecting(id)' => Collecting(id),
         \A id \in RunIds : Traced(id, c.event)' <=> Traced(id, c.event)
  PROVE  Collects(u, c)'
<1>1. RunsOf(u) \subseteq RunIds BY RunsOfType
<1>2. \A k \in 1..Len(c.to) : c.to[k] # 0 => c.to[k] \in RunIds
  BY ElementOfSeq DEF CallType, Subscribers
<1>3. made'[c.event].for = RunsOf(u)' BY DEF Collects
<1>4. c.at \in {"observe", "call"} => \A id \in RunIds : ~Traced(id, c.event)'
  BY DEF Collects
<1>5. c.at = "deliver" =>
        /\ Distinct(c.to)
        /\ \A k \in 1..Len(c.to) : c.to[k] # 0 =>
             ~Traced(c.to[k], c.event)' /\ (u = Flow => c.to[k] \in RunsOf(u)')
  BY <1>2 DEF Collects
<1>6. \A id \in RunsOf(u)' : Collecting(id)' =>
        /\ c.at = "deliver" => Traced(id, c.event)' \/ \E k \in 1..Len(c.to) : c.to[k] = id
        /\ c.at = "return" => Traced(id, c.event)' \/ c.kind = "payload"
  BY <1>1 DEF Collects
<1>. QED BY <1>3, <1>4, <1>5, <1>6 DEF Collects, Traced

\* What is known of the innermost call of t once it has made its event.
LEMMA CurrentCollects ==
  ASSUME Inv, CollectInv, NEW t \in Threads, calling[t] # <<>>, Numbered(Current(t))
  PROVE  \E m \in Nat \ {0} :
           /\ m = Len(calling[t]) /\ Current(t) = calling[t][m] /\ Current(t) \in CallType
           /\ Current(t).event \in 1..Len(made) /\ Collects(t, Current(t))
           /\ \A n \in 1..m - 1 : calling[t][n].event # Current(t).event
           /\ made[Current(t).event].by = t /\ made[Current(t).event].kind = Current(t).kind
<1>1. CallsOK BY DEF Inv, TypeOK
<1>2. PICK m \in Nat \ {0} :
        m = Len(calling[t]) /\ Current(t) = calling[t][m] /\ Current(t) \in CallType
  BY <1>1, CurrentCall
<1>3. m \in 1..Len(calling[t]) BY <1>2
<1>4. CallOK(t, m) /\ CollectOK(t, m)
  BY <1>3 DEF Inv, CallInv, CollectInv
<1>. QED BY <1>2, <1>4 DEF CallOK, CollectOK

\* t calls the on_event of a run with the event of its innermost call, or
\* nobody does anything.
Tracing(t) ==
  \/ traces' = traces
  \/ /\ calling[t] # <<>> /\ Current(t).at = "deliver"
     /\ \E id \in RunIds : \E k \in 1..Len(Current(t).to) :
          /\ Current(t).to[k] = id
          /\ traces' = [traces EXCEPT ![id] = Append(@, Current(t).event)]

LEMMA TracingTraced ==
  ASSUME Inv, CollectInv, NEW t \in Threads, Tracing(t), made' = made
  PROVE  /\ \A id \in RunIds : TraceOK(id)'
         /\ \A id \in RunIds : \A e : Traced(id, e) => Traced(id, e)'
         /\ \A id \in RunIds : \A e : Traced(id, e)' =>
              Traced(id, e) \/ (e = Current(t).event /\ calling[t] # <<>> /\ Numbered(Current(t)))
<1>1. traces \in [RunIds -> Seq(1..Len(made))] /\ \A id \in RunIds : TraceOK(id)
  BY DEF Inv, TypeOK, StreamOK, CollectInv
<1>2. CASE traces' = traces BY <1>1, <1>2 DEF Traced, TraceOK
<1>3. CASE traces' # traces
  <2>1. PICK i \in RunIds :
          /\ calling[t] # <<>> /\ Current(t).at = "deliver"
          /\ \E k \in 1..Len(Current(t).to) : Current(t).to[k] = i
          /\ traces' = [traces EXCEPT ![i] = Append(@, Current(t).event)]
    BY <1>3 DEF Tracing
  <2>2. Numbered(Current(t)) /\ i # 0
    BY <2>1, RunsOfType DEF Numbered
  <2>3. PICK e0 : /\ e0 = Current(t).event /\ e0 \in 1..Len(made) /\ Collects(t, Current(t))
                  /\ made[e0].by = t
    BY <2>1, <2>2, CurrentCollects
  <2>4. /\ ~Traced(i, e0)
        /\ made[e0].by = Flow => i \in made[e0].for
    BY <2>1, <2>2, <2>3 DEF Collects
  <2>5. PICK old, new, h :
          old = traces[i] /\ new = Append(old, e0) /\ h = Len(old)
    OBVIOUS
  <2>6. traces'[i] = new /\ \A id \in RunIds \ {i} : traces'[id] = traces[id]
    BY <1>1, <2>1, <2>3, <2>5
  <2>7. /\ Distinct(new) /\ new[h + 1] = e0 /\ h + 1 \in 1..Len(new)
        /\ \A k \in 1..h : k \in 1..Len(new) /\ new[k] = old[k]
        /\ \A k \in 1..Len(new) : k \in 1..h \/ k = h + 1
    BY <1>1, <2>3, <2>4, <2>5, DistinctAppend DEF Traced, TraceOK
  <2>8. TraceOK(i)'
    <3>1. ASSUME NEW k \in 1..Len(new), made[new[k]].by = Flow
          PROVE  i \in made[new[k]].for
      BY <1>1, <2>4, <2>5, <2>7, <3>1 DEF TraceOK
    <3>. QED BY <2>6, <2>7, <3>1 DEF TraceOK
  <2>9. \A id \in RunIds \ {i} : TraceOK(id)'
    BY <1>1, <2>6 DEF TraceOK
  <2>10. \A e : Traced(i, e) => Traced(i, e)'
    BY <2>5, <2>6, <2>7 DEF Traced
  <2>11. \A e : Traced(i, e)' => Traced(i, e) \/ e = e0
    BY <2>5, <2>6, <2>7 DEF Traced
  <2>12. \A id \in RunIds \ {i} : \A e : Traced(id, e)' <=> Traced(id, e)
    BY <2>6 DEF Traced
  <2>. QED BY <2>1, <2>2, <2>3, <2>8, <2>9, <2>10, <2>11, <2>12
<1>. QED BY <1>2, <1>3

\* Nothing changes that says which runs an event is of.
SameWork ==
  /\ \A u \in Threads : RunsOf(u)' = RunsOf(u)
  /\ \A id : Collecting(id)' => Collecting(id)

LEMMA WorkSame ==
  ASSUME Inv, UNCHANGED working, runs' \in Seq(RunType), Len(runs') = Len(runs),
         \A n \in 1..Len(runs) : SameTraced(runs'[n], runs[n])
  PROVE  SameWork
<1>1. InProgress' = InProgress BY SameProgress DEF Inv, TypeOK
<1>2. \A id : Collecting(id)' => Collecting(id)
  BY DEF Collecting, SameTraced
<1>. QED BY <1>1, <1>2 DEF SameWork, RunsOf

\* The other calls still have to reach whom they had to.
LEMMA CollectKept ==
  ASSUME Inv, CollectInv, NEW t \in Threads, Tracing(t), made' = made, SameWork,
         NEW u \in Threads, NEW n \in 1..Len(calling[u]), u # t \/ n < Len(calling[t]),
         \A k \in 1..n : calling'[u][k] = calling[u][k]
  PROVE  CollectOK(u, n)'
<1>. SUFFICES ASSUME Numbered(calling[u][n])
              PROVE  /\ Collects(u, calling[u][n])'
                     /\ \A m \in 1..n - 1 : calling[u][m].event # calling[u][n].event
  <2>1. n \in 1..n /\ \A m \in 1..n - 1 : m \in 1..n
    OBVIOUS
  <2>2. PICK c : c = calling[u][n] /\ c = calling'[u][n]
    BY <2>1
  <2>3. Collects(u, c)' <=> Collects(u, calling[u][n])'
    BY <2>2 DEF Collects, Traced
  <2>. QED BY <2>1, <2>2, <2>3 DEF CollectOK, Numbered
<1>1. CallOK(u, n) /\ CollectOK(u, n) /\ n \in Nat
  BY DEF Inv, CallInv, CollectInv
<1>2. PICK c \in CallType : c = calling[u][n] /\ c = calling'[u][n]
  BY <1>1, ElementOfSeq DEF Inv, TypeOK, CallsOK
<1>3. c.event \in 1..Len(made) /\ made[c.event].by = u
  BY <1>1, <1>2 DEF CallOK
<1>4. calling[t] # <<>> /\ Numbered(Current(t)) => c.event # Current(t).event
  <2>. SUFFICES ASSUME calling[t] # <<>>, Numbered(Current(t))
                PROVE  c.event # Current(t).event
    OBVIOUS
  <2>1. PICK m \in Nat \ {0} :
          /\ m = Len(calling[t]) /\ Current(t) = calling[t][m]
          /\ \A k \in 1..m - 1 : calling[t][k].event # Current(t).event
          /\ made[Current(t).event].by = t
    BY CurrentCollects
  <2>2. CASE u # t BY <1>3, <2>1, <2>2
  <2>3. CASE u = t BY <1>1, <1>2, <2>1, <2>3
  <2>. QED BY <2>2, <2>3
<1>5. \A id \in RunIds : Traced(id, c.event)' <=> Traced(id, c.event)
  <2>1. PICK e : e = c.event OBVIOUS
  <2>2. \A id \in RunIds : Traced(id, e)' <=> Traced(id, e)
    BY <1>4, <2>1, TracingTraced
  <2>. QED BY <2>1, <2>2 DEF Traced
<1>6. Collects(u, c)' BY <1>1, <1>2, <1>5, CollectsSame DEF CollectOK, SameWork
<1>7. Collects(u, calling[u][n])' <=> Collects(u, c)'
  BY <1>2 DEF Collects, Traced
<1>. QED BY <1>1, <1>6, <1>7 DEF CollectOK

-------------------------------------------------------------
(* The steps of a call.                                                    *)

\* The innermost call goes on as c, that has reached runs or not, as it should.
LEMMA InnerCollect ==
  ASSUME Inv, CollectInv, NEW t \in Threads, calling[t] # <<>>, NEW c, GoesOn(t, c),
         UNCHANGED <<made, refused, runs, working, started>>, Tracing(t),
         Numbered(c) => Numbered(Current(t)) /\ Collects(t, c)'
  PROVE  CollectInv'
<1>0. SameWork BY DEF SameWork, RunsOf, InProgress, Collecting
<1>1. PICK m \in Nat \ {0} :
        /\ m = Len(calling[t]) /\ Current(t) = calling[t][m] /\ Current(t) \in CallType
  BY CurrentCall DEF Inv, TypeOK
<1>2. /\ \A u \in Threads \ {t} : calling'[u] = calling[u]
      /\ \A n \in 1..m - 1 : calling'[t][n] = calling[t][n]
      /\ \/ Len(calling'[t]) = m - 1 /\ c.at = "return"
         \/ Len(calling'[t]) = m /\ calling'[t][m] = c /\ c.at # "return"
         \/ /\ Len(calling'[t]) = m + 1 /\ calling'[t][m] = c
            /\ calling'[t][m + 1] = Call(t, "artifact", 0)
      /\ c.kind = Current(t).kind /\ c.event = Current(t).event /\ t \in Threads
  BY <1>1 DEF GoesOn, Goes
<1>3. ASSUME NEW u \in Threads, NEW n \in 1..Len(calling'[u])  PROVE CollectOK(u, n)'
  <2>1. CASE u # t BY <1>0, <1>2, <1>3, <2>1, CollectKept
  <2>2. CASE u = t /\ n < m
    BY <1>0, <1>1, <1>2, <1>3, <2>2, CollectKept
  <2>3. CASE u = t /\ n = m
    <3>1. calling'[t][m] = c /\ (Numbered(c) => Numbered(Current(t)) /\ Collects(t, c)')
      BY <1>1, <1>2, <1>3, <2>3
    <3>2. ASSUME Numbered(c)  PROVE \A k \in 1..m - 1 : calling'[t][k].event # calling'[t][m].event
      <4>1. \A k \in 1..m - 1 : calling[t][k].event # Current(t).event
        BY <1>1, <3>1, <3>2, CurrentCollects
      <4>. QED BY <1>1, <1>2, <3>1, <4>1
    <3>3. Collects(t, calling[t][m])' <=> Collects(t, c)'
      BY <3>1 DEF Collects, Traced
    <3>. QED BY <2>3, <3>1, <3>2, <3>3 DEF CollectOK
  <2>4. CASE u = t /\ n = m + 1
    BY <1>1, <1>2, <1>3, <2>4 DEF CollectOK, Numbered, Call
  <2>. QED BY <1>1, <1>2, <1>3, <2>1, <2>2, <2>3, <2>4
<1>4. ASSUME NEW e \in 1..Len(made')  PROVE EventOK(e)'
  <2>1. EventOK(e) /\ e \in 1..Len(made) /\ made[e].for \subseteq RunIds
    <3>1. made[e] \in EventType BY <1>4, ElementOfSeq DEF Inv, TypeOK, StreamOK
    <3>. QED BY <1>4, <3>1 DEF CollectInv, EventType
  <2>2. \A id \in RunIds : Traced(id, e) => Traced(id, e)'
    BY TracingTraced
  <2>3. ASSUME NEW id \in made[e].for, Collecting(id), InDelivery(e)
        PROVE  InDelivery(e)' \/ Traced(id, e)' \/ made[e].kind = "payload"
    <3>1. PICK u \in Threads : \E n \in 1..Len(calling[u]) : calling[u][n].event = e
      BY <2>3 DEF InDelivery
    <3>2. PICK n \in 1..Len(calling[u]) : calling[u][n].event = e BY <3>1
    <3>3. CASE u # t BY <1>2, <3>2, <3>3 DEF InDelivery
    <3>4. CASE u = t /\ n # m
      <4>1. n \in 1..m - 1 /\ n \in 1..Len(calling'[t])
        BY <1>1, <1>2, <3>4
      <4>. QED BY <1>2, <3>2, <3>4, <4>1 DEF InDelivery
    <3>5. CASE u = t /\ n = m
      <4>1. c.event = e BY <1>1, <1>2, <3>2, <3>5
      <4>2. CASE Len(calling'[t]) = m - 1 /\ c.at = "return"
        <5>1. Collects(t, c)' /\ Numbered(Current(t))
          BY <4>2 DEF Numbered
        <5>2. made[e].kind = c.kind
          <6>1. made[Current(t).event].kind = Current(t).kind BY <5>1, CurrentCollects
          <6>. QED BY <1>2, <4>1, <6>1
        <5>3. id \in RunsOf(t)' /\ Collecting(id)'
          BY <2>3, <4>1, <5>1 DEF Collects, Collecting
        <5>4. Traced(id, c.event)' \/ c.kind = "payload"
          BY <4>2, <5>1, <5>3 DEF Collects
        <5>. QED BY <4>1, <5>2, <5>4 DEF Traced
      <4>3. CASE calling'[t][m] = c /\ m \in 1..Len(calling'[t])
        BY <1>2, <4>1, <4>3 DEF InDelivery
      <4>. QED BY <1>1, <1>2, <4>2, <4>3
    <3>. QED BY <1>1, <3>2, <3>3, <3>4, <3>5
  <2>4. \A id : Collecting(id)' => Collecting(id)
    BY <1>0 DEF SameWork
  <2>. QED BY <2>1, <2>2, <2>3, <2>4 DEF EventOK
<1>5. \A id \in RunIds : TraceOK(id)'
  BY TracingTraced
<1>. QED BY <1>3, <1>4, <1>5 DEF CollectInv

LEMMA AcquireCollect ==
  ASSUME Inv, CollectInv, NEW t \in Threads, Acquire(t)
  PROVE  CollectInv'
<1>1. PICK c : GoesOn(t, c) /\ c.at = "number"
  BY AcquireGoes
<1>2. ~Numbered(c) /\ calling[t] # <<>>
  BY <1>1 DEF Numbered, Acquire, Step
<1>3. UNCHANGED <<made, refused, runs, working, started>> /\ Tracing(t)
  BY DEF Acquire, Tracing, hosts, tools
<1>. QED BY <1>1, <1>2, <1>3, InnerCollect

LEMMA ObserveCollect ==
  ASSUME Inv, CollectInv, NEW t \in Threads, Observe(t)
  PROVE  CollectInv'
<1>1. PICK c : /\ GoesOn(t, c)
               /\ c.at = IF Current(t).kind = "payload" THEN "return" ELSE "call"
  BY ObserveGoes
<1>2. calling[t] # <<>> /\ Current(t).at = "observe" /\ Numbered(Current(t))
  BY DEF Observe, Step, Numbered
<1>3. UNCHANGED <<made, refused, runs, working, started, traces>> /\ Tracing(t)
  BY DEF Observe, Tracing, hosts, stream, tools
<1>4. PICK e : e = c.event /\ e = Current(t).event /\ c.kind = Current(t).kind
  BY <1>1 DEF GoesOn
<1>5. made[e].for = RunsOf(t) /\ \A id \in RunIds : ~Traced(id, e)
  BY <1>2, <1>4, CurrentCollects DEF Collects
<1>6. RunsOf(t)' = RunsOf(t) /\ \A id \in RunIds : ~Traced(id, e)'
  BY <1>3, <1>5 DEF RunsOf, InProgress, Traced
<1>7. made'[c.event].for = RunsOf(t)' /\ \A id \in RunIds : ~Traced(id, c.event)'
  BY <1>3, <1>4, <1>5, <1>6 DEF Traced
<1>8. Collects(t, c)' BY <1>1, <1>4, <1>7 DEF Collects
<1>. QED BY <1>1, <1>2, <1>3, <1>8, InnerCollect

LEMMA ReadCollect ==
  ASSUME Inv, JudgeInv, CollectInv, NEW t \in Threads, Read(t)
  PROVE  CollectInv'
<1>1. /\ on_event \in Seq(Subscribers) /\ Distinct(on_event)
      /\ \A k \in 1..Len(on_event) : on_event[k] # 0 => on_event[k] \in InProgress
      /\ \A id : Collecting(id) => \E k \in 1..Len(on_event) : on_event[k] = id
  BY Deliverees
<1>2. PICK c : /\ GoesOn(t, c)
               /\ \/ on_event # <<>> /\ c.at = "deliver" /\ c.to = on_event
                  \/ on_event = <<>> /\ c.at = "return"
  BY ReadGoes
<1>3. calling[t] # <<>> /\ Current(t).at = "call" /\ Numbered(Current(t))
  BY DEF Read, Step, Numbered
<1>4. UNCHANGED <<made, refused, runs, working, started, traces>> /\ Tracing(t)
  BY DEF Read, Tracing, hosts, stream, tools
<1>5. PICK e : e = c.event /\ e = Current(t).event
  BY <1>2 DEF GoesOn
<1>6. made[e].for = RunsOf(t) /\ \A id \in RunIds : ~Traced(id, e)
  BY <1>3, <1>5, CurrentCollects DEF Collects
<1>7. /\ RunsOf(t)' = RunsOf(t) /\ (\A id : Collecting(id)' => Collecting(id))
      /\ InProgress' = InProgress
  BY <1>4 DEF RunsOf, InProgress, Collecting
<1>8. made'[c.event].for = RunsOf(t)' /\ \A id \in RunIds : ~Traced(id, c.event)'
  BY <1>4, <1>5, <1>6, <1>7 DEF Traced
<1>9. ASSUME on_event # <<>>, c.at = "deliver", c.to = on_event  PROVE Collects(t, c)'
  <2>1. \A k \in 1..Len(c.to) : c.to[k] # 0 => c.to[k] \in InProgress /\ c.to[k] \in RunIds
    BY <1>1, <1>9, InProgressType DEF Inv, TypeOK
  <2>2. \A k \in 1..Len(c.to) : c.to[k] # 0 =>
          ~Traced(c.to[k], c.event)' /\ (t = Flow => c.to[k] \in RunsOf(t)')
    BY <1>7, <1>8, <2>1 DEF RunsOf
  <2>3. \A id : Collecting(id)' => \E k \in 1..Len(c.to) : c.to[k] = id
    BY <1>1, <1>7, <1>9
  <2>4. Distinct(c.to) BY <1>1, <1>9
  <2>. QED BY <1>8, <1>9, <2>2, <2>3, <2>4 DEF Collects
<1>10. ASSUME on_event = <<>>, c.at = "return"  PROVE Collects(t, c)'
  BY <1>1, <1>7, <1>8, <1>10, EmptySeq DEF Collects
<1>11. Collects(t, c)' BY <1>2, <1>9, <1>10
<1>. QED BY <1>2, <1>3, <1>4, <1>11, InnerCollect

LEMMA ReturnCollect ==
  ASSUME Inv, CollectInv, NEW t \in Threads, Return(t)
  PROVE  CollectInv'
<1>1. PICK c : c = Current(t) /\ c.at = "return" /\ calling[t] # <<>> /\ GoesOn(t, c)
  BY ReturnGoes
<1>2. UNCHANGED <<made, refused, runs, working, started, traces>> /\ Tracing(t)
  BY DEF Return, Tracing, hosts, stream, tools
<1>3. Numbered(Current(t)) BY <1>1 DEF Numbered
<1>4. Collects(t, c) /\ c \in CallType
  BY <1>1, <1>3, CurrentCollects
<1>5. /\ RunsOf(t)' = RunsOf(t) /\ made' = made
      /\ \A id \in RunIds : Traced(id, c.event)' <=> Traced(id, c.event)
      /\ \A id \in RunsOf(t) : Collecting(id)' => Collecting(id)
  BY <1>2 DEF RunsOf, InProgress, Collecting, Traced
<1>6. Collects(t, c)' BY <1>4, <1>5, CollectsSame
<1>. QED BY <1>1, <1>2, <1>3, <1>6, InnerCollect

\* Whom t calls first collects the event, if it is a run; the others do not.
LEMMA CollectTraces ==
  ASSUME Inv, NEW t \in Threads, Collect(t)
  PROVE  \E to \in Seq(Subscribers) : \E m \in Nat :
           /\ to = Current(t).to /\ Len(to) = m + 1 /\ Head(to) = to[1] /\ to[1] \in Subscribers
           /\ Len(Tail(to)) = m /\ \A k \in 1..m : Tail(to)[k] = to[k + 1]
           /\ calling[t] # <<>> /\ Current(t).at = "deliver"
           /\ traces' = IF to[1] = 0 THEN traces
                        ELSE [traces EXCEPT ![to[1]] = Append(@, Current(t).event)]
<1>1. PICK to : to = Current(t).to OBVIOUS
<1>2. to \in Seq(Subscribers) /\ to # <<>> /\ calling[t] # <<>> /\ Current(t).at = "deliver"
  BY <1>1, CollectType DEF CallType
<1>3. Len(to) \in Nat \ {0} /\ Head(to) = to[1] /\ to[1] \in Subscribers
  BY <1>2, EmptySeq, ElementOfSeq
<1>4. PICK m \in Nat :
        /\ Len(to) = m + 1 /\ Len(Tail(to)) = m /\ \A k \in 1..m : Tail(to)[k] = to[k + 1]
  <2>1. Len(Tail(to)) = Len(to) - 1 /\ \A k \in 1..Len(Tail(to)) : Tail(to)[k] = to[k + 1]
    BY <1>2, HeadTailProperties
  <2>2. Len(Tail(to)) \in Nat /\ Len(to) = Len(Tail(to)) + 1
    BY ONLY <1>3, <2>1
  <2>. QED BY <2>1, <2>2
<1>5. traces' = IF Head(to) = 0 THEN traces
                ELSE [traces EXCEPT ![Head(to)] = Append(@, Current(t).event)]
  BY <1>1 DEF Collect
<1>. QED BY <1>1, <1>2, <1>3, <1>4, <1>5

LEMMA CollectTracing ==
  ASSUME Inv, NEW t \in Threads, Collect(t)
  PROVE  Tracing(t)
<1>1. PICK to \in Seq(Subscribers), m \in Nat :
        /\ to = Current(t).to /\ Len(to) = m + 1 /\ to[1] \in Subscribers
        /\ calling[t] # <<>> /\ Current(t).at = "deliver"
        /\ traces' = IF to[1] = 0 THEN traces
                     ELSE [traces EXCEPT ![to[1]] = Append(@, Current(t).event)]
  BY CollectTraces
<1>2. 1 \in 1..Len(to) BY <1>1
<1>. QED BY <1>1, <1>2 DEF Tracing, Subscribers

LEMMA DeliverCollect ==
  ASSUME Inv, CollectInv, NEW t \in Threads, Deliver(t)
  PROVE  CollectInv'
<1>1. PICK c : /\ GoesOn(t, c) /\ c.to = Tail(Current(t).to)
               /\ c.at = IF c.to = <<>> THEN "return" ELSE "deliver"
  BY DeliverGoes
<1>2. PICK to \in Seq(Subscribers), m \in Nat :
           /\ to = Current(t).to /\ Len(to) = m + 1 /\ to[1] \in Subscribers
           /\ Len(Tail(to)) = m /\ \A k \in 1..m : Tail(to)[k] = to[k + 1]
           /\ calling[t] # <<>> /\ Current(t).at = "deliver"
           /\ traces' = IF to[1] = 0 THEN traces
                        ELSE [traces EXCEPT ![to[1]] = Append(@, Current(t).event)]
  BY CollectTraces DEF Deliver
<1>3. /\ UNCHANGED <<made, refused, runs, working, started>> /\ Tracing(t)
      /\ Numbered(Current(t))
  BY <1>2, CollectTracing DEF Deliver, stream, tools, Numbered
<1>4. PICK e : e = c.event /\ e = Current(t).event
  BY <1>1 DEF GoesOn
<1>5. /\ made[e].for = RunsOf(t) /\ e \in 1..Len(made) /\ Distinct(to)
      /\ \A k \in 1..Len(to) : to[k] # 0 => ~Traced(to[k], e) /\ (t = Flow => to[k] \in RunsOf(t))
      /\ \A id \in RunsOf(t) : Collecting(id) => Traced(id, e) \/ \E k \in 1..Len(to) : to[k] = id
  BY <1>2, <1>3, <1>4, CurrentCollects DEF Collects
<1>6. /\ RunsOf(t)' = RunsOf(t) /\ (\A id : Collecting(id)' => Collecting(id))
  BY <1>3 DEF RunsOf, InProgress, Collecting
<1>7. /\ Len(c.to) = m /\ 1 \in 1..m + 1
      /\ \A k \in 1..m : c.to[k] = to[k + 1] /\ k + 1 \in 1..m + 1 /\ k + 1 # 1
      /\ \A k \in 1..m + 1 : k = 1 \/ (k - 1 \in 1..m /\ (k - 1) + 1 = k)
  BY <1>1, <1>2
<1>8. \A id \in RunIds : id # to[1] => (Traced(id, e)' <=> Traced(id, e))
  BY <1>2 DEF Traced, Inv, TypeOK, StreamOK
<1>9. to[1] # 0 => to[1] \in RunIds /\ Traced(to[1], e)'
  <2>. SUFFICES ASSUME to[1] # 0  PROVE to[1] \in RunIds /\ Traced(to[1], e)'
    OBVIOUS
  <2>1. PICK i \in RunIds : i = to[1] BY <1>2 DEF Subscribers
  <2>2. PICK old, h : old = traces[i] /\ h = Len(old)
    OBVIOUS
  <2>3. /\ old \in Seq(1..Len(made)) /\ traces \in [RunIds -> Seq(1..Len(made))]
    BY <2>2 DEF Inv, TypeOK, StreamOK
  <2>4. traces'[i] = Append(old, e) BY <1>2, <1>4, <2>1, <2>2, <2>3
  <2>5. Len(Append(old, e)) = h + 1 /\ Append(old, e)[h + 1] = e /\ h \in Nat
    BY <1>5, <2>2, <2>3, AppendProperties, LenProperties
  <2>6. h + 1 \in 1..Len(traces'[i]) BY <2>4, <2>5
  <2>. QED BY <2>1, <2>4, <2>5, <2>6 DEF Traced
<1>10. \A id \in RunIds : Traced(id, e) => Traced(id, e)'
  <2>. SUFFICES ASSUME NEW id \in RunIds, Traced(id, e)  PROVE Traced(id, e)'
    OBVIOUS
  <2>1. CASE id # to[1] BY <1>8, <2>1
  <2>2. CASE id = to[1] BY <1>9, <2>2, RunsOfType DEF Traced
  <2>. QED BY <2>1, <2>2
<1>11. RunsOf(t) \subseteq RunIds /\ \A k \in 1..Len(to) : to[k] # 0 => to[k] \in RunIds
  BY ElementOfSeq, RunsOfType DEF Subscribers
<1>12. Distinct(c.to)
  <2>. SUFFICES ASSUME NEW k \in 1..m, NEW l \in 1..m, k # l  PROVE c.to[k] # c.to[l]
    BY <1>7 DEF Distinct
  <2>1. k + 1 # l + 1 OBVIOUS
  <2>. QED BY <1>2, <1>5, <1>7, <2>1 DEF Distinct
<1>13. \A k \in 1..m : c.to[k] # 0 => ~Traced(c.to[k], e)' /\ (t = Flow => c.to[k] \in RunsOf(t))
  <2>. SUFFICES ASSUME NEW k \in 1..m, c.to[k] # 0
                PROVE  ~Traced(c.to[k], e)' /\ (t = Flow => c.to[k] \in RunsOf(t))
    OBVIOUS
  <2>1. PICK i, n : n = k + 1 /\ i = c.to[k] /\ i = to[n] /\ n \in 1..Len(to) /\ n # 1
                    /\ 1 \in 1..Len(to)
    BY <1>2, <1>7
  <2>2. i \in RunIds /\ ~Traced(i, e) /\ (t = Flow => i \in RunsOf(t)) /\ i # to[1]
    BY <1>5, <1>11, <2>1 DEF Distinct
  <2>3. ~Traced(i, e)' BY <1>8, <2>2
  <2>. QED BY <2>1, <2>2, <2>3 DEF Traced
<1>14. ASSUME NEW id \in RunsOf(t), Collecting(id)
       PROVE  Traced(id, e)' \/ \E k \in 1..m : c.to[k] = id
  <2>1. id \in RunIds /\ id # 0
    BY <1>11, RunsOfType
  <2>2. Traced(id, e) \/ \E k \in 1..Len(to) : to[k] = id
    BY <1>5, <1>14
  <2>3. CASE Traced(id, e) BY <1>10, <2>1, <2>3
  <2>4. ASSUME NEW k \in 1..Len(to), to[k] = id
        PROVE  Traced(id, e)' \/ \E l \in 1..m : c.to[l] = id
    <3>1. CASE k = 1 BY <1>9, <2>1, <2>4, <3>1 DEF Traced
    <3>2. CASE k # 1
      <4>1. k - 1 \in 1..m /\ (k - 1) + 1 = k
        BY <1>2, <1>7, <2>4, <3>2
      <4>2. c.to[k - 1] = id BY <1>7, <2>4, <4>1
      <4>. QED BY <4>1, <4>2
    <3>. QED BY <3>1, <3>2
  <2>. QED BY <2>2, <2>3, <2>4
<1>15. Collects(t, c)'
  <2>1. c.at \in {"return", "deliver"} /\ (c.at = "return" => \A k \in 1..m : FALSE)
    BY <1>1, <1>7, EmptySeq
  <2>2. made'[c.event].for = RunsOf(t)' BY <1>3, <1>4, <1>5, <1>6
  <2>3. \A k \in 1..Len(c.to) : c.to[k] # 0 =>
          ~Traced(c.to[k], c.event)' /\ (t = Flow => c.to[k] \in RunsOf(t)')
    BY <1>4, <1>6, <1>7, <1>13 DEF Traced
  <2>4. \A id \in RunsOf(t)' : Collecting(id)' =>
          /\ c.at = "deliver" => Traced(id, c.event)' \/ \E k \in 1..Len(c.to) : c.to[k] = id
          /\ c.at = "return" => Traced(id, c.event)' \/ c.kind = "payload"
    BY <1>4, <1>6, <1>7, <1>14, <2>1 DEF Traced
  <2>. QED BY <1>12, <2>1, <2>2, <2>3, <2>4 DEF Collects
<1>. QED BY <1>1, <1>2, <1>3, <1>15, InnerCollect

\* The events that t was delivering are refused.
LEMMA RaiseCollect ==
  ASSUME Inv, CollectInv, NEW t \in Threads, Raise(t)
  PROVE  CollectInv'
<1>1. /\ made' = made /\ calling[t] # <<>> /\ CallsOK /\ UNCHANGED <<started, working>>
      /\ refused' = refused \cup {calling[t][n].event : n \in DOMAIN calling[t]}
      /\ calling' = [calling EXCEPT ![t] = <<>>]
  BY DEF Raise, Heard, Step, stream, tools, Inv, TypeOK
<1>2. calling'[t] = <<>> /\ \A u \in Threads \ {t} : calling'[u] = calling[u]
  BY <1>1 DEF CallsOK
<1>3. Tracing(t) BY CollectTracing DEF Tracing, Raise, Heard
<1>4. SameWork
  <2>1. CASE runs' = runs BY <1>1, <2>1 DEF SameWork, RunsOf, InProgress, Collecting
  <2>2. CASE t = Flow
    <3>1. runs # <<>> /\ RunsOK /\ Top \in RunType
      BY <1>1, <2>2, TopRun DEF Inv, TypeOK, CallInv
    <3>2. PICK f \in RunType : runs' = WithTop(f) /\ SameTraced(f, Top)
      BY <2>2, <3>1, FailedRun DEF Raise
    <3>3. /\ runs' \in Seq(RunType) /\ Len(runs') = Len(runs)
          /\ \A n \in 1..Len(runs) : SameTraced(runs'[n], runs[n])
      BY <3>1, <3>2, TopEdited
    <3>. QED BY <1>1, <3>3, WorkSame
  <2>. QED BY <2>1, <2>2 DEF Raise
<1>5. ASSUME NEW u \in Threads, NEW n \in 1..Len(calling'[u])  PROVE CollectOK(u, n)'
  BY <1>1, <1>2, <1>3, <1>4, <1>5, EmptySeq, CollectKept
<1>6. ASSUME NEW e \in 1..Len(made')  PROVE EventOK(e)'
  <2>1. EventOK(e) /\ made' = made /\ made[e].for \subseteq RunIds
    <3>1. made[e] \in EventType BY <1>1, <1>6, ElementOfSeq DEF Inv, TypeOK, StreamOK
    <3>. QED BY <1>1, <1>6, <3>1 DEF CollectInv, EventType
  <2>2. \A id \in RunIds : Traced(id, e) => Traced(id, e)'
    BY <1>1, <1>3, TracingTraced
  <2>3. ASSUME InDelivery(e)  PROVE InDelivery(e)' \/ e \in refused'
    <3>1. PICK u \in Threads : \E n \in 1..Len(calling[u]) : calling[u][n].event = e
      BY <2>3 DEF InDelivery
    <3>2. PICK n \in 1..Len(calling[u]) : calling[u][n].event = e BY <3>1
    <3>3. CASE u # t BY <1>2, <3>2, <3>3 DEF InDelivery
    <3>4. CASE u = t BY <1>1, <3>2, <3>4 DEF CallsOK
    <3>. QED BY <3>3, <3>4
  <2>4. \A id : Collecting(id)' => Collecting(id)
    BY <1>4 DEF SameWork
  <2>. QED BY <1>1, <2>1, <2>2, <2>3, <2>4 DEF EventOK
<1>7. \A id \in RunIds : TraceOK(id)'
  BY <1>1, <1>3, TracingTraced
<1>. QED BY <1>5, <1>6, <1>7 DEF CollectInv

LEMMA NumberCollect ==
  ASSUME Inv, JudgeInv, BatchInv, CollectInv, NEW t \in Threads, Number(t)
  PROVE  CollectInv'
<1>1. PICK m, id, d, e : m \in Nat \ {0} /\ Makes(t, m, id, d, e)
  BY NumberGoes
<1>2. /\ m \in Nat \ {0}
      /\ m = Len(calling[t]) /\ Len(calling'[t]) = m
      /\ id = Len(made) + 1 /\ Len(made) \in Nat /\ Len(made') = id /\ made'[id] = e
      /\ \A k \in 1..Len(made) : made'[k] = made[k]
      /\ calling'[t][m] = d /\ d.event = id /\ d.at \in {"observe", "call"}
      /\ calling[t][m].event = 0
      /\ \A n \in 1..m - 1 : /\ calling'[t][n] = calling[t][n]
                             /\ calling[t][n].event \in 1..Len(made)
      /\ \A u \in Threads \ {t} : calling'[u] = calling[u]
      /\ e.by = t /\ e.for = RunsOf(t)
  BY <1>1 DEF Makes
<1>3. UNCHANGED <<traces, refused, runs, working, started>>
      /\ \A i, k : Traced(i, k)' <=> Traced(i, k)
  BY DEF Number, hosts, tools, Traced
<1>4. \A i \in RunIds : TraceOK(i) /\ \A k \in 1..Len(traces[i]) : traces[i][k] \in 1..Len(made)
  <2>. SUFFICES ASSUME NEW i \in RunIds
                PROVE  TraceOK(i) /\ \A k \in 1..Len(traces[i]) : traces[i][k] \in 1..Len(made)
    OBVIOUS
  <2>1. traces[i] \in Seq(1..Len(made)) BY DEF Inv, TypeOK, StreamOK
  <2>. QED BY <2>1, ElementOfSeq DEF CollectInv
<1>5. /\ \A k \in 1..Len(made') : k \in 1..Len(made) \/ k = id
      /\ id \notin 1..Len(made)
  BY <1>2
<1>6. SameWork BY <1>3 DEF SameWork, RunsOf, InProgress, Collecting
<1>7. ASSUME NEW u \in Threads, NEW n \in 1..Len(calling[u]), u # t \/ n < m
      PROVE  CollectOK(u, n)'
  <2>1. calling'[u][n] = calling[u][n] /\ \A k \in 1..n : calling'[u][k] = calling[u][k]
    <3>1. CASE u # t BY <1>2, <3>1
    <3>2. CASE u = t BY <1>2, <1>7, <3>2
    <3>. QED BY <3>1, <3>2
  <2>. SUFFICES ASSUME Numbered(calling[u][n])
                PROVE  /\ Collects(u, calling[u][n])'
                       /\ \A k \in 1..n - 1 : calling'[u][k].event # calling'[u][n].event
    BY <2>1 DEF CollectOK, Numbered
  <2>2. PICK c \in CallType : c = calling[u][n] /\ c = calling'[u][n]
    BY <2>1, ElementOfSeq DEF Inv, TypeOK, CallsOK
  <2>3. CollectOK(u, n) /\ CallOK(u, n)
    BY <1>7 DEF CollectInv, Inv, CallInv
  <2>4. Collects(u, c) /\ c.event \in 1..Len(made)
    BY <2>2, <2>3 DEF CollectOK, CallOK
  <2>5. Collects(u, c)' BY <1>2, <1>3, <1>6, <2>4, CollectsSame DEF Traced, SameWork
  <2>6. \A k \in 1..n - 1 : calling'[u][k].event # calling'[u][n].event
    BY <2>1, <2>3 DEF CollectOK
  <2>7. Collects(u, calling[u][n])' <=> Collects(u, c)'
    BY <2>2 DEF Collects, Traced
  <2>. QED BY <2>5, <2>6, <2>7
<1>8. CollectOK(t, m)'
  <2>1. \A i \in RunIds : ~Traced(i, id)'
    BY <1>3, <1>4, <1>5 DEF Traced
  <2>2. Collects(t, d)'
    <3>1. made'[d.event].for = RunsOf(t)' BY <1>2, <1>6 DEF SameWork
    <3>2. \A i \in RunIds : ~Traced(i, d.event)'
      BY <1>2, <2>1 DEF Traced
    <3>. QED BY <1>2, <3>1, <3>2 DEF Collects
  <2>3. \A n \in 1..m - 1 : calling'[t][n].event # calling'[t][m].event
    BY <1>2, <1>5
  <2>4. Collects(t, calling[t][m])' <=> Collects(t, d)'
    BY <1>2 DEF Collects, Traced
  <2>. QED BY <2>2, <2>3, <2>4 DEF CollectOK
<1>9. ASSUME NEW u \in Threads, NEW n \in 1..Len(calling'[u])  PROVE CollectOK(u, n)'
  <2>1. CASE u # t BY <1>2, <1>7, <1>9, <2>1
  <2>2. CASE u = t /\ n # m
    BY <1>2, <1>7, <1>9, <2>2
  <2>3. CASE u = t /\ n = m
    BY <1>8, <2>3
  <2>. QED BY <2>1, <2>2, <2>3
<1>10. \A i \in RunsOf(t) : i <= started
  <2>1. \A i \in InProgress : i <= started
    BY LenProperties DEF Inv, TypeOK, RunsOK, InProgress, JudgeInv, RunsInTurn
  <2>2. \A w \in Workers : \A i \in working[w].for : i <= started
    BY DEF BatchInv, WorkerOK
  <2>. QED BY <2>1, <2>2 DEF RunsOf, Threads
<1>11. ASSUME NEW k \in 1..Len(made')  PROVE EventOK(k)'
  <2>1. CASE k = id BY <1>2, <1>3, <1>10, <2>1 DEF InDelivery, EventOK
  <2>2. CASE k \in 1..Len(made)
    <3>1. EventOK(k) /\ made'[k] = made[k]
      BY <1>2, <2>2 DEF CollectInv
    <3>2. ASSUME InDelivery(k)  PROVE InDelivery(k)'
      <4>1. PICK u \in Threads : \E n \in 1..Len(calling[u]) : calling[u][n].event = k
        BY <3>2 DEF InDelivery
      <4>2. PICK n \in 1..Len(calling[u]) : calling[u][n].event = k BY <4>1
      <4>3. u # t \/ n # m
        BY <1>2, <2>2, <4>2
      <4>4. n \in 1..Len(calling'[u]) /\ calling'[u][n] = calling[u][n]
        <5>1. CASE u # t BY <1>2, <4>2, <5>1
        <5>2. CASE u = t BY <1>2, <4>2, <4>3, <5>2
        <5>. QED BY <5>1, <5>2
      <4>. QED BY <4>2, <4>4 DEF InDelivery
    <3>. QED BY <1>3, <1>6, <3>1, <3>2 DEF EventOK, SameWork
  <2>. QED BY <1>5, <1>11, <2>1, <2>2
<1>12. ASSUME NEW i \in RunIds  PROVE TraceOK(i)'
  <2>1. \A k \in 1..Len(traces[i]) : made'[traces[i][k]] = made[traces[i][k]]
    BY <1>2, <1>4
  <2>. QED BY <1>3, <1>4, <2>1 DEF TraceOK
<1>. QED BY <1>9, <1>11, <1>12 DEF CollectInv

-------------------------------------------------------------
(* The steps between the calls.                                            *)

\* Nobody collects anything, and no run that has begun starts to; a thread
\* without a call may begin one, or turn to other work.
LEMMA CalmCollect ==
  ASSUME Inv, CollectInv, UNCHANGED <<made, refused, traces>>,
         started <= started', started' \in Nat,
         \A id : id <= started /\ Collecting(id)' => Collecting(id),
         \A u \in Threads :
           \/ calling'[u] = calling[u] /\ (calling[u] # <<>> => RunsOf(u)' = RunsOf(u))
           \/ calling[u] = <<>> /\ \A n \in 1..Len(calling'[u]) : ~Numbered(calling'[u][n])
  PROVE  CollectInv'
<1>1. \A id, e : Traced(id, e)' <=> Traced(id, e)
  BY DEF Traced
<1>2. started \in Nat BY EventBoundAssumption DEF Inv, TypeOK, RunsOK
<1>3. ASSUME NEW u \in Threads, NEW n \in 1..Len(calling'[u])  PROVE CollectOK(u, n)'
  <2>1. CASE ~Numbered(calling'[u][n]) BY <2>1 DEF CollectOK, Numbered
  <2>2. CASE Numbered(calling'[u][n])
    <3>1. calling'[u] = calling[u] BY <1>3, <2>2
    <3>2. n \in 1..Len(calling[u]) /\ CollectOK(u, n) /\ CallOK(u, n) /\ calling[u] # <<>>
      BY <1>3, <3>1, EmptySeq DEF CollectInv, Inv, CallInv
    <3>3. PICK c \in CallType : c = calling[u][n] /\ c = calling'[u][n]
      BY <3>1, <3>2, ElementOfSeq DEF Inv, TypeOK, CallsOK
    <3>4. Numbered(c) /\ Collects(u, c) /\ c.event \in 1..Len(made)
      BY <2>2, <3>2, <3>3 DEF CollectOK, CallOK
    <3>5. RunsOf(u)' = RunsOf(u) BY <3>1, <3>2
    <3>6. \A id \in RunsOf(u) : Collecting(id)' => Collecting(id)
      BY <3>4 DEF Collects, CollectInv, EventOK
    <3>7. made'[c.event] = made[c.event] OBVIOUS
    <3>8. \A id \in RunIds : Traced(id, c.event)' <=> Traced(id, c.event)
      BY DEF Traced
    <3>9. Collects(u, c)' BY <3>4, <3>5, <3>6, <3>7, <3>8, CollectsSame
    <3>10. Collects(u, calling[u][n])' <=> Collects(u, c)'
      BY <3>3 DEF Collects, Traced
    <3>11. \A m \in 1..n - 1 : calling'[u][m].event # calling'[u][n].event
      BY <3>1, <3>2, <3>3, <3>4 DEF CollectOK
    <3>. QED BY <3>9, <3>10, <3>11 DEF CollectOK
  <2>. QED BY <2>1, <2>2
<1>4. ASSUME NEW e \in 1..Len(made')  PROVE EventOK(e)'
  <2>1. EventOK(e) /\ made[e].for \subseteq Nat
    <3>1. e \in 1..Len(made) /\ made \in Seq(EventType)
      BY <1>4 DEF Inv, TypeOK, StreamOK
    <3>2. made[e] \in EventType BY <3>1, ElementOfSeq
    <3>. QED BY <3>1, <3>2 DEF CollectInv, EventType, RunIds
  <2>2. ASSUME InDelivery(e)  PROVE InDelivery(e)'
    <3>1. PICK u \in Threads : \E n \in 1..Len(calling[u]) : calling[u][n].event = e
      BY <2>2 DEF InDelivery
    <3>2. PICK n \in 1..Len(calling[u]) : calling[u][n].event = e BY <3>1
    <3>3. calling[u] # <<>> BY <3>2, EmptySeq
    <3>4. calling'[u] = calling[u] BY <3>3
    <3>. QED BY <3>2, <3>4 DEF InDelivery
  <2>3. ASSUME NEW id \in made[e].for
        PROVE  /\ id <= started'
               /\ Collecting(id)' => \/ InDelivery(e)' \/ e \in refused' \/ Traced(id, e)'
                                     \/ made'[e].kind = "payload"
    BY <1>1, <1>2, <2>1, <2>2, <2>3 DEF EventOK
  <2>. QED BY <2>3 DEF EventOK
<1>5. \A id \in RunIds : TraceOK(id)'
  BY DEF CollectInv, TraceOK
<1>. QED BY <1>3, <1>4, <1>5 DEF CollectInv

\* A thread begins a call.
LEMMA BeginCollect ==
  ASSUME Inv, CollectInv, Silence, NEW t \in Threads, calling[t] = <<>>,
         NEW kind \in Kinds, NEW of \in Nat, Calls(t, kind, of), SameWork, started' = started
  PROVE  CollectInv'
<1>1. /\ \A u \in Threads \ {t} : calling'[u] = calling[u]
      /\ calling'[t] \in {<<>>, <<Call(t, kind, of)>>}
  BY CallsInv
<1>2. \A n \in 1..Len(calling'[t]) : ~Numbered(calling'[t][n])
  <2>1. CASE calling'[t] = <<>> BY <2>1, EmptySeq
  <2>2. CASE calling'[t] = <<Call(t, kind, of)>> BY <2>2 DEF Numbered, Call
  <2>. QED BY <1>1, <2>1, <2>2
<1>3. UNCHANGED <<made, refused, traces>> BY DEF Silence, stream, hosts
<1>4. started \in Nat /\ started <= started'
  BY EventBoundAssumption DEF Inv, TypeOK, RunsOK
<1>5. /\ \A u \in Threads : RunsOf(u)' = RunsOf(u)
      /\ \A id : Collecting(id)' => Collecting(id)
  BY DEF SameWork
<1>. QED BY <1>1, <1>2, <1>3, <1>4, <1>5, CalmCollect

\* Nobody begins a call, and the runs in progress go on.
LEMMA QuietCollect ==
  ASSUME Inv, CollectInv, UNCHANGED <<made, refused, traces, calling, started>>, SameWork
  PROVE  CollectInv'
<1>1. started \in Nat /\ started <= started'
  BY EventBoundAssumption DEF Inv, TypeOK, RunsOK
<1>. QED BY <1>1, CalmCollect DEF SameWork

-------------------------------------------------------------
(* The steps of a flow.                                                    *)

\* The innermost run goes on as f.
LEMMA TopWork ==
  ASSUME Inv, Inv', UNCHANGED working, runs # <<>>, NEW f, runs' = WithTop(f), SameTraced(f, Top)
  PROVE  SameWork
<1>1. RunsOK /\ runs \in Seq(RunType) /\ runs' \in Seq(RunType)
  BY DEF Inv, TypeOK, RunsOK
<1>2. PICK S : S = RunType \cup {f} OBVIOUS
<1>3. runs \in Seq(S) /\ f \in S
  BY <1>1, <1>2, ElementOfSeq, LenProperties, FunctionIsSeq
<1>4. /\ Len(runs') = Len(runs) /\ runs'[Len(runs)] = f
      /\ \A n \in 1..Len(runs) - 1 : runs'[n] = runs[n]
  BY <1>3, FrontAppend DEF WithTop
<1>5. Len(runs) \in 1..Len(runs) BY <1>1, TopRun
<1>6. f \in RunType BY <1>1, <1>4, <1>5, ElementOfSeq
<1>. QED BY <1>1, <1>6, TopEdited, WorkSame

LEMMA FlowCollect ==
  ASSUME Inv, Inv', CollectInv, UNCHANGED <<made, refused, traces, calling, started, working>>,
         runs # <<>>, NEW f, runs' = WithTop(f), SameTraced(f, Top)
  PROVE  CollectInv'
BY TopWork, QuietCollect

LEMMA SaysCollect ==
  ASSUME Inv, Inv', CollectInv, Says
  PROVE  CollectInv'
<1>1. PICK t, kind, of :
        /\ t = Flow /\ kind = Head(Top.todo).kind /\ of = Head(Top.todo).of
  OBVIOUS
<1>2. /\ Silence /\ t \in Threads /\ calling[t] = <<>> /\ Calls(t, kind, of) /\ kind \in Kinds
      /\ UNCHANGED <<started, working>>
  BY <1>1 DEF Says, Idle, Silence, Threads, tools
<1>3. RunsOK /\ runs # <<>> /\ Top.todo # <<>> /\ runs' = WithTop(Done)
  BY DEF Inv, TypeOK, Says, Idle
<1>4. Head(Top.todo) \in Item /\ SameTraced(Done, Top)
  BY <1>3, DoneRun
<1>5. of \in Nat BY <1>1, <1>4 DEF Item
<1>6. SameWork BY <1>2, <1>3, <1>4, TopWork
<1>. QED BY <1>2, <1>5, <1>6, BeginCollect

LEMMA ItemsCollect ==
  ASSUME Inv, Inv', CollectInv, Record \/ Submit \/ Join \/ Abandon
  PROVE  CollectInv'
<1>1. /\ UNCHANGED <<made, refused, traces, calling, started, working>>
      /\ runs # <<>> /\ Top.todo # <<>> /\ RunsOK
      /\ runs' = WithTop(Done) \/ runs' = WithTop(Failed(Top))
  BY DEF Record, Submit, Join, Abandon, Runs, Due, Idle, stream, hosts, tools, Inv, TypeOK
<1>2. SameTraced(Done, Top) /\ SameTraced(Failed(Top), Top)
  BY <1>1, DoneRun, FailedRun, TopRun
<1>. QED BY <1>1, <1>2, FlowCollect

LEMMA AnswerCollect ==
  ASSUME Inv, CollectInv, Answer
  PROVE  CollectInv'
<1>1. UNCHANGED <<made, refused, traces, calling, started, working>>
  BY DEF Answer, stream, hosts, tools
<1>2. SameWork BY <1>1, AnswerRuns, WorkSame
<1>. QED BY <1>1, <1>2, QuietCollect

LEMMA NodeCollect ==
  ASSUME Inv, Inv', CollectInv,
         VisitModel \/ VisitAgent \/ VisitTools \/ \E how \in {"end", "raised"} : Conclude(how)
  PROVE  CollectInv'
<1>1. runs # <<>> /\ Top \in RunType
  BY TopRun DEF Inv, TypeOK, VisitModel, VisitAgent, VisitTools, Visit, Conclude, Between, Idle
<1>2. ASSUME NEW body, Visit(body)  PROVE CollectInv'
  <2>1. PICK n, todo : runs' = WithTop([Top EXCEPT !.visits = n, !.todo = todo])
    BY <1>2 DEF Visit
  <2>2. PICK f : f = [Top EXCEPT !.visits = n, !.todo = todo] OBVIOUS
  <2>3. SameTraced(f, Top) BY <1>1, <2>2 DEF SameTraced, RunType
  <2>4. UNCHANGED <<made, refused, traces, calling, started, working>>
    BY <1>2 DEF Visit, stream, hosts
  <2>. QED BY <1>1, <2>1, <2>2, <2>3, <2>4, FlowCollect
<1>3. ASSUME NEW how, Conclude(how)  PROVE CollectInv'
  <2>1. PICK todo : runs' = WithTop([Top EXCEPT !.over = TRUE, !.how = how, !.todo = todo])
    BY <1>3 DEF Conclude
  <2>2. PICK f : f = [Top EXCEPT !.over = TRUE, !.how = how, !.todo = todo] OBVIOUS
  <2>3. SameTraced(f, Top) BY <1>1, <2>2 DEF SameTraced, RunType
  <2>4. UNCHANGED <<made, refused, traces, calling, started, working>>
    BY <1>3 DEF Conclude, stream, hosts, tools
  <2>. QED BY <1>1, <2>1, <2>2, <2>3, <2>4, FlowCollect
<1>. QED BY <1>2, <1>3 DEF VisitModel, VisitAgent, VisitTools

\* A run begins: nothing that was made is of it.
LEMMA EnterCollect ==
  ASSUME Inv, CollectInv, NEW traced \in BOOLEAN, Enter(traced)
  PROVE  CollectInv'
<1>1. /\ UNCHANGED <<made, refused, traces, calling, working>> /\ calling[Flow] = <<>>
      /\ started' = started + 1 /\ started \in Nat /\ runs \in Seq(RunType)
  BY EventBoundAssumption DEF Inv, TypeOK, RunsOK, Enter, stream, hosts, tools
<1>2. PICK run, base : Entered(run, base, traced) BY EnterRuns
<1>3. PICK m \in Nat : m = Len(runs) BY <1>1, LenProperties
<1>4. Len(runs') = m + 1 /\ runs'[m + 1] = run /\ \A n \in 1..m : runs'[n] = base[n]
  BY <1>2, <1>3, AppendProperties DEF Entered
<1>5. ASSUME NEW id, id <= started, Collecting(id)'  PROVE Collecting(id)
  <2>1. PICK n \in 1..m + 1 : runs'[n].id = id /\ runs'[n].traced
    BY <1>4, <1>5 DEF Collecting
  <2>2. CASE n = m + 1 BY <1>1, <1>2, <1>4, <1>5, <2>1, <2>2 DEF Entered
  <2>3. CASE n # m + 1
    BY <1>2, <1>3, <1>4, <2>1, <2>3 DEF Entered, SameTraced, Collecting
  <2>. QED BY <2>2, <2>3
<1>6. \A u \in Threads : calling[u] # <<>> => RunsOf(u)' = RunsOf(u)
  BY <1>1 DEF RunsOf
<1>7. started <= started' /\ started' \in Nat
  BY <1>1
<1>. QED BY <1>1, <1>5, <1>6, <1>7, CalmCollect

\* A run ends: those around it collect as before.
LEMMA LeaveCollect ==
  ASSUME Inv, CollectInv, Leave
  PROVE  CollectInv'
<1>1. /\ UNCHANGED <<made, refused, traces, calling, working, started>> /\ calling[Flow] = <<>>
      /\ started \in Nat /\ runs \in Seq(RunType)
  BY EventBoundAssumption DEF Inv, TypeOK, RunsOK, Leave, Idle, stream, hosts, tools
<1>2. PICK m \in Nat :
        /\ m = Len(runs) - 1 /\ Len(runs') = m
        /\ \A n \in 1..m : SameTraced(runs'[n], runs[n])
  BY LeaveRuns
<1>3. \A n \in 1..m : n \in 1..Len(runs)
  BY <1>1, <1>2, LenProperties
<1>4. \A id : Collecting(id)' => Collecting(id)
  BY <1>2, <1>3 DEF Collecting, SameTraced
<1>5. \A u \in Threads : calling[u] # <<>> => RunsOf(u)' = RunsOf(u)
  BY <1>1 DEF RunsOf
<1>6. started <= started' BY <1>1
<1>. QED BY <1>1, <1>4, <1>5, <1>6, CalmCollect

-------------------------------------------------------------
(* The steps of a tool.                                                    *)

LEMMA ToolCollect ==
  ASSUME Inv, CollectInv, NEW w \in Workers, InTool(w)
  PROVE  CollectInv'
<1>1. /\ UNCHANGED <<made, refused, traces, runs, started>> /\ Silence /\ started \in Nat
      /\ working \in [Workers -> [call : 0..called, for : SUBSET RunIds, told : BOOLEAN]]
      /\ w # Flow /\ w \in Threads /\ called \in Nat
  <2>1. /\ started \in Nat /\ called \in Nat
        /\ working \in [Workers -> [call : 0..called, for : SUBSET RunIds, told : BOOLEAN]]
    BY DEF Inv, TypeOK, RunsOK, ToolsOK
  <2>2. w # Flow /\ w \in Threads BY ThreadAssumption DEF Threads
  <2>3. UNCHANGED <<made, refused, traces, runs, started>> /\ Silence
    BY WorksInv, EventBoundAssumption DEF InTool, StartTool, Progress, EndTool, Works, stream, hosts
  <2>. QED BY <2>1, <2>2, <2>3
<1>2. InProgress' = InProgress /\ \A id : Collecting(id)' <=> Collecting(id)
  BY <1>1 DEF InProgress, Collecting
<1>3. CASE StartTool(w) \/ EndTool(w)
  <2>1. calling' = calling /\ calling[w] = <<>>
    <3>1. CASE EndTool(w) BY <3>1 DEF EndTool
    <3>2. CASE StartTool(w) BY <3>2 DEF StartTool, Resting, Inv, CallInv
    <3>. QED BY <1>3, <3>1, <3>2
  <2>2. \A u \in Threads \ {w} : RunsOf(u)' = RunsOf(u)
    BY <1>1, <1>2, <1>3 DEF StartTool, EndTool, RunsOf, Threads
  <2>3. started <= started' /\ started' \in Nat
    BY <1>1
  <2>. QED BY <1>1, <1>2, <2>1, <2>2, <2>3, CalmCollect
<1>4. CASE Progress(w)
  <2>1. PICK kind, of : kind = "progress" /\ of = working[w].call
    OBVIOUS
  <2>2. /\ Calls(w, kind, of) /\ kind \in Kinds /\ of \in Nat /\ ~working[w].told
        /\ working' = [working EXCEPT ![w].told = TRUE]
    BY <1>1, <1>4, <2>1 DEF Progress, Kinds, Notified
  <2>3. calling[w] = <<>> BY <2>2 DEF Inv, CallInv
  <2>4. \A v \in Workers : working'[v].for = working[v].for
    BY <1>1, <2>2
  <2>5. SameWork BY <1>2, <2>4 DEF SameWork, RunsOf, Threads
  <2>. QED BY <1>1, <2>2, <2>3, <2>5, BeginCollect
<1>. QED BY <1>3, <1>4 DEF InTool

-------------------------------------------------------------
LEMMA CollectInit ==
  ASSUME Init
  PROVE  CollectInv
<1>1. made = <<>> /\ \A t \in Threads : calling[t] = <<>>
  BY DEF Init
<1>2. \A id \in RunIds : traces[id] = <<>>
  BY DEF Init
<1>3. Len(<<>>) = 0 OBVIOUS
<1>. QED BY <1>1, <1>2, <1>3 DEF CollectInv, TraceOK, Distinct

LEMMA CollectStep ==
  ASSUME Inv, Inv', JudgeInv, BatchInv, CollectInv, [Next]_vars
  PROVE  CollectInv'
<1>1. CASE \E t \in Threads : InCall(t)
  BY <1>1, AcquireCollect, NumberCollect, ObserveCollect, ReadCollect, DeliverCollect,
     ReturnCollect, RaiseCollect
     DEF InCall
<1>2. CASE InFlow
  BY <1>2, EnterCollect, NodeCollect, LeaveCollect, SaysCollect, ItemsCollect, AnswerCollect
     DEF InFlow
<1>3. CASE \E w \in Workers : InTool(w)
  BY <1>3, ToolCollect
<1>4. CASE UNCHANGED vars
  <2>1. UNCHANGED <<made, refused, traces, calling, started, runs, working>>
    BY <1>4 DEF vars, stream, hosts, tools
  <2>2. SameWork BY <2>1 DEF SameWork, RunsOf, InProgress, Collecting
  <2>. QED BY <2>1, <2>2, QuietCollect
<1>. QED BY <1>1, <1>2, <1>3, <1>4 DEF Next, Stop

LEMMA AlwaysCollect == Spec => []CollectInv
<1>1. Init => CollectInv
  BY CollectInit
<1>2. Inv /\ Inv' /\ JudgeInv /\ BatchInv /\ CollectInv /\ [Next]_vars => CollectInv'
  BY CollectStep
<1>. QED BY <1>1, <1>2, AlwaysInv, AlwaysJudge, AlwaysBatch, PTL DEF Spec

-------------------------------------------------------------
(* What the host is handed.                                                *)

\* What is made once a run has ended is not of it.
LEMMA CompleteStays ==
  ASSUME Grows, refused \subseteq refused', NEW o, Complete(o),
         \A e \in 1..Len(made') : e \in 1..Len(made) \/ o.id \notin made'[e].for
  PROVE  Complete(o)'
<1>1. \A k \in 1..Len(o.trace) :
        /\ o.trace[k] \in 1..Len(made') /\ made'[o.trace[k]] = made[o.trace[k]]
  BY DEF Complete, Grows
<1>2. ASSUME NEW e \in 1..Len(made'), o.id \in made'[e].for
      PROVE  \/ e \in refused' \/ made'[e].kind = "payload" \/ ~Included(made'[e].kind)
             \/ \E k \in 1..Len(o.trace) : o.trace[k] = e
  BY <1>2 DEF Grows, Complete
<1>. QED BY <1>1, <1>2 DEF Complete

LEMMA LeftStays ==
  ASSUME Inv, JudgeInv, LeftTraced, Grows, refused \subseteq refused',
         \A e \in 1..Len(made') :
           e \in 1..Len(made) \/ \E t \in Threads : made'[e].for = RunsOf(t),
         \A w \in Workers : working'[w].for \subseteq working[w].for \cup InProgress,
         NEW o \in left, o.how = "end"
  PROVE  /\ \A w \in Workers : o.id \notin working'[w].for
         /\ o.traced => Complete(o)'
<1>1. o.id \notin InProgress
  BY LenProperties DEF Inv, TypeOK, RunsOK, InProgress, JudgeInv, LeftOK
<1>2. \A t \in Threads : o.id \notin RunsOf(t)
  BY <1>1 DEF LeftTraced, RunsOf, Threads
<1>3. \A w \in Workers : o.id \notin working'[w].for
  BY <1>1 DEF LeftTraced
<1>4. \A e \in 1..Len(made') : e \in 1..Len(made) \/ o.id \notin made'[e].for
  BY <1>2
<1>5. o.traced => Complete(o)
  BY DEF LeftTraced
<1>. QED BY <1>3, <1>4, <1>5, CompleteStays

\* A run that ends by itself has joined its tools, and nothing of it is under
\* way any more.
LEMMA OutcomeTraced ==
  ASSUME Inv, JudgeInv, BatchInv, CollectInv, Leave, NEW o, o = Outcome(Top), o.how = "end"
  PROVE  /\ \A w \in Workers : o.id \notin working[w].for
         /\ o.traced => Complete(o)
<1>1. /\ runs # <<>> /\ calling[Flow] = <<>> /\ Top.todo = <<>> /\ RunsOK
      /\ Top = runs[Len(runs)] /\ Len(runs) \in 1..Len(runs) /\ Top \in RunType
  BY TopRun DEF Leave, Idle, Inv, TypeOK
<1>2. PICK id \in RunIds : id = Top.id /\ id \in Nat
  BY <1>1, RunIdType DEF RunType
<1>3. /\ o.id = id /\ Top.how = "end" /\ o.traced = Top.traced
      /\ o.trace = Selected(traces[id])
  BY <1>2 DEF Outcome
<1>4. ASSUME NEW w \in Workers  PROVE id \notin working[w].for
  <2>1. id \in InProgress BY <1>1, <1>2, LenProperties DEF RunsOK, InProgress
  <2>2. open = {} BY <1>1, BatchIdle DEF TopTodo
  <2>3. ~Failing BY <1>3 DEF Failing
  <2>. QED BY <2>1, <2>2, <2>3 DEF BatchInv, WorkerOK
<1>5. \A e \in 1..Len(made) : id \in made[e].for => ~InDelivery(e)
  <2>. SUFFICES ASSUME NEW e \in 1..Len(made), id \in made[e].for,
                       NEW t \in Threads, NEW n \in 1..Len(calling[t]), calling[t][n].event = e
                PROVE  FALSE
    BY DEF InDelivery
  <2>1. e # 0 OBVIOUS
  <2>2. CallOK(t, n) /\ CollectOK(t, n)
    BY DEF Inv, CallInv, CollectInv
  <2>3. Numbered(calling[t][n]) BY <2>1, <2>2 DEF CallOK
  <2>4. made[e].for = RunsOf(t) BY <2>2, <2>3 DEF CollectOK, Collects
  <2>5. t # Flow BY <1>1, EmptySeq
  <2>. QED BY <1>4, <2>4, <2>5 DEF RunsOf, Threads
<1>6. ASSUME Top.traced  PROVE Complete(o)
  <2>1. PICK trace : trace = traces[id] OBVIOUS
  <2>2. /\ trace \in Seq(1..Len(made)) /\ trace \in Seq(Nat) /\ Distinct(trace)
        /\ \A k \in 1..Len(trace) :
             trace[k] \in 1..Len(made) /\ (made[trace[k]].by = Flow => id \in made[trace[k]].for)
    <3>1. trace \in Seq(1..Len(made)) /\ TraceOK(id) /\ Len(made) \in Nat
      BY <2>1, LenProperties DEF Inv, TypeOK, StreamOK, CollectInv
    <3>2. \A k \in 1..Len(trace) : trace[k] \in 1..Len(made)
      BY <3>1, ElementOfSeq
    <3>3. trace \in Seq(Nat) BY <3>1, <3>2, LenProperties, FunctionIsSeq
    <3>. QED BY <2>1, <3>1, <3>2, <3>3 DEF TraceOK
  <2>3. PICK s : s = Selected(trace) OBVIOUS
  <2>4. /\ s \in Seq(Nat) /\ Distinct(s)
        /\ \A k \in 1..Len(s) : \E i \in 1..Len(trace) : s[k] = trace[i]
        /\ \A i \in 1..Len(trace) : Included(made[trace[i]].kind) =>
             \E k \in 1..Len(s) : s[k] = trace[i]
    <3>1. trace \in Seq(Nat) /\ Distinct(trace)
      BY <2>2
    <3>. QED BY ONLY <2>3, <3>1, SelectedIs
  <2>5. o.trace = s
    <3>1. Selected(trace) = Selected(traces[id]) BY <2>1, Zenon DEF Selected
    <3>. QED BY ONLY <1>3, <2>3, <3>1
  <2>6. ASSUME NEW k \in 1..Len(s)
        PROVE  s[k] \in 1..Len(made) /\ (made[s[k]].by = Flow => id \in made[s[k]].for)
    <3>1. PICK i \in 1..Len(trace) : s[k] = trace[i] BY <2>4
    <3>. QED BY <2>2, <3>1
  <2>7. ASSUME NEW e \in 1..Len(made), id \in made[e].for
        PROVE  \/ e \in refused \/ made[e].kind = "payload" \/ ~Included(made[e].kind)
               \/ \E k \in 1..Len(s) : s[k] = e
    <3>1. Collecting(id) BY <1>1, <1>2, <1>6 DEF Collecting
    <3>2. e \in refused \/ Traced(id, e) \/ made[e].kind = "payload"
      BY <1>5, <2>7, <3>1 DEF CollectInv, EventOK
    <3>3. ASSUME Traced(id, e), Included(made[e].kind)
          PROVE  \E k \in 1..Len(s) : s[k] = e
      <4>1. PICK i \in 1..Len(trace) : trace[i] = e BY <2>1, <3>3 DEF Traced
      <4>. QED BY <2>4, <3>3, <4>1
    <3>. QED BY <3>2, <3>3
  <2>. QED BY <1>3, <2>4, <2>5, <2>6, <2>7 DEF Complete
<1>. QED BY <1>3, <1>4, <1>6

LEMMA LeftStep ==
  ASSUME Inv, JudgeInv, BatchInv, CollectInv, LeftTraced, [Next]_vars
  PROVE  LeftTraced'
<1>1. made \in Seq(EventType) /\ Len(made) \in Nat
  BY LenProperties DEF Inv, TypeOK, StreamOK
<1>2. ASSUME left' = left, made' = made, refused \subseteq refused',
             \A w \in Workers : working'[w].for \subseteq working[w].for \cup InProgress
      PROVE  LeftTraced'
  BY <1>1, <1>2, LeftStays DEF Grows, LeftTraced
<1>3. CASE \E t \in Threads : InCall(t) /\ ~Number(t)
  <2>1. left' = left /\ made' = made /\ working' = working /\ refused \subseteq refused'
    BY <1>3 DEF InCall, Acquire, Observe, Read, Deliver, Return, Raise, stream, tools
  <2>. QED BY <1>2, <2>1
<1>4. CASE \E t \in Threads : Number(t)
  <2>1. PICK t \in Threads : Number(t) BY <1>4
  <2>2. PICK m \in Nat \ {0} : \E id, d, e : Makes(t, m, id, d, e)
    BY <2>1, NumberGoes
  <2>3. Grows /\ \A e \in 1..Len(made') : e \in 1..Len(made) \/ made'[e].for = RunsOf(t)
    BY <2>2 DEF Makes, Grows
  <2>4. UNCHANGED <<left, refused, working>> BY <2>1 DEF Number, tools
  <2>. QED BY <2>1, <2>3, <2>4, LeftStays DEF LeftTraced
<1>5. CASE InFlow /\ ~Leave
  <2>1. UNCHANGED <<left, made, refused, working>>
    BY <1>5 DEF InFlow, Enter, VisitModel, VisitAgent, VisitTools, Visit, Conclude, Says,
       Answer, Record, Submit, Join, Runs, Abandon, stream, tools
  <2>. QED BY <1>2, <2>1
<1>6. CASE Leave
  <2>1. UNCHANGED <<made, refused, working>> /\ left' = left \cup {Outcome(Top)}
    BY <1>6 DEF Leave, stream, tools
  <2>2. ASSUME NEW o \in left', o.how = "end"
        PROVE  /\ \A w \in Workers : o.id \notin working'[w].for
               /\ o.traced => Complete(o)'
    <3>1. CASE o \in left BY <1>1, <2>1, <2>2, <3>1, LeftStays DEF Grows
    <3>2. CASE o = Outcome(Top) BY <1>6, <2>1, <2>2, <3>2, OutcomeTraced DEF Complete
    <3>. QED BY <2>1, <2>2, <3>1, <3>2
  <2>. QED BY <2>2 DEF LeftTraced
<1>7. CASE \E w \in Workers : InTool(w)
  <2>1. PICK w \in Workers : InTool(w) BY <1>7
  <2>2. UNCHANGED <<left, made, refused>>
    BY <2>1 DEF InTool, StartTool, Progress, EndTool, Works, stream
  <2>3. ASSUME NEW v \in Workers
        PROVE  working'[v].for \subseteq working[v].for \cup InProgress
    <3>1. working \in [Workers -> [call : 0..called, for : SUBSET RunIds, told : BOOLEAN]]
      BY DEF Inv, TypeOK, ToolsOK
    <3>2. CASE StartTool(w) BY <3>1, <3>2 DEF StartTool, Resting
    <3>3. CASE Progress(w) BY <3>1, <3>3 DEF Progress
    <3>4. CASE EndTool(w) BY <3>1, <3>4 DEF EndTool, Resting
    <3>. QED BY <2>1, <3>2, <3>3, <3>4 DEF InTool
  <2>. QED BY <1>2, <2>2, <2>3
<1>8. CASE UNCHANGED vars BY <1>2, <1>8 DEF vars, stream, tools
<1>. QED BY <1>3, <1>4, <1>5, <1>6, <1>7, <1>8 DEF Next, Stop

LEMMA AlwaysLeftTraced == Spec => []LeftTraced
<1>1. Init => LeftTraced
  BY DEF Init, LeftTraced
<1>2. Inv /\ JudgeInv /\ BatchInv /\ CollectInv /\ LeftTraced /\ [Next]_vars => LeftTraced'
  BY LeftStep
<1>. QED BY <1>1, <1>2, AlwaysInv, AlwaysJudge, AlwaysBatch, AlwaysCollect, PTL DEF Spec

-------------------------------------------------------------
LEMMA TraceIsComplete ==
  ASSUME Inv, LeftTraced
  PROVE  TraceOfRun
<1>. SUFFICES ASSUME NEW o \in left, o.how = "end", o.traced,
                     NEW own, own = {e \in DOMAIN made : o.id \in made[e].for}
              PROVE  /\ OnceEach(o.trace)
                     /\ \A e \in own \ (refused \cup Range(o.trace)) :
                          made[e].kind = "payload" \/ ~Included(made[e].kind)
                     /\ \A e \in Range(o.trace) \ own : made[e].by \in Workers
  BY DEF TraceOfRun
<1>1. Complete(o) BY DEF LeftTraced
<1>2. PICK s : s = o.trace /\ s \in Seq(Nat) /\ Distinct(s)
  BY <1>1 DEF Complete
<1>3. made \in Seq(EventType) /\ DOMAIN made = 1..Len(made) /\ DOMAIN s = 1..Len(s)
  BY <1>2, LenProperties DEF Inv, TypeOK, StreamOK
<1>4. OnceEach(s) BY <1>2, OnceEachLemma DEF Distinct
<1>5. \A k \in 1..Len(s) : s[k] \in Range(s)
  BY <1>3 DEF Range
<1>6. ASSUME NEW e \in own, e \notin refused, e \notin Range(s)
      PROVE  made[e].kind = "payload" \/ ~Included(made[e].kind)
  BY <1>1, <1>2, <1>3, <1>5, <1>6 DEF Complete
<1>7. ASSUME NEW e \in Range(s), e \notin own  PROVE made[e].by \in Workers
  <2>1. PICK k \in 1..Len(s) : e = s[k] BY <1>3, <1>7 DEF Range
  <2>2. e \in 1..Len(made) /\ made[e].by # Flow
    BY <1>1, <1>2, <1>3, <1>7, <2>1 DEF Complete
  <2>3. made[e] \in EventType BY <1>3, <2>2, ElementOfSeq
  <2>. QED BY <2>2, <2>3 DEF EventType, Threads
<1>. QED BY <1>2, <1>4, <1>6, <1>7

\* node.py:287-300, 387-391: the trace that Flow.run returns has every event of
\* the run once, those of the runs inside it and of its tools' threads included,
\* and nothing else but what tools of cancelled runs still say: each traced run
\* puts itself behind the on_event it found, takes itself off when it ends, and
\* waits for its tools before that.
THEOREM TracesAreOfTheRun == Spec => []TraceOfRun
<1>1. Inv /\ LeftTraced => TraceOfRun
  BY TraceIsComplete
<1>. QED BY <1>1, AlwaysInv, AlwaysLeftTraced, PTL

=============================================================================
