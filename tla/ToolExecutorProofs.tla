-------------------------- MODULE ToolExecutorProofs --------------------------
(***************************************************************************)
(* Proofs about ToolExecutor, for batches of any length and pools of any   *)
(* size.                                                                   *)
(***************************************************************************)
EXTENDS ToolExecutor, SequenceTheorems, FiniteSetTheorems,
        WellFoundedInduction, TLAPS

\* A batch is a sequence of kinds, and its calls are numbered from 1.
LEMMA BatchType ==
  ASSUME kinds \in Batches
  PROVE  /\ kinds \in Seq(Kinds)
         /\ Len(kinds) \in Nat \ {0}
         /\ Calls = 1..Len(kinds)
<1>1. PICK n \in 1..MaxCalls : kinds \in [1..n -> Kinds]
  BY DEF Batches
<1>2. n \in Nat \ {0}
  BY SizeAssumption
<1>3. kinds \in Seq(Kinds)
  BY <1>1, <1>2
<1>4. Len(kinds) = n /\ Calls = 1..n
  BY <1>1, <1>2, <1>3, LenProperties DEF Calls
<1>. QED
  BY <1>2, <1>3, <1>4

\* A set of numbers that holds 0 and, with each number, the next holds all.
LEMMA SetInduction ==
  ASSUME NEW T, 0 \in T, \A n \in Nat : n \in T => n + 1 \in T
  PROVE  Nat \subseteq T
<1>. DEFINE R == OpToRel(<, Nat)
            B == Nat \ T
<1>1. IsWellFoundedOn(R, Nat)
  BY NatLessThanWellFounded
<1>2. \A x, y \in Nat : x < y => <<x, y>> \in R
  BY DEF OpToRel
<1>. SUFFICES ASSUME B # {}  PROVE FALSE
  OBVIOUS
<1>3. PICK x \in B : \A y \in B : <<y, x>> \notin R
  <2>1. B \subseteq Nat
    OBVIOUS
  <2>. HIDE DEF B, R
  <2>. QED
    BY <1>1, <2>1, WFMin
<1>. HIDE DEF R
<1>4. x \in Nat /\ x # 0 /\ x - 1 \in Nat /\ x - 1 < x
  OBVIOUS
<1>5. x - 1 \in T
  BY <1>2, <1>3, <1>4
<1>. QED
  BY <1>3, <1>4, <1>5

\* A sequence grows at its end.
LEMMA Grown ==
  ASSUME NEW k \in Nat
  PROVE  Append([i \in 1..k |-> i], k + 1) = [i \in 1..k + 1 |-> i]
<1>. DEFINE s == [i \in 1..k |-> i]
            t == [i \in 1..k + 1 |-> i]
<1>1. /\ s \in Seq(Nat) /\ Len(s) = k
      /\ t \in Seq(Nat) /\ Len(t) = k + 1
      /\ \A i \in 1..k : s[i] = i
      /\ \A i \in 1..k + 1 : t[i] = i
  OBVIOUS
<1>. HIDE DEF s, t
<1>2. /\ Append(s, k + 1) \in Seq(Nat)
      /\ Len(Append(s, k + 1)) = k + 1
      /\ \A i \in 1..k : Append(s, k + 1)[i] = s[i]
      /\ Append(s, k + 1)[k + 1] = k + 1
  BY <1>1, AppendProperties
<1>3. \A i \in 1..k + 1 : Append(s, k + 1)[i] = t[i]
  BY <1>1, <1>2
<1>4. Append(s, k + 1) = t
  BY <1>1, <1>2, <1>3, SeqEqual
<1>. QED
  BY <1>4 DEF s, t

\* When every call has a result, none is filtered away.
LEMMA KeepsAll ==
  ASSUME kinds \in Batches, \A i \in Calls : results[i] # "None"
  PROVE  KeptUpTo[Len(kinds)] = [i \in 1..Len(kinds) |-> i]
<1>. DEFINE N == Len(kinds)
            Loop(f) == f = [n \in 0..N |->
                              IF n = 0 THEN <<>>
                              ELSE IF results[n] # "None" THEN Append(f[n - 1], n)
                              ELSE f[n - 1]]
            g == [n \in 0..N |-> [i \in 1..n |-> i]]
            T == {n \in Nat : n <= N => KeptUpTo[n] = [i \in 1..n |-> i]}
<1>1. N \in Nat /\ \A n \in 1..N : results[n] # "None"
  BY BatchType
<1>2. Loop(g)
  <2>1. g[0] = <<>>
    BY <1>1
  <2>2. \A n \in 1..N : g[n] = Append(g[n - 1], n)
    <3>. SUFFICES ASSUME NEW n \in 1..N  PROVE g[n] = Append(g[n - 1], n)
      OBVIOUS
    <3>1. n - 1 \in Nat /\ n - 1 \in 0..N /\ n \in 0..N /\ n = (n - 1) + 1
      BY <1>1
    <3>2. g[n - 1] = [i \in 1..n - 1 |-> i] /\ g[n] = [i \in 1..n |-> i]
      BY <3>1
    <3>. HIDE DEF g, N
    <3>3. Append([i \in 1..n - 1 |-> i], (n - 1) + 1) = [i \in 1..(n - 1) + 1 |-> i]
      BY <3>1, Grown
    <3>. QED
      BY <3>1, <3>2, <3>3
  <2>3. DOMAIN g = 0..N
    OBVIOUS
  <2>. HIDE DEF g, N
  <2>4. \A n \in 0..N : g[n] = IF n = 0 THEN <<>>
                               ELSE IF results[n] # "None" THEN Append(g[n - 1], n)
                               ELSE g[n - 1]
    <3>. SUFFICES ASSUME NEW n \in 0..N
                  PROVE  g[n] = IF n = 0 THEN <<>>
                                ELSE IF results[n] # "None" THEN Append(g[n - 1], n)
                                ELSE g[n - 1]
      OBVIOUS
    <3>1. n = 0 \/ (n # 0 /\ n \in 1..N)
      BY <1>1
    <3>2. CASE n = 0
      BY <2>1, <3>2, Zenon
    <3>3. CASE n # 0 /\ n \in 1..N
      <4>1. g[n] = Append(g[n - 1], n) /\ results[n] # "None"
        BY <1>1, <2>2, <3>3
      <4>. QED
        BY <3>3, <4>1, Zenon
    <3>. QED
      BY <3>1, <3>2, <3>3
  <2>5. g = [n \in 0..N |-> g[n]]
    BY <2>3 DEF g
  <2>. QED
    BY <2>4, <2>5
<1>3. Loop(KeptUpTo)
  <2>1. KeptUpTo = CHOOSE f : Loop(f)
    BY DEF KeptUpTo
  <2>. HIDE DEF g, Loop
  <2>2. \E f : Loop(f)
    BY <1>2
  <2>. QED
    BY <2>1, <2>2
<1>4. /\ KeptUpTo[0] = <<>>
      /\ \A n \in 1..N : KeptUpTo[n] = Append(KeptUpTo[n - 1], n)
  <2>. DEFINE h == KeptUpTo
  <2>1. Loop(h)
    BY <1>3
  <2>. HIDE DEF h, N
  <2>2. \A n \in 0..N : h[n] = IF n = 0 THEN <<>>
                               ELSE IF results[n] # "None" THEN Append(h[n - 1], n)
                               ELSE h[n - 1]
    BY <2>1
  <2>3. 0 \in 0..N /\ \A n \in 1..N : n \in 0..N /\ n # 0
    BY <1>1
  <2>4. h[0] = <<>> /\ \A n \in 1..N : h[n] = Append(h[n - 1], n)
    BY <1>1, <2>2, <2>3, Zenon
  <2>. QED
    BY <2>4 DEF h
<1>. HIDE DEF N, g, Loop
<1>5. 0 \in T
  BY <1>4
<1>6. ASSUME NEW n \in Nat, n \in T  PROVE n + 1 \in T
  <2>1. CASE n + 1 <= N
    <3>1. KeptUpTo[n] = [i \in 1..n |-> i] /\ n + 1 \in 1..N /\ (n + 1) - 1 = n
      BY <1>1, <1>6, <2>1
    <3>2. KeptUpTo[n + 1] = Append(KeptUpTo[n], n + 1)
      BY <1>4, <3>1
    <3>3. KeptUpTo[n + 1] = [i \in 1..n + 1 |-> i]
      BY <3>1, <3>2, Grown
    <3>. QED
      BY <3>3
  <2>. QED
    BY <2>1
<1>. HIDE DEF T
<1>7. Nat \subseteq T
  BY <1>5, <1>6, SetInduction
<1>8. N \in T
  BY <1>1, <1>7
<1>. QED
  BY <1>1, <1>8 DEF T, N

-----------------------------------------------------------------------------
(***************************************************************************)
(* The inductive invariant: calls start and results are stored in the      *)
(* model's order, each a prefix of the batch.                              *)
(***************************************************************************)

Leaving == {"unwind", "done"}

\* The calls handed over so far: the last call that may have started or be in
\* the pool's queue.
HandedOver ==
  CASE pc \in {"scan", "flush"} -> at - 1 - Len(batch)
    [] pc = "inline"            -> at
    [] OTHER                    -> at - 1

\* Calls start in the model's order: the first s have, the next ones wait in
\* the pool's queue.
Started(s) ==
  /\ s \in 0..Len(kinds)
  /\ \A i \in Calls : status[i] # "idle" <=> i <= s
  /\ \A k \in 1..Len(queue) : queue[k] = s + k
  /\ s + Len(queue) <= Len(kinds)
  /\ pc \notin Leaving => s + Len(queue) = HandedOver

\* Results are stored in the model's order: the first j calls have theirs, the
\* next ones are waited for.
Stored(j) ==
  /\ j \in 0..Len(kinds)
  /\ \A i \in Calls : i <= j => status[i] \in {"ok", "error"}
  /\ \A i \in Calls : results[i] = IF i <= j THEN status[i] ELSE "None"
  /\ \A k \in 1..Len(futures) : futures[k] = j + k
  /\ pc \notin Leaving =>
       j + Len(futures) = IF pc = "inline" THEN at - 1 ELSE HandedOver
  /\ raising = "returned" => j = Len(kinds)

\* The batch kept is the run of parallel calls before the loop's index.
KeptInv ==
  /\ Len(batch) <= at - 1
  /\ \A k \in 1..Len(batch) :
       batch[k] = at - 1 - Len(batch) + k /\ kinds[batch[k]] = "parallel"
  /\ \A k \in 1..Len(queue) : kinds[queue[k]] = "parallel"

ControlInv ==
  /\ pc \notin {"join", "unwind", "done"} => futures = <<>> /\ queue = <<>>
  /\ pc \in {"check", "call", "inline"} => batch = <<>> /\ at <= Len(kinds)
  /\ pc \notin {"scan", "unwind", "done"} /\ at <= Len(kinds) => kinds[at] # "parallel"
  /\ pc = "done" => queue = <<>> /\ Running = {}
  /\ (pc \in Leaving) <=> (raising # "none")
  /\ verdict = IF pc = "done" THEN raising ELSE "none"
  /\ raising = "cancelled" => cancelled
  /\ raising = "returned" => queue = <<>>
  /\ \A i \in Running : kinds[i] # "parallel" => pc = "inline" /\ i = at

BatchInv ==
  /\ \E s \in 0..Len(kinds) : Started(s)
  /\ \E j \in 0..Len(kinds) : Stored(j)
  /\ KeptInv
  /\ ControlInv

\* What the steps below use of the types.
LEMMA Sizes ==
  ASSUME TypeOK
  PROVE  /\ Len(kinds) \in Nat \ {0} /\ Calls = 1..Len(kinds)
         /\ at \in Nat \ {0} /\ at <= Len(kinds) + 1
         /\ Len(batch) \in Nat /\ Len(futures) \in Nat /\ Len(queue) \in Nat
<1>1. Len(kinds) \in Nat \ {0} /\ Calls = 1..Len(kinds)
  BY BatchType DEF TypeOK
<1>2. at \in Nat \ {0} /\ at <= Len(kinds) + 1
  BY <1>1 DEF TypeOK
<1>. QED
  BY <1>1, <1>2, LenProperties DEF TypeOK

LEMMA InitInv == Init => TypeOK /\ BatchInv
<1>. SUFFICES ASSUME Init  PROVE TypeOK /\ BatchInv
  OBVIOUS
<1>1. Len(kinds) \in Nat \ {0} /\ Calls = 1..Len(kinds)
  BY BatchType DEF Init
<1>2. <<>> \in Seq(Calls) /\ Len(<<>>) = 0
  BY EmptySeq
<1>3. TypeOK
  <2>1. /\ status \in [Calls -> {"idle", "running", "ok", "error", "abort"}]
        /\ results \in [Calls -> {"None", "ok", "error"}]
        /\ at \in 1..Len(kinds) + 1
    BY <1>1 DEF Init
  <2>. QED
    BY <1>2, <2>1 DEF Init, TypeOK
<1>. DEFINE nil == <<>>
<1>4. batch = nil /\ futures = nil /\ queue = nil /\ Len(nil) = 0
  BY <1>2 DEF Init
<1>. HIDE DEF nil
<1>5. /\ pc = "scan" /\ at = 1 /\ raising = "none"
      /\ \A i \in Calls : status[i] = "idle" /\ results[i] = "None"
  BY DEF Init
<1>6. Started(0)
  BY <1>1, <1>4, <1>5 DEF Started, HandedOver, Leaving
<1>7. Stored(0)
  BY <1>1, <1>4, <1>5 DEF Stored, HandedOver, Leaving
<1>8. KeptInv /\ ControlInv
  BY <1>1, <1>2 DEF Init, KeptInv, ControlInv, Leaving, Running
<1>. QED
  BY <1>1, <1>3, <1>6, <1>7, <1>8 DEF BatchInv

-----------------------------------------------------------------------------
\* A parallel call joins the batch kept.
LEMMA KeepInv == TypeOK /\ BatchInv /\ Keep => TypeOK' /\ BatchInv'
<1>. SUFFICES ASSUME TypeOK, BatchInv, Keep  PROVE TypeOK' /\ BatchInv'
  OBVIOUS
<1>. PICK s \in 0..Len(kinds), j \in 0..Len(kinds) : Started(s) /\ Stored(j)
  BY DEF BatchInv
<1>1. /\ Len(kinds) \in Nat \ {0} /\ Calls = 1..Len(kinds) /\ Calls' = Calls
      /\ at \in Nat \ {0} /\ at <= Len(kinds) /\ at' = at + 1
      /\ Len(batch) \in Nat /\ Len(futures) \in Nat /\ Len(queue) \in Nat
  BY Sizes DEF Keep, Calls
<1>2. /\ batch' \in Seq(Calls)
      /\ Len(batch') = Len(batch) + 1
      /\ \A k \in 1..Len(batch) : batch'[k] = batch[k]
      /\ batch'[Len(batch) + 1] = at
  BY <1>1, AppendProperties DEF Keep, TypeOK
<1>3. TypeOK'
  BY <1>1, <1>2 DEF Keep, TypeOK
<1>here. /\ pc = "scan" /\ pc' = pc /\ pc \notin Leaving /\ HandedOver' = HandedOver
         /\ UNCHANGED <<kinds, futures, queue, status, results, raising>>
  <2>1. pc = "scan" /\ pc' = pc /\ UNCHANGED <<kinds, futures, queue, status, results, raising>>
    BY DEF Keep
  <2>2. at' - 1 - Len(batch') = at - 1 - Len(batch)
    BY ONLY <1>1, <1>2
  <2>. QED
    BY <2>1, <2>2 DEF HandedOver, Leaving
<1>4. Started(s)'
  BY <1>1, <1>here DEF Started
<1>5. Stored(j)'
  BY <1>1, <1>here DEF Stored
<1>6. KeptInv'
  <2>1. Len(batch) <= at - 1 /\ kinds[at] = "parallel" /\ kinds' = kinds /\ queue' = queue
    BY DEF Keep, BatchInv, KeptInv
  <2>2. \A k \in 1..Len(batch) :
          batch[k] = at - 1 - Len(batch) + k /\ kinds[batch[k]] = "parallel"
    BY DEF BatchInv, KeptInv
  <2>3. ASSUME NEW k \in 1..Len(batch')
        PROVE  /\ batch'[k] = at' - 1 - Len(batch') + k
               /\ kinds'[batch'[k]] = "parallel"
    <3>0. at' - 1 - Len(batch') = at - 1 - Len(batch)
      BY ONLY <1>1, <1>2
    <3>1. CASE k \in 1..Len(batch)
      BY <1>2, <2>1, <2>2, <3>0, <3>1
    <3>2. CASE k = Len(batch) + 1
      <4>1. at = at' - 1 - Len(batch') + k
        BY ONLY <1>1, <1>2, <3>2
      <4>. QED
        BY <1>2, <2>1, <3>2, <4>1
    <3>. QED
      BY <1>1, <1>2, <3>1, <3>2
  <2>4. Len(batch') <= at' - 1
    BY <1>1, <1>2, <2>1
  <2>5. \A k \in 1..Len(queue') : kinds'[queue'[k]] = "parallel"
    BY <2>1 DEF BatchInv, KeptInv
  <2>. QED
    BY <2>3, <2>4, <2>5 DEF KeptInv
<1>7. ControlInv'
  BY <1>1 DEF Keep, BatchInv, ControlInv, Leaving, Running
<1>. QED
  BY <1>3, <1>4, <1>5, <1>6, <1>7 DEF BatchInv, Keep

\* Steps of the caller's thread that only move its program counter.
LEMMA MoveInv ==
  TypeOK /\ BatchInv /\ (Barrier \/ RaiseCancelled \/ StopJoin \/ CheckPasses)
    => TypeOK' /\ BatchInv'
<1>. SUFFICES ASSUME TypeOK, BatchInv,
                     Barrier \/ RaiseCancelled \/ StopJoin \/ CheckPasses
              PROVE  TypeOK' /\ BatchInv'
  OBVIOUS
<1>. PICK s \in 0..Len(kinds), j \in 0..Len(kinds) : Started(s) /\ Stored(j)
  BY DEF BatchInv
<1>1. /\ Len(kinds) \in Nat \ {0} /\ Calls = 1..Len(kinds) /\ Calls' = Calls
      /\ at \in Nat \ {0} /\ at <= Len(kinds) + 1
      /\ Len(batch) \in Nat /\ Len(futures) \in Nat /\ Len(queue) \in Nat
  BY Sizes DEF Barrier, RaiseCancelled, StopJoin, CheckPasses, Calls
<1>2. UNCHANGED <<kinds, at, batch, futures, queue, status, results, cancelled,
                  verdict, answers>>
  BY DEF Barrier, RaiseCancelled, StopJoin, CheckPasses
<1>3. \/ pc = "scan" /\ pc' = "flush" /\ raising' = raising
         /\ (at <= Len(kinds) => kinds[at] # "parallel")
      \/ pc \in {"flush", "check"} /\ pc' = "unwind" /\ raising' = "cancelled"
         /\ cancelled
      \/ pc = "join" /\ pc' = "unwind" /\ raising' = "aborted"
      \/ pc = "check" /\ pc' = "call" /\ raising' = raising
  BY DEF Barrier, RaiseCancelled, StopJoin, CheckPasses, FlushNext, Checked
<1>4. TypeOK'
  BY <1>1, <1>2, <1>3 DEF TypeOK
<1>5. Started(s)'
  BY <1>1, <1>2, <1>3 DEF Started, HandedOver, Leaving
<1>6. Stored(j)'
  BY <1>1, <1>2, <1>3 DEF Stored, HandedOver, Leaving
<1>7. KeptInv'
  BY <1>1, <1>2 DEF BatchInv, KeptInv
<1>8. ControlInv'
  BY <1>1, <1>2, <1>3 DEF BatchInv, ControlInv, Leaving, Running, TypeOK
<1>. QED
  BY <1>2, <1>4, <1>5, <1>6, <1>7, <1>8 DEF BatchInv

\* The batch kept is submitted: it becomes the queue and what is waited for.
LEMMA SubmitInv == TypeOK /\ BatchInv /\ Submit => TypeOK' /\ BatchInv'
<1>. SUFFICES ASSUME TypeOK, BatchInv, Submit  PROVE TypeOK' /\ BatchInv'
  OBVIOUS
<1>. PICK s \in 0..Len(kinds), j \in 0..Len(kinds) : Started(s) /\ Stored(j)
  BY DEF BatchInv
<1>1. /\ Len(kinds) \in Nat \ {0} /\ Calls = 1..Len(kinds) /\ Calls' = Calls
      /\ at \in Nat \ {0} /\ at <= Len(kinds) + 1
      /\ Len(batch) \in Nat
  BY Sizes DEF Submit, Calls
<1>2. futures' = batch /\ queue' = batch
  <2>1. queue = <<>>
    BY DEF Submit, BatchInv, ControlInv
  <2>. QED
    BY <2>1, ConcatEmptySeq DEF Submit, TypeOK
<1>3. s = at - 1 - Len(batch) /\ j = at - 1 - Len(batch)
  <2>1. pc = "flush" /\ Len(queue) = 0 /\ Len(futures) = 0
    BY EmptySeq DEF Submit, BatchInv, ControlInv
  <2>. QED
    BY <1>1, <2>1 DEF Started, Stored, HandedOver, Leaving
<1>4. TypeOK'
  BY <1>1, <1>2 DEF Submit, TypeOK
<1>5. Started(s)'
  BY <1>1, <1>2, <1>3 DEF Submit, Started, HandedOver, BatchInv, KeptInv
<1>6. Stored(j)'
  BY <1>1, <1>2, <1>3 DEF Submit, Stored, HandedOver, BatchInv, KeptInv
<1>7. KeptInv'
  BY <1>1, <1>2 DEF Submit, BatchInv, KeptInv
<1>8. ControlInv'
  BY <1>1, <1>2 DEF Submit, BatchInv, ControlInv, Leaving, Running
<1>. QED
  BY <1>4, <1>5, <1>6, <1>7, <1>8 DEF BatchInv, Submit

\* A result is joined.
LEMMA JoinInv == TypeOK /\ BatchInv /\ Join => TypeOK' /\ BatchInv'
<1>. SUFFICES ASSUME TypeOK, BatchInv, Join  PROVE TypeOK' /\ BatchInv'
  OBVIOUS
<1>. PICK s \in 0..Len(kinds), j \in 0..Len(kinds) : Started(s) /\ Stored(j)
  BY DEF BatchInv
<1>1. /\ Len(kinds) \in Nat \ {0} /\ Calls = 1..Len(kinds) /\ Calls' = Calls
      /\ at \in Nat \ {0} /\ at <= Len(kinds) + 1
      /\ Len(batch) \in Nat /\ Len(futures) \in Nat \ {0} /\ Len(queue) \in Nat
  BY Sizes, EmptySeq DEF Join, Calls, TypeOK
<1>2. /\ Head(futures) = j + 1 /\ j + 1 \in Calls
      /\ futures' \in Seq(Calls)
      /\ Len(futures') = Len(futures) - 1
      /\ \A k \in 1..Len(futures') : futures'[k] = futures[k + 1]
  <2>1. /\ futures # <<>> /\ futures \in Seq(Calls)
        /\ futures' = Tail(futures) /\ Head(futures) = futures[1]
    BY DEF Join, TypeOK
  <2>2. futures[1] = j + 1
    BY <1>1 DEF Stored
  <2>. QED
    BY <2>1, <2>2, HeadTailProperties
<1>3. /\ status[j + 1] \in {"ok", "error"}
      /\ results' = [results EXCEPT ![j + 1] = status[j + 1]]
  BY <1>2 DEF Join
<1>4. TypeOK'
  BY <1>1, <1>2, <1>3 DEF Join, TypeOK
<1>5. Started(s)'
  BY <1>1 DEF Join, Started, HandedOver
<1>6. Stored(j + 1)'
  <2>1. \A i \in Calls : results'[i] = IF i = j + 1 THEN status[i] ELSE results[i]
    BY <1>2, <1>3 DEF TypeOK
  <2>2. \A i \in Calls : results'[i] = IF i <= j + 1 THEN status[i] ELSE "None"
    BY <1>1, <2>1 DEF Stored
  <2>3. raising # "returned"
    BY DEF Join, BatchInv, ControlInv, Leaving
  <2>4. \A k \in 1..Len(futures') : futures'[k] = (j + 1) + k
    BY <1>1, <1>2 DEF Stored
  <2>5. (j + 1) + Len(futures') = at' - 1
    BY <1>1, <1>2 DEF Join, Stored, HandedOver, Leaving
  <2>6. \A i \in Calls : i <= j + 1 => status'[i] \in {"ok", "error"}
    <3>1. status' = status /\ \A i \in Calls : i <= j => status[i] \in {"ok", "error"}
      BY DEF Join, Stored
    <3>2. \A i \in Calls : i <= j + 1 => i <= j \/ i = j + 1
      BY <1>1
    <3>. QED
      BY <1>3, <3>1, <3>2
  <2>. QED
    BY <1>1, <1>2, <2>2, <2>3, <2>4, <2>5, <2>6 DEF Join, Stored, HandedOver, Leaving
<1>7. KeptInv' /\ ControlInv'
  BY <1>1 DEF Join, BatchInv, KeptInv, ControlInv, Leaving, Running
<1>. QED
  BY <1>1, <1>2, <1>4, <1>5, <1>6, <1>7 DEF BatchInv, Join

\* The last future is joined: on to the serial call, or out.
LEMMA JoinedInv == TypeOK /\ BatchInv /\ Joined => TypeOK' /\ BatchInv'
<1>. SUFFICES ASSUME TypeOK, BatchInv, Joined  PROVE TypeOK' /\ BatchInv'
  OBVIOUS
<1>. PICK s \in 0..Len(kinds), j \in 0..Len(kinds) : Started(s) /\ Stored(j)
  BY DEF BatchInv
<1>1. /\ Len(kinds) \in Nat \ {0} /\ Calls = 1..Len(kinds) /\ Calls' = Calls
      /\ at \in Nat \ {0} /\ at <= Len(kinds) + 1
      /\ Len(futures) = 0 /\ Len(queue) \in Nat
  BY Sizes, EmptySeq DEF Joined, Calls
<1>2. batch' \in Seq(Calls) /\ batch' = <<>> /\ Len(batch') = 0
  BY EmptySeq DEF Joined
<1>3. j = at - 1 /\ s + Len(queue) = at - 1
  BY <1>1 DEF Joined, Stored, Started, HandedOver, Leaving
<1>4. Len(queue) = 0 /\ s = at - 1
  <2>1. at = 1 \/ at - 1 \in Calls
    BY <1>1
  <2>2. at - 1 \in Calls => status[at - 1] \in {"ok", "error"}
    BY <1>1, <1>3 DEF Stored
  <2>3. at - 1 \in Calls => at - 1 <= s
    BY <2>2 DEF Started
  <2>. QED
    BY <1>1, <1>3, <2>1, <2>3
<1>5. queue = <<>>
  BY <1>4, EmptySeq DEF TypeOK
<1>6. \/ at > Len(kinds) /\ pc' = "unwind" /\ raising' = "returned"
      \/ at <= Len(kinds) /\ pc' = "check" /\ raising' = raising
  BY <1>1 DEF Joined
<1>7. TypeOK'
  BY <1>1, <1>2, <1>6 DEF Joined, TypeOK
<1>8. Started(s)'
  BY <1>1, <1>2, <1>3, <1>6 DEF Joined, Started, HandedOver, Leaving
<1>9. Stored(j)'
  BY <1>1, <1>2, <1>3, <1>6
     DEF Joined, Stored, HandedOver, Leaving, BatchInv, ControlInv
<1>10. KeptInv'
  BY <1>1, <1>2 DEF Joined, BatchInv, KeptInv
<1>11. ControlInv'
  BY <1>1, <1>2, <1>5, <1>6 DEF Joined, BatchInv, ControlInv, Leaving, Running
<1>. QED
  BY <1>7, <1>8, <1>9, <1>10, <1>11 DEF BatchInv, Joined

\* The caller's thread begins a call itself.
LEMMA CallInv == TypeOK /\ BatchInv /\ CallInline => TypeOK' /\ BatchInv'
<1>. SUFFICES ASSUME TypeOK, BatchInv, CallInline  PROVE TypeOK' /\ BatchInv'
  OBVIOUS
<1>. PICK s \in 0..Len(kinds), j \in 0..Len(kinds) : Started(s) /\ Stored(j)
  BY DEF BatchInv
<1>1. /\ Len(kinds) \in Nat \ {0} /\ Calls = 1..Len(kinds) /\ Calls' = Calls
      /\ at \in Nat \ {0} /\ at <= Len(kinds) /\ at \in Calls
      /\ Len(futures) = 0 /\ Len(queue) = 0 /\ Len(batch) = 0
  BY Sizes, EmptySeq DEF CallInline, BatchInv, ControlInv, Calls
<1>2. s = at - 1 /\ j = at - 1
  BY <1>1 DEF CallInline, Started, Stored, HandedOver, Leaving
<1>3. \A i \in Calls : status'[i] = IF i = at THEN "running" ELSE status[i]
  BY <1>1 DEF CallInline, TypeOK
<1>4. Running = {}
  BY <1>1, <1>2 DEF Running, Started, Stored
<1>5. TypeOK'
  BY <1>1 DEF CallInline, TypeOK
<1>6. Started(s + 1)'
  BY <1>1, <1>2, <1>3 DEF CallInline, Started, HandedOver, Leaving
<1>7. Stored(j)'
  BY <1>1, <1>2, <1>3 DEF CallInline, Stored, HandedOver, Leaving
<1>8. KeptInv'
  BY <1>1 DEF CallInline, BatchInv, KeptInv
<1>9. ControlInv'
  <2>1. Running' = {at}
    BY <1>1, <1>3, <1>4 DEF Running
  <2>. QED
    BY <1>1, <2>1 DEF CallInline, BatchInv, ControlInv, Leaving
<1>. QED
  BY <1>1, <1>2, <1>5, <1>6, <1>7, <1>8, <1>9 DEF BatchInv, CallInline

\* The call in the caller's thread has ended.
LEMMA InlineInv == TypeOK /\ BatchInv /\ InlineEnds => TypeOK' /\ BatchInv'
<1>. SUFFICES ASSUME TypeOK, BatchInv, InlineEnds  PROVE TypeOK' /\ BatchInv'
  OBVIOUS
<1>. PICK s \in 0..Len(kinds), j \in 0..Len(kinds) : Started(s) /\ Stored(j)
  BY DEF BatchInv
<1>1. /\ Len(kinds) \in Nat \ {0} /\ Calls = 1..Len(kinds) /\ Calls' = Calls
      /\ at \in Nat \ {0} /\ at <= Len(kinds) /\ at \in Calls
      /\ Len(futures) = 0 /\ Len(queue) = 0 /\ Len(batch) = 0
  BY Sizes, EmptySeq DEF InlineEnds, BatchInv, ControlInv, Calls
<1>2. s = at /\ j = at - 1 /\ pc = "inline"
  BY <1>1 DEF InlineEnds, Started, Stored, HandedOver, Leaving
<1>3. UNCHANGED <<kinds, batch, futures, queue, status, cancelled, verdict, answers>>
  BY DEF InlineEnds
<1>4. CASE status[at] = "abort"
  <2>1. raising' = "aborted" /\ pc' = "unwind" /\ UNCHANGED <<results, at>>
    BY <1>4 DEF InlineEnds
  <2>2. TypeOK'
    BY <1>1, <1>3, <2>1 DEF TypeOK
  <2>3. Started(s)' /\ Stored(j)'
    BY <1>1, <1>2, <1>3, <2>1 DEF Started, Stored, Leaving
  <2>4. KeptInv'
    BY <1>1, <1>3, <2>1 DEF BatchInv, KeptInv
  <2>5. ControlInv'
    <3>1. Running' = Running /\ \A i \in Running : kinds[i] = "parallel"
      BY <1>1, <1>3, <1>4 DEF Running, BatchInv, ControlInv
    <3>. QED
      BY <1>2, <1>3, <2>1, <3>1 DEF BatchInv, ControlInv, Leaving
  <2>. QED
    BY <1>3, <2>2, <2>3, <2>4, <2>5 DEF BatchInv
<1>5. CASE status[at] # "abort"
  <2>1. /\ results' = [results EXCEPT ![at] = status[at]]
        /\ at' = at + 1 /\ pc' = "scan" /\ raising' = raising
        /\ status[at] \in {"ok", "error"}
    BY <1>5 DEF InlineEnds, Finished
  <2>2. \A i \in Calls : results'[i] = IF i = at THEN status[i] ELSE results[i]
    BY <1>1, <2>1 DEF TypeOK
  <2>3. TypeOK'
    BY <1>1, <1>3, <2>1 DEF TypeOK
  <2>4. Started(s)'
    BY <1>1, <1>2, <1>3, <2>1 DEF Started, HandedOver, Leaving
  <2>5. Stored(j + 1)'
    <3>1. \A i \in Calls : i <= at => i <= j \/ i = at
      BY <1>1, <1>2
    <3>2. \A i \in Calls : i <= at => status[i] \in {"ok", "error"}
      BY <2>1, <3>1 DEF Stored
    <3>3. \A i \in Calls : results'[i] = IF i <= at THEN status[i] ELSE "None"
      BY <1>1, <1>2, <2>2 DEF Stored
    <3>4. raising # "returned"
      BY <1>2 DEF BatchInv, ControlInv, Leaving
    <3>. QED
      BY <1>1, <1>2, <1>3, <2>1, <3>2, <3>3, <3>4 DEF Stored, HandedOver, Leaving
  <2>6. KeptInv'
    BY <1>1, <1>3, <2>1 DEF BatchInv, KeptInv
  <2>7. ControlInv'
    <3>1. Running' = Running /\ \A i \in Running : kinds[i] = "parallel"
      BY <1>1, <1>3, <2>1 DEF Running, BatchInv, ControlInv
    <3>. QED
      BY <1>1, <1>2, <1>3, <2>1, <3>1 DEF BatchInv, ControlInv, Leaving
  <2>. QED
    BY <1>1, <1>2, <1>3, <2>3, <2>4, <2>5, <2>6, <2>7 DEF BatchInv
<1>. QED
  BY <1>4, <1>5

\* The with statement is left.
LEMMA LeaveInv == TypeOK /\ BatchInv /\ Leave => TypeOK' /\ BatchInv'
<1>. SUFFICES ASSUME TypeOK, BatchInv, Leave  PROVE TypeOK' /\ BatchInv'
  OBVIOUS
<1>. PICK s \in 0..Len(kinds), j \in 0..Len(kinds) : Started(s) /\ Stored(j)
  BY DEF BatchInv
<1>1. /\ Len(kinds) \in Nat \ {0} /\ Calls = 1..Len(kinds) /\ Calls' = Calls
  BY Sizes DEF Leave, Calls
<1>2. pc = "unwind" /\ pc' = "done" /\ verdict' = raising /\ queue = <<>>
      /\ UNCHANGED <<kinds, at, batch, futures, queue, status, results, cancelled,
                     raising>>
  BY DEF Leave, PoolIdle
<1>3. answers' \in Seq(Calls)
  <2>1. CASE raising = "returned"
    <3>1. j = Len(kinds)
      BY <2>1 DEF Stored
    <3>2. \A i \in Calls : results[i] # "None"
      BY <1>1, <3>1 DEF Stored
    <3>3. answers' = [i \in 1..Len(kinds) |-> i]
      BY <2>1, <3>2, KeepsAll DEF Leave, TypeOK
    <3>. QED
      BY <1>1, <3>3
  <2>2. CASE raising # "returned"
    BY <2>2 DEF Leave, TypeOK
  <2>. QED
    BY <2>1, <2>2
<1>4. TypeOK'
  BY <1>1, <1>2, <1>3 DEF TypeOK
<1>5. Started(s)' /\ Stored(j)'
  BY <1>1, <1>2 DEF Started, Stored, Leaving
<1>6. KeptInv'
  BY <1>1, <1>2 DEF BatchInv, KeptInv
<1>7. ControlInv'
  <2>1. \A i \in Running : kinds[i] = "parallel"
    BY <1>2 DEF BatchInv, ControlInv
  <2>2. Running = {} /\ Running' = Running
    BY <1>1, <1>2, <2>1 DEF Leave, PoolIdle, PoolBusy, Running
  <2>. QED
    BY <1>1, <1>2, <2>2 DEF BatchInv, ControlInv, Leaving
<1>. QED
  BY <1>2, <1>4, <1>5, <1>6, <1>7 DEF BatchInv

-----------------------------------------------------------------------------
\* A thread of the pool takes the call at the head of the queue.
LEMMA TakeInv == TypeOK /\ BatchInv /\ Take => TypeOK' /\ BatchInv'
<1>. SUFFICES ASSUME TypeOK, BatchInv, Take  PROVE TypeOK' /\ BatchInv'
  OBVIOUS
<1>. PICK s \in 0..Len(kinds), j \in 0..Len(kinds) : Started(s) /\ Stored(j)
  BY DEF BatchInv
<1>1. /\ Len(kinds) \in Nat \ {0} /\ Calls = 1..Len(kinds) /\ Calls' = Calls
      /\ at \in Nat \ {0} /\ at <= Len(kinds) + 1
      /\ Len(batch) \in Nat /\ Len(futures) \in Nat /\ Len(queue) \in Nat \ {0}
  BY Sizes, EmptySeq DEF Take, Calls, TypeOK
<1>2. /\ Head(queue) = s + 1 /\ s + 1 \in Calls
      /\ kinds[s + 1] = "parallel"
      /\ queue' \in Seq(Calls)
      /\ Len(queue') = Len(queue) - 1
      /\ \A k \in 1..Len(queue') : queue'[k] = queue[k + 1]
  <2>1. /\ queue # <<>> /\ queue \in Seq(Calls)
        /\ queue' = Tail(queue) /\ Head(queue) = queue[1]
    BY DEF Take, TypeOK
  <2>2. queue[1] = s + 1 /\ kinds[queue[1]] = "parallel"
    BY <1>1 DEF Started, BatchInv, KeptInv
  <2>. QED
    BY <2>1, <2>2, HeadTailProperties
<1>3. UNCHANGED <<kinds, pc, at, batch, futures, results, cancelled, raising,
                  verdict, answers>>
  BY DEF Take
<1>4. /\ status' = [status EXCEPT ![s + 1] = "running"]
      /\ \A i \in Calls : status'[i] = IF i = s + 1 THEN "running" ELSE status[i]
  BY <1>2 DEF Take, TypeOK
<1>5. queue # <<>>
  BY DEF Take
<1>6. TypeOK'
  BY <1>1, <1>2, <1>3, <1>4 DEF TypeOK
<1>7. Started(s + 1)'
  <2>1. \A i \in Calls : status'[i] # "idle" <=> i <= s + 1
    BY <1>1, <1>4 DEF Started
  <2>2. \A k \in 1..Len(queue') : queue'[k] = (s + 1) + k
    BY <1>1, <1>2 DEF Started
  <2>3. (s + 1) + Len(queue') = s + Len(queue) /\ s + 1 \in 0..Len(kinds)
    BY <1>1, <1>2
  <2>4. HandedOver' = HandedOver
    BY <1>3 DEF HandedOver
  <2>. QED
    BY <1>1, <1>3, <2>1, <2>2, <2>3, <2>4 DEF Started, Leaving
<1>8. Stored(j)'
  <2>1. status[s + 1] = "idle"
    BY <1>1, <1>2 DEF Started, TypeOK
  <2>2. ~(s + 1 <= j)
    BY <1>2, <2>1 DEF Stored
  <2>3. \A i \in Calls : i <= j => status'[i] = status[i]
    BY <1>4, <2>2
  <2>. QED
    BY <1>1, <1>3, <2>3 DEF Stored, HandedOver, Leaving
<1>9. KeptInv'
  <2>1. \A k \in 1..Len(queue') : kinds[queue'[k]] = "parallel"
    <3>1. \A k \in 1..Len(queue') : k + 1 \in 1..Len(queue)
      BY <1>1, <1>2
    <3>. QED
      BY <1>2, <3>1 DEF BatchInv, KeptInv
  <2>. QED
    BY <1>3, <2>1 DEF BatchInv, KeptInv
<1>10. ControlInv'
  <2>1. pc \in {"join", "unwind"} /\ raising # "returned"
    BY <1>5 DEF BatchInv, ControlInv, TypeOK
  <2>2. \A i \in Running' : i = s + 1 \/ i \in Running
    BY <1>1, <1>4 DEF Running
  <2>. QED
    BY <1>2, <1>3, <2>1, <2>2 DEF BatchInv, ControlInv, Leaving
<1>. QED
  BY <1>1, <1>2, <1>3, <1>6, <1>7, <1>8, <1>9, <1>10 DEF BatchInv

\* A tool ends.
LEMMA EndInv ==
  ASSUME NEW i \in Calls, NEW r \in {"ok", "error", "abort"}
  PROVE  TypeOK /\ BatchInv /\ ToolEnds(i, r) => TypeOK' /\ BatchInv'
<1>. SUFFICES ASSUME TypeOK, BatchInv, ToolEnds(i, r)  PROVE TypeOK' /\ BatchInv'
  OBVIOUS
<1>. PICK s \in 0..Len(kinds), j \in 0..Len(kinds) : Started(s) /\ Stored(j)
  BY DEF BatchInv
<1>1. /\ Len(kinds) \in Nat \ {0} /\ Calls = 1..Len(kinds) /\ Calls' = Calls
  BY Sizes DEF ToolEnds, Calls
<1>2. UNCHANGED <<kinds, pc, at, batch, futures, queue, results, cancelled,
                  raising, verdict, answers>>
  BY DEF ToolEnds
<1>3. /\ status[i] = "running"
      /\ \A k \in Calls : status'[k] = IF k = i THEN r ELSE status[k]
  BY DEF ToolEnds, TypeOK
<1>4. TypeOK'
  BY <1>1, <1>2 DEF ToolEnds, TypeOK
<1>5. Started(s)'
  BY <1>1, <1>2, <1>3 DEF Started, HandedOver, Leaving
<1>6. Stored(j)'
  <2>1. ~(i <= j)
    BY <1>3 DEF Stored
  <2>2. \A k \in Calls : k <= j => status'[k] = status[k]
    BY <1>3, <2>1
  <2>. QED
    BY <1>1, <1>2, <2>2 DEF Stored, HandedOver, Leaving
<1>7. KeptInv'
  BY <1>1, <1>2 DEF BatchInv, KeptInv
<1>8. ControlInv'
  <2>1. Running' \subseteq Running
    BY <1>1, <1>3 DEF Running
  <2>. QED
    BY <1>2, <2>1 DEF BatchInv, ControlInv, Leaving
<1>. QED
  BY <1>2, <1>4, <1>5, <1>6, <1>7, <1>8 DEF BatchInv

\* The cancel event is set, or nothing happens.
LEMMA IdleInv ==
  TypeOK /\ BatchInv /\ (SetCancel \/ UNCHANGED vars) => TypeOK' /\ BatchInv'
<1>. SUFFICES ASSUME TypeOK, BatchInv, SetCancel \/ UNCHANGED vars
              PROVE  TypeOK' /\ BatchInv'
  OBVIOUS
<1>. PICK s \in 0..Len(kinds), j \in 0..Len(kinds) : Started(s) /\ Stored(j)
  BY DEF BatchInv
<1>1. /\ UNCHANGED <<kinds, pc, at, batch, futures, queue, status, results,
                     raising, verdict, answers>>
      /\ cancelled' \in {cancelled, TRUE}
      /\ Calls' = Calls /\ Running' = Running
  BY DEF SetCancel, vars, Calls, Running
<1>2. TypeOK'
  BY <1>1 DEF TypeOK
<1>3. Started(s)' /\ Stored(j)'
  BY <1>1 DEF Started, Stored, HandedOver, Leaving
<1>4. KeptInv' /\ ControlInv'
  BY <1>1 DEF BatchInv, KeptInv, ControlInv, Leaving
<1>. QED
  BY <1>1, <1>2, <1>3, <1>4 DEF BatchInv

LEMMA InvStep == TypeOK /\ BatchInv /\ [Next]_vars => TypeOK' /\ BatchInv'
BY KeepInv, MoveInv, SubmitInv, JoinInv, JoinedInv, CallInv, InlineInv, LeaveInv,
   TakeInv, EndInv, IdleInv DEF Next, Caller, Pool, JoinRaises, Interrupt, Done

-----------------------------------------------------------------------------
\* Every variable of a batch keeps its type.
THEOREM TypeCorrect == Spec => []TypeOK
BY InitInv, InvStep, PTL DEF Spec

-----------------------------------------------------------------------------
(***************************************************************************)
(* How a batch ends.                                                       *)
(***************************************************************************)

\* A batch that returned answered every call.
AnswersInv ==
  verdict = "returned" => answers = [i \in 1..Len(kinds) |-> i]

LEMMA AnswersStep ==
  TypeOK /\ BatchInv /\ AnswersInv /\ [Next]_vars => AnswersInv'
<1>. SUFFICES ASSUME TypeOK, BatchInv, AnswersInv, [Next]_vars
              PROVE  AnswersInv'
  OBVIOUS
<1>1. CASE Leave
  <2>. SUFFICES ASSUME raising = "returned"
                PROVE  answers' = [i \in 1..Len(kinds) |-> i]
    BY <1>1 DEF Leave, AnswersInv
  <2>. PICK j \in 0..Len(kinds) : Stored(j)
    BY DEF BatchInv
  <2>1. \A i \in Calls : results[i] # "None"
    BY Sizes DEF Stored
  <2>. QED
    BY <1>1, <2>1, KeepsAll DEF Leave, TypeOK
<1>2. CASE ~Leave
  <2>1. UNCHANGED <<kinds, verdict, answers>>
    BY <1>2 DEF Next, Caller, Pool, Keep, Barrier, RaiseCancelled, Submit, Join,
       JoinRaises, StopJoin, Joined, CheckPasses, CallInline, InlineEnds,
       Interrupt, Take, ToolEnds, SetCancel, Done, vars
  <2>. QED
    BY <2>1 DEF AnswersInv
<1>. QED
  BY <1>1, <1>2

LEMMA CleanEnd == TypeOK /\ BatchInv /\ AnswersInv => EndsCleanly
<1>. SUFFICES ASSUME TypeOK, BatchInv, AnswersInv  PROVE EndsCleanly
  OBVIOUS
<1>. PICK s \in 0..Len(kinds), j \in 0..Len(kinds) : Started(s) /\ Stored(j)
  BY DEF BatchInv
<1>1. Len(kinds) \in Nat \ {0} /\ Calls = 1..Len(kinds)
  BY Sizes
<1>2. ASSUME pc = "done", NEW i \in Calls
      PROVE  IF i <= s THEN Finished(i) ELSE status[i] = "idle"
  <2>1. status[i] # "running"
    BY <1>2 DEF BatchInv, ControlInv, Running
  <2>2. status[i] \in {"idle", "running", "ok", "error", "abort"}
    BY DEF TypeOK
  <2>. QED
    BY <2>1, <2>2 DEF Started, Finished
<1>3. ASSUME verdict = "returned"  PROVE results = status
  <2>1. raising = "returned"
    BY <1>3 DEF BatchInv, ControlInv
  <2>2. \A i \in Calls : results[i] = status[i]
    BY <1>1, <2>1 DEF Stored
  <2>. QED
    BY <2>2 DEF TypeOK
<1>. QED
  BY <1>2, <1>3 DEF EndsCleanly, AnswersInv

\* When execute_all is left, no tool runs or will, the calls executed are a
\* prefix of the batch, and a batch that returns answers each of its calls in
\* order.
THEOREM BatchEndsCleanly == Spec => []EndsCleanly
<1>. DEFINE Inv == TypeOK /\ BatchInv /\ AnswersInv
<1>1. Init => Inv
  BY InitInv DEF Init, AnswersInv
<1>2. Inv /\ [Next]_vars => Inv'
  BY InvStep, AnswersStep
<1>3. Inv => EndsCleanly
  BY CleanEnd
<1>. HIDE DEF Inv
<1>. QED
  BY <1>1, <1>2, <1>3, PTL DEF Spec

-----------------------------------------------------------------------------
(***************************************************************************)
(* execute_all implements ToolBatch.                                       *)
(***************************************************************************)

LEMMA BatchInit == Init => Batch!Init
<1>. SUFFICES ASSUME Init  PROVE Batch!Init
  OBVIOUS
<1>1. DOMAIN queue = {}
  BY DEF Init
<1>2. Admitted = {}
  BY <1>1 DEF Init, Admitted
<1>. QED
  BY <1>2 DEF Init, Batch!Init, Batch!Calls, Calls

\* The batch kept is admitted as one group: parallel calls, everything before
\* them answered.
LEMMA BatchSubmit ==
  TypeOK /\ BatchInv /\ Submit => [Batch!Next]_(Batch!vars)
<1>. SUFFICES ASSUME TypeOK, BatchInv, Submit  PROVE [Batch!Next]_(Batch!vars)
  OBVIOUS
<1>. PICK s \in 0..Len(kinds), j \in 0..Len(kinds) : Started(s) /\ Stored(j)
  BY DEF BatchInv
<1>. DEFINE S == {batch[k] : k \in 1..Len(batch)}
<1>1. /\ Len(kinds) \in Nat \ {0} /\ Calls = 1..Len(kinds) /\ at \in Nat \ {0}
      /\ at <= Len(kinds) + 1 /\ Len(batch) \in Nat
      /\ DOMAIN batch = 1..Len(batch) /\ S \subseteq Calls
  BY Sizes, LenProperties, ElementOfSeq DEF TypeOK
<1>2. /\ pc = "flush" /\ pc' = "join" /\ ~cancelled /\ queue = <<>>
      /\ UNCHANGED <<kinds, status, cancelled, verdict>>
      /\ verdict = "none"
  BY DEF Submit, BatchInv, ControlInv
<1>3. queue' = batch
  BY <1>2, ConcatEmptySeq DEF Submit, TypeOK
<1>4. Admitted = {i \in Calls : status[i] # "idle"}
  <2>1. DOMAIN queue = {}
    BY <1>2
  <2>. QED
    BY <1>2, <2>1 DEF Admitted
<1>5. Admitted' = Admitted \cup S
  BY <1>1, <1>2, <1>3, <1>4 DEF Admitted, Calls
<1>6. s = at - 1 - Len(batch) /\ j = s
  <2>1. Len(queue) = 0 /\ Len(futures) = 0
    BY <1>2, EmptySeq DEF BatchInv, ControlInv
  <2>. QED
    BY <1>1, <1>2, <2>1 DEF Started, Stored, HandedOver, Leaving
<1>7. S = (s + 1)..(at - 1) /\ \A i \in S : kinds[i] = "parallel"
  <2>1. \A k \in 1..Len(batch) : batch[k] = s + k /\ kinds[batch[k]] = "parallel"
    BY <1>1, <1>6 DEF BatchInv, KeptInv
  <2>2. \A i \in (s + 1)..(at - 1) :
          i - s \in 1..Len(batch) /\ batch[i - s] = i
    BY <1>1, <1>6, <2>1
  <2>. QED
    BY <1>1, <1>6, <2>1, <2>2
<1>. HIDE DEF S
<1>8. CASE S = {}
  <2>1. Admitted' = Admitted
    BY <1>5, <1>8
  <2>. QED
    BY <1>2, <2>1 DEF Batch!vars
<1>9. CASE S # {}
  <2>1. S \cap Admitted = {}
    BY <1>1, <1>4, <1>7 DEF Started
  <2>2. \A i, k \in S : Batch!Together(i, k)
    <3>. SUFFICES ASSUME NEW i \in S, NEW k \in S, NEW l \in Calls,
                         (i <= l /\ l <= k) \/ (k <= l /\ l <= i)
                  PROVE  kinds[l] = "parallel"
      BY DEF Batch!Together, Batch!Calls, Calls
    <3>1. l \in S
      BY <1>1, <1>6, <1>7
    <3>. QED
      BY <1>7, <3>1
  <2>3. \A i \in S, k \in Calls \ S : k < i => Batch!Answered(k)
    <3>. SUFFICES ASSUME NEW i \in S, NEW k \in Calls \ S, k < i
                  PROVE  status[k] \in {"ok", "error"}
      BY DEF Batch!Answered
    <3>1. k <= j
      BY <1>1, <1>6, <1>7
    <3>. QED
      BY <3>1 DEF Stored
  <2>4. Batch!Admit(S)
    BY <1>2, <1>5, <1>9, <2>1, <2>2, <2>3 DEF Batch!Admit, Batch!Calls, Calls
  <2>5. S \in SUBSET Batch!Calls
    BY <1>1 DEF Batch!Calls, Calls
  <2>. QED
    BY <2>4, <2>5 DEF Batch!Next
<1>. QED
  BY <1>8, <1>9

\* A serial or unknown call is admitted alone, after its check.
LEMMA BatchCheck ==
  TypeOK /\ BatchInv /\ CheckPasses => Batch!Next
<1>. SUFFICES ASSUME TypeOK, BatchInv, CheckPasses  PROVE Batch!Next
  OBVIOUS
<1>. PICK s \in 0..Len(kinds), j \in 0..Len(kinds) : Started(s) /\ Stored(j)
  BY DEF BatchInv
<1>1. /\ Len(kinds) \in Nat \ {0} /\ Calls = 1..Len(kinds)
      /\ at \in Calls /\ Len(futures) = 0 /\ Len(queue) = 0
  BY Sizes, EmptySeq DEF CheckPasses, BatchInv, ControlInv
<1>2. /\ pc = "check" /\ pc' = "call" /\ ~cancelled /\ queue = <<>>
      /\ UNCHANGED <<kinds, at, queue, status, cancelled, verdict>>
      /\ verdict = "none"
  BY DEF CheckPasses, Checked, BatchInv, ControlInv
<1>3. s = at - 1 /\ j = at - 1
  BY <1>1, <1>2 DEF Started, Stored, HandedOver, Leaving
<1>4. DOMAIN queue = {}
  BY <1>2
<1>5. Admitted = {i \in Calls : status[i] # "idle"} /\ Admitted' = Admitted \cup {at}
  BY <1>2, <1>4 DEF Admitted, Calls
<1>6. at \notin Admitted
  BY <1>1, <1>3, <1>5 DEF Started
<1>7. \A k \in Calls : k < at => Batch!Answered(k)
  BY <1>1, <1>3 DEF Stored, Batch!Answered
<1>8. Batch!Admit({at})
  BY <1>1, <1>2, <1>5, <1>6, <1>7 DEF Batch!Admit, Batch!Calls, Calls
<1>9. {at} \in SUBSET Batch!Calls
  BY <1>1 DEF Batch!Calls, Calls
<1>. QED
  BY <1>8, <1>9 DEF Batch!Next

\* The abstract specification's Cardinality is the one the facts are about.
LEMMA SameCardinality ==
  ASSUME NEW S  PROVE Batch!Cardinality(S) = Cardinality(S)
BY DEF Batch!Cardinality, Cardinality

\* Admitted calls start, in the caller's thread or in one of the pool.
LEMMA BatchStart ==
  TypeOK /\ BatchInv /\ (CallInline \/ Take) => Batch!Next
<1>. SUFFICES ASSUME TypeOK, BatchInv, CallInline \/ Take  PROVE Batch!Next
  OBVIOUS
<1>. PICK s \in 0..Len(kinds), j \in 0..Len(kinds) : Started(s) /\ Stored(j)
  BY DEF BatchInv
<1>1. Len(kinds) \in Nat \ {0} /\ Calls = 1..Len(kinds) /\ Batch!Calls = Calls
  BY Sizes DEF Batch!Calls, Calls
<1>2. Batch!Running = Running
  BY DEF Batch!Running, Running, Batch!Calls, Calls
<1>3. CASE CallInline
  <2>1. /\ at \in Calls /\ Len(futures) = 0 /\ Len(queue) = 0 /\ queue = <<>>
        /\ pc = "call" /\ pc' = "inline"
        /\ UNCHANGED <<kinds, queue, at, cancelled, verdict>>
    BY <1>1, <1>3, Sizes, EmptySeq DEF CallInline, BatchInv, ControlInv
  <2>2. s = at - 1 /\ j = at - 1
    BY <2>1 DEF Started, Stored, HandedOver, Leaving
  <2>3. status[at] = "idle" /\ Running = {}
    BY <1>1, <2>1, <2>2 DEF Started, Stored, Running
  <2>4. Cardinality(Running) < MaxWorkers
    BY <2>3, FS_EmptySet, SizeAssumption
  <2>5. status' = [status EXCEPT ![at] = "running"]
    BY <1>3 DEF CallInline
  <2>6. DOMAIN queue = {}
    BY <2>1
  <2>7. \A i \in Calls : status'[i] # "idle" <=> status[i] # "idle" \/ i = at
    BY <2>1, <2>5 DEF TypeOK
  <2>8. at \in Admitted /\ Admitted' = Admitted
    BY <2>1, <2>6, <2>7 DEF Admitted, Calls
  <2>9. Batch!Cardinality(Batch!Running) < MaxWorkers
    BY <1>2, <2>4, SameCardinality
  <2>10. Batch!Start(at)
    BY <2>1, <2>3, <2>5, <2>8, <2>9 DEF Batch!Start
  <2>. QED
    BY <1>1, <2>1, <2>10 DEF Batch!Next
<1>4. CASE Take
  <2>. DEFINE c == Head(queue)
  <2>1. /\ queue # <<>> /\ queue \in Seq(Calls) /\ queue' = Tail(queue)
        /\ status' = [status EXCEPT ![c] = "running"]
        /\ Cardinality(PoolBusy) < MaxWorkers
        /\ UNCHANGED <<kinds, pc, at, cancelled, verdict>>
    BY <1>4 DEF Take, WorkerFree, TypeOK
  <2>2. c = queue[1] /\ Len(queue) \in Nat \ {0}
    BY <2>1, EmptySeq
  <2>3. c = s + 1 /\ c \in Calls
    BY <2>2, <2>1, ElementOfSeq DEF Started
  <2>4. status[c] = "idle"
    BY <1>1, <2>3 DEF Started
  <2>5. PoolBusy = Running
    <3>1. pc # "inline"
      BY <2>1 DEF BatchInv, ControlInv
    <3>. QED
      BY <3>1 DEF BatchInv, ControlInv, PoolBusy
  <2>6. /\ queue' \in Seq(Calls) /\ Len(queue') = Len(queue) - 1
        /\ \A k \in 1..Len(queue') : queue'[k] = queue[k + 1]
    BY <2>1, HeadTailProperties
  <2>7. DOMAIN queue = 1..Len(queue) /\ DOMAIN queue' = 1..Len(queue) - 1
    BY <2>1, <2>6, LenProperties
  <2>. HIDE DEF c
  <2>8. {queue[k] : k \in DOMAIN queue} = {queue'[k] : k \in DOMAIN queue'} \cup {c}
    <3>1. ASSUME NEW k \in 1..Len(queue)
          PROVE  queue[k] = c \/ \E l \in 1..Len(queue) - 1 : queue'[l] = queue[k]
      <4>1. CASE k = 1
        BY <2>2, <4>1
      <4>2. CASE k # 1
        <5>1. k - 1 \in 1..Len(queue) - 1 /\ queue'[k - 1] = queue[k]
          BY <2>2, <2>6, <4>2
        <5>. QED
          BY <5>1
      <4>. QED
        BY <4>1, <4>2
    <3>2. ASSUME NEW l \in 1..Len(queue) - 1
          PROVE  \E k \in 1..Len(queue) : queue[k] = queue'[l]
      <4>1. l + 1 \in 1..Len(queue) /\ queue'[l] = queue[l + 1]
        BY <2>2, <2>6
      <4>. QED
        BY <4>1
    <3>3. 1 \in 1..Len(queue)
      BY <2>2
    <3>4. queue[1] = c
      BY <2>2
    <3>. DEFINE A == {queue[k] : k \in 1..Len(queue)}
                B == {queue'[l] : l \in 1..Len(queue) - 1}
    <3>5. A \subseteq B \cup {c}
      BY <3>1
    <3>6. B \cup {c} \subseteq A
      BY <3>2, <3>3, <3>4
    <3>. QED
      BY <2>7, <3>5, <3>6
  <2>9. \A i \in Calls : status'[i] # "idle" <=> status[i] # "idle" \/ i = c
    BY <2>1, <2>3 DEF TypeOK, c
  <2>10. c \in Admitted /\ Admitted' = Admitted
    <3>1. Calls' = Calls /\ pc' = pc /\ at' = at
      BY <2>1 DEF Calls
    <3>2. {i \in Calls' : status'[i] # "idle"} = {i \in Calls : status[i] # "idle"} \cup {c}
      BY <2>3, <2>9, <3>1
    <3>. QED
      BY <2>8, <3>1, <3>2 DEF Admitted
  <2>11. Batch!Cardinality(Batch!Running) < MaxWorkers
    BY <1>2, <2>1, <2>5, SameCardinality
  <2>12. Batch!Start(c)
    BY <2>1, <2>4, <2>10, <2>11 DEF Batch!Start
  <2>. QED
    BY <1>1, <2>3, <2>12 DEF Batch!Next
<1>. QED
  BY <1>3, <1>4

\* The other steps end a call, set the event, end the batch, or are not seen.
LEMMA BatchOther ==
  /\ TypeOK /\ BatchInv /\ Leave => Batch!Next
  /\ \A i \in Calls, r \in {"ok", "error", "abort"} :
       TypeOK /\ BatchInv /\ ToolEnds(i, r) => Batch!Next
  /\ TypeOK /\ BatchInv /\ SetCancel => Batch!Next
<1>1. ASSUME TypeOK, BatchInv, Leave  PROVE Batch!Next
  <2>. PICK j \in 0..Len(kinds) : Stored(j)
    BY <1>1 DEF BatchInv
  <2>1. /\ verdict = "none" /\ verdict' = raising /\ raising # "none"
        /\ pc = "unwind" /\ pc' = "done"
        /\ UNCHANGED <<kinds, at, queue, status, cancelled>>
    BY <1>1 DEF Leave, BatchInv, ControlInv, Leaving
  <2>2. raising = "returned" => \A i \in Calls : Batch!Answered(i)
    BY <1>1, Sizes DEF Stored, Batch!Answered
  <2>3. raising = "cancelled" => cancelled
    BY <1>1 DEF BatchInv, ControlInv
  <2>4. Admitted' = Admitted
    BY <2>1 DEF Admitted, Calls
  <2>5. Batch!End(raising) /\ raising \in {"returned", "cancelled", "aborted"}
    BY <1>1, <2>1, <2>2, <2>3, <2>4 DEF Batch!End, Batch!Calls, Calls, TypeOK
  <2>. QED
    BY <2>5 DEF Batch!Next
<1>2. ASSUME NEW i \in Calls, NEW r \in {"ok", "error", "abort"},
             TypeOK, BatchInv, ToolEnds(i, r)
      PROVE  Batch!Next
  <2>1. /\ status[i] = "running" /\ status' = [status EXCEPT ![i] = r]
        /\ UNCHANGED <<kinds, pc, at, queue, cancelled, verdict>>
    BY <1>2 DEF ToolEnds
  <2>2. \A k \in Calls : status'[k] # "idle" <=> status[k] # "idle"
    BY <1>2, <2>1 DEF TypeOK
  <2>3. Admitted' = Admitted
    BY <2>1, <2>2 DEF Admitted, Calls
  <2>4. Batch!Finish(i, r)
    BY <2>1, <2>3 DEF Batch!Finish
  <2>. QED
    BY <2>4 DEF Batch!Next, Batch!Calls, Calls
<1>3. ASSUME TypeOK, BatchInv, SetCancel  PROVE Batch!Next
  <2>1. Admitted' = Admitted
    BY <1>3 DEF SetCancel, Admitted, Calls
  <2>2. Batch!Cancel
    BY <1>3, <2>1 DEF SetCancel, Batch!Cancel
  <2>. QED
    BY <2>2 DEF Batch!Next
<1>. QED
  BY <1>1, <1>2, <1>3

LEMMA BatchStep ==
  TypeOK /\ BatchInv /\ [Next]_vars => [Batch!Next]_(Batch!vars)
<1>. SUFFICES ASSUME TypeOK, BatchInv, [Next]_vars
              PROVE  [Batch!Next]_(Batch!vars)
  OBVIOUS
<1>1. CASE \/ Keep \/ Barrier \/ RaiseCancelled \/ Join \/ StopJoin
           \/ Joined \/ InlineEnds \/ UNCHANGED vars
  <2>1. /\ UNCHANGED <<kinds, queue, status, cancelled, verdict>>
        /\ (pc = "call" => pc' = "call" /\ at' = at) /\ (pc' = "call" => pc = "call")
    BY <1>1 DEF Keep, Barrier, RaiseCancelled, Join, StopJoin, Joined, InlineEnds,
       vars, FlushNext, Checked
  <2>2. Admitted' = Admitted
    BY <2>1 DEF Admitted, Calls
  <2>. QED
    BY <2>1, <2>2 DEF Batch!vars
<1>2. CASE \/ Submit \/ CheckPasses \/ CallInline \/ Take \/ Leave \/ SetCancel
           \/ \E i \in Calls, r \in {"ok", "error", "abort"} : ToolEnds(i, r)
  BY <1>2, BatchSubmit, BatchCheck, BatchStart, BatchOther
<1>. QED
  BY <1>1, <1>2 DEF Next, Caller, Pool, JoinRaises, Interrupt, Done

\* execute_all admits the calls of a batch group by group, never after the
\* cancel event, runs each at most once and no more than its pool's size at a
\* time: ToolBatch, whatever the threads' order.
THEOREM ExecutorKeepsBatch == Spec => KeepsBatch
<1>. DEFINE Inv == TypeOK /\ BatchInv
<1>1. Init => Inv
  BY InitInv
<1>2. Inv /\ [Next]_vars => Inv'
  BY InvStep
<1>3. Inv /\ [Next]_vars => [Batch!Next]_(Batch!vars)
  BY BatchStep
<1>. HIDE DEF Inv
<1>. QED
  BY <1>1, <1>2, <1>3, BatchInit, PTL DEF Spec, KeepsBatch, Batch!Spec

===============================================================================
