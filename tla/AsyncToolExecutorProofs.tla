------------------------ MODULE AsyncToolExecutorProofs ------------------------
(***************************************************************************)
(* Proofs about AsyncToolExecutor, for batches of any length and chunks of *)
(* any size.                                                               *)
(***************************************************************************)
EXTENDS AsyncToolExecutor, SequenceTheorems, FiniteSetTheorems, TLAPS

\* A batch is a sequence of kinds, and its calls are numbered from 1.
LEMMA BatchType ==
  ASSUME kinds \in Batches
  PROVE  /\ kinds \in Seq(Kinds)
         /\ Len(kinds) \in Nat \ {0}
         /\ Calls = 1..Len(kinds)
<1>1. PICK n \in 1..MaxCalls : kinds \in [1..n -> Kinds]
  BY DEF Batches
<1>2. n \in Nat \ {0}
  BY AsyncSizeAssumption
<1>3. kinds \in Seq(Kinds)
  BY <1>1, <1>2
<1>4. Len(kinds) = n /\ Calls = 1..n
  BY <1>1, <1>2, <1>3, LenProperties DEF Calls
<1>. QED
  BY <1>2, <1>3, <1>4

-----------------------------------------------------------------------------
(***************************************************************************)
(* The inductive invariant: results are stored in the model's order, a     *)
(* prefix of the batch, and what executes lies next to that prefix.        *)
(***************************************************************************)

\* The first j calls have ended and are stored, the next w are the chunk that
\* is gathered or the call that is awaited, no other has been touched, and the
\* rest of the flush comes next.
InOrder(j, w) ==
  /\ j \in Nat /\ w \in Nat /\ j + w + Len(rest) <= Len(kinds)
  /\ w <= MaxWorkers
  /\ \A i \in Calls : i <= j => status[i] \in {"ok", "error"} /\ results[i] = status[i]
  /\ \A i \in Calls : j < i => results[i] = "None"
  /\ \A i \in Calls : j < i /\ i <= j + w => status[i] # "idle"
  /\ \A i \in Calls : j + w < i => status[i] = "idle"
  /\ \A i \in busy : j < i /\ i <= j + w
  /\ w > 1 => \A i \in Calls : j < i /\ i <= j + w => kinds[i] = "parallel"
  /\ \A k \in 1..Len(rest) : rest[k] = j + w + k /\ kinds[rest[k]] = "parallel"

\* Where the executing task is in the batch.
Position(j, w) ==
  /\ pc \in {"scan", "flush"} => w = 0 /\ j + Len(batch) = at - 1
  /\ pc = "chunks" => w = 0 /\ j + Len(rest) = at - 1
  /\ pc = "gather" => /\ w = Len(chunk) /\ j + w + Len(rest) = at - 1
                      /\ \A k \in 1..w : chunk[k] = j + k
  /\ pc \in {"check", "call"} => w = 0 /\ j = at - 1
  /\ pc = "inline" => w = 1 /\ j = at - 1
  /\ verdict \in {"returned", "cancelled"} => w = 0
  /\ verdict = "returned" => j = Len(kinds)

\* The batch kept is the run of parallel calls before the loop's index.
KeptInv ==
  /\ Len(batch) <= at - 1
  /\ \A k \in 1..Len(batch) :
       batch[k] = at - 1 - Len(batch) + k /\ kinds[batch[k]] = "parallel"

ControlInv ==
  /\ pc \in {"scan", "flush", "check", "call", "inline"} => rest = <<>>
  /\ pc \in {"check", "call", "inline"} => batch = <<>> /\ at <= Len(kinds)
  /\ pc \notin {"scan", "done"} /\ at <= Len(kinds) => kinds[at] # "parallel"
  /\ verdict # "none" <=> pc = "done"
  /\ verdict = "cancelled" => cancelled
  /\ asked => pc \in {"gather", "inline"} \/ verdict = "aborted"

\* A tool function executes while its task runs, or in a thread whose task was
\* told to stop; nothing is yet to start once the executing task is cancelled.
TaskInv ==
  /\ \A i \in Calls : status[i] = "running" => i \in busy
  /\ \A i \in busy : status[i] = "running" \/ (status[i] = "abort" /\ i \in told)
  /\ asked => \A i \in Calls : /\ status[i] # "ready"
                               /\ status[i] = "running" => i \in told

BatchInv ==
  /\ \E j, w \in 0..Len(kinds) : InOrder(j, w) /\ Position(j, w)
  /\ KeptInv /\ ControlInv /\ TaskInv

\* What the steps below use of the types.
LEMMA Sizes ==
  ASSUME TypeOK
  PROVE  /\ Len(kinds) \in Nat \ {0} /\ Calls = 1..Len(kinds)
         /\ at \in Nat \ {0} /\ at <= Len(kinds) + 1
         /\ Len(batch) \in Nat /\ Len(rest) \in Nat /\ Len(chunk) \in Nat
<1>1. Len(kinds) \in Nat \ {0} /\ Calls = 1..Len(kinds)
  BY BatchType DEF TypeOK
<1>2. at \in Nat \ {0} /\ at <= Len(kinds) + 1
  BY <1>1 DEF TypeOK
<1>. QED
  BY <1>1, <1>2, LenProperties DEF TypeOK

LEMMA InitInv == Init => TypeOK /\ BatchInv
<1>. SUFFICES ASSUME Init  PROVE TypeOK /\ BatchInv
  OBVIOUS
<1>1. Len(kinds) \in Nat \ {0} /\ Calls = 1..Len(kinds)
  BY BatchType DEF Init
<1>2. <<>> \in Seq(Calls) /\ Len(<<>>) = 0
  BY EmptySeq
<1>3. TypeOK
  <2>1. /\ status \in [Calls -> {"idle", "ready", "running", "ok", "error", "abort",
                                 "dropped"}]
        /\ results \in [Calls -> {"None", "ok", "error"}]
        /\ at \in 1..Len(kinds) + 1
    BY <1>1 DEF Init
  <2>2. Len(chunk) <= MaxWorkers
    BY <1>2, AsyncSizeAssumption DEF Init
  <2>. QED
    BY <1>2, <2>1, <2>2 DEF Init, TypeOK
<1>. DEFINE nil == <<>>
<1>4. batch = nil /\ rest = nil /\ Len(nil) = 0
  BY <1>2 DEF Init
<1>. HIDE DEF nil
<1>5. /\ pc = "scan" /\ at = 1 /\ verdict = "none" /\ ~asked /\ busy = {}
      /\ \A i \in Calls : status[i] = "idle" /\ results[i] = "None"
  BY DEF Init
<1>6. InOrder(0, 0) /\ Position(0, 0)
  BY <1>1, <1>4, <1>5, AsyncSizeAssumption DEF InOrder, Position
<1>7. KeptInv /\ TaskInv
  BY <1>1, <1>4, <1>5 DEF KeptInv, TaskInv
<1>8. ControlInv
  BY DEF Init, ControlInv
<1>. QED
  BY <1>1, <1>3, <1>6, <1>7, <1>8 DEF BatchInv

-----------------------------------------------------------------------------
\* A parallel call joins the batch kept.
LEMMA KeepInv == TypeOK /\ BatchInv /\ Keep => TypeOK' /\ BatchInv'
<1>. SUFFICES ASSUME TypeOK, BatchInv, Keep  PROVE TypeOK' /\ BatchInv'
  OBVIOUS
<1>. PICK j \in 0..Len(kinds), w \in 0..Len(kinds) : InOrder(j, w) /\ Position(j, w)
  BY DEF BatchInv
<1>1. /\ Len(kinds) \in Nat \ {0} /\ Calls = 1..Len(kinds) /\ Calls' = Calls
      /\ at \in Nat \ {0} /\ at <= Len(kinds) /\ at' = at + 1
      /\ Len(batch) \in Nat
  BY Sizes DEF Keep, call, Calls
<1>2. /\ batch' \in Seq(Calls)
      /\ Len(batch') = Len(batch) + 1
      /\ \A k \in 1..Len(batch) : batch'[k] = batch[k]
      /\ batch'[Len(batch) + 1] = at
  BY <1>1, AppendProperties DEF Keep, TypeOK
<1>3. TypeOK'
  BY <1>1, <1>2 DEF Keep, call, tasks, TypeOK
<1>4. InOrder(j, w)'
  BY <1>1 DEF Keep, call, tasks, InOrder
<1>5. Position(j, w)'
  BY <1>1, <1>2 DEF Keep, call, tasks, Position, BatchInv, ControlInv
<1>6. KeptInv'
  <2>1. Len(batch) <= at - 1 /\ kinds[at] = "parallel" /\ kinds' = kinds
    BY DEF Keep, call, BatchInv, KeptInv
  <2>2. \A k \in 1..Len(batch) :
          batch[k] = at - 1 - Len(batch) + k /\ kinds[batch[k]] = "parallel"
    BY DEF BatchInv, KeptInv
  <2>3. ASSUME NEW k \in 1..Len(batch')
        PROVE  /\ batch'[k] = at' - 1 - Len(batch') + k
               /\ kinds'[batch'[k]] = "parallel"
    <3>1. CASE k \in 1..Len(batch)
      <4>1. batch'[k] = batch[k] /\ at' - 1 - Len(batch') = at - 1 - Len(batch)
        BY <1>1, <1>2, <3>1
      <4>. QED
        BY <2>1, <2>2, <3>1, <4>1
    <3>2. CASE k = Len(batch) + 1
      BY <1>1, <1>2, <2>1, <3>2
    <3>. QED
      BY <1>1, <1>2, <3>1, <3>2
  <2>4. Len(batch') <= at' - 1
    BY <1>1, <1>2, <2>1
  <2>. QED
    BY <2>3, <2>4 DEF KeptInv
<1>7. ControlInv' /\ TaskInv'
  BY <1>1 DEF Keep, call, tasks, BatchInv, ControlInv, TaskInv
<1>. QED
  BY <1>3, <1>4, <1>5, <1>6, <1>7 DEF BatchInv, Keep, call

\* Steps of the executing task that only move its program counter.
LEMMA MoveInv ==
  TypeOK /\ BatchInv /\ (Barrier \/ RaiseCancelled \/ GatherRaises \/ Unwound)
    => TypeOK' /\ BatchInv'
<1>. SUFFICES ASSUME TypeOK, BatchInv,
                     Barrier \/ RaiseCancelled \/ GatherRaises \/ Unwound
              PROVE  TypeOK' /\ BatchInv'
  OBVIOUS
<1>. PICK j \in 0..Len(kinds), w \in 0..Len(kinds) : InOrder(j, w) /\ Position(j, w)
  BY DEF BatchInv
<1>1. /\ UNCHANGED <<kinds, blocking, at, batch, rest, chunk, status, told, busy, results,
                     cancelled, asked>>
      /\ Calls' = Calls
  BY DEF Barrier, RaiseCancelled, GatherRaises, Unwound, End, call, tasks, Calls
<1>2. \/ /\ pc = "scan" /\ pc' = "flush" /\ verdict' = verdict
         /\ at <= Len(kinds) => kinds[at] # "parallel"
      \/ /\ pc \in {"flush", "check"} /\ pc' = "done" /\ verdict' = "cancelled"
         /\ cancelled
      \/ pc = "gather" /\ pc' = "done" /\ verdict' = "aborted"
  BY DEF Barrier, RaiseCancelled, GatherRaises, Unwound, End, FlushNext, Checked
<1>3. TypeOK'
  BY <1>1, <1>2 DEF TypeOK
<1>4. InOrder(j, w)'
  BY <1>1 DEF InOrder
<1>5. Position(j, w)'
  BY <1>1, <1>2 DEF Position, BatchInv, ControlInv
<1>6. KeptInv' /\ TaskInv'
  BY <1>1 DEF BatchInv, KeptInv, TaskInv
<1>7. ControlInv'
  BY <1>1, <1>2 DEF BatchInv, ControlInv
<1>. QED
  BY <1>1, <1>3, <1>4, <1>5, <1>6, <1>7 DEF BatchInv

\* The batch kept is to be gathered, or the serial call's turn has come.
LEMMA CheckInv == TypeOK /\ BatchInv /\ CheckPasses => TypeOK' /\ BatchInv'
<1>. SUFFICES ASSUME TypeOK, BatchInv, CheckPasses  PROVE TypeOK' /\ BatchInv'
  OBVIOUS
<1>. PICK j \in 0..Len(kinds), w \in 0..Len(kinds) : InOrder(j, w) /\ Position(j, w)
  BY DEF BatchInv
<1>1. /\ UNCHANGED <<kinds, blocking, at, batch, chunk, status, told, busy, results,
                     cancelled, asked, verdict>>
      /\ Calls' = Calls
      /\ Len(kinds) \in Nat \ {0} /\ Calls = 1..Len(kinds)
      /\ at \in Nat \ {0} /\ at <= Len(kinds) + 1
      /\ Len(batch) \in Nat /\ Len(rest) \in Nat
  BY Sizes DEF CheckPasses, call, tasks, Calls
<1>2. \/ pc = "flush" /\ pc' = "chunks" /\ rest' = batch
      \/ pc = "check" /\ pc' = "call" /\ rest' = rest
  BY DEF CheckPasses
<1>3. TypeOK'
  BY <1>1, <1>2 DEF TypeOK
<1>4. InOrder(j, w)'
  <2>1. CASE rest' = rest
    BY <1>1, <2>1 DEF InOrder
  <2>2. CASE pc = "flush" /\ rest' = batch
    <3>1. w = 0 /\ j + Len(batch) = at - 1
      BY <2>2 DEF Position
    <3>2. \A k \in 1..Len(batch) : batch[k] = j + k /\ kinds[batch[k]] = "parallel"
      BY <1>1, <3>1 DEF BatchInv, KeptInv
    <3>. QED
      BY <1>1, <2>2, <3>1, <3>2 DEF InOrder
  <2>. QED
    BY <1>2, <2>1, <2>2
<1>5. Position(j, w)'
  BY <1>1, <1>2 DEF Position, BatchInv, ControlInv
<1>6. KeptInv' /\ TaskInv'
  BY <1>1 DEF BatchInv, KeptInv, TaskInv
<1>7. ControlInv'
  BY <1>1, <1>2 DEF BatchInv, ControlInv
<1>. QED
  BY <1>1, <1>3, <1>4, <1>5, <1>6, <1>7 DEF BatchInv

\* The calls gathered are those the invariant says are under way.
LEMMA ChunkCalls ==
  ASSUME TypeOK, NEW j \in 0..Len(kinds), NEW w \in 0..Len(kinds),
         InOrder(j, w), Position(j, w), pc = "gather"
  PROVE  InChunk = {i \in Calls : j < i /\ i <= j + w}
<1>1. /\ Len(kinds) \in Nat /\ Calls = 1..Len(kinds)
      /\ DOMAIN chunk = 1..w /\ w = Len(chunk)
      /\ \A k \in 1..w : chunk[k] = j + k
      /\ j + w <= Len(kinds)
  BY Sizes, LenProperties DEF TypeOK, Position, InOrder
<1>2. ASSUME NEW i \in Calls, j < i, i <= j + w  PROVE i \in InChunk
  <2>1. i - j \in 1..w /\ chunk[i - j] = i
    BY <1>1, <1>2
  <2>. QED
    BY <1>1, <2>1 DEF InChunk
<1>3. ASSUME NEW i \in InChunk  PROVE i \in Calls /\ j < i /\ i <= j + w
  <2>1. PICK k \in 1..w : i = chunk[k]
    BY <1>1 DEF InChunk
  <2>. QED
    BY <1>1, <2>1
<1>. QED
  BY <1>2, <1>3

\* The next chunk is gathered: its calls are about to start.
LEMMA GatherInv == TypeOK /\ BatchInv /\ Gather => TypeOK' /\ BatchInv'
<1>. SUFFICES ASSUME TypeOK, BatchInv, Gather  PROVE TypeOK' /\ BatchInv'
  OBVIOUS
<1>. PICK j \in 0..Len(kinds), w \in 0..Len(kinds) : InOrder(j, w) /\ Position(j, w)
  BY DEF BatchInv
<1>1. /\ Len(kinds) \in Nat \ {0} /\ Calls = 1..Len(kinds) /\ Calls' = Calls
      /\ at \in Nat \ {0} /\ at <= Len(kinds) + 1
      /\ Len(rest) \in Nat \ {0}
  BY Sizes, EmptySeq DEF Gather, call, Calls, TypeOK
<1>. PICK m \in 1..Len(rest) : m = ChunkSize /\ m <= MaxWorkers
  BY <1>1, AsyncSizeAssumption DEF ChunkSize
<1>2. m \in Nat \ {0} /\ m <= Len(rest) /\ m <= MaxWorkers
  BY <1>1
<1>3. /\ w = 0 /\ j + Len(rest) = at - 1 /\ ~asked /\ verdict = "none"
      /\ UNCHANGED <<kinds, blocking, at, batch, told, busy, results, cancelled, asked,
                     verdict>>
      /\ pc = "chunks" /\ pc' = "gather"
  BY DEF Gather, Position, call, BatchInv, ControlInv
<1>4. \A k \in 1..Len(rest) : rest[k] \in Calls
  BY <1>1 DEF TypeOK
<1>5. /\ chunk' \in Seq(Calls) /\ Len(chunk') = m
      /\ \A k \in 1..m : chunk'[k] = rest[k]
  <2>1. \A k \in 1..m : rest[k] \in Calls
    BY <1>1, <1>2, <1>4
  <2>2. chunk' = SubSeq(rest, 1, m)
    BY DEF Gather
  <2>3. /\ SubSeq(rest, 1, m) \in Seq(Calls)
        /\ Len(SubSeq(rest, 1, m)) = IF 1 <= m THEN m - 1 + 1 ELSE 0
        /\ \A k \in 1..m - 1 + 1 : SubSeq(rest, 1, m)[k] = rest[1 + k - 1]
    BY <1>2, <2>1, SubSeqProperties
  <2>4. m - 1 + 1 = m /\ 1 <= m /\ \A k \in 1..m : 1 + k - 1 = k
    BY <1>2
  <2>. QED
    BY <2>2, <2>3, <2>4
<1>6. /\ rest' \in Seq(Calls) /\ Len(rest') = Len(rest) - m
      /\ \A k \in 1..Len(rest') : rest'[k] = rest[m + k]
  <2>. DEFINE n == Len(rest)
              t == SubSeq(rest, m + 1, n)
  <2>1. \A k \in m + 1..n : rest[k] \in Calls
    BY <1>1, <1>2, <1>4
  <2>2. rest' = t
    BY DEF Gather
  <2>3. m + 1 \in Int /\ n \in Int
    BY <1>1, <1>2
  <2>. HIDE DEF n
  <2>4. /\ t \in Seq(Calls)
        /\ Len(t) = IF m + 1 <= n THEN n - (m + 1) + 1 ELSE 0
        /\ \A k \in 1..n - (m + 1) + 1 : t[k] = rest[(m + 1) + k - 1]
    BY <2>1, <2>3, SubSeqProperties
  <2>. HIDE DEF t
  <2>5. n \in Nat /\ m <= n
    BY <1>1, <1>2 DEF n
  <2>6. Len(t) = n - m
    BY <1>2, <2>4, <2>5
  <2>7. \A k \in 1..n - m : t[k] = rest[m + k]
    <3>1. n - (m + 1) + 1 = n - m /\ \A k \in 1..n - m : (m + 1) + k - 1 = m + k
      BY <1>2, <2>5
    <3>. QED
      BY <2>4, <3>1
  <2>. QED
    BY <2>2, <2>4, <2>6, <2>7 DEF n
<1>7. \A i \in Calls :
        status'[i] = IF j < i /\ i <= j + m THEN "ready" ELSE status[i]
  <2>1. \A k \in 1..Len(rest) : rest[k] = j + k
    BY <1>3 DEF InOrder
  <2>2. \A i \in Calls : (\E k \in 1..m : rest[k] = i) <=> j < i /\ i <= j + m
    <3>. SUFFICES ASSUME NEW i \in Calls
                  PROVE  (\E k \in 1..m : rest[k] = i) <=> j < i /\ i <= j + m
      OBVIOUS
    <3>1. ASSUME NEW k \in 1..m, rest[k] = i  PROVE j < i /\ i <= j + m
      <4>1. k \in 1..Len(rest) /\ j + k = i
        BY <1>1, <1>2, <2>1, <3>1
      <4>. QED
        BY <4>1
    <3>2. ASSUME j < i, i <= j + m  PROVE \E k \in 1..m : rest[k] = i
      <4>1. i - j \in 1..m /\ rest[i - j] = i
        BY <1>1, <1>2, <2>1, <3>2
      <4>. QED
        BY <4>1
    <3>. QED
      BY <3>1, <3>2
  <2>3. status' = [i \in Calls |->
                     IF \E k \in 1..m : rest[k] = i THEN "ready" ELSE status[i]]
    BY DEF Gather
  <2>. QED
    BY <2>2, <2>3
<1>8. TypeOK'
  <2>1. status' \in [Calls -> {"idle", "ready", "running", "ok", "error", "abort",
                               "dropped"}]
    BY <1>7 DEF Gather, TypeOK
  <2>. QED
    BY <1>1, <1>2, <1>3, <1>5, <1>6, <2>1 DEF TypeOK
<1>9. m \in 0..Len(kinds) /\ j + m + Len(rest') <= Len(kinds)
  BY <1>1, <1>2, <1>3, <1>6
<1>10. InOrder(j, m)'
  <2>1. \A k \in 1..Len(rest') : /\ rest'[k] = j + m + k
                                 /\ kinds[rest'[k]] = "parallel"
    <3>1. \A k \in 1..Len(rest') : m + k \in 1..Len(rest)
      BY <1>1, <1>2, <1>6
    <3>2. \A k \in 1..Len(rest) : rest[k] = j + k /\ kinds[rest[k]] = "parallel"
      BY <1>3 DEF InOrder
    <3>3. \A k \in 1..Len(rest') : rest'[k] = j + (m + k) /\ kinds[rest'[k]] = "parallel"
      BY <1>6, <3>1, <3>2
    <3>4. \A k \in 1..Len(rest') : j + (m + k) = j + m + k
      BY <1>1, <1>2
    <3>. QED
      BY <3>3, <3>4
  <2>2. \A i \in Calls : j < i /\ i <= j + m => kinds[i] = "parallel"
    <3>. SUFFICES ASSUME NEW i \in Calls, j < i, i <= j + m
                  PROVE  kinds[i] = "parallel"
      OBVIOUS
    <3>1. i - j \in 1..Len(rest)
      BY <1>1, <1>2
    <3>2. rest[i - j] = i /\ kinds[rest[i - j]] = "parallel"
      BY <1>1, <1>3, <3>1 DEF InOrder
    <3>. QED
      BY <3>2
  <2>3. /\ \A i \in Calls : i <= j => /\ status'[i] \in {"ok", "error"}
                                      /\ results[i] = status'[i]
        /\ \A i \in Calls : j < i /\ i <= j + m => status'[i] # "idle"
        /\ \A i \in Calls : j + m < i => status'[i] = "idle"
    <3>1. /\ \A i \in Calls : i <= j => /\ status[i] \in {"ok", "error"}
                                        /\ results[i] = status[i]
          /\ \A i \in Calls : j < i => status[i] = "idle"
      BY <1>1, <1>3 DEF InOrder
    <3>2. \A i \in Calls : i <= j => status'[i] = status[i]
      BY <1>1, <1>7
    <3>3. \A i \in Calls : j + m < i => j < i /\ status'[i] = status[i]
      BY <1>1, <1>2, <1>7
    <3>. QED
      BY <1>7, <3>1, <3>2, <3>3
  <2>4. /\ \A i \in Calls : j < i => results[i] = "None"
        /\ \A i \in busy : j < i /\ i <= j + m
    <3>1. busy \subseteq Calls
      BY DEF TypeOK
    <3>. QED
      BY <1>1, <1>2, <1>3, <3>1 DEF InOrder
  <2>. QED
    BY <1>1, <1>2, <1>3, <1>9, <2>1, <2>2, <2>3, <2>4 DEF InOrder
<1>11. Position(j, m)'
  <2>1. \A k \in 1..m : chunk'[k] = j + k
    <3>1. \A k \in 1..Len(rest) : rest[k] = j + k
      BY <1>3 DEF InOrder
    <3>2. \A k \in 1..m : k \in 1..Len(rest)
      BY <1>1, <1>2
    <3>. QED
      BY <1>5, <3>1, <3>2
  <2>2. m = Len(chunk') /\ j + m + Len(rest') = at - 1
    <3>1. m = Len(chunk')
      BY <1>5
    <3>2. Len(rest') = Len(rest) - m /\ j + Len(rest) = at - 1
      BY <1>3, <1>6
    <3>3. Len(rest) \in Nat /\ at \in Nat
      BY <1>1
    <3>. QED
      BY <1>2, <3>1, <3>2, <3>3
  <2>3. pc' = "gather" /\ verdict' = "none" /\ at' = at
    BY <1>3
  <2>. QED
    BY <2>1, <2>2, <2>3 DEF Position
<1>12. KeptInv'
  BY <1>3 DEF BatchInv, KeptInv
<1>13. ControlInv'
  BY <1>3 DEF BatchInv, ControlInv
<1>14. TaskInv'
  <2>1. busy = {}
    BY <1>1, <1>3 DEF InOrder, TypeOK
  <2>2. \A i \in Calls : status'[i] # "running"
    BY <1>7, <2>1 DEF BatchInv, TaskInv
  <2>. QED
    BY <1>1, <1>3, <2>1, <2>2 DEF TaskInv
<1>. QED
  BY <1>3, <1>8, <1>9, <1>10, <1>11, <1>12, <1>13, <1>14 DEF BatchInv

\* The results of the chunk are stored.
LEMMA GatheredInv == TypeOK /\ BatchInv /\ Gathered => TypeOK' /\ BatchInv'
<1>. SUFFICES ASSUME TypeOK, BatchInv, Gathered  PROVE TypeOK' /\ BatchInv'
  OBVIOUS
<1>. PICK j \in 0..Len(kinds), w \in 0..Len(kinds) : InOrder(j, w) /\ Position(j, w)
  BY DEF BatchInv
<1>1. /\ Len(kinds) \in Nat \ {0} /\ Calls = 1..Len(kinds) /\ Calls' = Calls
      /\ at \in Nat \ {0} /\ Len(rest) \in Nat
  BY Sizes DEF Gathered, call, Calls
<1>2. /\ UNCHANGED <<kinds, blocking, at, batch, rest, chunk, status, told, busy,
                     cancelled, asked, verdict>>
      /\ pc = "gather" /\ pc' = "chunks" /\ ~asked /\ verdict = "none"
  BY DEF Gathered, call, tasks, BatchInv, ControlInv
<1>3. \A i \in Calls : i \in InChunk <=> j < i /\ i <= j + w
  BY <1>2, ChunkCalls
<1>4. \A i \in Calls : j < i /\ i <= j + w => status[i] \in {"ok", "error"}
  BY <1>3 DEF Gathered, AllAnswered, Answered
<1>5. \A i \in Calls : results'[i] = IF j < i /\ i <= j + w THEN status[i] ELSE results[i]
  BY <1>3 DEF Gathered
<1>6. TypeOK'
  <2>1. results' \in [Calls -> {"None", "ok", "error"}]
    BY <1>3, <1>4 DEF Gathered, TypeOK
  <2>. QED
    BY <1>1, <1>2, <2>1 DEF TypeOK
<1>7. j + w \in 0..Len(kinds) /\ 0 \in 0..Len(kinds)
  BY <1>1 DEF InOrder
<1>8. InOrder(j + w, 0)'
  <2>1. /\ \A i \in Calls : i <= j + w => /\ status[i] \in {"ok", "error"}
                                          /\ results'[i] = status[i]
        /\ \A i \in Calls : j + w < i => results'[i] = "None"
    BY <1>1, <1>4, <1>5 DEF InOrder
  <2>2. busy = {}
    BY <1>4 DEF InOrder, BatchInv, TaskInv, TypeOK
  <2>3. \A k \in 1..Len(rest) : rest[k] = (j + w) + 0 + k /\ kinds[rest[k]] = "parallel"
    BY <1>1 DEF InOrder
  <2>4. /\ (j + w) + 0 + Len(rest) <= Len(kinds)
        /\ \A i \in Calls : (j + w) + 0 < i => status[i] = "idle"
        /\ \A i \in Calls : ~(j + w < i /\ i <= (j + w) + 0)
    BY <1>1 DEF InOrder
  <2>. QED
    BY <1>1, <1>2, <1>7, <2>1, <2>2, <2>3, <2>4, AsyncSizeAssumption DEF InOrder
<1>9. Position(j + w, 0)'
  BY <1>1, <1>2 DEF Position
<1>10. KeptInv' /\ ControlInv' /\ TaskInv'
  BY <1>1, <1>2 DEF BatchInv, KeptInv, ControlInv, TaskInv
<1>. QED
  BY <1>2, <1>6, <1>7, <1>8, <1>9, <1>10 DEF BatchInv

\* Every chunk is gathered: on to the serial call, or to the end.
LEMMA FlushedInv == TypeOK /\ BatchInv /\ Flushed => TypeOK' /\ BatchInv'
<1>. SUFFICES ASSUME TypeOK, BatchInv, Flushed  PROVE TypeOK' /\ BatchInv'
  OBVIOUS
<1>. PICK j \in 0..Len(kinds), w \in 0..Len(kinds) : InOrder(j, w) /\ Position(j, w)
  BY DEF BatchInv
<1>1. /\ Len(kinds) \in Nat \ {0} /\ Calls = 1..Len(kinds) /\ Calls' = Calls
      /\ at \in Nat \ {0} /\ at <= Len(kinds) + 1
      /\ Len(rest) = 0
  BY Sizes, EmptySeq DEF Flushed, call, Calls
<1>2. /\ UNCHANGED <<kinds, blocking, at, rest, chunk, status, told, busy, results,
                     cancelled, asked>>
      /\ pc = "chunks" /\ ~asked /\ verdict = "none" /\ rest = <<>>
      /\ w = 0 /\ j = at - 1
  BY <1>1 DEF Flushed, call, tasks, BatchInv, ControlInv, Position
<1>3. batch' \in Seq(Calls) /\ batch' = <<>> /\ Len(batch') = 0
  BY EmptySeq DEF Flushed
<1>4. \/ at = Len(kinds) + 1 /\ pc' = "done" /\ verdict' = "returned"
      \/ at <= Len(kinds) /\ pc' = "check" /\ verdict' = "none"
  BY <1>1, <1>2 DEF Flushed, End
<1>5. TypeOK'
  BY <1>1, <1>2, <1>3, <1>4 DEF TypeOK
<1>6. InOrder(j, w)'
  BY <1>1, <1>2 DEF InOrder
<1>7. Position(j, w)'
  BY <1>1, <1>2, <1>4 DEF Position
<1>8. KeptInv' /\ TaskInv'
  BY <1>1, <1>2, <1>3 DEF BatchInv, KeptInv, TaskInv
<1>9. ControlInv'
  BY <1>1, <1>2, <1>3, <1>4 DEF BatchInv, ControlInv
<1>. QED
  BY <1>2, <1>5, <1>6, <1>7, <1>8, <1>9 DEF BatchInv

\* The serial call starts: it is the one under way.
LEMMA CallInv == TypeOK /\ BatchInv /\ CallInline => TypeOK' /\ BatchInv'
<1>. SUFFICES ASSUME TypeOK, BatchInv, CallInline  PROVE TypeOK' /\ BatchInv'
  OBVIOUS
<1>. PICK j \in 0..Len(kinds), w \in 0..Len(kinds) : InOrder(j, w) /\ Position(j, w)
  BY DEF BatchInv
<1>1. /\ Len(kinds) \in Nat \ {0} /\ Calls = 1..Len(kinds) /\ Calls' = Calls
      /\ at \in Nat \ {0} /\ at <= Len(kinds) /\ at \in Calls
      /\ Len(rest) = 0
  BY Sizes, EmptySeq DEF CallInline, call, Calls, BatchInv, ControlInv
<1>2. /\ UNCHANGED <<kinds, blocking, at, batch, rest, chunk, told, results,
                     cancelled, asked, verdict>>
      /\ pc = "call" /\ pc' = "inline" /\ ~asked /\ verdict = "none"
      /\ rest = <<>> /\ batch = <<>>
      /\ w = 0 /\ j = at - 1
  BY <1>1 DEF CallInline, call, BatchInv, ControlInv, Position
<1>3. busy = {}
  BY <1>1, <1>2 DEF InOrder, TypeOK
<1>4. /\ busy' = {at}
      /\ \A i \in Calls : status'[i] = IF i = at THEN "running" ELSE status[i]
  BY <1>1, <1>3 DEF CallInline, Begin, TypeOK
<1>5. TypeOK'
  BY <1>1, <1>2, <1>4 DEF CallInline, Begin, TypeOK
<1>6. InOrder(j, 1)'
  <2>1. /\ \A i \in Calls : i <= j => status'[i] = status[i]
        /\ \A i \in Calls : j < i /\ i <= j + 1 => status'[i] = "running"
        /\ \A i \in Calls : j + 1 < i => status'[i] = status[i] /\ j < i
    BY <1>1, <1>2, <1>4
  <2>2. 1 \in Nat /\ 1 <= MaxWorkers /\ j + 1 + 0 <= Len(kinds)
    BY <1>1, <1>2, AsyncSizeAssumption
  <2>3. \A i \in busy' : j < i /\ i <= j + 1
    BY <1>1, <1>2, <1>4
  <2>. QED
    BY <1>1, <1>2, <2>1, <2>2, <2>3 DEF InOrder
<1>7. Position(j, 1)'
  BY <1>1, <1>2 DEF Position
<1>8. KeptInv' /\ ControlInv'
  BY <1>1, <1>2 DEF BatchInv, KeptInv, ControlInv
<1>9. TaskInv'
  BY <1>1, <1>2, <1>3, <1>4 DEF BatchInv, TaskInv
<1>. QED
  BY <1>1, <1>2, <1>5, <1>6, <1>7, <1>8, <1>9 DEF BatchInv

\* The serial call ended: its result is stored, or its error propagates.
LEMMA InlineInv == TypeOK /\ BatchInv /\ InlineEnds => TypeOK' /\ BatchInv'
<1>. SUFFICES ASSUME TypeOK, BatchInv, InlineEnds  PROVE TypeOK' /\ BatchInv'
  OBVIOUS
<1>. PICK j \in 0..Len(kinds), w \in 0..Len(kinds) : InOrder(j, w) /\ Position(j, w)
  BY DEF BatchInv
<1>1. /\ Len(kinds) \in Nat \ {0} /\ Calls = 1..Len(kinds) /\ Calls' = Calls
      /\ at \in Nat \ {0} /\ at <= Len(kinds) /\ at \in Calls
      /\ Len(rest) = 0
  BY Sizes, EmptySeq DEF InlineEnds, call, Calls, BatchInv, ControlInv
<1>2. /\ UNCHANGED <<kinds, blocking, batch, rest, chunk, status, told, busy, cancelled>>
      /\ pc = "inline" /\ verdict = "none"
      /\ rest = <<>> /\ batch = <<>> /\ Len(batch) = 0
      /\ w = 1 /\ j = at - 1
  BY <1>1, EmptySeq DEF InlineEnds, call, tasks, BatchInv, ControlInv, Position
<1>3. CASE status[at] = "abort"
  <2>1. pc' = "done" /\ verdict' = "aborted" /\ UNCHANGED <<results, at, asked>>
    BY <1>3 DEF InlineEnds, End
  <2>2. TypeOK'
    BY <1>1, <1>2, <2>1 DEF TypeOK
  <2>3. InOrder(j, w)'
    BY <1>1, <1>2, <2>1 DEF InOrder
  <2>4. Position(j, w)'
    BY <2>1 DEF Position
  <2>5. KeptInv' /\ ControlInv' /\ TaskInv'
    BY <1>1, <1>2, <2>1 DEF BatchInv, KeptInv, ControlInv, TaskInv
  <2>. QED
    BY <1>2, <2>2, <2>3, <2>4, <2>5 DEF BatchInv
<1>4. CASE status[at] \in {"ok", "error"}
  <2>1. /\ pc' = "scan" /\ at' = at + 1 /\ ~asked' /\ verdict' = verdict
        /\ asked' \in BOOLEAN
        /\ \A i \in Calls : results'[i] = IF i = at THEN status[i] ELSE results[i]
    BY <1>1, <1>4 DEF InlineEnds, TypeOK
  <2>2. TypeOK'
    <3>1. results' \in [Calls -> {"None", "ok", "error"}]
      BY <1>4, <2>1 DEF InlineEnds, TypeOK
    <3>. QED
      BY <1>1, <1>2, <2>1, <3>1 DEF TypeOK
  <2>3. InOrder(j + 1, 0)'
    <3>1. /\ \A i \in Calls : i <= at => i <= j \/ i = at
          /\ \A i \in Calls : at < i => j + w < i /\ j < i /\ i # at
          /\ \A i \in Calls : i <= j => i # at
          /\ \A i \in Calls : j < i /\ i <= j + w => i = at
      BY <1>1, <1>2
    <3>2. /\ \A i \in Calls : i <= at => status[i] \in {"ok", "error"} /\ results'[i] = status[i]
          /\ \A i \in Calls : at < i => results'[i] = "None" /\ status[i] = "idle"
      BY <1>4, <2>1, <3>1 DEF InOrder
    <3>3. busy = {}
      BY <1>4, <3>1 DEF InOrder, BatchInv, TaskInv, TypeOK
    <3>4. at = j + 1 /\ 0 \in Nat /\ at + 0 + 0 <= Len(kinds) /\ 0 <= MaxWorkers
      BY <1>1, <1>2, AsyncSizeAssumption
    <3>. QED
      BY <1>1, <1>2, <3>2, <3>3, <3>4 DEF InOrder
  <2>4. Position(j + 1, 0)'
    BY <1>1, <1>2, <2>1 DEF Position
  <2>5. KeptInv' /\ ControlInv'
    BY <1>1, <1>2, <2>1 DEF BatchInv, KeptInv, ControlInv
  <2>6. TaskInv'
    BY <1>1, <1>2, <2>1 DEF BatchInv, TaskInv
  <2>. QED
    BY <1>1, <1>2, <2>2, <2>3, <2>4, <2>5, <2>6 DEF BatchInv
<1>. QED
  BY <1>3, <1>4 DEF InlineEnds

\* A gathered task takes its first step.
LEMMA StartInv ==
  ASSUME NEW i \in Calls
  PROVE  TypeOK /\ BatchInv /\ Start(i) => TypeOK' /\ BatchInv'
<1>. SUFFICES ASSUME TypeOK, BatchInv, Start(i)  PROVE TypeOK' /\ BatchInv'
  OBVIOUS
<1>. PICK j \in 0..Len(kinds), w \in 0..Len(kinds) : InOrder(j, w) /\ Position(j, w)
  BY DEF BatchInv
<1>1. Len(kinds) \in Nat \ {0} /\ Calls = 1..Len(kinds) /\ Calls' = Calls
  BY Sizes DEF Start, call, Calls
<1>2. UNCHANGED <<kinds, blocking, pc, at, batch, rest, chunk, told, results,
                  cancelled, asked, verdict>>
  BY DEF Start, call
<1>3. /\ status[i] = "ready" /\ busy' = busy \cup {i}
      /\ \A k \in Calls : status'[k] = IF k = i THEN "running" ELSE status[k]
  BY DEF Start, Begin, TypeOK
<1>4. TypeOK'
  BY <1>1, <1>2, <1>3 DEF Start, Begin, TypeOK
<1>5. j < i /\ i <= j + w
  BY <1>1, <1>3 DEF InOrder
<1>6. InOrder(j, w)'
  <2>1. /\ \A k \in Calls : k <= j => status'[k] = status[k]
        /\ \A k \in Calls : j + w < k => status'[k] = status[k]
        /\ \A k \in Calls : j < k /\ k <= j + w => status'[k] # "idle"
    BY <1>1, <1>3, <1>5 DEF InOrder
  <2>. QED
    BY <1>1, <1>2, <1>3, <1>5, <2>1 DEF InOrder
<1>7. Position(j, w)'
  BY <1>2 DEF Position
<1>8. KeptInv' /\ ControlInv'
  BY <1>2 DEF BatchInv, KeptInv, ControlInv
<1>9. TaskInv'
  BY <1>1, <1>2, <1>3 DEF BatchInv, TaskInv, TypeOK
<1>. QED
  BY <1>2, <1>4, <1>6, <1>7, <1>8, <1>9 DEF BatchInv

\* A call ends: its task with its tool function, its task alone, or the thread
\* its task had left.
LEMMA EndInv ==
  ASSUME NEW i \in Calls, NEW r \in {"ok", "error", "abort"}
  PROVE  TypeOK /\ BatchInv /\ (ToolEnds(i, r) \/ StopWaiting(i) \/ ThreadEnds(i))
           => TypeOK' /\ BatchInv'
<1>. SUFFICES ASSUME TypeOK, BatchInv, ToolEnds(i, r) \/ StopWaiting(i) \/ ThreadEnds(i)
              PROVE  TypeOK' /\ BatchInv'
  OBVIOUS
<1>. PICK j \in 0..Len(kinds), w \in 0..Len(kinds) : InOrder(j, w) /\ Position(j, w)
  BY DEF BatchInv
<1>1. Len(kinds) \in Nat \ {0} /\ Calls = 1..Len(kinds) /\ Calls' = Calls
  BY Sizes DEF ToolEnds, StopWaiting, ThreadEnds, call, Calls
<1>2. UNCHANGED <<kinds, blocking, pc, at, batch, rest, chunk, told, results,
                  cancelled, asked, verdict>>
  BY DEF ToolEnds, StopWaiting, ThreadEnds, call
<1>3. /\ i \in busy
      /\ \/ /\ busy' = busy \ {i}
            /\ \A k \in Calls : status'[k] = IF k = i THEN r ELSE status[k]
         \/ /\ busy' = busy /\ i \in told
            /\ \A k \in Calls : status'[k] = IF k = i THEN "abort" ELSE status[k]
         \/ busy' = busy \ {i} /\ status' = status /\ status[i] = "abort"
  BY DEF ToolEnds, StopWaiting, ThreadEnds, TypeOK, BatchInv, TaskInv
<1>4. TypeOK'
  <2>1. /\ status' \in [Calls -> {"idle", "ready", "running", "ok", "error", "abort",
                                  "dropped"}]
        /\ busy' \subseteq Calls
    BY <1>3 DEF ToolEnds, StopWaiting, ThreadEnds, TypeOK
  <2>. QED
    BY <1>1, <1>2, <2>1 DEF TypeOK
<1>5. j < i /\ i <= j + w
  BY <1>3 DEF InOrder
<1>6. InOrder(j, w)'
  <2>1. /\ \A k \in Calls : k # i => status'[k] = status[k]
        /\ status'[i] # "idle" \/ status'[i] = status[i]
        /\ busy' \subseteq busy
    BY <1>3
  <2>2. \A k \in Calls : k <= j \/ j + w < k => k # i
    BY <1>1, <1>5
  <2>3. \A k \in Calls : j < k /\ k <= j + w => status[k] # "idle"
    BY DEF InOrder
  <2>4. /\ \A k \in Calls : k <= j => status'[k] = status[k]
        /\ \A k \in Calls : j + w < k => status'[k] = status[k]
        /\ \A k \in Calls : j < k /\ k <= j + w => status'[k] # "idle"
    BY <2>1, <2>2, <2>3
  <2>. QED
    BY <1>1, <1>2, <2>1, <2>4 DEF InOrder
<1>7. Position(j, w)'
  BY <1>2 DEF Position
<1>8. KeptInv' /\ ControlInv'
  BY <1>2 DEF BatchInv, KeptInv, ControlInv
<1>9. TaskInv'
  BY <1>1, <1>2, <1>3 DEF BatchInv, TaskInv, TypeOK
<1>. QED
  BY <1>2, <1>4, <1>6, <1>7, <1>8, <1>9 DEF BatchInv

\* What the executing task awaits is all that is under way.
LEMMA AwaitedCalls ==
  ASSUME TypeOK, NEW j \in 0..Len(kinds), NEW w \in 0..Len(kinds),
         InOrder(j, w), Position(j, w), ControlInv, pc \in {"gather", "inline"}
  PROVE  Awaited = {i \in Calls : j < i /\ i <= j + w}
<1>1. CASE pc = "gather"
  BY <1>1, ChunkCalls DEF Awaited
<1>2. CASE pc = "inline"
  <2>1. /\ j = at - 1 /\ w = 1 /\ Calls = 1..Len(kinds) /\ Len(kinds) \in Nat
        /\ at \in Calls /\ Awaited = {at}
    BY <1>2, Sizes DEF Position, ControlInv, Awaited
  <2>. QED
    BY <2>1
<1>. QED
  BY <1>1, <1>2

\* The executing task is cancelled, and with it what it awaits.
LEMMA CancelInv == TypeOK /\ BatchInv /\ CancelTask => TypeOK' /\ BatchInv'
<1>. SUFFICES ASSUME TypeOK, BatchInv, CancelTask  PROVE TypeOK' /\ BatchInv'
  OBVIOUS
<1>. PICK j \in 0..Len(kinds), w \in 0..Len(kinds) : InOrder(j, w) /\ Position(j, w)
  BY DEF BatchInv
<1>1. Len(kinds) \in Nat \ {0} /\ Calls = 1..Len(kinds) /\ Calls' = Calls
  BY Sizes DEF CancelTask, call, Calls
<1>2. /\ UNCHANGED <<kinds, blocking, pc, at, batch, rest, chunk, busy, results,
                     cancelled, verdict>>
      /\ asked' = TRUE /\ pc \in {"gather", "inline"}
  BY DEF CancelTask, call
<1>3. Awaited = {i \in Calls : j < i /\ i <= j + w}
  BY <1>2, AwaitedCalls DEF BatchInv
<1>4. /\ told' = told \cup {i \in Awaited : status[i] = "running"}
      /\ \A i \in Calls :
           status'[i] = IF i \in Awaited /\ status[i] = "ready" THEN "dropped"
                        ELSE status[i]
  BY DEF CancelTask
<1>5. TypeOK'
  <2>1. told' \subseteq Calls
    BY <1>3, <1>4 DEF TypeOK
  <2>2. status' \in [Calls -> {"idle", "ready", "running", "ok", "error", "abort",
                               "dropped"}]
    BY DEF CancelTask, TypeOK
  <2>. QED
    BY <1>1, <1>2, <2>1, <2>2 DEF TypeOK
<1>6. InOrder(j, w)'
  <2>1. /\ \A k \in Calls : k <= j => status'[k] = status[k]
        /\ \A k \in Calls : j + w < k => status'[k] = status[k]
        /\ \A k \in Calls : j < k /\ k <= j + w => status'[k] # "idle"
    <3>1. \A k \in Calls : k <= j \/ j + w < k => k \notin Awaited
      BY <1>1, <1>3
    <3>2. \A k \in Calls : j < k /\ k <= j + w => status[k] # "idle"
      BY DEF InOrder
    <3>. QED
      BY <1>4, <3>1, <3>2
  <2>. QED
    BY <1>1, <1>2, <2>1 DEF InOrder
<1>7. Position(j, w)'
  BY <1>2 DEF Position
<1>8. KeptInv' /\ ControlInv'
  BY <1>2 DEF BatchInv, KeptInv, ControlInv
<1>9. TaskInv'
  <2>1. \A i \in Calls : status[i] \in {"ready", "running"} => i \in Awaited
    BY <1>1, <1>3 DEF InOrder
  <2>2. \A i \in Calls : /\ status'[i] = "running" <=> status[i] = "running"
                         /\ status'[i] = "abort" <=> status[i] = "abort"
                         /\ status'[i] # "ready"
    BY <1>4, <2>1
  <2>3. \A i \in Calls : status[i] = "running" => i \in told'
    BY <1>4, <2>1
  <2>. QED
    BY <1>1, <1>2, <1>4, <2>2, <2>3 DEF BatchInv, TaskInv, TypeOK
<1>. QED
  BY <1>2, <1>5, <1>6, <1>7, <1>8, <1>9 DEF BatchInv

\* The cancel event is set, or nothing happens.
LEMMA IdleInv ==
  TypeOK /\ BatchInv /\ (SetCancel \/ UNCHANGED vars) => TypeOK' /\ BatchInv'
<1>. SUFFICES ASSUME TypeOK, BatchInv, SetCancel \/ UNCHANGED vars
              PROVE  TypeOK' /\ BatchInv'
  OBVIOUS
<1>. PICK j \in 0..Len(kinds), w \in 0..Len(kinds) : InOrder(j, w) /\ Position(j, w)
  BY DEF BatchInv
<1>1. /\ UNCHANGED <<kinds, blocking, pc, at, batch, rest, chunk, status, told, busy,
                     results, asked, verdict>>
      /\ cancelled' \in {cancelled, TRUE}
      /\ Calls' = Calls
  BY DEF SetCancel, vars, call, tasks, Calls
<1>2. TypeOK'
  BY <1>1 DEF TypeOK
<1>3. InOrder(j, w)' /\ Position(j, w)'
  BY <1>1 DEF InOrder, Position
<1>4. KeptInv' /\ ControlInv' /\ TaskInv'
  BY <1>1 DEF BatchInv, KeptInv, ControlInv, TaskInv
<1>. QED
  BY <1>1, <1>2, <1>3, <1>4 DEF BatchInv

LEMMA InvStep == TypeOK /\ BatchInv /\ [Next]_vars => TypeOK' /\ BatchInv'
BY KeepInv, MoveInv, CheckInv, GatherInv, GatheredInv, FlushedInv, CallInv, InlineInv,
   StartInv, EndInv, CancelInv, IdleInv DEF Next, Caller, Task, Done

-----------------------------------------------------------------------------
\* Every variable of a batch keeps its type.
THEOREM AsyncTypeCorrect == Spec => []TypeOK
BY InitInv, InvStep, PTL DEF Spec

-----------------------------------------------------------------------------
(***************************************************************************)
(* What a batch leaves behind.                                             *)
(***************************************************************************)

LEMMA LeftInv == TypeOK /\ BatchInv => Leftovers
<1>. DEFINE left == busy \cup {i \in Calls : status[i] \in {"ready", "running"}}
<1>. SUFFICES ASSUME TypeOK, BatchInv, pc = "done"
              PROVE  /\ verdict \in {"returned", "cancelled"} => left = {}
                     /\ verdict = "returned" => results = status
                     /\ asked => left \subseteq told
                     /\ \A i, k \in left : i < k => Together(i, k)
                     /\ Cardinality(left) <= MaxWorkers
  BY DEF Leftovers
<1>. PICK j \in 0..Len(kinds), w \in 0..Len(kinds) : InOrder(j, w) /\ Position(j, w)
  BY DEF BatchInv
<1>1. Len(kinds) \in Nat \ {0} /\ Calls = 1..Len(kinds)
  BY Sizes
<1>2. \A i \in left : i \in Calls /\ j < i /\ i <= j + w
  <2>1. \A i \in Calls : status[i] \in {"ready", "running"} => j < i /\ i <= j + w
    BY <1>1 DEF InOrder
  <2>2. \A i \in busy : i \in Calls /\ j < i /\ i <= j + w
    BY DEF InOrder, TypeOK
  <2>. QED
    BY <2>1, <2>2
<1>3. verdict \in {"returned", "cancelled"} => left = {}
  <2>1. ASSUME w = 0, NEW i \in left  PROVE FALSE
    BY <1>1, <1>2, <2>1
  <2>. QED
    BY <2>1 DEF Position
<1>4. ASSUME verdict = "returned"  PROVE results = status
  <2>1. \A i \in Calls : results[i] = status[i]
    BY <1>1, <1>4 DEF InOrder, Position
  <2>. QED
    BY <2>1 DEF TypeOK
<1>5. asked => left \subseteq told
  BY DEF BatchInv, TaskInv, TypeOK
<1>6. ASSUME NEW i \in left, NEW k \in left, i < k  PROVE Together(i, k)
  <2>1. w > 1
    BY <1>1, <1>2, <1>6
  <2>2. \A l \in Calls : i <= l /\ l <= k => j < l /\ l <= j + w
    BY <1>1, <1>2
  <2>. QED
    BY <2>1, <2>2 DEF InOrder, Together
<1>7. Cardinality(left) <= MaxWorkers
  <2>. DEFINE W == j + 1..j + w
  <2>. HIDE DEF left
  <2>1. left \subseteq W
    BY <1>1, <1>2
  <2>2. IsFiniteSet(W) /\ Cardinality(W) = w
    <3>1. j + 1 \in Int /\ j + w \in Int /\ w \in Nat
      OBVIOUS
    <3>2. /\ IsFiniteSet(W)
          /\ Cardinality(W) = IF j + 1 > j + w THEN 0 ELSE (j + w) - (j + 1) + 1
      BY <3>1, FS_Interval
    <3>. HIDE DEF W
    <3>. QED
      BY <3>1, <3>2
  <2>. HIDE DEF W
  <2>3. Cardinality(left) <= Cardinality(W) /\ IsFiniteSet(left)
    BY <2>1, <2>2, FS_Subset
  <2>4. Cardinality(left) \in Nat
    BY <2>3, FS_CardinalityType
  <2>. QED
    BY <2>2, <2>3, <2>4, AsyncSizeAssumption DEF InOrder
<1>. QED
  BY <1>3, <1>4, <1>5, <1>6, <1>7

\* When aexecute_all is left nothing of the batch runs, unless its task was
\* cancelled or a tool's CancelledError escaped: then at most one chunk of
\* parallel calls, all told to stop if the task was cancelled.
THEOREM LittleIsLeft == Spec => []Leftovers
<1>. DEFINE Inv == TypeOK /\ BatchInv
<1>1. Init => Inv
  BY InitInv
<1>2. Inv /\ [Next]_vars => Inv'
  BY InvStep
<1>3. Inv => Leftovers
  BY LeftInv
<1>. HIDE DEF Inv
<1>. QED
  BY <1>1, <1>2, <1>3, PTL DEF Spec

-----------------------------------------------------------------------------
(***************************************************************************)
(* aexecute_all implements ToolBatch.                                      *)
(***************************************************************************)

\* The abstract specification's Cardinality is the one the facts are about.
LEMMA SameCardinality ==
  ASSUME NEW S  PROVE Batch!Cardinality(S) = Cardinality(S)
BY DEF Batch!Cardinality, Cardinality

\* What the abstract specification sees of a call.
LEMMA Seen ==
  ASSUME TypeOK, BatchInv
  PROVE  /\ Batch!Calls = Calls
         /\ Status \in [Calls -> {"idle", "running", "ok", "error", "abort"}]
         /\ \A i \in Calls : /\ Status[i] = "running" <=> i \in busy
                             /\ Status[i] = "idle" <=>
                                  status[i] \in {"idle", "ready", "dropped"}
                             /\ i \notin busy /\ status[i] \notin {"ready", "dropped"} =>
                                  Status[i] = status[i]
<1>1. \A i \in Calls : i \in busy => status[i] \notin {"idle", "ready", "dropped"}
  BY DEF BatchInv, TaskInv
<1>2. \A i \in Calls : status[i] = "running" => i \in busy
  BY DEF BatchInv, TaskInv
<1>3. \A i \in Calls : status[i] \in {"idle", "ready", "running", "ok", "error", "abort",
                                      "dropped"}
  BY DEF TypeOK
<1>4. \A i \in Calls : /\ i \in busy => Status[i] = "running"
                       /\ i \notin busy /\ status[i] \in {"ready", "dropped"} =>
                            Status[i] = "idle"
                       /\ i \notin busy /\ status[i] \notin {"ready", "dropped"} =>
                            Status[i] = status[i]
  <2>. SUFFICES ASSUME NEW i \in Calls
                PROVE  /\ i \in busy => Status[i] = "running"
                       /\ i \notin busy /\ status[i] \in {"ready", "dropped"} =>
                            Status[i] = "idle"
                       /\ i \notin busy /\ status[i] \notin {"ready", "dropped"} =>
                            Status[i] = status[i]
    OBVIOUS
  <2>. DEFINE p == i \in busy
              q == status[i] \in {"ready", "dropped"}
  <2>1. Status[i] = CASE p -> "running" [] q -> "idle" [] OTHER -> status[i]
    BY DEF Status
  <2>2. p => ~q
    BY <1>1
  <2>. HIDE DEF p, q
  <2>3. p => Status[i] = "running"
    BY <2>1, <2>2
  <2>4. ~p /\ q => Status[i] = "idle"
    BY <2>1
  <2>5. ~p /\ ~q => Status[i] = status[i]
    BY <2>1
  <2>. QED
    BY <2>3, <2>4, <2>5 DEF p, q
<1>5. Batch!Calls = Calls
  BY DEF Batch!Calls, Calls
<1>6. Status = [i \in Calls |-> Status[i]]
  BY DEF Status
<1>7. \A i \in Calls : Status[i] \in {"idle", "running", "ok", "error", "abort"}
  BY <1>1, <1>2, <1>3, <1>4
<1>. QED
  BY <1>1, <1>2, <1>3, <1>4, <1>5, <1>6, <1>7

\* What changes the abstract status of one call only.
LEMMA SeenStep ==
  ASSUME TypeOK, BatchInv, TypeOK', BatchInv', kinds' = kinds,
         NEW i \in Calls, NEW v,
         \A k \in Calls \ {i} : /\ status'[k] = status[k]
                                /\ k \in busy' <=> k \in busy,
         Status'[i] = v
  PROVE  Status' = [Status EXCEPT ![i] = v]
<1>1. Calls' = Calls
  BY DEF Calls
<1>2. \A k \in Calls \ {i} : Status'[k] = Status[k]
  BY <1>1 DEF Status
<1>3. DOMAIN Status = Calls /\ DOMAIN Status' = Calls
  BY <1>1 DEF Status
<1>. DEFINE f == [Status EXCEPT ![i] = v]
<1>4. \A k \in Calls : Status'[k] = f[k]
  BY <1>2, <1>3
<1>5. Status = [k \in Calls |-> Status[k]] /\ Status' = [k \in Calls |-> Status'[k]]
  BY <1>1 DEF Status
<1>. QED
  BY <1>3, <1>4, <1>5

LEMMA BatchInit == Init => Batch!Init
<1>. SUFFICES ASSUME Init  PROVE Batch!Init
  OBVIOUS
<1>1. DOMAIN rest = {}
  BY DEF Init
<1>2. Admitted = {}
  BY <1>1 DEF Init, Admitted
<1>3. Status = [i \in Calls |-> "idle"]
  BY DEF Init, Status
<1>. QED
  BY <1>2, <1>3 DEF Init, Batch!Init, Batch!Calls, Calls

\* The batch kept is admitted as one group, everything before it answered; so
\* is a serial or unknown call, after its check.
LEMMA BatchAdmit ==
  TypeOK /\ BatchInv /\ CheckPasses => [Batch!Next]_(Batch!vars)
<1>. SUFFICES ASSUME TypeOK, BatchInv, CheckPasses  PROVE [Batch!Next]_(Batch!vars)
  OBVIOUS
<1>. PICK j \in 0..Len(kinds), w \in 0..Len(kinds) : InOrder(j, w) /\ Position(j, w)
  BY DEF BatchInv
<1>1. /\ Len(kinds) \in Nat \ {0} /\ Calls = 1..Len(kinds)
      /\ at \in Nat \ {0} /\ Len(batch) \in Nat
  BY Sizes
<1>2. /\ UNCHANGED <<kinds, at, status, busy, cancelled, verdict>>
      /\ w = 0 /\ rest = <<>> /\ verdict = "none" /\ ~cancelled
      /\ pc \in {"flush", "check"}
  BY DEF CheckPasses, Checked, call, tasks, Position, BatchInv, ControlInv
<1>3. Status' = Status /\ Batch!Calls = Calls /\ Calls' = Calls
  BY <1>2, Seen DEF Status, Calls
<1>4. \A k \in Calls : k <= j => Batch!Answered(k)
  <2>1. \A k \in Calls : k <= j => status[k] \in {"ok", "error"} /\ k \notin busy
    BY <1>1, <1>2 DEF InOrder
  <2>. QED
    BY <2>1, Seen DEF Batch!Answered
<1>5. Admitted = {i \in Calls : status[i] # "idle"} /\ DOMAIN rest = {}
  BY <1>2 DEF Admitted
<1>6. \A i \in Calls : i \in Admitted => i <= j
  BY <1>1, <1>2, <1>5 DEF InOrder
<1>7. CASE pc = "flush"
  <2>. DEFINE S == {batch[k] : k \in 1..Len(batch)}
  <2>1. rest' = batch /\ pc' = "chunks" /\ DOMAIN batch = 1..Len(batch)
    BY <1>7, LenProperties DEF CheckPasses, TypeOK
  <2>2. j + Len(batch) = at - 1
    BY <1>7 DEF Position
  <2>3. \A k \in 1..Len(batch) : batch[k] = j + k /\ kinds[batch[k]] = "parallel"
                                 /\ batch[k] \in Calls
    <3>1. \A k \in 1..Len(batch) : at - 1 - Len(batch) + k = j + k
      BY <1>1, <2>2
    <3>2. \A k \in 1..Len(batch) : batch[k] \in Calls
      BY <1>1 DEF TypeOK
    <3>. QED
      BY <3>1, <3>2 DEF BatchInv, KeptInv
  <2>4. Admitted' = Admitted \cup S
    BY <1>2, <1>3, <1>5, <2>1 DEF Admitted
  <2>5. \A i \in S : i \in Calls /\ j < i /\ kinds[i] = "parallel"
    BY <1>1, <2>3
  <2>6. \A k \in Calls : (\E l \in S : k <= l) /\ j < k => k \in S
    <3>. SUFFICES ASSUME NEW k \in Calls, NEW l \in 1..Len(batch), k <= batch[l], j < k
                  PROVE  k \in S
      OBVIOUS
    <3>1. k - j \in 1..Len(batch) /\ batch[l] = j + l
      BY <1>1, <2>3
    <3>2. batch[k - j] = k
      BY <1>1, <2>3, <3>1
    <3>. QED
      BY <3>1, <3>2
  <2>. HIDE DEF S
  <2>7. CASE S = {}
    BY <1>2, <1>3, <2>4, <2>7 DEF Batch!vars
  <2>8. CASE S # {}
    <3>1. S \cap Admitted = {}
      BY <1>1, <1>6, <2>5
    <3>2. \A i, k \in S : Batch!Together(i, k)
      <4>. SUFFICES ASSUME NEW i \in S, NEW k \in S, NEW l \in Calls,
                           (i <= l /\ l <= k) \/ (k <= l /\ l <= i)
                    PROVE  kinds[l] = "parallel"
        BY <1>3 DEF Batch!Together
      <4>1. j < l
        BY <1>1, <2>5
      <4>. QED
        BY <2>5, <2>6, <4>1
    <3>3. \A i \in S, k \in Calls \ S : k < i => Batch!Answered(k)
      <4>. SUFFICES ASSUME NEW i \in S, NEW k \in Calls \ S, k < i
                    PROVE  Batch!Answered(k)
        OBVIOUS
      <4>1. k <= i /\ k <= j
        BY <1>1, <2>5, <2>6
      <4>. QED
        BY <1>4, <4>1
    <3>4. Batch!Admit(S)
      BY <1>2, <1>3, <2>4, <2>8, <3>1, <3>2, <3>3 DEF Batch!Admit
    <3>5. S \in SUBSET Batch!Calls
      BY <1>3, <2>5
    <3>. QED
      BY <3>4, <3>5 DEF Batch!Next
  <2>. QED
    BY <2>7, <2>8
<1>8. CASE pc = "check"
  <2>1. /\ pc' = "call" /\ rest' = rest /\ j = at - 1 /\ at \in Calls
    BY <1>1, <1>8 DEF CheckPasses, Position, BatchInv, ControlInv
  <2>2. Admitted' = Admitted \cup {at}
    BY <1>2, <1>3, <1>5, <2>1 DEF Admitted
  <2>3. at \notin Admitted
    BY <1>1, <1>6, <2>1
  <2>4. \A k \in Calls : k < at => Batch!Answered(k)
    BY <1>1, <1>4, <2>1
  <2>5. Batch!Admit({at})
    BY <1>2, <1>3, <2>2, <2>3, <2>4 DEF Batch!Admit
  <2>6. {at} \in SUBSET Batch!Calls
    BY <1>3, <2>1
  <2>. QED
    BY <2>5, <2>6 DEF Batch!Next
<1>. QED
  BY <1>2, <1>7, <1>8

\* Admitted calls start, gathered or awaited, fewer than the chunk's size
\* being under way.
LEMMA BatchStart ==
  /\ TypeOK /\ BatchInv /\ CallInline => Batch!Next
  /\ \A i \in Calls : TypeOK /\ BatchInv /\ Start(i) => Batch!Next
<1>1. ASSUME NEW i \in Calls, TypeOK, BatchInv,
             (CallInline /\ i = at) \/ Start(i)
      PROVE  Batch!Next
  <2>. PICK j \in 0..Len(kinds), w \in 0..Len(kinds) :
              InOrder(j, w) /\ Position(j, w)
    BY <1>1 DEF BatchInv
  <2>1. Len(kinds) \in Nat \ {0} /\ Calls = 1..Len(kinds) /\ Batch!Calls = Calls
    BY <1>1, Sizes, Seen
  <2>2. /\ UNCHANGED <<kinds, at, rest, cancelled, verdict>>
        /\ status' = [status EXCEPT ![i] = "running"] /\ busy' = busy \cup {i}
        /\ Calls' = Calls
    BY <1>1 DEF CallInline, Start, Begin, call, Calls
  <2>3. /\ status[i] \in {"idle", "ready"} /\ i \notin busy
        /\ i \in Admitted /\ Admitted' = Admitted
        /\ busy \subseteq j + 1..j + MaxWorkers /\ (w = 0 => busy = {})
        /\ \E n \in j + 1..j + MaxWorkers : n \notin busy
    <3>1. /\ MaxWorkers \in Nat \ {0} /\ w <= MaxWorkers /\ busy \subseteq Calls
          /\ \A k \in busy : j < k /\ k <= j + w
      BY <1>1, AsyncSizeAssumption DEF InOrder, TypeOK
    <3>2. busy \subseteq j + 1..j + MaxWorkers /\ (w = 0 => busy = {})
      BY <2>1, <3>1
    <3>3. \A k \in Calls : k # i => (status'[k] # "idle" <=> status[k] # "idle")
      BY <1>1, <2>2 DEF TypeOK
    <3>4. status'[i] = "running"
      BY <1>1, <2>2 DEF TypeOK
    <3>5. CASE CallInline /\ i = at
      <4>1. pc = "call" /\ pc' = "inline" /\ w = 0 /\ j = at - 1
        BY <3>5 DEF CallInline, Position
      <4>2. status[i] = "idle"
        BY <2>1, <3>5, <4>1 DEF InOrder
      <4>3. Admitted' = Admitted /\ i \in Admitted
        BY <2>2, <3>3, <3>4, <3>5, <4>1 DEF Admitted
      <4>4. j + 1 \in j + 1..j + MaxWorkers /\ j + 1 \notin busy
        BY <3>1, <3>2, <4>1
      <4>. QED
        BY <3>2, <4>1, <4>2, <4>3, <4>4
    <3>6. CASE Start(i)
      <4>1. status[i] = "ready" /\ pc' = pc
        BY <3>6 DEF Start
      <4>2. i \notin busy
        BY <1>1, <4>1 DEF BatchInv, TaskInv
      <4>3. Admitted' = Admitted /\ i \in Admitted
        BY <2>2, <3>3, <3>4, <4>1 DEF Admitted
      <4>4. j < i /\ i <= j + w
        BY <1>1, <2>1, <4>1 DEF InOrder
      <4>5. i \in j + 1..j + MaxWorkers
        BY <2>1, <3>1, <4>4
      <4>. QED
        BY <3>2, <4>1, <4>2, <4>3, <4>5
    <3>. QED
      BY <1>1, <3>5, <3>6
  <2>4. TypeOK' /\ BatchInv'
    BY <1>1, CallInv, StartInv
  <2>5. Status' = [Status EXCEPT ![i] = "running"]
    <3>1. Status'[i] = "running"
      <4>1. i \in Calls' /\ i \in busy' /\ status'[i] = "running"
        BY <1>1, <2>2 DEF TypeOK
      <4>. QED
        BY <4>1 DEF Status
    <3>2. \A k \in Calls \ {i} : status'[k] = status[k] /\ (k \in busy' <=> k \in busy)
      BY <1>1, <2>2 DEF TypeOK
    <3>. QED
      BY <1>1, <2>2, <2>4, <3>1, <3>2, SeenStep
  <2>6. Status[i] = "idle"
    BY <1>1, <2>3, Seen
  <2>7. Batch!Running = busy
    BY <1>1, <2>1, Seen DEF Batch!Running, TypeOK
  <2>8. Cardinality(busy) < MaxWorkers
    <3>. DEFINE W == j + 1..j + MaxWorkers
    <3>1. IsFiniteSet(W) /\ Cardinality(W) = MaxWorkers
      <4>1. j + 1 \in Int /\ j + MaxWorkers \in Int /\ MaxWorkers \in Nat \ {0}
        BY AsyncSizeAssumption
      <4>2. /\ IsFiniteSet(W)
            /\ Cardinality(W) = IF j + 1 > j + MaxWorkers THEN 0
                                ELSE (j + MaxWorkers) - (j + 1) + 1
        BY <4>1, FS_Interval
      <4>. HIDE DEF W
      <4>. QED
        BY <4>1, <4>2
    <3>. HIDE DEF W
    <3>2. busy \subseteq W /\ busy # W
      BY <2>3 DEF W
    <3>3. /\ IsFiniteSet(busy) /\ Cardinality(busy) <= Cardinality(W)
          /\ Cardinality(W) # Cardinality(busy)
      BY <3>1, <3>2, FS_Subset
    <3>4. Cardinality(busy) \in Nat
      BY <3>3, FS_CardinalityType
    <3>. QED
      BY <3>1, <3>3, <3>4, AsyncSizeAssumption
  <2>9. Batch!Start(i)
    BY <2>2, <2>3, <2>5, <2>6, <2>7, <2>8, SameCardinality DEF Batch!Start
  <2>. QED
    BY <1>1, <2>1, <2>9 DEF Batch!Next
<1>2. ASSUME TypeOK, BatchInv, CallInline  PROVE at \in Calls
  BY <1>2, Sizes DEF CallInline, BatchInv, ControlInv
<1>. QED
  BY <1>1, <1>2

\* A tool function ends, in its task or in a thread its task had left.
LEMMA BatchFinish ==
  ASSUME NEW i \in Calls, NEW r \in {"ok", "error", "abort"}
  PROVE  TypeOK /\ BatchInv /\ (ToolEnds(i, r) \/ ThreadEnds(i)) => Batch!Next
<1>. SUFFICES ASSUME TypeOK, BatchInv, ToolEnds(i, r) \/ ThreadEnds(i)
              PROVE  Batch!Next
  OBVIOUS
<1>1. UNCHANGED <<kinds, pc, at, rest, cancelled, verdict>> /\ busy' = busy \ {i}
      /\ Calls' = Calls
  BY DEF ToolEnds, ThreadEnds, call, Calls
<1>2. TypeOK' /\ BatchInv'
  BY EndInv
<1>. PICK v \in {"ok", "error", "abort"} : status' = [status EXCEPT ![i] = v]
  <2>1. CASE ToolEnds(i, r)
    BY <2>1 DEF ToolEnds
  <2>2. CASE ThreadEnds(i)
    <3>1. status' = status /\ status[i] = "abort" /\ DOMAIN status = Calls
      BY <2>2 DEF ThreadEnds, TypeOK
    <3>2. status' = [status EXCEPT ![i] = "abort"]
      BY <3>1 DEF TypeOK
    <3>. QED
      BY <3>2
  <2>. QED
    BY <2>1, <2>2
<1>3. i \in busy
  BY DEF ToolEnds, ThreadEnds, BatchInv, TaskInv
<1>4. status'[i] = v /\ \A k \in Calls \ {i} : status'[k] = status[k]
  BY DEF TypeOK
<1>5. Status' = [Status EXCEPT ![i] = v]
  <2>1. Status'[i] = v
    BY <1>1, <1>2, <1>4, Seen DEF Status
  <2>. QED
    BY <1>1, <1>2, <1>4, <2>1, SeenStep
<1>6. Admitted' = Admitted
  <2>1. \A k \in Calls : status'[k] # "idle" <=> status[k] # "idle"
    BY <1>3, <1>4 DEF BatchInv, TaskInv
  <2>. QED
    BY <1>1, <2>1 DEF Admitted
<1>7. Status[i] = "running" /\ Batch!Calls = Calls
  BY <1>3, Seen
<1>8. Batch!Finish(i, v)
  BY <1>1, <1>5, <1>6, <1>7 DEF Batch!Finish
<1>. QED
  BY <1>7, <1>8 DEF Batch!Next

\* The batch ends: aborted or, when every call is answered, returned.
LEMMA BatchEnd ==
  TypeOK /\ BatchInv
    /\ (RaiseCancelled \/ GatherRaises \/ Unwound \/ Flushed \/ InlineEnds)
  => [Batch!Next]_(Batch!vars)
<1>. SUFFICES ASSUME TypeOK, BatchInv,
                     RaiseCancelled \/ GatherRaises \/ Unwound \/ Flushed \/ InlineEnds
              PROVE  [Batch!Next]_(Batch!vars)
  OBVIOUS
<1>. PICK j \in 0..Len(kinds), w \in 0..Len(kinds) : InOrder(j, w) /\ Position(j, w)
  BY DEF BatchInv
<1>1. Len(kinds) \in Nat \ {0} /\ Calls = 1..Len(kinds) /\ Batch!Calls = Calls
  BY Sizes, Seen
<1>2. /\ UNCHANGED <<kinds, rest, status, busy, cancelled>> /\ verdict = "none"
      /\ pc # "call" /\ pc' # "call"
      /\ \/ verdict' = verdict
         \/ /\ verdict' \in {"returned", "cancelled", "aborted"}
            /\ verdict' = "cancelled" => cancelled
            /\ verdict' = "returned" =>
                 w = 0 /\ j = at - 1 /\ at = Len(kinds) + 1
  <2>1. CASE RaiseCancelled \/ GatherRaises \/ Unwound
    BY <2>1 DEF RaiseCancelled, GatherRaises, Unwound, End, Checked, call, tasks,
       BatchInv, ControlInv
  <2>2. CASE InlineEnds
    BY <2>2 DEF InlineEnds, End, call, tasks, BatchInv, ControlInv
  <2>3. CASE Flushed
    <3>1. Len(rest) = 0 /\ at <= Len(kinds) + 1 /\ at \in Nat
      BY <2>3, Sizes, EmptySeq DEF Flushed
    <3>2. w = 0 /\ j = at - 1
      BY <2>3, <3>1 DEF Flushed, Position
    <3>3. at > Len(kinds) => at = Len(kinds) + 1
      BY <1>1, <3>1
    <3>. QED
      BY <2>3, <3>2, <3>3 DEF Flushed, End, call, tasks, BatchInv, ControlInv
  <2>. QED
    BY <2>1, <2>2, <2>3
<1>3. Status' = Status /\ Admitted' = Admitted
  BY <1>2 DEF Status, Admitted, Calls
<1>4. CASE verdict' = verdict
  BY <1>2, <1>3, <1>4 DEF Batch!vars
<1>5. CASE verdict' # verdict
  <2>1. verdict' = "returned" => \A k \in Calls : Batch!Answered(k)
    <3>. SUFFICES ASSUME w = 0, j = at - 1, at = Len(kinds) + 1, NEW k \in Calls
                  PROVE  Batch!Answered(k)
      BY <1>2, <1>5
    <3>1. status[k] \in {"ok", "error"} /\ k \notin busy
      BY <1>1 DEF InOrder
    <3>. QED
      BY <3>1, Seen DEF Batch!Answered
  <2>2. Batch!End(verdict')
    BY <1>1, <1>2, <1>3, <1>5, <2>1 DEF Batch!End
  <2>. QED
    BY <1>2, <1>5, <2>2 DEF Batch!Next
<1>. QED
  BY <1>4, <1>5

\* What nobody outside sees: bookkeeping, the chunk's boundaries, what a
\* cancelled task drops, and a task that leaves its thread.
LEMMA BatchUnseen ==
  ASSUME TypeOK, BatchInv,
         \/ Keep \/ Barrier \/ Gather \/ Gathered \/ CancelTask
         \/ (\E i \in Calls : StopWaiting(i)) \/ UNCHANGED vars
  PROVE  UNCHANGED Batch!vars
<1>1. CASE Keep \/ Barrier \/ Gathered \/ UNCHANGED vars
  <2>1. /\ UNCHANGED <<kinds, rest, status, busy, cancelled, verdict>>
        /\ pc' = "call" <=> pc = "call"
        /\ pc = "call" => at' = at
    BY <1>1 DEF Keep, Barrier, FlushNext, Gathered, vars, call, tasks
  <2>2. Status' = Status /\ Admitted' = Admitted
    BY <2>1 DEF Status, Admitted, Calls
  <2>. QED
    BY <2>1, <2>2 DEF Batch!vars
<1>2. CASE Gather
  <2>. PICK j \in 0..Len(kinds), w \in 0..Len(kinds) :
              InOrder(j, w) /\ Position(j, w)
    BY DEF BatchInv
  <2>. PICK k \in 0..Len(kinds), v \in 0..Len(kinds) :
              InOrder(k, v)' /\ Position(k, v)'
    BY <1>2, GatherInv DEF BatchInv, Gather, call
  <2>1. /\ UNCHANGED <<kinds, busy, cancelled, verdict, at>>
        /\ pc = "chunks" /\ pc' = "gather" /\ Calls' = Calls
    BY <1>2 DEF Gather, call, Calls
  <2>2. \A i \in Calls : status'[i] # status[i] => status'[i] = "ready"
    BY <1>2 DEF Gather
  <2>3. /\ Len(kinds) \in Nat /\ Calls = 1..Len(kinds) /\ at \in Nat
        /\ Len(rest) \in Nat /\ Len(rest') \in Nat /\ Len(chunk') \in Nat
        /\ DOMAIN rest = 1..Len(rest) /\ DOMAIN rest' = 1..Len(rest')
    BY <1>2, Sizes, GatherInv, LenProperties DEF TypeOK
  <2>4. w = 0 /\ j + Len(rest) = at - 1 /\ k + v + Len(rest') = at - 1
    BY <2>1 DEF Position
  <2>5. Admitted = {i \in Calls : i <= at - 1}
    <3>1. \A i \in Calls : status[i] # "idle" <=> i <= j
      <4>1. /\ \A i \in Calls : i <= j => status[i] \in {"ok", "error"}
            /\ \A i \in Calls : j < i => status[i] = "idle"
        BY <2>3, <2>4 DEF InOrder
      <4>. QED
        BY <2>3, <4>1
    <3>2. {rest[l] : l \in DOMAIN rest} = {i \in Calls : j < i /\ i <= at - 1}
      <4>0. /\ \A l \in 1..Len(rest) : rest[l] = j + l
            /\ j + Len(rest) <= Len(kinds)
        BY <2>4 DEF InOrder
      <4>1. ASSUME NEW l \in 1..Len(rest)
            PROVE  /\ rest[l] = j + l
                   /\ rest[l] \in Calls /\ j < rest[l] /\ rest[l] <= at - 1
        <5>1. rest[l] = j + l
          BY <4>0
        <5>. QED
          BY <2>3, <2>4, <4>0, <5>1
      <4>2. ASSUME NEW i \in Calls, j < i, i <= at - 1
            PROVE  \E l \in 1..Len(rest) : rest[l] = i
        <5>1. i - j \in 1..Len(rest) /\ j + (i - j) = i
          BY <2>3, <2>4, <4>2
        <5>. QED
          BY <4>1, <5>1
      <4>. QED
        BY <2>3, <4>1, <4>2
    <3>3. Admitted = {i \in Calls : status[i] # "idle"} \cup {rest[l] : l \in DOMAIN rest}
      BY <2>1 DEF Admitted
    <3>4. \A i \in Calls : i <= at - 1 <=> i <= j \/ (j < i /\ i <= at - 1)
      BY <2>3, <2>4
    <3>. QED
      BY <3>1, <3>2, <3>3, <3>4
  <2>6. Admitted' = {i \in Calls : i <= at - 1}
    <3>1. \A i \in Calls : status'[i] # "idle" <=> i <= k + v
      <4>1. /\ \A i \in Calls : i <= k => status'[i] \in {"ok", "error"}
            /\ \A i \in Calls : k < i /\ i <= k + v => status'[i] # "idle"
            /\ \A i \in Calls : k + v < i => status'[i] = "idle"
        BY <2>1 DEF InOrder
      <4>. QED
        BY <2>3, <4>1
    <3>2. {rest'[l] : l \in DOMAIN rest'} = {i \in Calls : k + v < i /\ i <= at - 1}
      <4>1. \A l \in 1..Len(rest') : rest'[l] = k + v + l
        BY DEF InOrder
      <4>2. ASSUME NEW l \in 1..Len(rest')
            PROVE  rest'[l] \in Calls /\ k + v < rest'[l] /\ rest'[l] <= at - 1
        <5>1. rest'[l] = k + v + l /\ k + v + Len(rest') <= Len(kinds)
          BY <2>1, <4>1 DEF InOrder
        <5>. QED
          BY <2>3, <2>4, <5>1
      <4>3. ASSUME NEW i \in Calls, k + v < i, i <= at - 1
            PROVE  \E l \in 1..Len(rest') : rest'[l] = i
        <5>1. i - (k + v) \in 1..Len(rest') /\ k + v + (i - (k + v)) = i
          BY <2>3, <2>4, <4>3
        <5>. QED
          BY <4>1, <5>1
      <4>. QED
        BY <2>3, <4>2, <4>3
    <3>3. Admitted' =
            {i \in Calls : status'[i] # "idle"} \cup {rest'[l] : l \in DOMAIN rest'}
      BY <2>1 DEF Admitted
    <3>4. \A i \in Calls : i <= at - 1 <=> i <= k + v \/ (k + v < i /\ i <= at - 1)
      BY <2>3, <2>4
    <3>. QED
      BY <3>1, <3>2, <3>3, <3>4
  <2>7. Status' = Status
    <3>1. ASSUME NEW i \in Calls, status'[i] # status[i]
          PROVE  i \notin busy /\ status[i] = "idle" /\ status'[i] = "ready"
      <4>1. PICK l \in 1..ChunkSize : rest[l] = i
        BY <1>2, <3>1 DEF Gather
      <4>2. l \in 1..Len(rest)
        <5>1. ChunkSize \in Nat /\ ChunkSize <= Len(rest)
          BY <2>3, AsyncSizeAssumption DEF ChunkSize
        <5>. QED
          BY <2>3, <5>1
      <4>3. rest[l] = j + l
        BY <2>4, <4>2 DEF InOrder
      <4>4. j < i
        BY <2>3, <4>1, <4>2, <4>3
      <4>5. status[i] = "idle" /\ i \notin busy
        BY <2>3, <2>4, <4>4 DEF InOrder
      <4>. QED
        BY <2>2, <3>1, <4>5
    <3>2. \A i \in Calls :
            (CASE i \in busy -> "running"
               [] status'[i] \in {"ready", "dropped"} -> "idle"
               [] OTHER -> status'[i])
            = (CASE i \in busy -> "running"
                 [] status[i] \in {"ready", "dropped"} -> "idle"
                 [] OTHER -> status[i])
      BY <3>1
    <3>. QED
      BY <2>1, <3>2 DEF Status
  <2>. QED
    BY <2>1, <2>5, <2>6, <2>7 DEF Batch!vars
<1>3. CASE CancelTask
  <2>1. /\ UNCHANGED <<kinds, pc, at, rest, busy, cancelled, verdict>>
        /\ \A i \in Calls : \/ status'[i] = status[i]
                            \/ status[i] = "ready" /\ status'[i] = "dropped"
        /\ Calls' = Calls
    BY <1>3 DEF CancelTask, call, Calls
  <2>2. Admitted' = Admitted
    <3>1. \A i \in Calls : status'[i] # "idle" <=> status[i] # "idle"
      BY <2>1
    <3>. QED
      BY <2>1, <3>1 DEF Admitted
  <2>3. Status' = Status
    <3>1. \A i \in Calls :
            (CASE i \in busy -> "running"
               [] status'[i] \in {"ready", "dropped"} -> "idle"
               [] OTHER -> status'[i])
            = (CASE i \in busy -> "running"
                 [] status[i] \in {"ready", "dropped"} -> "idle"
                 [] OTHER -> status[i])
      <4>. SUFFICES ASSUME NEW i \in Calls, status'[i] # status[i]
                    PROVE  i \notin busy /\ status[i] = "ready" /\ status'[i] = "dropped"
        OBVIOUS
      <4>. QED
        BY <2>1 DEF BatchInv, TaskInv
    <3>. QED
      BY <2>1, <3>1 DEF Status
  <2>. QED
    BY <2>1, <2>2, <2>3 DEF Batch!vars
<1>4. CASE \E i \in Calls : StopWaiting(i)
  <2>. PICK i \in Calls : StopWaiting(i)
    BY <1>4
  <2>1. /\ UNCHANGED <<kinds, pc, at, rest, busy, cancelled, verdict>>
        /\ status[i] = "running" /\ i \in busy
        /\ status' = [status EXCEPT ![i] = "abort"]
        /\ Calls' = Calls
    BY DEF StopWaiting, call, Calls, BatchInv, TaskInv
  <2>2. \A k \in Calls : status'[k] = IF k = i THEN "abort" ELSE status[k]
    BY <2>1 DEF TypeOK
  <2>3. Admitted' = Admitted
    <3>1. \A k \in Calls : status'[k] # "idle" <=> status[k] # "idle"
      BY <2>1, <2>2
    <3>. QED
      BY <2>1, <3>1 DEF Admitted
  <2>4. Status' = Status
    <3>1. TypeOK' /\ BatchInv'
      BY EndInv
    <3>2. Status'[i] = "running"
      BY <2>1, <2>2 DEF Status
    <3>3. Status' = [Status EXCEPT ![i] = "running"]
      BY <2>1, <2>2, <3>1, <3>2, SeenStep
    <3>4. Status[i] = "running" /\ Status = [k \in Calls |-> Status[k]]
      BY <2>1, Seen DEF Status
    <3>. QED
      BY <3>3, <3>4
  <2>. QED
    BY <2>1, <2>3, <2>4 DEF Batch!vars
<1>. QED
  BY <1>1, <1>2, <1>3, <1>4

LEMMA BatchStep ==
  TypeOK /\ BatchInv /\ [Next]_vars => [Batch!Next]_(Batch!vars)
<1>. SUFFICES ASSUME TypeOK, BatchInv, [Next]_vars
              PROVE  [Batch!Next]_(Batch!vars)
  OBVIOUS
<1>1. CASE \/ Keep \/ Barrier \/ Gather \/ Gathered \/ CancelTask
           \/ (\E i \in Calls : StopWaiting(i)) \/ UNCHANGED vars
  BY <1>1, BatchUnseen
<1>2. CASE CheckPasses
  BY <1>2, BatchAdmit
<1>3. CASE RaiseCancelled \/ GatherRaises \/ Unwound \/ Flushed \/ InlineEnds
  BY <1>3, BatchEnd
<1>4. CASE CallInline \/ \E i \in Calls : Start(i)
  BY <1>4, BatchStart
<1>5. CASE \/ \E i \in Calls, r \in {"ok", "error", "abort"} : ToolEnds(i, r)
           \/ \E i \in Calls : ThreadEnds(i)
  BY <1>5, BatchFinish
<1>6. CASE SetCancel
  <2>1. Status' = Status /\ Admitted' = Admitted
    BY <1>6 DEF SetCancel, call, tasks, Status, Admitted, Calls
  <2>2. Batch!Cancel
    BY <1>6, <2>1 DEF SetCancel, call, tasks, Batch!Cancel
  <2>. QED
    BY <2>2 DEF Batch!Next
<1>. QED
  BY <1>1, <1>2, <1>3, <1>4, <1>5, <1>6 DEF Next, Caller, Task, Done

\* aexecute_all keeps the same promise as execute_all: groups are admitted in
\* order, never after the cancel event, each call runs at most once, and no
\* more of them at a time than a chunk holds, threads nobody waits for
\* included.
THEOREM AsyncExecutorKeepsBatch == Spec => AsyncKeepsBatch
<1>. DEFINE Inv == TypeOK /\ BatchInv
<1>1. Init => Inv
  BY InitInv
<1>2. Inv /\ [Next]_vars => Inv'
  BY InvStep
<1>3. Inv /\ [Next]_vars => [Batch!Next]_(Batch!vars)
  BY BatchStep
<1>. HIDE DEF Inv
<1>. QED
  BY <1>1, <1>2, <1>3, BatchInit, PTL DEF Spec, AsyncKeepsBatch, Batch!Spec

===============================================================================
