-------------------------- MODULE AgentScopesProofs --------------------------
(***************************************************************************)
(* Theorems about AgentScopes, for any number of agents, messages and      *)
(* nested runs.                                                            *)
(***************************************************************************)
EXTENDS AgentScopes, SequenceTheorems, WellFoundedInduction, TLAPS

-----------------------------------------------------------------------------
(* The loop of _adopt_global_messages.                                     *)

\* A set of numbers that holds 0 and, with each number, the next holds all.
LEMMA NatInSet ==
  ASSUME NEW T, 0 \in T, \A n \in Nat : n \in T => n + 1 \in T
  PROVE  Nat \subseteq T
<1>. DEFINE less == OpToRel(<, Nat)
            missing == Nat \ T
<1>1. IsWellFoundedOn(less, Nat)
  BY NatLessThanWellFounded
<1>2. \A m, n \in Nat : m < n => <<m, n>> \in less
  BY DEF OpToRel
<1>. SUFFICES ASSUME missing # {}  PROVE FALSE
  OBVIOUS
<1>3. missing \subseteq Nat
  OBVIOUS
<1>4. PICK n \in missing : \A m \in missing : <<m, n>> \notin less
  <2>. HIDE DEF missing, less
  <2>. QED
    BY <1>1, <1>3, WFMin
<1>. HIDE DEF less
<1>5. n \in Nat /\ n # 0 /\ n - 1 \in Nat /\ n - 1 < n
  OBVIOUS
<1>6. n - 1 \in T
  BY <1>2, <1>4, <1>5
<1>. QED
  BY <1>4, <1>5, <1>6

\* What the loop has after its first n messages, those of S passed over.
Passes(f, S, N) ==
  f = [n \in 0..N |-> IF n = 0 THEN <<>>
                      ELSE IF n \in S THEN f[n - 1]
                      ELSE Append(f[n - 1], n)]

LEMMA PassesUnfold ==
  ASSUME NEW f, NEW S, NEW N \in Nat
  PROVE  Passes(f, S, N) <=>
           /\ f = [n \in 0..N |-> f[n]]
           /\ f[0] = <<>>
           /\ \A n \in 1..N : f[n] = IF n \in S THEN f[n - 1] ELSE Append(f[n - 1], n)
<1>1. ASSUME Passes(f, S, N)
      PROVE  /\ f = [n \in 0..N |-> f[n]]
             /\ f[0] = <<>>
             /\ \A n \in 1..N : f[n] = IF n \in S THEN f[n - 1] ELSE Append(f[n - 1], n)
  <2>1. \A n \in 0..N : f[n] = IF n = 0 THEN <<>>
                               ELSE IF n \in S THEN f[n - 1] ELSE Append(f[n - 1], n)
    BY <1>1 DEF Passes
  <2>2. f = [n \in 0..N |-> f[n]]
    BY <1>1 DEF Passes
  <2>3. 0 \in 0..N /\ \A n \in 1..N : n \in 0..N /\ n # 0
    OBVIOUS
  <2>. QED
    BY <2>1, <2>2, <2>3, Zenon
<1>2. ASSUME f = [n \in 0..N |-> f[n]], f[0] = <<>>,
             \A n \in 1..N : f[n] = IF n \in S THEN f[n - 1] ELSE Append(f[n - 1], n)
      PROVE  Passes(f, S, N)
  <2>1. \A n \in 0..N : n = 0 \/ (n # 0 /\ n \in 1..N)
    OBVIOUS
  <2>2. \A n \in 0..N : f[n] = IF n = 0 THEN <<>>
                               ELSE IF n \in S THEN f[n - 1] ELSE Append(f[n - 1], n)
    BY <1>2, <2>1, Zenon
  <2>. QED
    BY <1>2, <2>2 DEF Passes
<1>. QED
  BY <1>1, <1>2

LEMMA SomePass ==
  ASSUME NEW S, NEW N \in Nat
  PROVE  \E f : Passes(f, S, N)
<1>. DEFINE T == {n \in Nat : \E f : Passes(f, S, n)}
<1>1. 0 \in T
  <2>. DEFINE f == [n \in 0..0 |-> <<>>]
  <2>1. f = [n \in 0..0 |-> f[n]] /\ f[0] = <<>> /\ 1..0 = {}
    OBVIOUS
  <2>. HIDE DEF f
  <2>2. Passes(f, S, 0)
    BY <2>1, PassesUnfold
  <2>. QED
    BY <2>2
<1>2. ASSUME NEW n \in Nat, n \in T  PROVE n + 1 \in T
  <2>1. PICK f : Passes(f, S, n)
    BY <1>2
  <2>2. f[0] = <<>> /\ \A k \in 1..n : f[k] = IF k \in S THEN f[k - 1] ELSE Append(f[k - 1], k)
    BY <2>1, PassesUnfold
  <2>. DEFINE new == IF n + 1 \in S THEN f[n] ELSE Append(f[n], n + 1)
              g == [k \in 0..n + 1 |-> IF k = n + 1 THEN new ELSE f[k]]
  <2>3. g = [k \in 0..n + 1 |-> g[k]] /\ g[n + 1] = new /\ \A k \in 0..n : g[k] = f[k]
    OBVIOUS
  <2>. HIDE DEF g
  <2>4. /\ 0 \in 0..n /\ (n + 1) - 1 = n
        /\ \A k \in 1..n + 1 : k - 1 \in 0..n /\ (k = n + 1 \/ (k \in 1..n /\ k \in 0..n))
    OBVIOUS
  <2>5. \A k \in 1..n + 1 : g[k] = IF k \in S THEN g[k - 1] ELSE Append(g[k - 1], k)
    <3>. SUFFICES ASSUME NEW k \in 1..n + 1
                  PROVE  g[k] = IF k \in S THEN g[k - 1] ELSE Append(g[k - 1], k)
      OBVIOUS
    <3>1. CASE k = n + 1
      BY <2>3, <2>4, <3>1, Zenon
    <3>2. CASE k \in 1..n /\ k \in 0..n
      BY <2>2, <2>3, <2>4, <3>2, Zenon
    <3>. QED
      BY <2>4, <3>1, <3>2
  <2>6. g[0] = <<>>
    BY <2>2, <2>3, <2>4, Zenon
  <2>7. Passes(g, S, n + 1)
    <3>1. n + 1 \in Nat
      OBVIOUS
    <3>. QED
      BY <2>3, <2>5, <2>6, <3>1, PassesUnfold, Zenon
  <2>. QED
    BY <2>7
<1>. HIDE DEF T
<1>3. Nat \subseteq T
  BY <1>1, <1>2, NatInSet
<1>. QED
  BY <1>3 DEF T

\* The numbers up to n that are not in S, each once and in their order.
Filtered(s, S, n) ==
  /\ s \in Seq(Nat)
  /\ \A i \in 1..Len(s) : s[i] \in 1..n /\ s[i] \notin S
  /\ \A i, j \in 1..Len(s) : i < j => s[i] < s[j]
  /\ \A k \in 1..n : k \notin S => \E i \in 1..Len(s) : s[i] = k

LEMMA FilteredGrows ==
  ASSUME NEW s, NEW S, NEW n \in Nat, Filtered(s, S, n)
  PROVE  Filtered(IF n + 1 \in S THEN s ELSE Append(s, n + 1), S, n + 1)
<1>1. s \in Seq(Nat) /\ Len(s) \in Nat /\ \A i \in 1..Len(s) : s[i] \in Nat /\ s[i] <= n /\ s[i] \in 1..n + 1
  BY LenProperties, ElementOfSeq DEF Filtered
<1>2. \A k \in 1..n + 1 : k \in 1..n \/ k = n + 1
  OBVIOUS
<1>3. CASE n + 1 \in S
  BY <1>1, <1>2, <1>3 DEF Filtered
<1>4. CASE n + 1 \notin S
  <2>1. PICK t : t = Append(s, n + 1)
    OBVIOUS
  <2>2. /\ t \in Seq(Nat) /\ Len(t) = Len(s) + 1
        /\ \A i \in 1..Len(s) : t[i] = s[i]
        /\ t[Len(s) + 1] = n + 1
    BY <1>1, <2>1, AppendProperties
  <2>3. \A i \in 1..Len(t) : i \in 1..Len(s) \/ i = Len(s) + 1
    BY <1>1, <2>2
  <2>4. \A i \in 1..Len(t) : t[i] \in 1..n + 1 /\ t[i] \notin S
    <3>. SUFFICES ASSUME NEW i \in 1..Len(t)  PROVE t[i] \in 1..n + 1 /\ t[i] \notin S
      OBVIOUS
    <3>1. CASE i \in 1..Len(s)
      BY <1>1, <2>2, <3>1 DEF Filtered
    <3>2. CASE i = Len(s) + 1
      BY <1>4, <2>2, <3>2
    <3>. QED
      BY <2>3, <3>1, <3>2
  <2>5. ASSUME NEW i \in 1..Len(t), NEW j \in 1..Len(t), i < j  PROVE t[i] < t[j]
    <3>1. i \in 1..Len(s) /\ t[i] = s[i] /\ s[i] <= n /\ s[i] \in Nat
      BY <1>1, <2>2, <2>5
    <3>2. CASE j \in 1..Len(s)
      BY <2>2, <2>5, <3>1, <3>2 DEF Filtered
    <3>3. CASE j = Len(s) + 1
      BY <2>2, <3>1, <3>3
    <3>. QED
      BY <2>3, <2>5, <3>2, <3>3
  <2>6. ASSUME NEW k \in 1..n + 1, k \notin S  PROVE \E i \in 1..Len(t) : t[i] = k
    <3>1. CASE k \in 1..n
      <4>1. PICK i \in 1..Len(s) : s[i] = k
        BY <2>6, <3>1 DEF Filtered
      <4>2. i \in 1..Len(t) /\ t[i] = k
        BY <1>1, <2>2, <4>1
      <4>. QED
        BY <4>2
    <3>2. CASE k = n + 1
      <4>1. Len(s) + 1 \in 1..Len(t)
        BY <1>1, <2>2
      <4>. QED
        BY <2>2, <3>2, <4>1
    <3>. QED
      BY <1>2, <2>6, <3>1, <3>2
  <2>7. Filtered(t, S, n + 1)
    BY <2>2, <2>4, <2>5, <2>6 DEF Filtered
  <2>. QED
    BY <1>4, <2>1, <2>7
<1>. QED
  BY <1>3, <1>4

\* The loop adopts every message that is in no scope, once, in their order.
LEMMA AdoptableIs ==
  ASSUME NEW c, NEW a, Len(c.messages) \in Nat
  PROVE  Filtered(Adoptable(c, a), Known(c, a) \cup Foreign(c, a), Len(c.messages))
<1>. DEFINE N == Len(c.messages)
            S == Known(c, a) \cup Foreign(c, a)
<1>1. Adoptable(c, a) = (CHOOSE f : Passes(f, S, N))[N]
  BY DEF Adoptable, Passes
<1>2. N \in Nat
  OBVIOUS
<1>. HIDE DEF N, S
<1>3. PICK f : f = CHOOSE g : Passes(g, S, N)
  OBVIOUS
<1>4. Passes(f, S, N)
  BY <1>2, <1>3, SomePass
<1>5. f[0] = <<>> /\ \A n \in 1..N : f[n] = IF n \in S THEN f[n - 1] ELSE Append(f[n - 1], n)
  BY <1>2, <1>4, PassesUnfold
<1>. DEFINE T == {n \in Nat : n <= N => Filtered(f[n], S, n)}
<1>6. 0 \in T
  <2>1. PICK s : s = <<>> /\ s \in Seq(Nat) /\ Len(s) = 0
    BY EmptySeq
  <2>2. Filtered(s, S, 0)
    BY <2>1 DEF Filtered
  <2>. QED
    BY <1>5, <2>1, <2>2
<1>7. ASSUME NEW n \in Nat, n \in T  PROVE n + 1 \in T
  <2>. SUFFICES ASSUME n + 1 <= N  PROVE Filtered(f[n + 1], S, n + 1)
    OBVIOUS
  <2>1. Filtered(f[n], S, n) /\ n + 1 \in 1..N /\ (n + 1) - 1 = n
    BY <1>2, <1>7
  <2>2. f[n + 1] = IF n + 1 \in S THEN f[n] ELSE Append(f[n], n + 1)
    BY <1>5, <2>1
  <2>. QED
    BY <2>1, <2>2, FilteredGrows
<1>. HIDE DEF T
<1>8. N \in T
  BY <1>2, <1>6, <1>7, NatInSet
<1>9. Filtered(f[N], S, N)
  BY <1>2, <1>8 DEF T
<1>. QED
  BY <1>1, <1>3, <1>9 DEF N, S

-----------------------------------------------------------------------------
(* What holds of a context.                                                *)

Contexts ==
  [messages : Seq(Message), scopes : [Agents -> Seq(Nat)],
   marked : SUBSET Instructed, cut : SUBSET Instructed]

Held(c, k) == \E b \in Agents : \E n \in DOMAIN c.scopes[b] : c.scopes[b][n] = k

\* Scopes hold messages of the context.
Inside(c) ==
  \A a \in Agents : \A n \in DOMAIN c.scopes[a] : c.scopes[a][n] \in 1..Len(c.messages)

Apart(c) ==
  \A a, b \in Agents : \A m \in DOMAIN c.scopes[a], n \in DOMAIN c.scopes[b] :
    c.scopes[a][m] = c.scopes[b][n] => a = b /\ m = n

\* What is written for an agent is in its scope, with ambient messages only.
Owned(c) ==
  /\ \A a \in Agents : \A n \in DOMAIN c.scopes[a] :
       c.messages[c.scopes[a][n]].by \in {a, None}
  /\ \A a \in Agents : \A k \in 1..Len(c.messages) :
       c.messages[k].by = a => \E n \in DOMAIN c.scopes[a] : c.scopes[a][n] = k

Ordered(c) ==
  \A a \in Agents : \A m, n \in DOMAIN c.scopes[a] :
    m < n /\ c.messages[c.scopes[a][m]].by = c.messages[c.scopes[a][n]].by
      => c.scopes[a][m] < c.scopes[a][n]

\* What nobody has adopted yet is newer than all that was adopted.
AmbientLast(c) ==
  \A a \in Agents : \A n \in DOMAIN c.scopes[a] : \A k \in 1..Len(c.messages) :
    c.messages[c.scopes[a][n]].by = None /\ ~Held(c, k) => c.scopes[a][n] < k

\* Instructions are at the front of the scopes of those that have some, and
\* nowhere else unless they were cut short.
InFront(c) ==
  /\ \A k \in 1..Len(c.messages) : c.messages[k].role = "system" => c.messages[k].by # None
  /\ \A a \in Agents : \A n \in DOMAIN c.scopes[a] :
       /\ c.messages[c.scopes[a][n]].role = "system" =>
            a \in Instructed /\ (n = 1 \/ a \in c.cut)
       /\ n = 1 /\ a \in Instructed => c.messages[c.scopes[a][n]].role = "system"

MarkedOnce(c) ==
  \A a \in Instructed :
    /\ a \in c.marked => c.scopes[a] # <<>>
    /\ c.scopes[a] # <<>> => a \in c.marked \cup c.cut

Sorted(c) == Inside(c) /\ Apart(c) /\ Owned(c) /\ Ordered(c) /\ AmbientLast(c)

Sound(c) == c \in Contexts /\ Sorted(c) /\ InFront(c) /\ MarkedOnce(c)

\* An agent may write to its scope once its instructions are there.
Ready(c, s) == s \in Instructed => c.scopes[s] # <<>>

LEMMA ContextTypes ==
  ASSUME NEW c \in Contexts
  PROVE  /\ c.messages \in Seq(Message) /\ Len(c.messages) \in Nat
         /\ \A k \in 1..Len(c.messages) :
              c.messages[k].by \in Scopes /\ c.messages[k].role \in {"system", "turn"}
         /\ \A a \in Agents :
              /\ c.scopes[a] \in Seq(Nat) /\ Len(c.scopes[a]) \in Nat
              /\ DOMAIN c.scopes[a] = 1..Len(c.scopes[a])
              /\ \A n \in 1..Len(c.scopes[a]) : c.scopes[a][n] \in Nat
         /\ c.scopes \in [Agents -> Seq(Nat)]
         /\ c.marked \subseteq Instructed /\ c.cut \subseteq Instructed
<1>1. /\ c.messages \in Seq(Message) /\ c.scopes \in [Agents -> Seq(Nat)]
      /\ c.marked \subseteq Instructed /\ c.cut \subseteq Instructed
  BY DEF Contexts
<1>2. \A k \in 1..Len(c.messages) : c.messages[k] \in Message
  BY <1>1, ElementOfSeq
<1>3. \A a \in Agents : c.scopes[a] \in Seq(Nat)
  BY <1>1
<1>4. \A a \in Agents : \A n \in 1..Len(c.scopes[a]) : c.scopes[a][n] \in Nat
  BY <1>3, ElementOfSeq
<1>. QED
  BY <1>1, <1>2, <1>3, <1>4, LenProperties DEF Message

\* A message is added at the end of the context and of its scope.
Grows(c, d, s, role) ==
  /\ d \in Contexts /\ d.marked = c.marked /\ d.cut = c.cut
  /\ Len(d.messages) = Len(c.messages) + 1
  /\ \A k \in 1..Len(c.messages) : d.messages[k] = c.messages[k]
  /\ d.messages[Len(c.messages) + 1].by = s
  /\ d.messages[Len(c.messages) + 1].role = role
  /\ \A a \in Agents \ {s} : d.scopes[a] = c.scopes[a]
  /\ s \in Agents =>
       /\ Len(d.scopes[s]) = Len(c.scopes[s]) + 1
       /\ \A n \in 1..Len(c.scopes[s]) : d.scopes[s][n] = c.scopes[s][n]
       /\ d.scopes[s][Len(c.scopes[s]) + 1] = Len(c.messages) + 1

LEMMA AddGrows ==
  ASSUME NEW c \in Contexts, NEW s \in Scopes, NEW role \in {"system", "turn"}
  PROVE  Grows(c, AddTo(c, s, s, role), s, role)
<1>. DEFINE N == Len(c.messages)
<1>1. PICK d : d = AddTo(c, s, s, role)
  OBVIOUS
<1>2. PICK e : e = [by |-> s, role |-> role]
  OBVIOUS
<1>3. e \in Message /\ e.by = s /\ e.role = role
  BY <1>2 DEF Message
<1>4. /\ d.messages = Append(c.messages, e)
      /\ d.scopes = [t \in Agents |-> IF t = s THEN Append(c.scopes[t], N + 1) ELSE c.scopes[t]]
      /\ d.marked = c.marked /\ d.cut = c.cut
      /\ d = [messages |-> d.messages, scopes |-> d.scopes, marked |-> d.marked, cut |-> d.cut]
  BY <1>1, <1>2 DEF AddTo, NewMessage, Contexts
<1>5. c.messages \in Seq(Message) /\ N \in Nat /\ N + 1 \in Nat
  BY ContextTypes
<1>6. /\ d.messages \in Seq(Message) /\ Len(d.messages) = N + 1
      /\ \A k \in 1..N : d.messages[k] = c.messages[k]
      /\ d.messages[N + 1] = e
  BY <1>3, <1>4, <1>5, AppendProperties
<1>7. \A a \in Agents : c.scopes[a] \in Seq(Nat)
  BY ContextTypes
<1>8. \A a \in Agents :
        /\ Append(c.scopes[a], N + 1) \in Seq(Nat)
        /\ Len(Append(c.scopes[a], N + 1)) = Len(c.scopes[a]) + 1
        /\ \A n \in 1..Len(c.scopes[a]) : Append(c.scopes[a], N + 1)[n] = c.scopes[a][n]
        /\ Append(c.scopes[a], N + 1)[Len(c.scopes[a]) + 1] = N + 1
  BY <1>5, <1>7, AppendProperties
<1>9. d.scopes \in [Agents -> Seq(Nat)]
  BY <1>4, <1>7, <1>8
<1>10. d.marked \subseteq Instructed /\ d.cut \subseteq Instructed
  BY <1>4, ContextTypes
<1>11. d \in Contexts
  BY <1>4, <1>6, <1>9, <1>10 DEF Contexts
<1>12. \A a \in Agents \ {s} : d.scopes[a] = c.scopes[a]
  BY <1>4
<1>13. s \in Agents => d.scopes[s] = Append(c.scopes[s], N + 1)
  BY <1>4
<1>14. s \in Agents =>
         /\ Len(d.scopes[s]) = Len(c.scopes[s]) + 1
         /\ \A n \in 1..Len(c.scopes[s]) : d.scopes[s][n] = c.scopes[s][n]
         /\ d.scopes[s][Len(c.scopes[s]) + 1] = N + 1
  BY <1>8, <1>13
<1>. QED
  BY <1>1, <1>3, <1>4, <1>6, <1>11, <1>12, <1>14 DEF Grows

\* Where the messages of a context are after one was added.
Placed(c, d, s, role) ==
  /\ Len(c.messages) \in Nat /\ Len(d.messages) = Len(c.messages) + 1
  /\ \A k \in 1..Len(d.messages) :
       \/ k \in 1..Len(c.messages) /\ d.messages[k] = c.messages[k]
       \/ k = Len(c.messages) + 1 /\ d.messages[k].by = s /\ d.messages[k].role = role
  /\ \A a \in Agents : \A n \in DOMAIN c.scopes[a] :
       /\ n \in DOMAIN d.scopes[a] /\ d.scopes[a][n] = c.scopes[a][n]
       /\ c.scopes[a][n] \in 1..Len(c.messages) /\ c.scopes[a][n] \in 1..Len(d.messages)
       /\ d.messages[c.scopes[a][n]] = c.messages[c.scopes[a][n]]
  /\ \A a \in Agents : \A n \in DOMAIN d.scopes[a] :
       n \in DOMAIN c.scopes[a]
       \/ /\ a = s /\ d.scopes[a][n] = Len(c.messages) + 1 /\ n = Len(c.scopes[a]) + 1
          /\ \A m \in DOMAIN d.scopes[a] : m < n => m \in DOMAIN c.scopes[a]
  /\ s \in Agents => \E n \in DOMAIN d.scopes[s] : d.scopes[s][n] = Len(c.messages) + 1

LEMMA GrownPlaces ==
  ASSUME NEW c \in Contexts, NEW s \in Scopes, NEW role, NEW d, Grows(c, d, s, role), Inside(c)
  PROVE  Placed(c, d, s, role)
<1>1. d \in Contexts
  BY DEF Grows
<1>2. /\ Len(c.messages) \in Nat
      /\ \A a \in Agents : Len(c.scopes[a]) \in Nat /\ DOMAIN c.scopes[a] = 1..Len(c.scopes[a])
      /\ \A a \in Agents : Len(d.scopes[a]) \in Nat /\ DOMAIN d.scopes[a] = 1..Len(d.scopes[a])
  BY <1>1, ContextTypes
<1>3. \A k \in 1..Len(c.messages) + 1 : k \in 1..Len(c.messages) \/ k = Len(c.messages) + 1
  BY <1>2
<1>4. \A k \in 1..Len(d.messages) :
        \/ k \in 1..Len(c.messages) /\ d.messages[k] = c.messages[k]
        \/ k = Len(c.messages) + 1 /\ d.messages[k].by = s /\ d.messages[k].role = role
  BY <1>3 DEF Grows
<1>5. ASSUME NEW a \in Agents, NEW n \in DOMAIN c.scopes[a]
      PROVE  n \in DOMAIN d.scopes[a] /\ d.scopes[a][n] = c.scopes[a][n]
  <2>1. CASE a # s
    BY <1>5, <2>1 DEF Grows
  <2>2. CASE a = s
    <3>1. n \in 1..Len(c.scopes[a]) /\ Len(d.scopes[a]) = Len(c.scopes[a]) + 1
          /\ d.scopes[a][n] = c.scopes[a][n]
      BY <1>2, <1>5, <2>2 DEF Grows
    <3>. QED
      BY <1>2, <3>1
  <2>. QED
    BY <2>1, <2>2
<1>6. ASSUME NEW a \in Agents, NEW n \in DOMAIN c.scopes[a]
      PROVE  /\ c.scopes[a][n] \in 1..Len(c.messages) /\ c.scopes[a][n] \in 1..Len(d.messages)
             /\ d.messages[c.scopes[a][n]] = c.messages[c.scopes[a][n]]
  <2>1. c.scopes[a][n] \in 1..Len(c.messages)
    BY <1>6 DEF Inside
  <2>2. Len(d.messages) = Len(c.messages) + 1
    BY DEF Grows
  <2>. QED
    BY <1>2, <2>1, <2>2 DEF Grows
<1>7. ASSUME NEW a \in Agents, NEW n \in DOMAIN d.scopes[a], n \notin DOMAIN c.scopes[a]
      PROVE  /\ a = s /\ d.scopes[a][n] = Len(c.messages) + 1 /\ n = Len(c.scopes[a]) + 1
             /\ \A m \in DOMAIN d.scopes[a] : m < n => m \in DOMAIN c.scopes[a]
  <2>1. a = s
    BY <1>7 DEF Grows
  <2>2. /\ Len(d.scopes[a]) = Len(c.scopes[a]) + 1
        /\ d.scopes[a][Len(c.scopes[a]) + 1] = Len(c.messages) + 1
    BY <1>7, <2>1 DEF Grows
  <2>3. n = Len(c.scopes[a]) + 1
    BY <1>2, <1>7, <2>2
  <2>. QED
    BY <1>2, <2>1, <2>2, <2>3
<1>8. ASSUME s \in Agents
      PROVE  \E n \in DOMAIN d.scopes[s] : d.scopes[s][n] = Len(c.messages) + 1
  <2>1. Len(c.scopes[s]) + 1 \in DOMAIN d.scopes[s]
        /\ d.scopes[s][Len(c.scopes[s]) + 1] = Len(c.messages) + 1
    BY <1>2, <1>8 DEF Grows
  <2>. QED
    BY <2>1
<1>9. Len(d.messages) = Len(c.messages) + 1
  BY DEF Grows
<1>. QED
  BY <1>2, <1>4, <1>5, <1>6, <1>7, <1>8, <1>9 DEF Placed

LEMMA GrowsSorted ==
  ASSUME NEW c \in Contexts, NEW s \in Scopes, NEW role, NEW d, Grows(c, d, s, role), Sorted(c)
  PROVE  Sorted(d)
<1>. DEFINE N == Len(c.messages)
<1>1. /\ N \in Nat /\ Len(d.messages) = N + 1
      /\ \A k \in 1..Len(d.messages) :
           \/ k \in 1..N /\ d.messages[k] = c.messages[k]
           \/ k = N + 1 /\ d.messages[k].by = s /\ d.messages[k].role = role
      /\ \A a \in Agents : \A n \in DOMAIN c.scopes[a] :
           /\ n \in DOMAIN d.scopes[a] /\ d.scopes[a][n] = c.scopes[a][n]
           /\ c.scopes[a][n] \in 1..N /\ c.scopes[a][n] \in 1..Len(d.messages)
           /\ d.messages[c.scopes[a][n]] = c.messages[c.scopes[a][n]]
      /\ \A a \in Agents : \A n \in DOMAIN d.scopes[a] :
           n \in DOMAIN c.scopes[a]
           \/ /\ a = s /\ d.scopes[a][n] = N + 1 /\ n = Len(c.scopes[a]) + 1
              /\ \A m \in DOMAIN d.scopes[a] : m < n => m \in DOMAIN c.scopes[a]
      /\ s \in Agents => \E n \in DOMAIN d.scopes[s] : d.scopes[s][n] = N + 1
  BY GrownPlaces DEF Sorted, Placed
<1>2. N + 1 \in 1..N + 1 /\ N + 1 \notin 1..N /\ (\A k \in 1..N : k \in Nat /\ k < N + 1)
  BY <1>1
<1>3. d.messages[N + 1].by = s
  BY <1>1, <1>2
<1>. HIDE DEF N
<1>4. Inside(d)
  BY <1>1, <1>2 DEF Inside
<1>5. Apart(d)
  <2>1. ASSUME NEW a \in Agents, NEW b \in Agents, NEW m \in DOMAIN d.scopes[a],
               NEW n \in DOMAIN d.scopes[b], d.scopes[a][m] = d.scopes[b][n]
        PROVE  a = b /\ m = n
    <3>1. CASE m \in DOMAIN c.scopes[a] /\ n \in DOMAIN c.scopes[b]
      BY <1>1, <2>1, <3>1 DEF Sorted, Apart
    <3>2. CASE m \in DOMAIN c.scopes[a] /\ n \notin DOMAIN c.scopes[b]
      BY <1>1, <1>2, <2>1, <3>2
    <3>3. CASE m \notin DOMAIN c.scopes[a] /\ n \in DOMAIN c.scopes[b]
      BY <1>1, <1>2, <2>1, <3>3
    <3>4. CASE m \notin DOMAIN c.scopes[a] /\ n \notin DOMAIN c.scopes[b]
      BY <1>1, <2>1, <3>4
    <3>. QED
      BY <3>1, <3>2, <3>3, <3>4
  <2>. QED
    BY <2>1 DEF Apart
<1>6. Owned(d)
  <2>1. ASSUME NEW a \in Agents, NEW n \in DOMAIN d.scopes[a]
        PROVE  d.messages[d.scopes[a][n]].by \in {a, None}
    BY <1>1, <1>3, <2>1 DEF Sorted, Owned
  <2>2. ASSUME NEW a \in Agents, NEW k \in 1..Len(d.messages), d.messages[k].by = a
        PROVE  \E n \in DOMAIN d.scopes[a] : d.scopes[a][n] = k
    <3>1. CASE k \in 1..N
      <4>1. c.messages[k].by = a
        BY <1>1, <1>2, <2>2, <3>1
      <4>2. PICK n \in DOMAIN c.scopes[a] : c.scopes[a][n] = k
        BY <2>2, <3>1, <4>1 DEF Sorted, Owned, N
      <4>. QED
        BY <1>1, <4>2
    <3>2. CASE k = N + 1
      BY <1>1, <1>3, <2>2, <3>2
    <3>. QED
      BY <1>1, <2>2, <3>1, <3>2
  <2>. QED
    BY <2>1, <2>2 DEF Owned
<1>7. Ordered(d)
  <2>1. ASSUME NEW a \in Agents, NEW m \in DOMAIN d.scopes[a], NEW n \in DOMAIN d.scopes[a], m < n,
               d.messages[d.scopes[a][m]].by = d.messages[d.scopes[a][n]].by
        PROVE  d.scopes[a][m] < d.scopes[a][n]
    <3>1. CASE m \in DOMAIN c.scopes[a] /\ n \in DOMAIN c.scopes[a]
      <4>1. /\ d.scopes[a][m] = c.scopes[a][m] /\ d.scopes[a][n] = c.scopes[a][n]
            /\ d.messages[c.scopes[a][m]] = c.messages[c.scopes[a][m]]
            /\ d.messages[c.scopes[a][n]] = c.messages[c.scopes[a][n]]
        BY <1>1, <3>1
      <4>2. c.scopes[a][m] < c.scopes[a][n]
        <5>1. c.messages[c.scopes[a][m]].by = c.messages[c.scopes[a][n]].by
          BY <2>1, <4>1
        <5>. QED
          BY <2>1, <3>1, <5>1 DEF Sorted, Ordered
      <4>. QED
        BY <4>1, <4>2
    <3>2. CASE m \in DOMAIN c.scopes[a] /\ n \notin DOMAIN c.scopes[a]
      BY <1>1, <1>2, <2>1, <3>2
    <3>3. CASE m \notin DOMAIN c.scopes[a]
      <4>1. m = Len(c.scopes[a]) + 1 /\ n \in DOMAIN d.scopes[a]
            /\ DOMAIN c.scopes[a] = 1..Len(c.scopes[a]) /\ Len(c.scopes[a]) \in Nat
        BY <1>1, <2>1, <3>3, ContextTypes
      <4>2. n \notin DOMAIN c.scopes[a]
        BY <2>1, <4>1
      <4>3. n = Len(c.scopes[a]) + 1
        BY <1>1, <2>1, <4>2
      <4>. QED
        BY <2>1, <4>1, <4>3
    <3>. QED
      BY <3>1, <3>2, <3>3
  <2>. QED
    BY <2>1 DEF Ordered
<1>8. AmbientLast(d)
  <2>1. ASSUME NEW a \in Agents, NEW n \in DOMAIN d.scopes[a], NEW k \in 1..Len(d.messages),
               d.messages[d.scopes[a][n]].by = None, ~Held(d, k)
        PROVE  d.scopes[a][n] < k
    <3>1. n \in DOMAIN c.scopes[a]
      BY <1>1, <1>3, <2>1, AgentAssumption
    <3>2. ~Held(c, k)
      BY <1>1, <2>1 DEF Held
    <3>3. CASE k \in 1..N
      BY <1>1, <2>1, <3>1, <3>2, <3>3 DEF Sorted, AmbientLast, N
    <3>4. CASE k = N + 1
      BY <1>1, <1>2, <3>1, <3>4
    <3>. QED
      BY <1>1, <2>1, <3>3, <3>4
  <2>. QED
    BY <2>1 DEF AmbientLast
<1>. QED
  BY <1>4, <1>5, <1>6, <1>7, <1>8 DEF Sorted

\* Only the scope s is written to, and all is written at the end.
Continues(c, d, s) ==
  /\ Len(c.messages) <= Len(d.messages)
  /\ \A k \in 1..Len(c.messages) : d.messages[k] = c.messages[k]
  /\ \A a \in Agents \ {s} : d.scopes[a] = c.scopes[a]
  /\ \A a \in Agents : Extends(d.scopes[a], c.scopes[a])
  /\ c.marked \subseteq d.marked /\ c.cut \subseteq d.cut

LEMMA ContinuesOn ==
  ASSUME NEW c \in Contexts, NEW d \in Contexts, NEW e \in Contexts, NEW s,
         Continues(c, d, s), Continues(d, e, s)
  PROVE  Continues(c, e, s)
<1>1. Len(c.messages) \in Nat /\ Len(d.messages) \in Nat /\ Len(e.messages) \in Nat
  BY ContextTypes
<1>2. Len(c.messages) <= Len(e.messages)
      /\ \A k \in 1..Len(c.messages) : e.messages[k] = c.messages[k]
  BY <1>1 DEF Continues
<1>3. ASSUME NEW a \in Agents  PROVE Extends(e.scopes[a], c.scopes[a])
  <2>1. /\ Len(c.scopes[a]) \in Nat /\ DOMAIN c.scopes[a] = 1..Len(c.scopes[a])
        /\ Len(d.scopes[a]) \in Nat /\ DOMAIN d.scopes[a] = 1..Len(d.scopes[a])
        /\ Len(e.scopes[a]) \in Nat
    BY ContextTypes
  <2>2. Extends(d.scopes[a], c.scopes[a]) /\ Extends(e.scopes[a], d.scopes[a])
    BY DEF Continues
  <2>. QED
    BY <2>1, <2>2 DEF Extends
<1>4. \A a \in Agents \ {s} : e.scopes[a] = c.scopes[a]
  BY DEF Continues
<1>5. c.marked \subseteq e.marked /\ c.cut \subseteq e.cut
  BY DEF Continues
<1>. QED
  BY <1>2, <1>3, <1>4, <1>5 DEF Continues

LEMMA GrowsContinues ==
  ASSUME NEW c \in Contexts, NEW s \in Scopes, NEW role, NEW d, Grows(c, d, s, role)
  PROVE  Continues(c, d, s)
<1>1. d \in Contexts /\ Len(c.messages) \in Nat /\ Len(d.messages) = Len(c.messages) + 1
  BY ContextTypes DEF Grows
<1>2. ASSUME NEW a \in Agents  PROVE Extends(d.scopes[a], c.scopes[a])
  <2>1. Len(c.scopes[a]) \in Nat /\ DOMAIN c.scopes[a] = 1..Len(c.scopes[a])
    BY ContextTypes
  <2>2. CASE a = s
    BY <2>1, <2>2 DEF Grows, Extends
  <2>3. CASE a # s
    BY <2>1, <2>3 DEF Grows, Extends
  <2>. QED
    BY <2>2, <2>3
<1>. QED
  BY <1>1, <1>2 DEF Grows, Continues

LEMMA TurnSound ==
  ASSUME NEW c, Sound(c), NEW s \in Scopes, Ready(c, s)
  PROVE  Sound(AddTo(c, s, s, "turn")) /\ Continues(c, AddTo(c, s, s, "turn"), s)
<1>1. PICK d : d = AddTo(c, s, s, "turn")
  OBVIOUS
<1>2. c \in Contexts /\ Grows(c, d, s, "turn")
  BY <1>1, AddGrows DEF Sound
<1>3. d \in Contexts /\ d.marked = c.marked /\ d.cut = c.cut /\ Sorted(d)
  BY <1>2, GrowsSorted DEF Sound, Grows
<1>4. Placed(c, d, s, "turn")
  BY <1>2, GrownPlaces DEF Sound, Sorted
<1>5. d.messages[Len(c.messages) + 1].role = "turn"
  BY <1>2 DEF Grows
<1>6. \A a \in Agents : Len(c.scopes[a]) \in Nat /\ (c.scopes[a] # <<>> => Len(c.scopes[a]) # 0)
                        /\ (\E n \in DOMAIN d.scopes[a] : TRUE) => d.scopes[a] # <<>>
  <2>1. \A a \in Agents : c.scopes[a] \in Seq(Nat) /\ d.scopes[a] \in Seq(Nat)
    BY <1>2, <1>3, ContextTypes
  <2>. QED
    BY <2>1, EmptySeq, LenProperties
<1>7. InFront(d)
  <2>1. \A k \in 1..Len(d.messages) : d.messages[k].role = "system" => d.messages[k].by # None
    BY <1>4 DEF Sound, InFront, Placed
  <2>2. ASSUME NEW a \in Agents, NEW n \in DOMAIN d.scopes[a]
        PROVE  /\ d.messages[d.scopes[a][n]].role = "system" =>
                    a \in Instructed /\ (n = 1 \/ a \in c.cut)
               /\ n = 1 /\ a \in Instructed => d.messages[d.scopes[a][n]].role = "system"
    <3>1. CASE n \in DOMAIN c.scopes[a]
      <4>1. d.messages[d.scopes[a][n]] = c.messages[c.scopes[a][n]]
        BY <1>4, <3>1 DEF Placed
      <4>. QED
        BY <3>1, <4>1 DEF Sound, InFront
    <3>2. CASE n \notin DOMAIN c.scopes[a]
      <4>1. a = s /\ d.scopes[a][n] = Len(c.messages) + 1 /\ n = Len(c.scopes[a]) + 1
        BY <1>4, <3>2 DEF Placed
      <4>2. a \in Instructed => c.scopes[a] # <<>>
        BY <4>1 DEF Ready
      <4>3. a \in Instructed => n # 1
        BY <1>6, <4>1, <4>2
      <4>. QED
        BY <1>5, <4>1, <4>3
    <3>. QED
      BY <3>1, <3>2
  <2>. QED
    BY <1>3, <2>1, <2>2 DEF InFront
<1>8. MarkedOnce(d)
  <2>1. ASSUME NEW a \in Instructed
        PROVE  /\ a \in d.marked => d.scopes[a] # <<>>
               /\ d.scopes[a] # <<>> => a \in d.marked \cup d.cut
    <3>1. /\ a \in Agents
          /\ a \in c.marked => c.scopes[a] # <<>>
          /\ c.scopes[a] # <<>> => a \in c.marked \cup c.cut
      BY AgentAssumption DEF Sound, MarkedOnce
    <3>2. CASE a = s
      BY <1>3, <1>4, <1>6, <3>1, <3>2 DEF Ready, Placed
    <3>3. CASE a # s
      BY <1>2, <1>3, <3>1, <3>3 DEF Grows
    <3>. QED
      BY <3>2, <3>3
  <2>. QED
    BY <2>1 DEF MarkedOnce
<1>. QED
  BY <1>1, <1>2, <1>3, <1>7, <1>8, GrowsContinues DEF Sound

\* What an agent has that is not marked: nothing, or what a subscriber left.
LEMMA UnmarkedScope ==
  ASSUME NEW c, Sound(c), NEW a \in Instructed, a \notin c.marked
  PROVE  c.scopes[a] = <<>> \/ a \in c.cut
BY DEF Sound, MarkedOnce

\* The instructions are added, and then the agent is marked or known as cut.
LEMMA InstructedSound ==
  ASSUME NEW c, Sound(c), NEW a \in Instructed, a \notin c.marked,
         NEW e, e = Instruct(c, a), NEW d, d \in Contexts,
         d.messages = e.messages, d.scopes = e.scopes,
         \/ d.marked = c.marked \cup {a} /\ d.cut = c.cut
         \/ d.marked = c.marked /\ d.cut = c.cut \cup {a}
  PROVE  Sound(d) /\ Continues(c, d, a) /\ Ready(d, a)
<1>1. a \in Agents
  BY AgentAssumption
<1>2. c \in Contexts /\ a \in Scopes /\ Grows(c, e, a, "system")
  BY <1>1, AddGrows DEF Sound, Scopes, Instruct
<1>3. e \in Contexts /\ e.marked = c.marked /\ e.cut = c.cut /\ Sorted(e) /\ Continues(c, e, a)
  BY <1>2, GrowsSorted, GrowsContinues DEF Sound, Grows
<1>4. Placed(c, e, a, "system")
  BY <1>2, GrownPlaces DEF Sound, Sorted
<1>5. e.messages[Len(c.messages) + 1].role = "system"
  BY <1>2 DEF Grows
<1>6. c.marked \subseteq d.marked /\ c.cut \subseteq d.cut /\ a \in d.marked \cup d.cut
  OBVIOUS
<1>7. d.scopes[a] # <<>>
  <2>1. PICK n \in DOMAIN d.scopes[a] : TRUE
    BY <1>1, <1>4 DEF Placed
  <2>2. DOMAIN d.scopes[a] = 1..Len(d.scopes[a]) /\ Len(d.scopes[a]) \in Nat
    BY <1>1, ContextTypes
  <2>. QED
    BY <2>1, <2>2, EmptySeq
<1>8. InFront(d)
  <2>1. \A k \in 1..Len(d.messages) : d.messages[k].role = "system" => d.messages[k].by # None
    BY <1>1, <1>4, AgentAssumption DEF Sound, InFront, Placed
  <2>2. ASSUME NEW b \in Agents, NEW n \in DOMAIN d.scopes[b]
        PROVE  /\ d.messages[d.scopes[b][n]].role = "system" =>
                    b \in Instructed /\ (n = 1 \/ b \in d.cut)
               /\ n = 1 /\ b \in Instructed => d.messages[d.scopes[b][n]].role = "system"
    <3>1. CASE n \in DOMAIN c.scopes[b]
      <4>1. d.messages[d.scopes[b][n]] = c.messages[c.scopes[b][n]]
        BY <1>4, <3>1 DEF Placed
      <4>. QED
        BY <1>6, <3>1, <4>1 DEF Sound, InFront
    <3>2. CASE n \notin DOMAIN c.scopes[b]
      <4>1. b = a /\ d.scopes[b][n] = Len(c.messages) + 1 /\ n = Len(c.scopes[a]) + 1
        BY <1>4, <2>2, <3>2 DEF Placed
      <4>2. CASE c.scopes[a] = <<>>
        <5>1. n = 1
          BY <4>1, <4>2, EmptySeq
        <5>. QED
          BY <1>5, <4>1, <5>1
      <4>3. CASE a \in c.cut
        BY <1>5, <1>6, <4>1, <4>3
      <4>. QED
        BY <4>2, <4>3, UnmarkedScope
    <3>. QED
      BY <3>1, <3>2
  <2>. QED
    BY <2>1, <2>2 DEF InFront
<1>9. MarkedOnce(d)
  <2>1. ASSUME NEW b \in Instructed
        PROVE  /\ b \in d.marked => d.scopes[b] # <<>>
               /\ d.scopes[b] # <<>> => b \in d.marked \cup d.cut
    <3>1. CASE b = a
      BY <1>6, <1>7, <3>1
    <3>2. CASE b # a
      <4>1. b \in Agents /\ d.scopes[b] = c.scopes[b] /\ (b \in d.marked => b \in c.marked)
        BY <1>2, <3>2, AgentAssumption DEF Grows
      <4>. QED
        BY <1>6, <4>1 DEF Sound, MarkedOnce
    <3>. QED
      BY <3>1, <3>2
  <2>. QED
    BY <2>1 DEF MarkedOnce
<1>10. Sorted(d)
  BY <1>3 DEF Sorted, Inside, Apart, Owned, Ordered, AmbientLast, Held
<1>11. Continues(c, d, a)
  BY <1>3, <1>6 DEF Continues
<1>. QED
  BY <1>7, <1>8, <1>9, <1>10, <1>11 DEF Sound, Ready

LEMMA PreparedSound ==
  ASSUME NEW c, Sound(c), NEW a \in Agents
  PROVE  LET d == Prepared(c, a) IN Sound(d) /\ Continues(c, d, a) /\ Ready(d, a)
<1>1. CASE ~Unprepared(c, a)
  <2>1. Prepared(c, a) = c
    BY <1>1 DEF Prepared
  <2>2. Continues(c, c, a)
    <3>1. Len(c.messages) \in Nat /\ \A b \in Agents : Len(c.scopes[b]) \in Nat
      BY ContextTypes DEF Sound
    <3>. QED
      BY <3>1 DEF Continues, Extends
  <2>3. Ready(c, a)
    BY <1>1 DEF Unprepared, Ready, Sound, MarkedOnce
  <2>. QED
    BY <2>1, <2>2, <2>3
<1>2. CASE Unprepared(c, a)
  <2>1. PICK e : e = Instruct(c, a)
    OBVIOUS
  <2>2. PICK d : d = Marked(e, a)
    OBVIOUS
  <2>3. e \in Contexts /\ e.marked = c.marked /\ e.cut = c.cut
    BY <2>1, AddGrows DEF Sound, Scopes, Instruct, Grows
  <2>4. /\ d.messages = e.messages /\ d.scopes = e.scopes /\ d.marked = c.marked \cup {a}
        /\ d.cut = c.cut /\ d \in Contexts
    BY <1>2, <2>2, <2>3 DEF Marked, Contexts, Unprepared
  <2>5. Sound(d) /\ Continues(c, d, a) /\ Ready(d, a)
    BY <1>2, <2>1, <2>4, InstructedSound DEF Unprepared
  <2>6. d = Prepared(c, a)
    BY <1>2, <2>1, <2>2 DEF Prepared
  <2>. QED
    BY <2>5, <2>6
<1>. QED
  BY <1>1, <1>2

LEMMA CutShortSound ==
  ASSUME NEW c, Sound(c), NEW a \in Agents, Unprepared(c, a)
  PROVE  LET d == CutShort(c, a) IN Sound(d) /\ Continues(c, d, a)
<1>1. PICK e : e = Instruct(c, a)
  OBVIOUS
<1>2. PICK d : d = CutShort(c, a)
  OBVIOUS
<1>3. e \in Contexts /\ e.marked = c.marked /\ e.cut = c.cut
  BY <1>1, AddGrows DEF Sound, Scopes, Instruct, Grows
<1>4. /\ d.messages = e.messages /\ d.scopes = e.scopes /\ d.marked = c.marked
      /\ d.cut = c.cut \cup {a} /\ d \in Contexts
  BY <1>1, <1>2, <1>3 DEF CutShort, Contexts, Unprepared
<1>5. Sound(d) /\ Continues(c, d, a)
  BY <1>1, <1>4, InstructedSound DEF Unprepared
<1>. QED
  BY <1>2, <1>5

LEMMA KnownIsHeld ==
  ASSUME NEW c, NEW a \in Agents, NEW k
  PROVE  k \in Known(c, a) \cup Foreign(c, a) <=> Held(c, k)
<1>1. k \in Known(c, a) => Held(c, k)
  BY DEF Known, Holds, Held
<1>2. k \in Foreign(c, a) => Held(c, k)
  BY DEF Foreign, Holds, Held
<1>3. ASSUME Held(c, k)  PROVE k \in Known(c, a) \cup Foreign(c, a)
  <2>1. PICK b \in Agents : k \in Holds(c, b)
    BY <1>3 DEF Held, Holds
  <2>. QED
    BY <2>1 DEF Known, Foreign
<1>. QED
  BY <1>1, <1>2, <1>3

\* Every ambient message that nobody has adopted goes to the end of a scope.
Adopts(c, d, a) ==
  LET s == c.scopes[a]
      t == d.scopes[a]
      N == Len(c.messages)
  IN  /\ d \in Contexts /\ d.messages = c.messages
      /\ d.marked = c.marked /\ d.cut = c.cut
      /\ \A b \in Agents \ {a} : d.scopes[b] = c.scopes[b]
      /\ Len(s) <= Len(t) /\ \A n \in 1..Len(s) : n \in 1..Len(t) /\ t[n] = s[n]
      /\ \A n \in 1..Len(t) \ 1..Len(s) : t[n] \in 1..N /\ ~Held(c, t[n])
      /\ \A m, n \in 1..Len(t) \ 1..Len(s) : m < n => t[m] < t[n]
      /\ \A k \in 1..N : ~Held(c, k) => \E n \in 1..Len(t) : t[n] = k

LEMMA AdoptedAdopts ==
  ASSUME NEW c \in Contexts, NEW a \in Agents
  PROVE  Adopts(c, Adopted(c, a), a)
<1>. DEFINE N == Len(c.messages)
<1>1. PICK d : d = Adopted(c, a)
  OBVIOUS
<1>2. PICK s : s = c.scopes[a]
  OBVIOUS
<1>3. PICK new : new = Adoptable(c, a)
  OBVIOUS
<1>4. N \in Nat /\ s \in Seq(Nat) /\ Len(s) \in Nat
  BY <1>2, ContextTypes
<1>5. Filtered(new, Known(c, a) \cup Foreign(c, a), N)
  BY <1>3, <1>4, AdoptableIs
<1>6. /\ new \in Seq(Nat) /\ Len(new) \in Nat
      /\ \A i \in 1..Len(new) : new[i] \in 1..N /\ ~Held(c, new[i])
      /\ \A i, j \in 1..Len(new) : i < j => new[i] < new[j]
      /\ \A k \in 1..N : ~Held(c, k) => \E i \in 1..Len(new) : new[i] = k
  BY <1>5, KnownIsHeld, LenProperties DEF Filtered
<1>7. PICK t : t = s \o new
  OBVIOUS
<1>8. /\ t \in Seq(Nat) /\ Len(t) = Len(s) + Len(new)
      /\ \A n \in 1..Len(s) + Len(new) : t[n] = IF n <= Len(s) THEN s[n] ELSE new[n - Len(s)]
  BY <1>4, <1>6, <1>7, ConcatProperties
<1>9. /\ d.messages = c.messages /\ d.marked = c.marked /\ d.cut = c.cut
      /\ d.scopes = [c.scopes EXCEPT ![a] = t]
      /\ d = [messages |-> d.messages, scopes |-> d.scopes, marked |-> d.marked, cut |-> d.cut]
  BY <1>1, <1>2, <1>3, <1>7 DEF Adopted, ToAdopt, Contexts
<1>10. d \in Contexts /\ d.scopes[a] = t /\ \A b \in Agents \ {a} : d.scopes[b] = c.scopes[b]
  <2>1. c.scopes \in [Agents -> Seq(Nat)] /\ c.messages \in Seq(Message)
        /\ c.marked \subseteq Instructed /\ c.cut \subseteq Instructed
    BY ContextTypes
  <2>2. d.scopes \in [Agents -> Seq(Nat)]
    BY <1>8, <1>9, <2>1
  <2>3. d \in Contexts
    BY <1>9, <2>1, <2>2 DEF Contexts
  <2>. QED
    BY <1>9, <2>1, <2>3
<1>11. Len(s) <= Len(t) /\ \A n \in 1..Len(s) : n \in 1..Len(t) /\ t[n] = s[n]
  BY <1>4, <1>6, <1>8
<1>12. \A n \in 1..Len(t) \ 1..Len(s) :
         n - Len(s) \in 1..Len(new) /\ t[n] = new[n - Len(s)]
  BY <1>4, <1>6, <1>8
<1>13. \A n \in 1..Len(t) \ 1..Len(s) : t[n] \in 1..N /\ ~Held(c, t[n])
  BY <1>6, <1>12
<1>14. ASSUME NEW m \in 1..Len(t) \ 1..Len(s), NEW n \in 1..Len(t) \ 1..Len(s), m < n
       PROVE  t[m] < t[n]
  <2>1. m - Len(s) < n - Len(s)
    BY <1>4, <1>6, <1>8, <1>14
  <2>. QED
    BY <1>6, <1>12, <2>1
<1>15. ASSUME NEW k \in 1..N, ~Held(c, k)  PROVE \E n \in 1..Len(t) : t[n] = k
  <2>1. PICK i \in 1..Len(new) : new[i] = k
    BY <1>6, <1>15
  <2>2. Len(s) + i \in 1..Len(t) /\ ~(Len(s) + i <= Len(s)) /\ (Len(s) + i) - Len(s) = i
    BY <1>4, <1>6, <1>8
  <2>3. t[Len(s) + i] = new[i]
    BY <1>8, <2>2
  <2>. QED
    BY <2>1, <2>2, <2>3
<1>. HIDE DEF N
<1>16. Adopts(c, d, a)
  BY <1>2, <1>9, <1>10, <1>11, <1>13, <1>14, <1>15 DEF Adopts, N
<1>. QED
  BY <1>1, <1>16

LEMMA AdoptsSound ==
  ASSUME NEW c, Sound(c), NEW a \in Agents, Ready(c, a), NEW d, Adopts(c, d, a)
  PROVE  /\ Sound(d) /\ Continues(c, d, a)
         /\ \A k \in 1..Len(d.messages) : Held(d, k)
<1>. DEFINE s == c.scopes[a]
            t == d.scopes[a]
            N == Len(c.messages)
            Old(b) == 1..Len(c.scopes[b])
            All(b) == 1..Len(d.scopes[b])
<1>1. /\ c \in Contexts /\ d \in Contexts /\ d.messages = c.messages /\ N \in Nat
      /\ d.marked = c.marked /\ d.cut = c.cut
  BY ContextTypes DEF Sound, Adopts
<1>2. /\ \A b \in Agents : DOMAIN c.scopes[b] = Old(b) /\ Len(c.scopes[b]) \in Nat
      /\ \A b \in Agents : DOMAIN d.scopes[b] = All(b) /\ Len(d.scopes[b]) \in Nat
  BY <1>1, ContextTypes
<1>3. \A b \in Agents : \A n \in Old(b) :
        /\ n \in All(b) /\ d.scopes[b][n] = c.scopes[b][n]
        /\ c.scopes[b][n] \in 1..N /\ Held(c, c.scopes[b][n])
  <2>1. \A b \in Agents : \A n \in Old(b) : n \in All(b) /\ d.scopes[b][n] = c.scopes[b][n]
    BY DEF Adopts
  <2>2. \A b \in Agents : \A n \in Old(b) : c.scopes[b][n] \in 1..N /\ Held(c, c.scopes[b][n])
    BY <1>2 DEF Sound, Sorted, Inside, Held
  <2>. QED
    BY <2>1, <2>2
<1>4. \A b \in Agents : \A n \in All(b) :
        n \notin Old(b) => b = a /\ d.scopes[b][n] \in 1..N /\ ~Held(c, d.scopes[b][n])
  BY DEF Adopts
<1>5. \A k \in 1..N : ~Held(c, k) => c.messages[k].by = None /\ c.messages[k].role # "system"
  <2>1. \A k \in 1..N : c.messages[k].by \in Scopes
    BY <1>1, ContextTypes
  <2>2. \A k \in 1..N : c.messages[k].by \in Agents => Held(c, k)
    BY DEF Sound, Sorted, Owned, Held
  <2>. QED
    BY <2>1, <2>2 DEF Scopes, Sound, InFront
<1>6. \A m, n \in All(a) : m \notin Old(a) /\ n \notin Old(a) /\ m < n => t[m] < t[n]
  BY DEF Adopts
<1>7. \A b \in Agents : \A m, n \in All(b) : m < n /\ n \in Old(b) => m \in Old(b)
  BY <1>2
<1>8. \A k \in 1..N : Held(d, k)
  <2>1. ASSUME NEW k \in 1..N, Held(c, k)  PROVE Held(d, k)
    <3>1. PICK b \in Agents : \E n \in DOMAIN c.scopes[b] : c.scopes[b][n] = k
      BY <2>1 DEF Held
    <3>2. PICK n \in DOMAIN c.scopes[b] : c.scopes[b][n] = k
      BY <3>1
    <3>. QED
      BY <1>2, <1>3, <3>2 DEF Held
  <2>2. ASSUME NEW k \in 1..N, ~Held(c, k)  PROVE Held(d, k)
    <3>1. PICK n \in All(a) : t[n] = k
      BY <2>2 DEF Adopts
    <3>. QED
      BY <1>2, <3>1 DEF Held
  <2>. QED
    BY <2>1, <2>2
<1>9. Inside(d)
  <2>1. ASSUME NEW b \in Agents, NEW n \in All(b)  PROVE d.scopes[b][n] \in 1..N
    <3>1. CASE n \in Old(b)
      <4>1. d.scopes[b][n] = c.scopes[b][n] /\ c.scopes[b][n] \in 1..N
        BY <1>3, <3>1
      <4>. QED
        BY <4>1
    <3>2. CASE n \notin Old(b)
      BY <1>4, <3>2
    <3>. QED
      BY <3>1, <3>2
  <2>. HIDE DEF All
  <2>. QED
    BY <1>1, <1>2, <2>1 DEF Inside
<1>. HIDE DEF s, t, N, Old, All
<1>10. Apart(d)
  <2>1. ASSUME NEW b \in Agents, NEW e \in Agents, NEW m \in All(b), NEW n \in All(e),
               d.scopes[b][m] = d.scopes[e][n]
        PROVE  b = e /\ m = n
    <3>1. CASE m \in Old(b) /\ n \in Old(e)
      <4>1. c.scopes[b][m] = c.scopes[e][n]
        BY <1>3, <2>1, <3>1
      <4>. QED
        BY <1>2, <3>1, <4>1 DEF Sound, Sorted, Apart
    <3>2. CASE m \in Old(b) /\ n \notin Old(e)
      BY <1>3, <1>4, <2>1, <3>2
    <3>3. CASE m \notin Old(b) /\ n \in Old(e)
      BY <1>3, <1>4, <2>1, <3>3
    <3>4. CASE m \notin Old(b) /\ n \notin Old(e)
      <4>1. b = a /\ e = a /\ t[m] = t[n] /\ t[m] \in 1..N
        BY <1>4, <2>1, <3>4 DEF t
      <4>2. m \in Nat /\ n \in Nat /\ \A i \in 1..N : ~(i < i)
        BY <1>1, <2>1 DEF All
      <4>3. ~(m < n) /\ ~(n < m)
        BY <1>6, <2>1, <3>4, <4>1, <4>2
      <4>. QED
        BY <4>1, <4>2, <4>3
    <3>. QED
      BY <3>1, <3>2, <3>3, <3>4
  <2>. QED
    BY <1>2, <2>1 DEF Apart
<1>11. Owned(d)
  <2>1. ASSUME NEW b \in Agents, NEW n \in All(b)
        PROVE  d.messages[d.scopes[b][n]].by \in {b, None}
    <3>1. CASE n \in Old(b)
      BY <1>1, <1>2, <1>3, <3>1 DEF Sound, Sorted, Owned
    <3>2. CASE n \notin Old(b)
      BY <1>1, <1>4, <1>5, <3>2
    <3>. QED
      BY <3>1, <3>2
  <2>2. ASSUME NEW b \in Agents, NEW k \in 1..N, c.messages[k].by = b
        PROVE  \E n \in All(b) : d.scopes[b][n] = k
    <3>1. PICK n \in Old(b) : c.scopes[b][n] = k
      BY <1>2, <2>2 DEF Sound, Sorted, Owned, N
    <3>. QED
      BY <1>3, <3>1
  <2>. QED
    BY <1>1, <1>2, <2>1, <2>2 DEF Owned, N
<1>12. Ordered(d)
  <2>1. ASSUME NEW b \in Agents, NEW m \in All(b), NEW n \in All(b), m < n,
               c.messages[d.scopes[b][m]].by = c.messages[d.scopes[b][n]].by
        PROVE  d.scopes[b][m] < d.scopes[b][n]
    <3>1. CASE n \in Old(b)
      <4>1. m \in Old(b)
        BY <1>7, <2>1, <3>1
      <4>2. d.scopes[b][m] = c.scopes[b][m] /\ d.scopes[b][n] = c.scopes[b][n]
        BY <1>3, <3>1, <4>1
      <4>3. c.messages[c.scopes[b][m]].by = c.messages[c.scopes[b][n]].by
        BY <2>1, <4>2
      <4>4. c.scopes[b][m] < c.scopes[b][n]
        BY <1>2, <2>1, <3>1, <4>1, <4>3 DEF Sound, Sorted, Ordered
      <4>. QED
        BY <4>2, <4>4
    <3>2. CASE n \notin Old(b) /\ m \in Old(b)
      <4>1. d.scopes[b][n] \in 1..N /\ ~Held(c, d.scopes[b][n])
            /\ c.messages[d.scopes[b][n]].by = None
        BY <1>4, <1>5, <3>2
      <4>2. d.scopes[b][m] = c.scopes[b][m]
        BY <1>3, <3>2
      <4>3. c.messages[c.scopes[b][m]].by = None
        BY <2>1, <4>1, <4>2
      <4>4. c.scopes[b][m] < d.scopes[b][n]
        BY <1>2, <3>2, <4>1, <4>3 DEF Sound, Sorted, AmbientLast, N
      <4>. QED
        BY <4>2, <4>4
    <3>3. CASE n \notin Old(b) /\ m \notin Old(b)
      <4>1. b = a
        BY <1>4, <3>3
      <4>. QED
        BY <1>6, <2>1, <3>3, <4>1 DEF t
    <3>. QED
      BY <3>1, <3>2, <3>3
  <2>. QED
    BY <1>1, <1>2, <2>1 DEF Ordered
<1>13. AmbientLast(d)
  BY <1>1, <1>8 DEF AmbientLast, N
<1>14. InFront(d)
  <2>1. ASSUME NEW b \in Agents, NEW n \in All(b)
        PROVE  /\ c.messages[d.scopes[b][n]].role = "system" =>
                    b \in Instructed /\ (n = 1 \/ b \in c.cut)
               /\ n = 1 /\ b \in Instructed => c.messages[d.scopes[b][n]].role = "system"
    <3>1. CASE n \in Old(b)
      <4>1. /\ c.messages[c.scopes[b][n]].role = "system" =>
                 b \in Instructed /\ (n = 1 \/ b \in c.cut)
            /\ n = 1 /\ b \in Instructed => c.messages[c.scopes[b][n]].role = "system"
        BY <1>2, <3>1 DEF Sound, InFront
      <4>. QED
        BY <1>3, <3>1, <4>1
    <3>2. CASE n \notin Old(b)
      <4>1. b = a /\ c.messages[d.scopes[b][n]].role # "system"
        BY <1>4, <1>5, <3>2
      <4>2. a \in Instructed => s # <<>>
        BY DEF Ready, s
      <4>3. a \in Instructed => 1 \in Old(a)
        BY <1>1, <4>2, ContextTypes, EmptySeq DEF Old, s
      <4>. QED
        BY <3>2, <4>1, <4>3
    <3>. QED
      BY <3>1, <3>2
  <2>. QED
    BY <1>1, <1>2, <2>1 DEF InFront, Sound
<1>15. MarkedOnce(d)
  <2>1. ASSUME NEW b \in Instructed
        PROVE  /\ b \in d.marked => d.scopes[b] # <<>>
               /\ d.scopes[b] # <<>> => b \in d.marked \cup d.cut
    <3>1. /\ b \in Agents
          /\ b \in c.marked => c.scopes[b] # <<>>
          /\ c.scopes[b] # <<>> => b \in c.marked \cup c.cut
      BY AgentAssumption DEF Sound, MarkedOnce
    <3>2. CASE b # a
      BY <1>1, <3>1, <3>2 DEF Adopts
    <3>3. CASE b = a
      <4>1. 1 \in Old(a)
        BY <1>1, <3>1, <3>3, ContextTypes, EmptySeq DEF Old, Ready
      <4>2. 1 \in DOMAIN d.scopes[a]
        BY <1>2, <1>3, <4>1
      <4>3. d.scopes[a] # <<>>
        BY <1>1, <4>2, ContextTypes, EmptySeq
      <4>. QED
        BY <1>1, <3>1, <3>3, <4>3 DEF Ready
    <3>. QED
      BY <3>2, <3>3
  <2>. QED
    BY <2>1 DEF MarkedOnce
<1>16. Continues(c, d, a)
  <2>1. \A b \in Agents : Extends(d.scopes[b], c.scopes[b])
    <3>. SUFFICES ASSUME NEW b \in Agents  PROVE Extends(d.scopes[b], c.scopes[b])
      OBVIOUS
    <3>1. Len(c.scopes[b]) <= Len(d.scopes[b])
      BY <1>2 DEF Adopts
    <3>. QED
      BY <1>2, <1>3, <3>1 DEF Extends
  <2>. QED
    BY <1>1, <2>1 DEF Continues, Adopts, N
<1>. QED
  BY <1>1, <1>8, <1>9, <1>10, <1>11, <1>12, <1>13, <1>14, <1>15, <1>16 DEF Sound, Sorted, N

-----------------------------------------------------------------------------
(* The invariant.                                                          *)

\* A run returns to the scope of the run it is in.
Returns ==
  \A i \in 1..Len(stack) : stack[i].previous = IF i = 1 THEN home ELSE stack[i - 1].agent

AllReady == Ready(Context, home) /\ \A i \in 1..Len(stack) : Ready(Context, stack[i].agent)

\* Once an agent runs, no message is without a scope.
AllHeld == stack # <<>> => \A k \in Ids : Held(Context, k)

PromptInv ==
  /\ prompt.for \in Scopes /\ prompt.sent \in Seq(Ids)
  /\ prompt.for # None =>
       \A n \in DOMAIN prompt.sent : messages[prompt.sent[n]].by \in {prompt.for, None}

Frames == [agent : Agents, previous : Scopes]

IInv ==
  /\ home \in Scopes /\ active = Author /\ stack \in Seq(Frames)
  /\ Returns /\ Sound(Context) /\ AllReady /\ AllHeld /\ PromptInv

LEMMA StackType ==
  ASSUME IInv
  PROVE  /\ Len(stack) \in Nat /\ \A i \in 1..Len(stack) : stack[i] \in Frames
         /\ stack = <<>> <=> Len(stack) = 0
         /\ active \in Scopes /\ Ready(Context, active)
         /\ stack # <<>> => active \in Agents /\ active = stack[Len(stack)].agent
         /\ stack = <<>> => active = home
<1>1. /\ Len(stack) \in Nat /\ (\A i \in 1..Len(stack) : stack[i] \in Frames)
      /\ (stack = <<>> <=> Len(stack) = 0)
  BY LenProperties, ElementOfSeq, EmptySeq DEF IInv
<1>2. CASE stack = <<>>
  BY <1>1, <1>2 DEF IInv, Author, AllReady
<1>3. CASE stack # <<>>
  <2>1. Len(stack) \in 1..Len(stack) /\ active = stack[Len(stack)].agent
    BY <1>1, <1>3 DEF IInv, Author
  <2>2. active \in Agents
    BY <1>1, <2>1 DEF Frames
  <2>. QED
    BY <1>1, <1>3, <2>1, <2>2 DEF IInv, AllReady, Scopes
<1>. QED
  BY <1>1, <1>2, <1>3

LEMMA BecomeIs ==
  ASSUME NEW c \in Contexts, Become(c)
  PROVE  Context' = c /\ Ids' = 1..Len(c.messages) /\ messages' = c.messages /\ scopes' = c.scopes
<1>1. c = [messages |-> c.messages, scopes |-> c.scopes, marked |-> c.marked, cut |-> c.cut]
  BY DEF Contexts
<1>2. messages' = c.messages /\ scopes' = c.scopes /\ marked' = c.marked /\ cut' = c.cut
  BY DEF Become
<1>3. Context' = c
  BY <1>1, <1>2 DEF Context
<1>. QED
  BY <1>2, <1>3 DEF Ids

\* What holds of the prompt and of who is ready is kept while contexts grow.
LEMMA PromptKept ==
  ASSUME IInv, NEW c \in Contexts, NEW s, Become(c), Continues(Context, c, s), UNCHANGED prompt
  PROVE  PromptInv'
<1>1. /\ Context \in Contexts /\ Context.messages = messages
      /\ messages' = c.messages /\ Ids' = 1..Len(c.messages)
  BY BecomeIs DEF IInv, Sound, Context
<1>2. /\ Len(messages) \in Nat /\ Len(c.messages) \in Nat /\ Len(messages) <= Len(c.messages)
      /\ \A k \in Ids : messages'[k] = messages[k]
  BY <1>1, ContextTypes DEF Continues, Ids
<1>3. Ids \subseteq Ids'
  BY <1>1, <1>2 DEF Ids
<1>4. prompt.sent \in Seq(Ids) /\ prompt'.sent \in Seq(Ids')
  BY <1>3, SeqMonotonic DEF IInv, PromptInv
<1>5. \A n \in DOMAIN prompt.sent : prompt.sent[n] \in Ids
  BY <1>4, ElementOfSeq
<1>. QED
  BY <1>2, <1>4, <1>5 DEF IInv, PromptInv

LEMMA ReadyKept ==
  ASSUME NEW c \in Contexts, NEW d \in Contexts, NEW s, NEW t, Continues(c, d, s), Ready(c, t)
  PROVE  Ready(d, t)
<1>. SUFFICES ASSUME t \in Instructed  PROVE d.scopes[t] # <<>>
  BY DEF Ready
<1>1. t \in Agents /\ c.scopes[t] # <<>> /\ Len(c.scopes[t]) <= Len(d.scopes[t])
  BY AgentAssumption DEF Ready, Continues, Extends
<1>2. Len(c.scopes[t]) \in Nat /\ Len(d.scopes[t]) \in Nat /\ c.scopes[t] \in Seq(Nat)
  BY <1>1, ContextTypes
<1>. QED
  BY <1>1, <1>2, EmptySeq

LEMMA HeldKept ==
  ASSUME NEW c \in Contexts, NEW d \in Contexts, NEW s, NEW k, Continues(c, d, s), Held(c, k)
  PROVE  Held(d, k)
<1>1. PICK b \in Agents : \E n \in DOMAIN c.scopes[b] : c.scopes[b][n] = k
  BY DEF Held
<1>2. PICK n \in DOMAIN c.scopes[b] : c.scopes[b][n] = k
  BY <1>1
<1>3. /\ DOMAIN c.scopes[b] = 1..Len(c.scopes[b]) /\ DOMAIN d.scopes[b] = 1..Len(d.scopes[b])
      /\ Len(c.scopes[b]) \in Nat /\ Len(d.scopes[b]) \in Nat
  BY ContextTypes
<1>4. Extends(d.scopes[b], c.scopes[b])
  BY DEF Continues
<1>5. n \in DOMAIN d.scopes[b] /\ d.scopes[b][n] = k
  BY <1>2, <1>3, <1>4 DEF Extends
<1>. QED
  BY <1>5 DEF Held

\* The code now running adds a message to its own scope.
LEMMA TurnAdded ==
  ASSUME IInv, NEW c, c = AddTo(Context, active, Author, "turn"), Become(c),
         UNCHANGED <<home, active, stack>>
  PROVE  /\ home' \in Scopes /\ active' = Author' /\ stack' \in Seq(Frames)
         /\ Returns' /\ Sound(Context') /\ AllReady' /\ AllHeld'
         /\ c \in Contexts /\ Continues(Context, c, active)
<1>1. active \in Scopes /\ Ready(Context, active) /\ active = Author /\ Context \in Contexts
      /\ (stack # <<>> => active \in Agents)
  BY StackType DEF IInv, Sound
<1>2. Sound(c) /\ Continues(Context, c, active) /\ Grows(Context, c, active, "turn")
  BY <1>1, TurnSound, AddGrows DEF IInv
<1>3. c \in Contexts /\ Context' = c /\ Ids' = 1..Len(c.messages)
  BY <1>2, BecomeIs DEF Sound
<1>4. AllHeld'
  <2>. SUFFICES ASSUME stack # <<>>, NEW k \in 1..Len(c.messages)  PROVE Held(c, k)
    BY <1>3 DEF AllHeld
  <2>1. Len(messages) \in Nat /\ Len(c.messages) = Len(messages) + 1
        /\ c.messages[Len(messages) + 1].by = active
    BY <1>1, <1>2, ContextTypes DEF Grows, Context
  <2>2. CASE k \in Ids
    BY <1>1, <1>2, <1>3, <2>2, HeldKept DEF IInv, AllHeld
  <2>3. CASE k = Len(messages) + 1
    BY <1>1, <1>2, <2>1, <2>3 DEF Sound, Sorted, Owned, Held
  <2>4. k \in Ids \/ k = Len(messages) + 1
    BY <2>1 DEF Ids
  <2>. QED
    BY <2>2, <2>3, <2>4
<1>5. AllReady'
  BY <1>1, <1>2, <1>3, ReadyKept DEF IInv, AllReady
<1>. QED
  BY <1>1, <1>2, <1>3, <1>4, <1>5 DEF IInv, Author, Returns

LEMMA AddMessageKeeps ==
  ASSUME IInv, AddMessage
  PROVE  IInv' /\ \E s : Continues(Context, Context', s)
<1>1. PICK c : c = AddTo(Context, active, Author, "turn")
  OBVIOUS
<1>2. Become(c) /\ UNCHANGED <<home, active, stack, prompt>>
  BY <1>1 DEF AddMessage
<1>3. /\ home' \in Scopes /\ active' = Author' /\ stack' \in Seq(Frames)
      /\ Returns' /\ Sound(Context') /\ AllReady' /\ AllHeld'
      /\ c \in Contexts /\ Continues(Context, c, active)
  BY <1>1, <1>2, TurnAdded
<1>4. PromptInv' /\ Context' = c
  BY <1>2, <1>3, PromptKept, BecomeIs
<1>. QED
  BY <1>3, <1>4 DEF IInv

LEMMA ReadIs ==
  ASSUME NEW c, Sound(c), NEW s \in Scopes
  PROVE  /\ GetMessages(c, s) \in Seq(1..Len(c.messages))
         /\ s # None => \A n \in DOMAIN GetMessages(c, s) :
                          c.messages[GetMessages(c, s)[n]].by \in {s, None}
<1>1. c \in Contexts /\ Len(c.messages) \in Nat
  BY ContextTypes DEF Sound
<1>2. CASE s = None
  <2>1. PICK N \in Nat : N = Len(c.messages)
    BY <1>1
  <2>2. [k \in 1..N |-> k] \in Seq(1..N)
    <3>1. [k \in 1..N |-> k] \in [1..N -> 1..N]
      OBVIOUS
    <3>. QED
      BY <3>1, SeqDef
  <2>. QED
    BY <1>2, <2>1, <2>2 DEF GetMessages
<1>3. CASE s # None
  <2>1. s \in Agents /\ GetMessages(c, s) = c.scopes[s]
    BY <1>3 DEF GetMessages, Scopes
  <2>2. c.scopes[s] \in Seq(Nat) /\ DOMAIN c.scopes[s] = 1..Len(c.scopes[s]) /\ Len(c.scopes[s]) \in Nat
    BY <1>1, <2>1, ContextTypes
  <2>3. \A n \in DOMAIN c.scopes[s] :
          /\ c.scopes[s][n] \in 1..Len(c.messages)
          /\ c.messages[c.scopes[s][n]].by \in {s, None}
    BY <2>1 DEF Sound, Sorted, Inside, Owned
  <2>4. c.scopes[s] \in [1..Len(c.scopes[s]) -> 1..Len(c.messages)]
    <3>1. c.scopes[s] = [n \in 1..Len(c.scopes[s]) |-> c.scopes[s][n]]
      BY <2>2, LenProperties
    <3>. QED
      BY <2>2, <2>3, <3>1
  <2>5. c.scopes[s] \in Seq(1..Len(c.messages))
    <3>1. PICK n \in Nat : n = Len(c.scopes[s])
      BY <2>2
    <3>2. c.scopes[s] \in [1..n -> 1..Len(c.messages)]
      BY <2>4, <3>1
    <3>. QED
      BY <3>2, SeqDef
  <2>. QED
    BY <2>1, <2>3, <2>5
<1>. QED
  BY <1>2, <1>3

LEMMA SameContinues ==
  ASSUME NEW c \in Contexts, NEW s
  PROVE  Continues(c, c, s)
<1>1. Len(c.messages) \in Nat /\ \A b \in Agents : Len(c.scopes[b]) \in Nat
  BY ContextTypes
<1>. QED
  BY <1>1 DEF Continues, Extends

LEMMA AskModelKeeps ==
  ASSUME IInv, NEW seeded \in BOOLEAN, AskModel(seeded)
  PROVE  IInv' /\ \E s : Continues(Context, Context', s)
<1>1. PICK c : c = IF GetMessages(Context, active) = <<>> /\ seeded
                   THEN AddTo(Context, active, Author, "turn") ELSE Context
  OBVIOUS
<1>2. /\ Become(c) /\ UNCHANGED <<home, active, stack>>
      /\ prompt' = [for |-> Author, sent |-> GetMessages(c, active)]
  BY <1>1 DEF AskModel
<1>3. active \in Scopes /\ active = Author
  BY StackType DEF IInv
<1>4. /\ home' \in Scopes /\ active' = Author' /\ stack' \in Seq(Frames)
      /\ Returns' /\ Sound(Context') /\ AllReady' /\ AllHeld'
      /\ c \in Contexts /\ Continues(Context, c, active)
  <2>1. CASE c = AddTo(Context, active, Author, "turn")
    BY <1>2, <2>1, TurnAdded
  <2>2. CASE c = Context
    <3>1. c \in Contexts /\ Context' = Context /\ Ids' = Ids
      BY <1>2, <2>2, BecomeIs DEF IInv, Sound, Context, Ids
    <3>2. Continues(Context, c, active)
      BY <2>2, <3>1, SameContinues
    <3>3. AllReady' /\ AllHeld'
      BY <1>2, <3>1 DEF IInv, AllReady, AllHeld
    <3>. QED
      BY <1>2, <3>1, <3>2, <3>3 DEF IInv, Returns, Author
  <2>. QED
    BY <1>1, <2>1, <2>2
<1>5. Context' = c /\ Ids' = 1..Len(c.messages) /\ messages' = c.messages
  BY <1>2, <1>4, BecomeIs
<1>6. prompt'.for = active /\ prompt'.sent = GetMessages(c, active)
  BY <1>2, <1>3
<1>7. PromptInv'
  BY <1>3, <1>4, <1>5, <1>6, ReadIs DEF PromptInv
<1>. QED
  BY <1>4, <1>5, <1>7 DEF IInv

\* Entering a run, on a context that the agent has prepared.
LEMMA EnterKeeps ==
  ASSUME IInv, NEW a \in Agents, NEW c, Sound(c), Ready(c, a), Continues(Context, c, a), Enter(c, a)
  PROVE  IInv' /\ \E s : Continues(Context, Context', s)
<1>1. PICK d : d = Adopted(c, a)
  OBVIOUS
<1>2. /\ Become(d) /\ stack' = Append(stack, [agent |-> a, previous |-> active])
      /\ active' = a /\ home' = home /\ prompt' = prompt
  BY <1>1 DEF Enter
<1>3. c \in Contexts /\ Context \in Contexts
  BY DEF IInv, Sound
<1>4. Sound(d) /\ Continues(c, d, a) /\ \A k \in 1..Len(d.messages) : Held(d, k)
  BY <1>1, <1>3, AdoptedAdopts, AdoptsSound
<1>5. d \in Contexts /\ Continues(Context, d, a)
  BY <1>3, <1>4, ContinuesOn DEF Sound
<1>6. Context' = d /\ Ids' = 1..Len(d.messages)
  BY <1>2, <1>5, BecomeIs
<1>7. /\ Len(stack) \in Nat /\ \A i \in 1..Len(stack) : stack[i] \in Frames
      /\ active \in Scopes
      /\ stack # <<>> => active = stack[Len(stack)].agent
      /\ stack = <<>> => active = home
      /\ stack = <<>> <=> Len(stack) = 0
  BY StackType
<1>8. PICK f : f = [agent |-> a, previous |-> active]
  OBVIOUS
<1>9. f \in Frames /\ f.agent = a /\ f.previous = active
  BY <1>7, <1>8 DEF Frames
<1>10. /\ stack' \in Seq(Frames) /\ Len(stack') = Len(stack) + 1
       /\ \A i \in 1..Len(stack) : stack'[i] = stack[i]
       /\ stack'[Len(stack) + 1] = f
  BY <1>2, <1>8, <1>9, AppendProperties DEF IInv
<1>11. \A i \in 1..Len(stack') : i \in 1..Len(stack) \/ i = Len(stack) + 1
  BY <1>7, <1>10
<1>12. active' = Author'
  <2>1. stack' # <<>>
    BY <1>7, <1>10, EmptySeq
  <2>. QED
    BY <1>2, <1>9, <1>10, <2>1 DEF Author
<1>13. Returns'
  <2>1. ASSUME NEW i \in 1..Len(stack')
        PROVE  stack'[i].previous = IF i = 1 THEN home ELSE stack'[i - 1].agent
    <3>1. CASE i \in 1..Len(stack)
      <4>1. i # 1 => i - 1 \in 1..Len(stack)
        BY <1>7, <3>1
      <4>2. stack[i].previous = IF i = 1 THEN home ELSE stack[i - 1].agent
        BY <3>1 DEF IInv, Returns
      <4>. QED
        BY <1>10, <3>1, <4>1, <4>2
    <3>2. CASE i = Len(stack) + 1
      <4>1. i = 1 <=> stack = <<>>
        BY <1>7, <3>2
      <4>2. i # 1 => i - 1 = Len(stack) /\ Len(stack) \in 1..Len(stack)
        BY <1>7, <3>2
      <4>3. stack'[i].previous = active
        BY <1>9, <1>10, <3>2
      <4>. QED
        BY <1>7, <1>10, <4>1, <4>2, <4>3
    <3>. QED
      BY <1>11, <3>1, <3>2
  <2>. QED
    BY <1>2, <2>1 DEF Returns
<1>14. AllReady'
  <2>1. Ready(d, home) /\ \A i \in 1..Len(stack) : Ready(d, stack[i].agent)
    BY <1>3, <1>5, ReadyKept DEF IInv, AllReady
  <2>2. Ready(d, a)
    BY <1>3, <1>4, <1>5, ReadyKept
  <2>. QED
    BY <1>2, <1>6, <1>9, <1>10, <1>11, <2>1, <2>2 DEF AllReady
<1>15. AllHeld'
  BY <1>4, <1>6 DEF AllHeld
<1>16. PromptInv'
  BY <1>2, <1>5, PromptKept
<1>. QED
  BY <1>2, <1>4, <1>5, <1>6, <1>10, <1>12, <1>13, <1>14, <1>15, <1>16 DEF IInv

LEMMA RunKeeps ==
  ASSUME IInv, NEW a \in Agents, Run(a)
  PROVE  IInv' /\ \E s : Continues(Context, Context', s)
<1>1. PICK c : c = Prepared(Context, a)
  OBVIOUS
<1>2. Sound(c) /\ Continues(Context, c, a) /\ Ready(c, a)
  BY <1>1, PreparedSound DEF IInv
<1>. QED
  BY <1>1, <1>2, EnterKeeps DEF Run

LEMMA ChatKeeps ==
  ASSUME IInv, NEW a \in Agents, Chat(a)
  PROVE  IInv' /\ \E s : Continues(Context, Context', s)
<1>1. PICK c : c = Prepared(Context, a)
  OBVIOUS
<1>2. PICK d : d = AddTo(c, a, a, "turn")
  OBVIOUS
<1>3. PICK e : e = Prepared(d, a)
  OBVIOUS
<1>4. Context \in Contexts /\ a \in Scopes
  BY DEF IInv, Sound, Scopes
<1>5. Sound(c) /\ Continues(Context, c, a) /\ Ready(c, a)
  BY <1>1, PreparedSound DEF IInv
<1>6. Sound(d) /\ Continues(c, d, a)
  BY <1>2, <1>4, <1>5, TurnSound
<1>7. Sound(e) /\ Continues(d, e, a) /\ Ready(e, a)
  BY <1>3, <1>6, PreparedSound
<1>8. c \in Contexts /\ d \in Contexts /\ e \in Contexts
  BY <1>5, <1>6, <1>7 DEF Sound
<1>9. Continues(Context, e, a)
  <2>1. Continues(Context, d, a)
    BY <1>4, <1>5, <1>6, <1>8, ContinuesOn
  <2>. QED
    BY <1>4, <1>7, <1>8, <2>1, ContinuesOn
<1>. QED
  BY <1>1, <1>2, <1>3, <1>7, <1>9, EnterKeeps DEF Chat

\* The code that runs is told of an exception, and no run is entered.
LEMMA RaisedKeeps ==
  ASSUME IInv, NEW a \in Agents, NEW c, Sound(c), Continues(Context, c, a), Become(c),
         stack # <<>> => \A k \in 1..Len(c.messages) : Held(c, k),
         UNCHANGED <<home, active, stack, prompt>>
  PROVE  IInv' /\ \E s : Continues(Context, Context', s)
<1>1. c \in Contexts /\ Context \in Contexts
  BY DEF IInv, Sound
<1>2. Context' = c /\ Ids' = 1..Len(c.messages)
  BY <1>1, BecomeIs
<1>3. AllReady'
  BY <1>1, <1>2, ReadyKept DEF IInv, AllReady
<1>4. AllHeld'
  BY <1>2 DEF AllHeld
<1>5. PromptInv'
  BY <1>1, PromptKept
<1>. QED
  BY <1>2, <1>3, <1>4, <1>5 DEF IInv, Author, Returns

\* What is added for an agent is in its scope.
LEMMA AddedIsHeld ==
  ASSUME IInv, NEW a \in Agents, NEW c, Sound(c), Continues(Context, c, a),
         NEW d, Sound(d), Continues(c, d, a),
         \A k \in 1..Len(d.messages) : k \in 1..Len(messages) \/ d.messages[k].by = a,
         stack # <<>>, NEW k \in 1..Len(d.messages)
  PROVE  Held(d, k)
<1>1. c \in Contexts /\ d \in Contexts /\ Context \in Contexts
  BY DEF IInv, Sound
<1>2. CASE k \in 1..Len(messages)
  <2>1. Held(Context, k)
    BY <1>2 DEF IInv, AllHeld, Ids
  <2>2. Held(c, k)
    BY <1>1, <2>1, HeldKept
  <2>. QED
    BY <1>1, <2>2, HeldKept
<1>3. CASE d.messages[k].by = a
  BY <1>3 DEF Sound, Sorted, Owned, Held
<1>. QED
  BY <1>2, <1>3

\* Preparing a context adds messages for the agent only.
LEMMA PreparedIs ==
  ASSUME Sound(Context), NEW a \in Agents, NEW c, c = Prepared(Context, a)
  PROVE  \A k \in 1..Len(c.messages) : k \in 1..Len(messages) \/ c.messages[k].by = a
<1>1. Context \in Contexts /\ Context.messages = messages
  BY DEF Sound, Context
<1>2. CASE ~Unprepared(Context, a)
  BY <1>1, <1>2 DEF Prepared
<1>3. CASE Unprepared(Context, a)
  <2>1. PICK e : e = Instruct(Context, a)
    OBVIOUS
  <2>2. Grows(Context, e, a, "system")
    BY <1>1, <2>1, AddGrows DEF Instruct, Scopes
  <2>3. c.messages = e.messages
    BY <1>3, <2>1, <2>2 DEF Prepared, Marked, Grows, Contexts
  <2>4. Placed(Context, e, a, "system")
    BY <1>1, <2>2, GrownPlaces DEF Sound, Sorted, Scopes
  <2>. QED
    BY <1>1, <2>3, <2>4 DEF Placed
<1>. QED
  BY <1>2, <1>3

LEMMA PrepareRaisesKeeps ==
  ASSUME IInv, NEW a \in Agents, PrepareRaises(a)
  PROVE  IInv' /\ \E s : Continues(Context, Context', s)
<1>1. PICK c : c = CutShort(Context, a)
  OBVIOUS
<1>2. Unprepared(Context, a) /\ Become(c) /\ UNCHANGED <<home, active, stack, prompt>>
  BY <1>1 DEF PrepareRaises
<1>3. Sound(c) /\ Continues(Context, c, a) /\ Sound(Context) /\ Context \in Contexts
  BY <1>1, <1>2, CutShortSound DEF IInv, Sound
<1>4. \A k \in 1..Len(c.messages) : k \in 1..Len(messages) \/ c.messages[k].by = a
  <2>1. PICK e : e = Instruct(Context, a)
    OBVIOUS
  <2>2. Grows(Context, e, a, "system")
    BY <1>3, <2>1, AddGrows DEF Instruct, Scopes
  <2>3. c.messages = e.messages
    BY <1>1, <2>1, <2>2 DEF CutShort, Grows, Contexts
  <2>4. Placed(Context, e, a, "system")
    BY <1>3, <2>2, GrownPlaces DEF Sound, Sorted, Scopes
  <2>5. Context.messages = messages
    BY DEF Context
  <2>. QED
    BY <2>3, <2>4, <2>5 DEF Placed
<1>5. Continues(Context, Context, a)
  BY <1>3, SameContinues
<1>6. stack # <<>> => \A k \in 1..Len(c.messages) : Held(c, k)
  BY <1>3, <1>4, <1>5, AddedIsHeld
<1>. QED
  BY <1>2, <1>3, <1>6, RaisedKeeps

LEMMA ChatRaisesKeeps ==
  ASSUME IInv, NEW a \in Agents, ChatRaises(a)
  PROVE  IInv' /\ \E s : Continues(Context, Context', s)
<1>1. PICK c : c = Prepared(Context, a)
  OBVIOUS
<1>2. PICK d : d = AddTo(c, a, a, "turn")
  OBVIOUS
<1>3. Become(d) /\ UNCHANGED <<home, active, stack, prompt>>
  BY <1>1, <1>2 DEF ChatRaises
<1>4. Context \in Contexts /\ a \in Scopes /\ Sound(Context)
  BY DEF IInv, Sound, Scopes
<1>5. Sound(c) /\ Continues(Context, c, a) /\ Ready(c, a) /\ c \in Contexts
  BY <1>1, PreparedSound DEF IInv, Sound
<1>6. Sound(d) /\ Continues(c, d, a) /\ d \in Contexts
  BY <1>2, <1>4, <1>5, TurnSound DEF Sound
<1>7. Continues(Context, d, a)
  BY <1>4, <1>5, <1>6, ContinuesOn
<1>8. \A k \in 1..Len(c.messages) : k \in 1..Len(messages) \/ c.messages[k].by = a
  BY <1>1, <1>4, PreparedIs
<1>9. \A k \in 1..Len(d.messages) : k \in 1..Len(messages) \/ d.messages[k].by = a
  <2>1. Grows(c, d, a, "turn") /\ Inside(c)
    BY <1>2, <1>4, <1>5, AddGrows DEF Sound, Sorted
  <2>2. Placed(c, d, a, "turn")
    BY <1>4, <1>5, <2>1, GrownPlaces
  <2>. QED
    BY <1>8, <2>2 DEF Placed
<1>10. stack # <<>> => \A k \in 1..Len(d.messages) : Held(d, k)
  BY <1>5, <1>6, <1>9, AddedIsHeld
<1>. QED
  BY <1>3, <1>6, <1>7, <1>10, RaisedKeeps

LEMMA LeaveKeeps ==
  ASSUME IInv, Leave
  PROVE  IInv' /\ \E s : Continues(Context, Context', s)
<1>1. /\ stack # <<>> /\ active' = stack[Len(stack)].previous
      /\ stack' = SubSeq(stack, 1, Len(stack) - 1)
      /\ UNCHANGED <<home, messages, scopes, marked, cut, prompt>>
  BY DEF Leave, Restored
<1>2. /\ Len(stack) \in Nat /\ \A i \in 1..Len(stack) : stack[i] \in Frames
      /\ stack = <<>> <=> Len(stack) = 0
  BY StackType
<1>3. PICK m \in Nat : Len(stack) = m + 1
  <2>1. Len(stack) - 1 \in Nat /\ Len(stack) = (Len(stack) - 1) + 1
    BY <1>1, <1>2
  <2>. QED
    BY <2>1
<1>4. stack' = SubSeq(stack, 1, m) /\ stack \in Seq(Frames)
  BY <1>1, <1>3 DEF IInv
<1>5. /\ stack' \in Seq(Frames) /\ Len(stack') = m
      /\ \A i \in 1..m : stack'[i] = stack[i] /\ i \in 1..Len(stack)
  <2>1. \A i \in 1..m : stack[i] \in Frames /\ i \in 1..Len(stack)
    BY <1>2, <1>3
  <2>. QED
    BY <1>3, <1>4, <2>1, SubSeqProperties
<1>6. Context' = Context /\ Ids' = Ids
  BY <1>1 DEF Context, Ids
<1>7. active' = Author'
  <2>1. m + 1 \in 1..Len(stack) /\ active' = stack[m + 1].previous
    BY <1>1, <1>3
  <2>2. active' = IF m + 1 = 1 THEN home ELSE stack[(m + 1) - 1].agent
    BY <2>1 DEF IInv, Returns
  <2>3. stack' = <<>> <=> m = 0
    BY <1>5, EmptySeq
  <2>4. CASE m = 0
    BY <1>1, <2>2, <2>3, <2>4 DEF Author
  <2>5. CASE m # 0
    <3>1. m \in 1..m /\ (m + 1) - 1 = m /\ m + 1 # 1
      BY <2>5
    <3>. QED
      BY <1>5, <2>2, <2>3, <2>5, <3>1 DEF Author
  <2>. QED
    BY <2>4, <2>5
<1>8. Returns'
  <2>1. \A i \in 1..m : stack[i].previous = IF i = 1 THEN home ELSE stack[i - 1].agent
    BY <1>5 DEF IInv, Returns
  <2>2. \A i \in 1..m : i # 1 => i - 1 \in 1..m
    OBVIOUS
  <2>3. ASSUME NEW i \in 1..m
        PROVE  stack'[i].previous = IF i = 1 THEN home ELSE stack'[i - 1].agent
    BY <1>5, <2>1, <2>2, <2>3, Zenon
  <2>. QED
    BY <1>1, <1>5, <2>3 DEF Returns
<1>9. AllReady'
  BY <1>1, <1>5, <1>6 DEF IInv, AllReady
<1>10. AllHeld' /\ PromptInv'
  BY <1>1, <1>6 DEF IInv, AllHeld, PromptInv
<1>11. Continues(Context, Context', active)
  BY <1>6, SameContinues DEF IInv, Sound
<1>. QED
  BY <1>1, <1>5, <1>6, <1>7, <1>8, <1>9, <1>10, <1>11 DEF IInv

LEMMA EmptySound == Sound(Empty)
<1>1. PICK c : c = Empty
  OBVIOUS
<1>2. PICK e : e = <<>>
  OBVIOUS
<1>3. e \in Seq(Nat) /\ e \in Seq(Message) /\ Len(e) = 0 /\ DOMAIN e = {}
  BY <1>2, EmptySeq
<1>4. c.messages = e /\ c.marked = {} /\ c.cut = {} /\ \A a \in Agents : c.scopes[a] = e
  BY <1>1, <1>2 DEF Empty
<1>5. c \in Contexts
  BY <1>1, <1>2, <1>3 DEF Empty, Contexts
<1>6. 1..Len(c.messages) = {} /\ \A a \in Agents : DOMAIN c.scopes[a] = {}
  BY <1>3, <1>4
<1>7. Sorted(c) /\ InFront(c)
  BY <1>6 DEF Sorted, Inside, Apart, Owned, Ordered, AmbientLast, InFront
<1>8. MarkedOnce(c)
  BY <1>2, <1>4, AgentAssumption DEF MarkedOnce
<1>. QED
  BY <1>1, <1>5, <1>7, <1>8 DEF Sound

LEMMA InitInv == Init => IInv
<1>. SUFFICES ASSUME Init  PROVE IInv
  OBVIOUS
<1>1. PICK c : /\ c = IF home = None THEN Empty ELSE Prepared(Empty, home)
               /\ messages = c.messages /\ scopes = c.scopes /\ marked = c.marked /\ cut = c.cut
  BY DEF Init
<1>2. home \in Scopes /\ active = home /\ stack = <<>> /\ prompt = [for |-> None, sent |-> <<>>]
  BY DEF Init
<1>3. Sound(c) /\ Ready(c, home)
  <2>1. CASE home = None
    BY <1>1, <2>1, EmptySound, AgentAssumption DEF Ready
  <2>2. CASE home # None
    <3>1. home \in Agents
      BY <1>2, <2>2 DEF Scopes
    <3>. QED
      BY <1>1, <2>2, <3>1, EmptySound, PreparedSound
  <2>. QED
    BY <2>1, <2>2
<1>4. Context = c
  BY <1>1, <1>3 DEF Context, Sound, Contexts
<1>5. stack \in Seq(Frames) /\ Len(stack) = 0 /\ 1..Len(stack) = {}
  <2>1. stack \in Seq(Frames) /\ Len(stack) = 0
    BY <1>2, EmptySeq
  <2>. QED
    BY <2>1
<1>6. Returns /\ AllReady /\ AllHeld
  BY <1>2, <1>3, <1>4, <1>5 DEF Returns, AllReady, AllHeld
<1>7. PromptInv
  <2>1. <<>> \in Seq(Ids)
    BY EmptySeq
  <2>2. prompt.for = None /\ prompt.sent = <<>> /\ None \in Scopes
    BY <1>2 DEF Scopes
  <2>. QED
    BY <2>1, <2>2 DEF PromptInv
<1>. QED
  BY <1>2, <1>3, <1>4, <1>5, <1>6, <1>7 DEF IInv, Author

LEMMA StepInv == IInv /\ [Next]_vars => IInv' /\ \E s : Continues(Context, Context', s)
<1>. SUFFICES ASSUME IInv, [Next]_vars  PROVE IInv' /\ \E s : Continues(Context, Context', s)
  OBVIOUS
<1>1. CASE UNCHANGED vars
  <2>1. Context' = Context /\ Ids' = Ids /\ Author' = Author
    BY <1>1 DEF vars, Context, Ids, Author
  <2>2. IInv'
    BY <1>1, <2>1 DEF vars, IInv, Returns, AllReady, AllHeld, PromptInv
  <2>3. Continues(Context, Context', None)
    BY <2>1, SameContinues DEF IInv, Sound
  <2>. QED
    BY <2>2, <2>3
<1>. QED
  BY <1>1, AddMessageKeeps, AskModelKeeps, RunKeeps, ChatKeeps, PrepareRaisesKeeps,
     ChatRaisesKeeps, LeaveKeeps DEF Next

LEMMA AlwaysIInv == Spec => []IInv
<1>1. IInv /\ [Next]_vars => IInv'
  BY StepInv
<1>. QED
  BY <1>1, InitInv, PTL DEF Spec

-----------------------------------------------------------------------------
(* The theorems.                                                           *)

\* The context, its scopes and the runs in progress keep their types: a scope
\* never names a message that the context does not have (context.py:227-249).
THEOREM ScopesTypeCorrect == Spec => []TypeOK
<1>1. IInv => TypeOK
  <2>. SUFFICES ASSUME IInv  PROVE TypeOK
    OBVIOUS
  <2>1. /\ Context \in Contexts /\ Context.messages = messages /\ Context.scopes = scopes
        /\ Context.marked = marked /\ Context.cut = cut
    BY DEF IInv, Sound, Context
  <2>2. /\ messages \in Seq(Message) /\ scopes \in [Agents -> Seq(Nat)]
        /\ marked \subseteq Instructed /\ cut \subseteq Instructed
    BY <2>1, ContextTypes
  <2>3. ASSUME NEW a \in Agents  PROVE scopes[a] \in Seq(Ids)
    <3>1. GetMessages(Context, a) \in Seq(1..Len(messages)) /\ a \in Scopes /\ a # None
      BY <2>1, ReadIs, AgentAssumption DEF IInv, Scopes
    <3>. QED
      BY <2>1, <3>1 DEF GetMessages, Ids
  <2>4. scopes \in [Agents -> Seq(Ids)]
    BY <2>2, <2>3
  <2>5. active \in Scopes
    BY StackType
  <2>. QED
    BY <2>2, <2>4, <2>5 DEF TypeOK, IInv, PromptInv, Frames
<1>. QED
  BY <1>1, AlwaysIInv, PTL

\* No message that was written for one agent is ever sent to the model of
\* another, however the runs nest and end (agent.py:286-307, context.py:258-266).
THEOREM AgentsAreIsolated == Spec => []PromptIsolated
<1>1. IInv => PromptIsolated
  BY DEF IInv, PromptInv, PromptIsolated
<1>. QED
  BY <1>1, AlwaysIInv, PTL

\* No message is doubled in a scope or put into the scope of an agent it was
\* not written for, and while agents run none is left without a scope
\* (agent.py:295-307).
THEOREM NoMessageIsLost == Spec => []MessagesKept
<1>1. IInv => MessagesKept
  <2>. SUFFICES ASSUME IInv  PROVE MessagesKept
    OBVIOUS
  <2>1. Context.scopes = scopes /\ Context.messages = messages
    BY DEF Context
  <2>2. \A a \in Agents : \A m, n \in DOMAIN scopes[a] : scopes[a][m] = scopes[a][n] => m = n
    BY <2>1 DEF IInv, Sound, Sorted, Apart
  <2>3. ASSUME NEW a \in Agents, NEW b \in Agents, NEW k \in Holds(Context, a),
               messages[k].by = b
        PROVE  a = b
    <3>1. PICK n \in DOMAIN scopes[a] : k = scopes[a][n]
      BY <2>1, <2>3 DEF Holds
    <3>2. messages[k].by \in {a, None}
      BY <2>1, <3>1 DEF IInv, Sound, Sorted, Owned
    <3>. QED
      BY <2>3, <3>2, AgentAssumption
  <2>4. stack # <<>> => \A k \in Ids : \E a \in Agents : k \in Holds(Context, a)
    BY <2>1 DEF IInv, AllHeld, Held, Holds
  <2>. QED
    BY <2>2, <2>3, <2>4 DEF MessagesKept
<1>. QED
  BY <1>1, AlwaysIInv, PTL

\* A scope is complete and in order, with the instructions in front, whichever
\* entry points were used, and there once unless a subscriber raised while they
\* were added (agent.py:295-317, context.py:235-239).
THEOREM HistoriesAreInOrder == Spec => []HistoryInOrder
<1>1. IInv => HistoryInOrder
  <2>. SUFFICES ASSUME IInv, NEW a \in Agents
                PROVE  /\ \A k \in Ids : messages[k].by = a => k \in Holds(Context, a)
                       /\ InOrder(a, a) /\ InOrder(a, None)
                       /\ a \in Instructed /\ scopes[a] # <<>> => 1 \in Instructions(a)
                       /\ a \notin cut => Instructions(a) \subseteq {1}
                       /\ a \notin Instructed => Instructions(a) = {}
    BY DEF HistoryInOrder
  <2>1. /\ Context \in Contexts /\ Context.scopes = scopes /\ Context.messages = messages
        /\ Context.cut = cut
    BY DEF IInv, Sound, Context
  <2>2. ASSUME NEW k \in Ids, messages[k].by = a  PROVE k \in Holds(Context, a)
    <3>1. \E n \in DOMAIN scopes[a] : scopes[a][n] = k
      BY <2>1, <2>2 DEF IInv, Sound, Sorted, Owned, Ids
    <3>. QED
      BY <2>1, <3>1 DEF Holds
  <2>3. ASSUME NEW by  PROVE InOrder(a, by)
    BY <2>1 DEF IInv, Sound, Sorted, Ordered, InOrder
  <2>4. \A n \in DOMAIN scopes[a] :
          /\ messages[scopes[a][n]].role = "system" =>
               a \in Instructed /\ (n = 1 \/ a \in cut)
          /\ n = 1 /\ a \in Instructed => messages[scopes[a][n]].role = "system"
    BY <2>1 DEF IInv, Sound, InFront
  <2>5. scopes[a] # <<>> <=> 1 \in DOMAIN scopes[a]
    <3>1. scopes[a] \in Seq(Nat) /\ Len(scopes[a]) \in Nat /\ DOMAIN scopes[a] = 1..Len(scopes[a])
      BY <2>1, ContextTypes
    <3>. QED
      BY <3>1, EmptySeq
  <2>6. /\ a \in Instructed /\ scopes[a] # <<>> => 1 \in Instructions(a)
        /\ a \notin cut => Instructions(a) \subseteq {1}
        /\ a \notin Instructed => Instructions(a) = {}
    BY <2>4, <2>5 DEF Instructions
  <2>. QED
    BY <2>2, <2>3, <2>6
<1>. QED
  BY <1>1, AlwaysIInv, PTL

Grown ==
  /\ \A a \in Agents : Extends(scopes'[a], scopes[a])
  /\ \A a, b \in Agents : scopes'[a] # scopes[a] /\ scopes'[b] # scopes[b] => a = b

\* A step extends the scope of one agent at most, and only at its end
\* (agent.py:303-307, context.py:235-239).
THEOREM PromptsOnlyGrow == Spec => PromptsGrow
<1>1. IInv /\ [Next]_vars => [Grown]_vars
  <2>. SUFFICES ASSUME IInv, [Next]_vars  PROVE Grown
    OBVIOUS
  <2>1. PICK s : Continues(Context, Context', s)
    BY StepInv
  <2>2. Context.scopes = scopes /\ Context'.scopes = scopes'
    BY DEF Context
  <2>. QED
    BY <2>1, <2>2 DEF Continues, Grown
<1>2. [][Grown]_vars <=> PromptsGrow
  BY DEF PromptsGrow, Grown
<1>. QED
  BY <1>1, <1>2, AlwaysIInv, PTL DEF Spec

=============================================================================
