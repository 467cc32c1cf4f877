------------------------ MODULE ToolCallStreamProofs ------------------------
(***************************************************************************)
(* Theorems about ToolCallStream, for messages of any number of calls, in  *)
(* chunks of any size, with any ids and any texts of the model.            *)
(***************************************************************************)
EXTENDS ToolCallStream, SequenceTheorems, FiniteSetTheorems, WellFoundedInduction, TLAPS

-----------------------------------------------------------------------------
(* Ids.                                                                    *)

LEMMA LeastNumber ==
  ASSUME NEW T \in SUBSET Nat, T # {}
  PROVE  \E n \in T : \A m \in T : n <= m
<1>. DEFINE less == OpToRel(<, Nat)
<1>1. IsWellFoundedOn(less, Nat)
  BY NatLessThanWellFounded
<1>2. \A m, n \in Nat : m < n => <<m, n>> \in less
  BY DEF OpToRel
<1>. HIDE DEF less
<1>3. PICK n \in T : \A m \in T : <<m, n>> \notin less
  BY <1>1, WFMin
<1>4. \A m \in T : m \in Nat /\ n \in Nat /\ ~(m < n)
  BY <1>2, <1>3
<1>. QED
  BY <1>4

LEMMA CandidateLengths ==
  ASSUME NEW base \in Seq(STRING), NEW index
  PROVE  \E L \in Nat \ {0} : \A n \in Nat :
           Len(FirstCandidate(base, index) \o [k \in 1..n |-> "x"]) = L + n
<1>1. PICK t : FirstCandidate(base, index) = (IF base = NoId THEN <<"call">> ELSE base) \o <<t>>
  BY Zenon DEF FirstCandidate
<1>. DEFINE S == STRING \cup {t, "x", "call"}
            word == IF base = NoId THEN <<"call">> ELSE base
<1>2. word \in Seq(S)
  <2>1. base \in Seq(S)
    BY SeqMonotonic, Zenon
  <2>2. <<"call">> \in Seq(S)
    OBVIOUS
  <2>. QED
    BY <2>1, <2>2, Zenon
<1>3. <<t>> \in Seq(S) /\ Len(<<t>>) = 1
  OBVIOUS
<1>. HIDE DEF word
<1>4. word \o <<t>> \in Seq(S) /\ Len(word \o <<t>>) = Len(word) + 1 /\ Len(word) \in Nat
  BY <1>2, <1>3, ConcatProperties, LenProperties
<1>5. PICK first : first = word \o <<t>>
  OBVIOUS
<1>6. first = FirstCandidate(base, index)
  BY <1>1, <1>5, Zenon DEF word
<1>7. ASSUME NEW n \in Nat
      PROVE  Len(first \o [k \in 1..n |-> "x"]) = Len(first) + n
  <2>1. [k \in 1..n |-> "x"] \in Seq(S) /\ Len([k \in 1..n |-> "x"]) = n
    OBVIOUS
  <2>2. PICK tail : tail = [k \in 1..n |-> "x"]
    OBVIOUS
  <2>. HIDE DEF S
  <2>3. Len(first \o tail) = Len(first) + Len(tail)
    BY <1>4, <1>5, <2>1, <2>2, ConcatProperties
  <2>. QED
    BY <2>1, <2>2, <2>3
<1>8. Len(first) \in Nat \ {0}
  BY <1>4, <1>5
<1>. QED
  BY <1>6, <1>7, <1>8, Zenon

\* Of the candidates, one more than there are ids, one is free, and the first
\* that is free is taken.
LEMMA UniqueIdIsNew ==
  ASSUME IsFiniteSet(seen), NEW base \in Seq(STRING), NEW index
  PROVE  UniqueId(base, index) \notin seen /\ UniqueId(base, index) # NoId
<1>. DEFINE C(n) == FirstCandidate(base, index) \o [k \in 1..n |-> "x"]
            N == Cardinality(seen)
            free == {n \in 0..N : C(n) \notin seen}
<1>1. PICK L \in Nat \ {0} : \A n \in Nat : Len(C(n)) = L + n
  BY CandidateLengths
<1>2. UniqueId(base, index) = C(CHOOSE n \in free : \A m \in free : n <= m)
  BY Zenon DEF UniqueId
<1>. HIDE DEF C
<1>3. N \in Nat
  BY FS_CardinalityType
<1>4. free # {}
  <2>. SUFFICES ASSUME \A n \in 0..N : C(n) \in seen  PROVE FALSE
    OBVIOUS
  <2>1. IsFiniteSet(0..N) /\ Cardinality(0..N) = N + 1
    BY <1>3, FS_Interval
  <2>2. N < N + 1
    BY <1>3
  <2>3. PICK D : D = 0..N
    OBVIOUS
  <2>4. PICK f \in [D -> seen] : \A n \in D : f[n] = C(n)
    <3>1. [n \in D |-> C(n)] \in [D -> seen] /\ \A n \in D : [i \in D |-> C(i)][n] = C(n)
      BY <2>3
    <3>. QED
      BY <3>1, Zenon
  <2>5. \E m, n \in D : m # n /\ f[m] = f[n]
    <3>1. IsFiniteSet(D) /\ Cardinality(seen) < Cardinality(D)
      BY <2>1, <2>2, <2>3
    <3>. QED
      BY <3>1, FS_PigeonHole
  <2>6. PICK m \in 0..N, n \in 0..N : m # n /\ C(m) = C(n)
    BY <2>3, <2>4, <2>5
  <2>7. Len(C(m)) = L + m /\ Len(C(n)) = L + n /\ m \in Nat /\ n \in Nat
    BY <1>1, <1>3, <2>6
  <2>. QED
    BY <2>6, <2>7
<1>5. free \subseteq Nat
  BY <1>3
<1>6. \E n \in free : \A m \in free : n <= m
  <2>. HIDE DEF free
  <2>. QED
    BY <1>4, <1>5, LeastNumber
<1>7. PICK n : n = CHOOSE i \in free : \A m \in free : i <= m
  OBVIOUS
<1>8. n \in free
  <2>. HIDE DEF free
  <2>. QED
    BY <1>6, <1>7, Zenon
<1>9. UniqueId(base, index) = C(n) /\ C(n) \notin seen /\ n \in Nat
  BY <1>2, <1>3, <1>7, <1>8
<1>10. Len(C(n)) # 0
  BY <1>1, <1>9
<1>. QED
  BY <1>9, <1>10 DEF NoId

LEMMA UsableIdIsNew ==
  ASSUME IsFiniteSet(seen), NEW id \in Seq(STRING), NEW index
  PROVE  /\ UsableId(id, index) \notin seen /\ UsableId(id, index) # NoId
         /\ id # NoId /\ id \notin seen => UsableId(id, index) = id
<1>1. CASE id = NoId \/ id \in seen
  BY <1>1, UniqueIdIsNew, Zenon DEF UsableId
<1>2. CASE ~(id = NoId \/ id \in seen)
  BY <1>2, Zenon DEF UsableId
<1>. QED
  BY <1>1, <1>2

-----------------------------------------------------------------------------
(* Fragments.                                                              *)

\* No text has its first token again later on.
FlatTexts == \A t \in Texts : \A n \in DOMAIN t : t[n] = t[1] => n = 1

LEMMA Cut ==
  ASSUME NEW t \in Seq(Tokens), NEW a \in 0..Len(t), NEW b \in a..Len(t),
         NEW s, s = SubSeq(t, a + 1, b)
  PROVE  /\ s \in Seq(Tokens) /\ Len(s) = b - a
         /\ a < b => s[1] = t[a + 1]
<1>1. Len(t) \in Nat /\ a \in Nat /\ b \in Nat /\ a <= b /\ b <= Len(t) /\ a + 1 \in Int /\ b \in Int
  BY LenProperties
<1>2. \A i \in a + 1..b : t[i] \in Tokens
  BY <1>1, ElementOfSeq
<1>3. PICK m \in Int : m = a + 1
  BY <1>1
<1>4. /\ SubSeq(t, m, b) \in Seq(Tokens)
      /\ Len(SubSeq(t, m, b)) = IF m <= b THEN b - m + 1 ELSE 0
      /\ \A i \in 1..b - m + 1 : SubSeq(t, m, b)[i] = t[m + i - 1]
  BY <1>1, <1>2, <1>3, SubSeqProperties
<1>5. s \in Seq(Tokens) /\ Len(s) = b - a
  BY <1>1, <1>3, <1>4
<1>6. a < b => s[1] = t[a + 1]
  <2>. SUFFICES ASSUME a < b  PROVE s[1] = t[a + 1]
    OBVIOUS
  <2>1. 1 \in 1..b - m + 1 /\ m + 1 - 1 = a + 1
    BY <1>1, <1>3
  <2>2. SubSeq(t, m, b)[1] = t[m + 1 - 1]
    BY <1>4, <2>1
  <2>. QED
    BY <1>3, <2>1, <2>2
<1>. QED
  BY <1>5, <1>6

\* A fragment that goes on where the last ended, or begins again, brings the
\* call's text to where the fragment ends.
LEMMA FragmentMerged ==
  ASSUME FlatTexts, NEW t \in Texts, NEW s \in 0..Len(t), NEW to \in s..Len(t),
         NEW from \in {0, s}
  PROVE  MergeFragment(SubSeq(t, 1, s), SubSeq(t, from + 1, to)) = SubSeq(t, 1, to)
<1>1. t \in Seq(Tokens) /\ Len(t) \in Nat /\ DOMAIN t = 1..Len(t)
  BY StreamAssumption, LenProperties
<1>2. s \in Nat /\ to \in Nat /\ s <= to /\ to <= Len(t) /\ 0 \in 0..Len(t) /\ s \in 0..Len(t)
      /\ s \in 0..Len(t) /\ to \in 0..Len(t) /\ 0 + 1 = 1 /\ to \in s..Len(t)
  BY <1>1
<1>3. PICK current : current = SubSeq(t, 1, s)
  OBVIOUS
<1>4. PICK all : all = SubSeq(t, 1, to)
  OBVIOUS
<1>5. PICK rest : rest = SubSeq(t, s + 1, to)
  OBVIOUS
<1>0. \A x \in Seq(Tokens) : x = <<>> <=> Len(x) = 0
  BY EmptySeq
<1>6. /\ current \in Seq(Tokens) /\ Len(current) = s /\ (s = 0 <=> current = <<>>)
      /\ 0 < s => current[1] = t[1]
  <2>1. current = SubSeq(t, 0 + 1, s) /\ s \in 0..Len(t) /\ s - 0 = s
    BY <1>2, <1>3
  <2>2. Len(current) = s - 0 /\ current \in Seq(Tokens)
    BY <1>1, <1>2, <2>1, Cut
  <2>3. 0 < s => current[1] = t[0 + 1]
    BY <1>1, <1>2, <2>1, Cut
  <2>. QED
    BY <1>0, <2>1, <2>2, <2>3
<1>7. all \in Seq(Tokens) /\ Len(all) = to /\ (to = 0 <=> all = <<>>)
  <2>1. all = SubSeq(t, 0 + 1, to) /\ to \in 0..Len(t) /\ to - 0 = to
    BY <1>2, <1>4
  <2>2. Len(all) = to - 0 /\ all \in Seq(Tokens)
    BY <1>1, <1>2, <2>1, Cut
  <2>. QED
    BY <1>0, <2>1, <2>2
<1>8. /\ rest \in Seq(Tokens) /\ Len(rest) = to - s /\ (to = s <=> rest = <<>>)
      /\ s < to => rest[1] = t[s + 1]
  <2>1. t \in Seq(Tokens) /\ s \in 0..Len(t) /\ to \in s..Len(t)
    BY <1>1, <1>2
  <2>2. rest \in Seq(Tokens) /\ Len(rest) = to - s
    BY <2>1, <1>5, Cut
  <2>3. s < to => rest[1] = t[s + 1]
    BY <2>1, <1>5, Cut
  <2>4. to - s = 0 <=> to = s
    BY <1>2
  <2>. QED
    BY <1>0, <2>2, <2>3, <2>4
<1>9. SubSeq(all, 1, s) = current
  <2>1. CASE s = 0
    <3>1. SubSeq(all, 1, s) = <<>>
      BY <2>1, SubSeqEmpty
    <3>. QED
      BY <1>6, <2>1, <3>1
  <2>2. CASE s # 0
    <3>1. /\ 1 \in 1..Len(t) /\ to \in 1..Len(t) /\ 1 \in 1..to - 1 + 1 /\ s \in 1..to - 1 + 1
          /\ 1 + 1 - 1 = 1 /\ 1 + s - 1 = s
      BY <1>1, <1>2, <2>2
    <3>2. SubSeq(SubSeq(t, 1, to), 1, s) = SubSeq(t, 1 + 1 - 1, 1 + s - 1)
      BY <1>1, <3>1, SubSeqOfSubSeq
    <3>. QED
      BY <1>3, <1>4, <3>1, <3>2
  <2>. QED
    BY <2>1, <2>2
<1>10. MergeFragment(current, all) = all
  <2>1. StartsWith(all, current)
    BY <1>2, <1>6, <1>7, <1>9 DEF StartsWith
  <2>2. all = <<>> => current = all
    BY <1>2, <1>6, <1>7
  <2>. QED
    BY <2>1, <2>2, Zenon DEF MergeFragment
<1>11. CASE from = 0
  <2>1. SubSeq(t, from + 1, to) = all
    BY <1>2, <1>4, <1>11
  <2>. QED
    BY <1>3, <1>4, <1>10, <2>1
<1>12. CASE from = s /\ s = 0
  BY <1>11, <1>12
<1>13. CASE from = s /\ s # 0
  <2>1. SubSeq(t, from + 1, to) = rest
    BY <1>5, <1>13
  <2>2. CASE to = s
    <3>1. rest = <<>> /\ current = all
      BY <1>3, <1>4, <1>8, <2>2
    <3>. QED
      BY <1>3, <1>4, <2>1, <3>1, Zenon DEF MergeFragment
  <2>3. CASE to # s
    <3>1. s < to /\ 0 < s /\ s + 1 \in DOMAIN t /\ s + 1 # 1 /\ 1 \in 1..s
      BY <1>1, <1>2, <1>13, <2>3
    <3>2. rest[1] # current[1]
      BY <1>6, <1>8, <3>1 DEF FlatTexts
    <3>3. ~StartsWith(rest, current)
      <4>. SUFFICES ASSUME Len(current) <= Len(rest), SubSeq(rest, 1, Len(current)) = current
                    PROVE  FALSE
        BY Zenon DEF StartsWith
      <4>1. s <= Len(rest) /\ Len(rest) \in Nat /\ 1 \in Int /\ s \in Int
        BY <1>2, <1>6, <1>8
      <4>2. \A i \in 1..s : rest[i] \in Tokens
        BY <1>8, <4>1, ElementOfSeq
      <4>3. \A i \in 1..s - 1 + 1 : SubSeq(rest, 1, s)[i] = rest[1 + i - 1]
        BY <4>1, <4>2, SubSeqProperties
      <4>4. 1 \in 1..s - 1 + 1 /\ 1 + 1 - 1 = 1
        BY <1>2, <3>1
      <4>5. SubSeq(rest, 1, s)[1] = rest[1]
        BY <4>3, <4>4
      <4>. QED
        BY <1>6, <3>2, <4>5
    <3>4. rest # <<>> /\ rest # current
      BY <1>8, <2>3, <3>2
    <3>5. current \o rest = all
      <4>1. 1 \in 1..Len(t) + 1 /\ s \in 1 - 1..Len(t) /\ to \in s..Len(t)
        BY <1>1, <1>2
      <4>2. SubSeq(t, 1, s) \o SubSeq(t, s + 1, to) = SubSeq(t, 1, to)
        BY <1>1, <4>1, ConcatAdjacentSubSeq
      <4>. QED
        BY <1>3, <1>4, <1>5, <4>2
    <3>. QED
      BY <1>3, <1>4, <2>1, <3>3, <3>4, <3>5, Zenon DEF MergeFragment
  <2>. QED
    BY <2>2, <2>3
<1>. QED
  BY <1>11, <1>12, <1>13

-----------------------------------------------------------------------------
(* The invariant.                                                          *)

IsSeq(s) == \E S : s \in Seq(S)

IsCall(x) == x = [id |-> x.id, text |-> x.text]

\* A provider that gives indices does not stray.
Asked ==
  /\ style \in {"indexed", "indexless", "whole"}
  /\ asked \in Seq([id : GivenIds, text : Texts])
  /\ strayed => style = "indexless"

\* Every call there is has an id that was given, or none.
Slots == \A s \in DOMAIN calls : IsCall(calls[s]) /\ calls[s].id \in {NoId} \cup GivenIds

Progress ==
  /\ Begun \subseteq Calls
  /\ \A c \in Begun : sent[c] \in 0..Len(asked[c].text)

\* What was merged of a call is in the slot of its own.
Merged ==
  /\ DOMAIN calls = {c - 1 : c \in Begun}
  /\ \A c \in Begun : calls[c - 1].id = asked[c].id
  /\ FlatTexts => \A c \in Begun : calls[c - 1].text = SubSeq(asked[c].text, 1, sent[c])

\* A fragment of the call a, of which so much has been merged.
Brings(fragment, a, from, begun) ==
  /\ fragment.id \in {NoId, a.id} /\ (~begun => fragment.id = a.id)
  /\ fragment.upto \in from..Len(a.text)
  /\ \E start \in {0, from} : fragment.text = SubSeq(a.text, start + 1, fragment.upto)

\* What is yet to be merged is of different calls, and goes on where each is.
Chunk ==
  /\ IsSeq(delta)
  /\ \A n \in DOMAIN delta :
       /\ delta[n].call \in Calls
       /\ delta[n].index = IF style = "indexed" THEN delta[n].call - 1 ELSE NoIndex
       /\ Brings(delta[n], asked[delta[n].call], SentOf(delta[n].call), delta[n].call \in Begun)
  /\ \A m, n \in DOMAIN delta : m # n => delta[m].call # delta[n].call
  /\ style = "indexless" =>
       \A n \in DOMAIN delta : \A c \in 1..delta[n].call - 1 :
         c \in Begun \/ \E m \in 1..n - 1 : delta[m].call = c

\* Calls without an index begin in their order.
InTurn ==
  /\ \E k \in 0..Len(asked) : Begun = 1..k
  /\ position \in Nat
  /\ delta # <<>> /\ Begun = {} => position = 0

\* What the merger remembers of calls without an index are slots it has.
Filled ==
  /\ \E n \in Nat : DOMAIN calls = 0..n - 1
  /\ \A p \in DOMAIN position_slots : position_slots[p] \in DOMAIN calls
  /\ last_slot = -1 \/ last_slot \in DOMAIN calls

\* A position has the slot of the call that came last at it, and the first of
\* all fragments came at position 0.
Placed ==
  /\ DOMAIN place = DOMAIN position_slots
  /\ \A p \in DOMAIN place : place[p] \in Begun /\ position_slots[p] = place[p] - 1
  /\ Begun # {} => 0 \in DOMAIN place

StreamInv ==
  style # "whole" =>
    /\ Slots /\ Progress
    /\ ~strayed => Merged
    /\ style = "indexless" => Filled
    /\ stage = "stream" => Chunk
    /\ stage = "stream" /\ style = "indexless" => InTurn /\ (~strayed => Placed)
    /\ stage # "stream" => \A c \in Calls : Complete(c)

\* Ids need not be replaced.
Good == Distinct /\ ~strayed

Count == IF style = "whole" THEN Len(asked) ELSE Cardinality(DOMAIN calls)

\* An item has the text of its call, and, once it is out of the merger, an id of
\* its own.
ItemInv ==
  /\ IsSeq(items)
  /\ \A n \in DOMAIN items :
       /\ IsCall(items[n])
       /\ items[n].text = IF style = "whole" THEN asked[n].text ELSE calls[n - 1].text
  /\ style # "whole" =>
       /\ \A n \in DOMAIN items : items[n].id # NoId
       /\ \A m, n \in DOMAIN items : m # n => items[m].id # items[n].id
       /\ Good => \A n \in DOMAIN items : items[n].id = asked[n].id

\* Ids that were met are those of the items added, or of the answers given.
AnswerInv ==
  /\ stage \in {"stream", "result", "parse", "answered"}
  /\ IsSeq(answers) /\ IsFiniteSet(seen)
  /\ stage \in {"stream", "result"} =>
       /\ style # "whole" /\ answers = <<>>
       /\ seen = {items[n].id : n \in DOMAIN items}
       /\ stage = "stream" => items = <<>>
  /\ stage \in {"parse", "answered"} =>
       /\ Len(items) = Count /\ Len(answers) <= Len(items)
       /\ stage = "answered" => Len(answers) = Len(items)
       /\ seen = {answers[n] : n \in DOMAIN answers}
       /\ \A n \in DOMAIN answers : answers[n] = items[n].id /\ answers[n] # NoId
       /\ \A m, n \in DOMAIN answers : m # n => answers[m] # answers[n]
       /\ Good => \A n \in DOMAIN answers : answers[n] = asked[n].id
       /\ style = "whole" =>
            \A n \in DOMAIN items \ DOMAIN answers : items[n].id = asked[n].id

IInv == Asked /\ StreamInv /\ ItemInv /\ AnswerInv

LEMMA SeqFacts ==
  ASSUME NEW s, IsSeq(s)
  PROVE  /\ Len(s) \in Nat /\ DOMAIN s = 1..Len(s) /\ s = [n \in 1..Len(s) |-> s[n]]
         /\ s = <<>> <=> Len(s) = 0
<1>1. PICK S : s \in Seq(S)
  BY DEF IsSeq
<1>. QED
  BY <1>1, LenProperties, EmptySeq

LEMMA EmptyIsSeq == IsSeq(<<>>) /\ DOMAIN <<>> = {}
<1>1. <<>> \in Seq({})
  BY EmptySeq
<1>. QED
  BY <1>1 DEF IsSeq

LEMMA AppendFacts ==
  ASSUME NEW s, IsSeq(s), NEW e
  PROVE  /\ IsSeq(Append(s, e)) /\ Len(Append(s, e)) = Len(s) + 1
         /\ \A n \in 1..Len(s) : Append(s, e)[n] = s[n]
         /\ Append(s, e)[Len(s) + 1] = e
<1>1. PICK S : s \in Seq(S)
  BY DEF IsSeq
<1>2. PICK T : T = S \cup {e}
  OBVIOUS
<1>3. s \in Seq(T) /\ e \in T
  BY <1>1, <1>2, SeqMonotonic
<1>. QED
  BY <1>3, AppendProperties DEF IsSeq

LEMMA TailFacts ==
  ASSUME NEW s, IsSeq(s), s # <<>>
  PROVE  /\ IsSeq(Tail(s)) /\ Len(Tail(s)) = Len(s) - 1 /\ Head(s) = s[1] /\ 1 \in DOMAIN s
         /\ \A n \in 1..Len(s) - 1 : Tail(s)[n] = s[n + 1]
<1>1. PICK S : s \in Seq(S)
  BY DEF IsSeq
<1>2. Tail(s) \in Seq(S) /\ Len(Tail(s)) = Len(s) - 1 /\ \A n \in 1..Len(Tail(s)) : Tail(s)[n] = s[n + 1]
  BY <1>1, HeadTailProperties
<1>3. Len(s) \in Nat \ {0} /\ DOMAIN s = 1..Len(s)
  BY <1>1, EmptySeq, LenProperties
<1>4. Head(s) = s[1]
  BY <1>1
<1>. QED
  BY <1>2, <1>3, <1>4 DEF IsSeq

LEMMA FunctionIsSeq ==
  ASSUME NEW n \in Nat, NEW S, NEW s \in [1..n -> S]
  PROVE  s \in Seq(S) /\ IsSeq(s) /\ Len(s) = n /\ DOMAIN s = 1..n
<1>1. s \in Seq(S)
  BY SeqDef
<1>. QED
  BY <1>1 DEF IsSeq

LEMMA AskedFacts ==
  ASSUME Asked
  PROVE  /\ Len(asked) \in Nat /\ Calls = 1..Len(asked)
         /\ \A c \in Calls : /\ asked[c].id \in GivenIds /\ asked[c].id \in Seq(STRING)
                             /\ asked[c].text \in Texts /\ Len(asked[c].text) \in Nat
                             /\ IsCall(asked[c])
<1>1. asked \in Seq([id : GivenIds, text : Texts])
  BY DEF Asked
<1>2. Len(asked) \in Nat /\ Calls = 1..Len(asked)
  BY <1>1, LenProperties DEF Calls
<1>3. \A c \in Calls : asked[c] \in [id : GivenIds, text : Texts]
  BY <1>1, <1>2, ElementOfSeq
<1>4. \A c \in Calls : asked[c].id \in GivenIds /\ asked[c].text \in Texts /\ IsCall(asked[c])
  BY <1>3 DEF IsCall
<1>5. \A t \in Texts : Len(t) \in Nat
  BY StreamAssumption, LenProperties
<1>. QED
  BY <1>2, <1>4, <1>5, StreamAssumption

LEMMA InitInv == Init => IInv
<1>. SUFFICES ASSUME Init  PROVE IInv
  OBVIOUS
<1>1. PICK n \in Nat : asked \in [1..n -> [id : GivenIds, text : Texts]]
  BY StreamAssumption DEF Init
<1>2. asked \in Seq([id : GivenIds, text : Texts])
  <2>1. PICK A : A = [id : GivenIds, text : Texts]
    OBVIOUS
  <2>2. asked \in Seq(A)
    BY <1>1, <2>1, FunctionIsSeq
  <2>. QED
    BY <2>1, <2>2
<1>3. Asked
  BY <1>2, StreamAssumption DEF Init, Asked
<1>4. Begun = {} /\ DOMAIN calls = {}
  BY EmptyIsSeq DEF Init, Begun
<1>5. Len(asked) \in Nat /\ Calls = 1..Len(asked)
  BY <1>3, AskedFacts
<1>6. Slots /\ Progress /\ Merged
  BY <1>4 DEF Slots, Progress, Merged
<1>7. Chunk
  BY EmptyIsSeq DEF Init, Chunk
<1>8. style # "whole" => stage = "stream"
  BY DEF Init
<1>9. Filled /\ InTurn /\ Placed
  <2>1. 0 \in 0..Len(asked) /\ 1..0 = {} /\ 0..0 - 1 = {} /\ 0 \in Nat
    BY <1>5
  <2>2. DOMAIN position_slots = {} /\ DOMAIN place = {} /\ last_slot = -1 /\ position = 0
    BY EmptyIsSeq DEF Init
  <2>. QED
    BY <1>4, <2>1, <2>2 DEF InTurn, Filled, Placed
<1>10. StreamInv
  BY <1>6, <1>7, <1>8, <1>9 DEF StreamInv
<1>11. answers = <<>> /\ IsSeq(answers) /\ DOMAIN answers = {} /\ Len(answers) = 0 /\ seen = {}
       /\ IsFiniteSet(seen)
  BY EmptyIsSeq, SeqFacts, FS_EmptySet DEF Init
<1>12. CASE style = "whole"
  <2>1. stage = "parse" /\ items = asked
    BY <1>12 DEF Init
  <2>2. IsSeq(items) /\ Len(items) \in Nat /\ DOMAIN items = Calls
    BY <1>2, <1>5, <2>1 DEF IsSeq, Calls
  <2>3. ItemInv
    BY <1>3, <1>5, <1>12, <2>1, <2>2, AskedFacts DEF ItemInv
  <2>4. AnswerInv
    BY <1>11, <1>12, <2>1, <2>2 DEF AnswerInv, Count
  <2>. QED
    BY <1>3, <1>10, <2>3, <2>4 DEF IInv
<1>13. CASE style # "whole"
  <2>1. stage = "stream" /\ items = <<>>
    BY <1>13 DEF Init
  <2>2. IsSeq(items) /\ Len(items) = 0 /\ DOMAIN items = {}
    BY <2>1, EmptyIsSeq, SeqFacts
  <2>3. ItemInv
    BY <1>5, <1>13, <2>1, <2>2 DEF ItemInv
  <2>4. AnswerInv
    BY <1>11, <1>13, <2>1, <2>2 DEF AnswerInv
  <2>. QED
    BY <1>3, <1>10, <2>3, <2>4 DEF IInv
<1>. QED
  BY <1>12, <1>13

-----------------------------------------------------------------------------
(* A chunk is sent.                                                        *)

LEMMA FragmentFacts ==
  ASSUME Asked, NEW c \in Calls, NEW f \in Fragments(c)
  PROVE  /\ f.call = c
         /\ f.index = IF style = "indexed" THEN c - 1 ELSE NoIndex
         /\ Brings(f, asked[c], SentOf(c), c \in Begun)
<1>. DEFINE Ids == IF c \in Begun THEN {NoId, asked[c].id} ELSE {asked[c].id}
            Starts == IF Resends THEN {0, SentOf(c)} ELSE {SentOf(c)}
            Ends == SentOf(c)..Len(asked[c].text)
            index == IF style = "indexed" THEN c - 1 ELSE NoIndex
            Made(id, from, to) ==
              [call |-> c, upto |-> to, index |-> index, id |-> id,
               text |-> SubSeq(asked[c].text, from + 1, to)]
<1>0. Fragments(c) = {Made(id, from, to) : id \in Ids, from \in Starts, to \in Ends}
  BY DEF Fragments
<1>1. PICK id \in Ids, from \in Starts, to \in Ends : f = Made(id, from, to)
  <2>. HIDE DEF Ids, Starts, Ends, Made
  <2>. QED
    BY <1>0
<1>2. /\ f.call = c /\ f.upto = to /\ f.id = id
      /\ f.index = (IF style = "indexed" THEN c - 1 ELSE NoIndex)
      /\ f.text = SubSeq(asked[c].text, from + 1, to)
  BY <1>1
<1>3. id \in {NoId, asked[c].id} /\ (c \notin Begun => id = asked[c].id)
  BY <1>1
<1>4. from \in {0, SentOf(c)}
  BY <1>1
<1>. QED
  BY <1>1, <1>2, <1>3, <1>4 DEF Brings

LEMMA SendInv == IInv /\ Send => IInv'
<1>. SUFFICES ASSUME IInv, Send  PROVE IInv'
  OBVIOUS
<1>1. /\ stage = "stream" /\ delta = <<>> /\ position' = 0 /\ style' = style /\ asked' = asked
      /\ UNCHANGED <<sent, calls, last_slot, position_slots, place, strayed>>
      /\ UNCHANGED <<stage, items, seen, answers>>
  BY DEF Send, provider, observer
<1>2. style # "whole" /\ StreamInv /\ Asked /\ ItemInv /\ AnswerInv
  BY <1>1 DEF IInv, AnswerInv, StreamInv
<1>3. Len(asked) \in Nat /\ Calls = 1..Len(asked)
  BY <1>2, AskedFacts
<1>4. PICK l \in Layouts :
        LET may == [n \in DOMAIN l |-> {f \in Fragments(l[n]) : Brief(f, n - 1)}]
        IN delta' \in {d \in [DOMAIN l -> UNION {may[n] : n \in DOMAIN l}] :
                         \A n \in DOMAIN l : d[n] \in may[n]}
  BY Zenon DEF Send
<1>5. PICK d : d = delta'
  OBVIOUS
<1>6. PICK N \in 1..MaxChunk : l \in [1..N -> Calls]
  <2>1. l \in UNION {[1..n -> Calls] : n \in 1..MaxChunk}
    BY <1>4 DEF Layouts
  <2>. QED
    BY <2>1
<1>7. /\ \A m, n \in DOMAIN l : m # n => l[m] # l[n]
      /\ style = "indexless" =>
           \A n \in DOMAIN l : \A c \in 1..l[n] - 1 : c \in Begun \/ \E m \in 1..n - 1 : l[m] = c
  BY <1>4 DEF Layouts
<1>8. N \in Nat /\ DOMAIN l = 1..N /\ Len(l) = N /\ \A n \in 1..N : l[n] \in Calls
  <2>1. N \in Nat
    BY <1>6, StreamAssumption
  <2>. QED
    BY <1>6, <2>1, FunctionIsSeq
<1>9. IsSeq(d) /\ Len(d) = N /\ DOMAIN d = 1..N
  <2>1. PICK S : d \in [DOMAIN l -> S]
    BY ONLY <1>4, <1>5, Zenon
  <2>. QED
    BY <1>8, <2>1, FunctionIsSeq
<1>10. \A n \in 1..N : /\ d[n].call = l[n]
                       /\ d[n].index = IF style = "indexed" THEN l[n] - 1 ELSE NoIndex
                       /\ Brings(d[n], asked[l[n]], SentOf(l[n]), l[n] \in Begun)
  <2>1. \A n \in DOMAIN l : d[n] \in Fragments(l[n])
    <3>. DEFINE may == [n \in DOMAIN l |-> {f \in Fragments(l[n]) : Brief(f, n - 1)}]
    <3>1. \A n \in DOMAIN l : d[n] \in may[n]
      BY ONLY <1>4, <1>5, Zenon
    <3>2. \A n \in DOMAIN l : may[n] = {f \in Fragments(l[n]) : Brief(f, n - 1)}
      OBVIOUS
    <3>. QED
      BY ONLY <3>1, <3>2, Zenon
  <2>. QED
    BY <1>2, <1>8, <2>1, FragmentFacts
<1>11. Chunk'
  <2>1. \A n \in 1..N :
          /\ d[n].call \in Calls
          /\ d[n].index = IF style = "indexed" THEN d[n].call - 1 ELSE NoIndex
          /\ Brings(d[n], asked[d[n].call], SentOf(d[n].call), d[n].call \in Begun)
    BY <1>8, <1>10, Zenon
  <2>2. \A m, n \in 1..N : m # n => d[m].call # d[n].call
    <3>. SUFFICES ASSUME NEW m \in 1..N, NEW n \in 1..N, m # n  PROVE d[m].call # d[n].call
      OBVIOUS
    <3>1. l[m] # l[n]
      BY <1>7, <1>8
    <3>2. d[m].call = l[m] /\ d[n].call = l[n]
      BY <1>10
    <3>. QED
      BY <3>1, <3>2
  <2>3. ASSUME style = "indexless", NEW n \in 1..N, NEW c \in 1..d[n].call - 1
        PROVE  c \in Begun \/ \E m \in 1..n - 1 : d[m].call = c
    <3>1. c \in 1..l[n] - 1
      BY <1>10
    <3>2. CASE c \in Begun
      BY <3>2
    <3>3. CASE \E m \in 1..n - 1 : l[m] = c
      <4>1. PICK m \in 1..n - 1 : l[m] = c
        BY <3>3
      <4>2. m \in 1..N
        BY <1>8
      <4>. QED
        BY <1>10, <4>1, <4>2
    <3>. QED
      BY <1>7, <1>8, <2>3, <3>1, <3>2, <3>3
  <2>4. style = "indexless" =>
          \A n \in DOMAIN d : \A c \in 1..d[n].call - 1 :
            c \in Begun \/ \E m \in 1..n - 1 : d[m].call = c
    BY <1>9, <2>3
  <2>5. /\ IsSeq(d)
        /\ \A n \in DOMAIN d :
             /\ d[n].call \in Calls
             /\ d[n].index = IF style = "indexed" THEN d[n].call - 1 ELSE NoIndex
             /\ Brings(d[n], asked[d[n].call], SentOf(d[n].call), d[n].call \in Begun)
        /\ \A m, n \in DOMAIN d : m # n => d[m].call # d[n].call
    BY <1>9, <2>1, <2>2, Zenon
  <2>6. delta' = d /\ style' = style /\ asked' = asked /\ sent' = sent
    BY <1>1, <1>5
  <2>. QED
    BY <2>4, <2>5, <2>6 DEF Chunk, Calls, SentOf, Begun
<1>12. /\ Slots' /\ Progress' /\ (~strayed => Merged')
       /\ style = "indexless" => Filled' /\ InTurn' /\ (~strayed => Placed')
  BY <1>1, <1>2 DEF StreamInv, Slots, Progress, Merged, Filled, InTurn, Placed, Begun, Calls, FlatTexts
<1>13. StreamInv'
  BY <1>1, <1>11, <1>12 DEF StreamInv
<1>14. Asked' /\ ItemInv' /\ AnswerInv'
  BY <1>1, <1>2 DEF Asked, ItemInv, AnswerInv, Good, Count, Distinct, Calls
<1>. QED
  BY <1>13, <1>14 DEF IInv

LEMMA NewSlotIsNext ==
  ASSUME NEW k \in Nat, DOMAIN calls = 0..k - 1
  PROVE  NewSlot = k
<1>1. CASE k = 0
  BY <1>1 DEF NewSlot
<1>2. CASE k # 0
  <2>1. k - 1 \in 0..k - 1 /\ \A t \in 0..k - 1 : t <= k - 1
    BY <1>2
  <2>2. PICK s : s = CHOOSE z \in 0..k - 1 : \A t \in 0..k - 1 : t <= z
    OBVIOUS
  <2>3. s \in 0..k - 1 /\ \A t \in 0..k - 1 : t <= s
    BY <2>1, <2>2, Zenon
  <2>4. s = k - 1
    BY <2>1, <2>3
  <2>5. NewSlot = 1 + s
    BY <2>1, <2>2, Zenon DEF NewSlot
  <2>. QED
    BY <2>4, <2>5
<1>. QED
  BY <1>1, <1>2

-----------------------------------------------------------------------------
(* A fragment is merged.                                                   *)

\* The next fragment, and the call it is of.
NextFragment(f, c) ==
  /\ f = delta[1] /\ f = Head(delta) /\ c = f.call /\ c \in Calls
  /\ f.index = IF style = "indexed" THEN c - 1 ELSE NoIndex
  /\ Brings(f, asked[c], SentOf(c), c \in Begun)

LEMMA NextFacts ==
  ASSUME IInv, stage = "stream", delta # <<>>
  PROVE  /\ Asked /\ StreamInv /\ Slots /\ Progress /\ Chunk /\ ItemInv /\ AnswerInv /\ style # "whole"
         /\ ~strayed => Merged
         /\ style = "indexless" => Filled /\ InTurn /\ (~strayed => Placed)
         /\ \E f, c : NextFragment(f, c)
<1>1. /\ Asked /\ StreamInv /\ Slots /\ Progress /\ Chunk /\ ItemInv /\ AnswerInv /\ style # "whole"
      /\ ~strayed => Merged
      /\ style = "indexless" => Filled /\ InTurn /\ (~strayed => Placed)
  BY DEF IInv, AnswerInv, StreamInv
<1>2. Head(delta) = delta[1] /\ 1 \in DOMAIN delta
  BY <1>1, TailFacts DEF Chunk
<1>3. NextFragment(delta[1], delta[1].call)
  BY <1>1, <1>2, Zenon DEF Chunk, NextFragment
<1>. QED
  BY <1>1, <1>3

\* A call without an index is the next one, or has begun.
LEMMA CallIsNext ==
  ASSUME IInv, stage = "stream", delta # <<>>, style = "indexless",
         NEW f, NEW c, NextFragment(f, c), NEW k \in 0..Len(asked), Begun = 1..k
  PROVE  k \in Nat /\ c \in Nat /\ (c \in 1..k \/ c = k + 1)
<1>1. Asked /\ Chunk
  BY NextFacts
<1>2. Calls = 1..Len(asked) /\ Len(asked) \in Nat /\ c \in Calls /\ c = delta[1].call
  BY <1>1, AskedFacts DEF NextFragment
<1>3. 1 \in DOMAIN delta
  BY <1>1, TailFacts DEF Chunk
<1>4. 1..1 - 1 = {}
  OBVIOUS
<1>5. \A d \in 1..c - 1 : d \in 1..k
  BY <1>1, <1>2, <1>3, <1>4 DEF Chunk
<1>6. ~(c > k + 1)
  <2>. SUFFICES ASSUME c > k + 1  PROVE FALSE
    OBVIOUS
  <2>1. k + 1 \in 1..c - 1
    BY <1>2
  <2>. QED
    BY <1>2, <1>5, <2>1
<1>. QED
  BY <1>2, <1>6

LEMMA SlotsOfBegun ==
  ASSUME NEW k \in Nat
  PROVE  {c - 1 : c \in 1..k} = 0..k - 1
<1>1. ASSUME NEW s \in 0..k - 1  PROVE s \in {c - 1 : c \in 1..k}
  <2>1. s + 1 \in 1..k /\ s = (s + 1) - 1
    OBVIOUS
  <2>. QED
    BY <2>1
<1>2. \A c \in 1..k : c - 1 \in 0..k - 1
  OBVIOUS
<1>. QED
  BY <1>1, <1>2

\* A fragment at its place is merged into its call.
LEMMA SlotIsOwn ==
  ASSUME IInv, stage = "stream", delta # <<>>, NEW f, NEW c, NextFragment(f, c),
         ~strayed, AtPlace(f, position)
  PROVE  SlotOf(f) = c - 1
<1>1. style \in {"indexed", "indexless"} /\ Asked /\ Merged /\ Progress
  BY NextFacts DEF Asked
<1>2. CASE style = "indexed"
  <2>1. f.index = c - 1 /\ c \in Nat /\ c >= 1
    BY <1>1, <1>2, AskedFacts DEF NextFragment
  <2>2. f.index # NoIndex
    BY <2>1 DEF NoIndex
  <2>. QED
    BY <2>1, <2>2, Zenon DEF SlotOf
<1>3. CASE style = "indexless"
  <2>1. Filled /\ InTurn /\ Placed /\ Len(asked) \in Nat
    BY <1>1, <1>3, NextFacts, AskedFacts
  <2>2. PICK k \in 0..Len(asked) : Begun = 1..k
    BY <2>1 DEF InTurn
  <2>3. k \in Nat /\ c \in Nat /\ (c \in 1..k \/ c = k + 1)
    BY <1>3, <2>2, CallIsNext
  <2>4. DOMAIN calls = 0..k - 1
    BY <1>1, <2>2, <2>3, SlotsOfBegun DEF Merged
  <2>5. NewSlot = k
    BY <2>3, <2>4, NewSlotIsNext
  <2>6. /\ f.index = NoIndex /\ f.call = c
        /\ f.id \in {NoId, asked[c].id} /\ (c \notin Begun => f.id = asked[c].id)
    BY <1>3 DEF NextFragment, Brings
  <2>7. /\ Mapped <=> position \in DOMAIN place
        /\ Mapped => place[position] \in 1..k /\ position_slots[position] = place[position] - 1
    BY <2>1, <2>2 DEF Placed, Mapped
  <2>8. ASSUME NEW d \in 1..k  PROVE d - 1 \in DOMAIN calls /\ calls[d - 1].id = asked[d].id
    BY <1>1, <2>2, <2>3, <2>4 DEF Merged
  <2>9. CASE c \in 1..k
    <3>1. Mapped /\ position_slots[position] = c - 1
      BY <1>3, <2>2, <2>6, <2>7, <2>9 DEF AtPlace
    <3>2. BareSlot = c - 1
      BY <3>1, Zenon DEF BareSlot
    <3>3. ASSUME f.id # NoId  PROVE NamedSlot(f.id) = c - 1
      <4>1. c - 1 \in HasId(f.id)
        BY <2>6, <2>8, <2>9, <3>3 DEF HasId
      <4>. QED
        BY <3>1, <4>1, Zenon DEF NamedSlot
    <3>. QED
      BY <2>6, <3>2, <3>3, Zenon DEF SlotOf
  <2>10. CASE c = k + 1
    <3>1. c \notin Begun /\ c - 1 = k
      BY <2>2, <2>3, <2>10
    <3>2. CASE Mapped
      <4>1. PICK d \in 1..k : d = place[position]
        BY <2>7, <3>2
      <4>2. f.id # NoId /\ f.id # asked[d].id
        BY <1>3, <2>6, <2>7, <3>1, <3>2, <4>1 DEF AtPlace
      <4>3. position_slots[position] = d - 1 /\ d - 1 \notin HasId(f.id)
        BY <2>7, <2>8, <3>2, <4>1, <4>2 DEF HasId
      <4>4. NamedSlot(f.id) = k
        BY <2>5, <3>2, <4>3, Zenon DEF NamedSlot
      <4>. QED
        BY <2>6, <3>1, <4>2, <4>4, Zenon DEF SlotOf
    <3>3. CASE ~Mapped /\ position > 0
      <4>1. BareSlot = k /\ NamedSlot(f.id) = k
        BY <2>5, <3>3, Zenon DEF BareSlot, NamedSlot
      <4>. QED
        BY <2>6, <3>1, <4>1, Zenon DEF SlotOf
    <3>4. CASE ~Mapped /\ ~(position > 0)
      <4>1. position = 0 /\ k = 0
        <5>1. position = 0 /\ 0 \notin DOMAIN place
          BY <2>1, <2>7, <3>4 DEF InTurn
        <5>2. 1..k = {}
          BY <2>1, <2>2, <5>1 DEF Placed
        <5>. QED
          BY <2>3, <5>1, <5>2
      <4>2. DOMAIN calls = {} /\ last_slot = -1
        BY <2>1, <2>4, <4>1 DEF Filled
      <4>3. HasId(f.id) = {} /\ ~(last_slot >= 0)
        BY <4>2 DEF HasId
      <4>4. BareSlot = 0 /\ NamedSlot(f.id) = 0
        BY <2>5, <3>4, <4>1, <4>3, Zenon DEF BareSlot, NamedSlot
      <4>. QED
        BY <2>6, <3>1, <4>1, <4>4, Zenon DEF SlotOf
    <3>. QED
      BY <3>2, <3>3, <3>4
  <2>. QED
    BY <2>3, <2>9, <2>10
<1>. QED
  BY <1>1, <1>2, <1>3

\* A fragment without an index is merged into a call there is, or the next one.
LEMMA SlotIsThere ==
  ASSUME IInv, stage = "stream", delta # <<>>, style = "indexless",
         NEW f, NEW c, NextFragment(f, c), NEW n \in Nat, DOMAIN calls = 0..n - 1
  PROVE  SlotOf(f) \in 0..n
<1>1. Filled /\ InTurn
  BY NextFacts
<1>2. NewSlot = n /\ n \in 0..n
  BY NewSlotIsNext
<1>3. Mapped => position_slots[position] \in 0..n
  BY <1>1 DEF Filled, Mapped
<1>4. last_slot >= 0 => last_slot \in 0..n
  BY <1>1 DEF Filled
<1>5. ~(position > 0) => position \in 0..n
  BY <1>1 DEF InTurn
<1>6. BareSlot \in 0..n
  BY <1>2, <1>3, <1>4, <1>5, Zenon DEF BareSlot
<1>7. HasId(f.id) \subseteq 0..n
  BY DEF HasId
<1>8. HasId(f.id) # {} => (CHOOSE s \in HasId(f.id) : TRUE) \in 0..n
  BY <1>7, Zenon
<1>9. NamedSlot(f.id) \in 0..n
  BY <1>2, <1>3, <1>8, Zenon DEF NamedSlot
<1>10. f.index = NoIndex
  BY DEF NextFragment
<1>. QED
  BY <1>6, <1>9, <1>10, Zenon DEF SlotOf

\* What the next fragment makes of the merger.
LEMMA MergeFacts ==
  ASSUME IInv, Merge
  PROVE  \E f, c, slot, v :
           /\ NextFragment(f, c)
           /\ calls' = With(calls, slot, v)
           /\ IsCall(v) /\ v.id \in {NoId} \cup GivenIds
           /\ sent' = With(sent, c, f.upto)
           /\ last_slot' = slot
           /\ position_slots' = With(position_slots, position, slot)
           /\ place' = With(place, position, c)
           /\ strayed' <=> strayed \/ ~AtPlace(f, position)
           /\ \A n \in Nat : style = "indexless" /\ DOMAIN calls = 0..n - 1 => slot \in 0..n
           /\ ~strayed' =>
                /\ ~strayed /\ slot = c - 1 /\ v.id = asked[c].id
                /\ FlatTexts => v.text = SubSeq(asked[c].text, 1, f.upto)
<1>1. stage = "stream" /\ delta # <<>>
  BY DEF Merge
<1>2. PICK f, c : NextFragment(f, c)
  BY <1>1, NextFacts
<1>3. Asked /\ Slots /\ Progress /\ (~strayed => Merged)
  BY <1>1, NextFacts
<1>4. /\ c \in Calls /\ f = Head(delta) /\ c = f.call
      /\ Brings(f, asked[c], SentOf(c), c \in Begun)
  BY <1>2 DEF NextFragment
<1>5. PICK slot : slot = SlotOf(f)
  OBVIOUS
<1>6. PICK current : current = IF slot \in DOMAIN calls THEN calls[slot]
                               ELSE [id |-> NoId, text |-> <<>>]
  OBVIOUS
<1>7. PICK t : t = MergeFragment(current.text, f.text)
  OBVIOUS
<1>8. PICK id : id = IF f.id # NoId THEN f.id ELSE current.id
  OBVIOUS
<1>9. PICK v : v = [id |-> id, text |-> t]
  OBVIOUS
<1>10. /\ calls' = With(calls, slot, v)
       /\ last_slot' = slot
       /\ position_slots' = With(position_slots, position, slot)
       /\ sent' = With(sent, c, f.upto)
       /\ place' = With(place, position, c)
       /\ strayed' <=> strayed \/ ~AtPlace(f, position)
  BY <1>4, <1>5, <1>6, <1>7, <1>8, <1>9, Zenon DEF Merge
<1>11. /\ Calls = 1..Len(asked) /\ Len(asked) \in Nat /\ asked[c].text \in Texts
       /\ Len(asked[c].text) \in Nat /\ asked[c].id \in GivenIds
  BY <1>3, <1>4, AskedFacts
<1>12. IsCall(v) /\ v.id = id /\ v.text = t
  BY <1>9 DEF IsCall
<1>13. id \in {NoId} \cup GivenIds
  <2>1. current.id \in {NoId} \cup GivenIds
    BY <1>3, <1>6 DEF Slots
  <2>. QED
    BY <1>4, <1>8, <1>11, <2>1 DEF Brings
<1>14. \A n \in Nat : style = "indexless" /\ DOMAIN calls = 0..n - 1 => slot \in 0..n
  BY <1>1, <1>2, <1>5, SlotIsThere
<1>15. ASSUME ~strayed'
       PROVE  /\ ~strayed /\ slot = c - 1 /\ id = asked[c].id
              /\ FlatTexts => t = SubSeq(asked[c].text, 1, f.upto)
  <2>1. ~strayed /\ AtPlace(f, position) /\ Merged
    BY <1>3, <1>10, <1>15, Zenon
  <2>2. slot = c - 1
    BY <1>1, <1>2, <1>5, <2>1, SlotIsOwn
  <2>3. slot \in DOMAIN calls <=> c \in Begun
    <3>1. \A d \in Begun : d \in Int /\ (d - 1 = c - 1 => d = c)
      BY <1>3, <1>4, <1>11 DEF Progress
    <3>. QED
      BY <2>1, <2>2, <3>1 DEF Merged
  <2>4. c \in Begun => current = calls[c - 1] /\ current.id = asked[c].id /\ SentOf(c) = sent[c]
    BY <1>6, <2>1, <2>2, <2>3 DEF Merged, SentOf
  <2>5. c \notin Begun => current.id = NoId /\ current.text = <<>> /\ SentOf(c) = 0
    BY <1>6, <2>3 DEF SentOf
  <2>6. id = asked[c].id
    BY <1>4, <1>8, <2>4, <2>5 DEF Brings
  <2>7. ASSUME FlatTexts  PROVE t = SubSeq(asked[c].text, 1, f.upto)
    <3>1. SentOf(c) \in 0..Len(asked[c].text)
      <4>1. CASE c \in Begun
        BY <1>3, <2>4, <4>1 DEF Progress
      <4>2. CASE c \notin Begun
        BY <1>11, <2>5, <4>2
      <4>. QED
        BY <4>1, <4>2
    <3>2. current.text = SubSeq(asked[c].text, 1, SentOf(c))
      <4>1. CASE c \in Begun
        BY <2>1, <2>4, <2>7, <4>1 DEF Merged
      <4>2. CASE c \notin Begun
        <5>1. SubSeq(asked[c].text, 1, 0) = <<>>
          BY SubSeqEmpty
        <5>. QED
          BY <2>5, <4>2, <5>1
      <4>. QED
        BY <4>1, <4>2
    <3>3. PICK start \in {0, SentOf(c)} : f.text = SubSeq(asked[c].text, start + 1, f.upto)
      BY <1>4 DEF Brings
    <3>4. f.upto \in SentOf(c)..Len(asked[c].text)
      BY <1>4 DEF Brings
    <3>5. MergeFragment(SubSeq(asked[c].text, 1, SentOf(c)), SubSeq(asked[c].text, start + 1, f.upto))
            = SubSeq(asked[c].text, 1, f.upto)
      BY <1>11, <2>7, <3>1, <3>3, <3>4, FragmentMerged
    <3>. QED
      BY <1>7, <3>2, <3>3, <3>5
  <2>. QED
    BY <2>1, <2>2, <2>6, <2>7
<1>. QED
  BY <1>2, <1>10, <1>12, <1>13, <1>14, <1>15

LEMMA MergeInv == IInv /\ Merge => IInv'
<1>. SUFFICES ASSUME IInv, Merge  PROVE IInv'
  OBVIOUS
<1>1. /\ stage = "stream" /\ delta # <<>> /\ delta' = Tail(delta) /\ position' = position + 1
      /\ style' = style /\ asked' = asked /\ UNCHANGED <<stage, items, seen, answers>>
  BY DEF Merge, provider
<1>2. /\ style # "whole" /\ Slots /\ Progress /\ Chunk /\ Asked /\ ItemInv /\ AnswerInv
      /\ ~strayed => Merged
      /\ style = "indexless" => Filled /\ InTurn /\ (~strayed => Placed)
  BY <1>1, NextFacts
<1>3. PICK f, c, slot, v :
        /\ NextFragment(f, c)
        /\ calls' = With(calls, slot, v)
        /\ IsCall(v) /\ v.id \in {NoId} \cup GivenIds
        /\ sent' = With(sent, c, f.upto)
        /\ last_slot' = slot
        /\ position_slots' = With(position_slots, position, slot)
        /\ place' = With(place, position, c)
        /\ strayed' <=> strayed \/ ~AtPlace(f, position)
        /\ \A n \in Nat : style = "indexless" /\ DOMAIN calls = 0..n - 1 => slot \in 0..n
        /\ ~strayed' =>
             /\ ~strayed /\ slot = c - 1 /\ v.id = asked[c].id
             /\ FlatTexts => v.text = SubSeq(asked[c].text, 1, f.upto)
  BY MergeFacts
<1>4. Len(asked) \in Nat /\ Calls = 1..Len(asked) /\ c \in Calls /\ Len(asked[c].text) \in Nat
      /\ f = delta[1] /\ c = f.call
  BY <1>2, <1>3, AskedFacts DEF NextFragment
<1>7. /\ DOMAIN calls' = DOMAIN calls \cup {slot} /\ calls'[slot] = v
      /\ \A s \in DOMAIN calls : s # slot => calls'[s] = calls[s]
  <2>. DEFINE g == With(calls, slot, v)
  <2>1. /\ DOMAIN g = DOMAIN calls \cup {slot} /\ g[slot] = v
        /\ \A y \in DOMAIN calls : y # slot => g[y] = calls[y]
    BY DEF With
  <2>2. calls' = g
    BY <1>3
  <2>. HIDE DEF g
  <2>. QED
    BY <2>1, <2>2
<1>8. /\ DOMAIN sent' = Begun \cup {c} /\ sent'[c] = f.upto
      /\ \A d \in Begun : d # c => sent'[d] = sent[d]
  <2>. DEFINE g == With(sent, c, f.upto)
  <2>1. /\ DOMAIN g = DOMAIN sent \cup {c} /\ g[c] = f.upto
        /\ \A y \in DOMAIN sent : y # c => g[y] = sent[y]
    BY DEF With
  <2>2. sent' = g
    BY <1>3
  <2>. HIDE DEF g
  <2>. QED
    BY <2>1, <2>2 DEF Begun
<1>9. f.upto \in 0..Len(asked[c].text)
  <2>1. f.upto \in SentOf(c)..Len(asked[c].text)
    BY <1>3 DEF NextFragment, Brings
  <2>2. SentOf(c) \in Nat
    BY <1>2, <1>4 DEF Progress, SentOf
  <2>. QED
    BY <1>4, <2>1, <2>2
<1>10. Begun' = Begun \cup {c} /\ Calls' = Calls
  BY <1>1, <1>8 DEF Begun, Calls
<1>11. Slots'
  BY <1>2, <1>3, <1>7 DEF Slots
<1>12. Progress'
  <2>1. Begun \cup {c} \subseteq Calls
    BY <1>2, <1>4 DEF Progress
  <2>2. \A d \in Begun \cup {c} : sent'[d] \in 0..Len(asked[d].text)
    BY <1>2, <1>8, <1>9 DEF Progress
  <2>. QED
    BY <1>1, <1>10, <2>1, <2>2 DEF Progress
<1>13. ASSUME ~strayed'  PROVE Merged'
  <2>1. ~strayed /\ slot = c - 1 /\ v.id = asked[c].id /\ Merged
        /\ (FlatTexts => v.text = SubSeq(asked[c].text, 1, f.upto))
    BY <1>2, <1>3, <1>13
  <2>2. \A d \in Begun : d \in Calls /\ d - 1 \in DOMAIN calls /\ (d # c => d - 1 # c - 1)
    BY <1>2, <1>4, <2>1 DEF Merged, Progress
  <2>4. DOMAIN calls' = {d - 1 : d \in Begun \cup {c}}
    BY <1>7, <2>1 DEF Merged
  <2>5. \A d \in Begun \cup {c} : calls'[d - 1].id = asked[d].id
    BY <1>7, <2>1, <2>2 DEF Merged
  <2>6. ASSUME FlatTexts, NEW d \in Begun \cup {c}
        PROVE  calls'[d - 1].text = SubSeq(asked[d].text, 1, sent'[d])
    <3>1. CASE d = c
      BY <1>7, <1>8, <2>1, <2>6, <3>1
    <3>2. CASE d # c
      BY <1>7, <1>8, <2>1, <2>2, <2>6, <3>2 DEF Merged
    <3>. QED
      BY <3>1, <3>2
  <2>. QED
    BY <1>1, <1>10, <2>4, <2>5, <2>6 DEF Merged, FlatTexts
<1>14. PICK e : e = delta' /\ e = Tail(delta)
  BY <1>1
<1>15. /\ IsSeq(e) /\ Len(e) = Len(delta) - 1 /\ DOMAIN e = 1..Len(e) /\ Len(e) \in Nat
       /\ DOMAIN delta = 1..Len(delta) /\ Len(delta) \in Nat
       /\ \A n \in 1..Len(e) : e[n] = delta[n + 1] /\ n + 1 \in DOMAIN delta /\ 1 \in DOMAIN delta
                               /\ n + 1 # 1 /\ n \in Int
  <2>1. /\ IsSeq(e) /\ Len(e) = Len(delta) - 1 /\ 1 \in DOMAIN delta
        /\ \A n \in 1..Len(delta) - 1 : e[n] = delta[n + 1]
    BY <1>1, <1>2, <1>14, TailFacts DEF Chunk
  <2>2. Len(delta) \in Nat /\ DOMAIN delta = 1..Len(delta)
        /\ Len(e) \in Nat /\ DOMAIN e = 1..Len(e)
    BY <1>2, <2>1, SeqFacts DEF Chunk
  <2>. QED
    BY <2>1, <2>2
<1>16. Chunk'
  <2>1. \A n \in 1..Len(e) :
          /\ e[n].call \in Calls /\ e[n].call # c
          /\ e[n].index = IF style = "indexed" THEN e[n].call - 1 ELSE NoIndex
          /\ Brings(e[n], asked[e[n].call], SentOf(e[n].call), e[n].call \in Begun)
    <3>. SUFFICES ASSUME NEW n \in 1..Len(e)
                  PROVE  /\ e[n].call \in Calls /\ e[n].call # c
                         /\ e[n].index = IF style = "indexed" THEN e[n].call - 1 ELSE NoIndex
                         /\ Brings(e[n], asked[e[n].call], SentOf(e[n].call), e[n].call \in Begun)
      OBVIOUS
    <3>1. PICK m \in DOMAIN delta : e[n] = delta[m] /\ m # 1 /\ 1 \in DOMAIN delta
      BY <1>15
    <3>2. e[n].call # c
      BY <1>2, <1>4, <3>1 DEF Chunk
    <3>. QED
      BY <1>2, <3>1, <3>2, Zenon DEF Chunk
  <2>2. \A m, n \in 1..Len(e) : m # n => e[m].call # e[n].call
    BY <1>2, <1>15 DEF Chunk
  <2>3. \A n \in 1..Len(e) :
          /\ SentOf(e[n].call) = IF e[n].call \in DOMAIN sent' THEN sent'[e[n].call] ELSE 0
          /\ e[n].call \in Begun <=> e[n].call \in DOMAIN sent'
    BY <1>8, <2>1 DEF SentOf
  <2>4. \A n \in 1..Len(e) :
          Brings(e[n], asked[e[n].call],
                 IF e[n].call \in DOMAIN sent' THEN sent'[e[n].call] ELSE 0,
                 e[n].call \in DOMAIN sent')
    BY <2>1, <2>3 DEF Brings
  <2>5. \A n \in 1..Len(e) :
          /\ e[n].call \in Calls
          /\ e[n].index = IF style = "indexed" THEN e[n].call - 1 ELSE NoIndex
    BY <2>1
  <2>6. IsSeq(e) /\ DOMAIN e = 1..Len(e)
    BY <1>15
  <2>7. \A n \in DOMAIN e :
          /\ e[n].call \in DOMAIN asked
          /\ e[n].index = IF style = "indexed" THEN e[n].call - 1 ELSE NoIndex
          /\ Brings(e[n], asked[e[n].call],
                    IF e[n].call \in DOMAIN sent' THEN sent'[e[n].call] ELSE 0,
                    e[n].call \in DOMAIN sent')
    BY <2>4, <2>5, <2>6, Zenon DEF Calls
  <2>8. \A m, n \in DOMAIN e : m # n => e[m].call # e[n].call
    BY <2>2, <2>6, Zenon
  <2>9. delta' = e /\ style' = style /\ asked' = asked /\ IsSeq(e)
    BY <1>1, <1>14, <2>6
  <2>10. ASSUME style = "indexless", NEW n \in DOMAIN e, NEW d \in 1..e[n].call - 1
         PROVE  d \in DOMAIN sent' \/ \E m \in 1..n - 1 : e[m].call = d
    <3>1. n + 1 \in DOMAIN delta /\ e[n] = delta[n + 1] /\ n \in 1..Len(e)
      BY <1>15
    <3>2. d \in Begun \/ \E m \in 1..(n + 1) - 1 : delta[m].call = d
      BY <1>2, <2>10, <3>1 DEF Chunk
    <3>3. CASE d \in Begun
      BY <1>8, <3>3
    <3>4. CASE \E m \in 1..(n + 1) - 1 : delta[m].call = d
      <4>1. PICK m \in 1..n : delta[m].call = d
        BY <3>1, <3>4
      <4>2. CASE m = 1
        BY <1>4, <1>8, <4>1, <4>2
      <4>3. CASE m # 1
        <5>1. PICK i : i = m - 1
          OBVIOUS
        <5>2. i \in 1..n - 1 /\ i \in 1..Len(e) /\ i + 1 = m
          BY <1>15, <3>1, <4>1, <4>3, <5>1
        <5>3. e[i] = delta[m]
          BY <1>15, <5>2
        <5>. QED
          BY <4>1, <5>2, <5>3
      <4>. QED
        BY <4>2, <4>3
    <3>. QED
      BY <3>2, <3>3, <3>4
  <2>. QED
    BY <2>7, <2>8, <2>9, <2>10 DEF Chunk, Calls, SentOf, Begun
<1>17. /\ DOMAIN position_slots' = DOMAIN position_slots \cup {position}
       /\ position_slots'[position] = slot
       /\ \A p \in DOMAIN position_slots : p # position => position_slots'[p] = position_slots[p]
  <2>. DEFINE g == With(position_slots, position, slot)
  <2>1. /\ DOMAIN g = DOMAIN position_slots \cup {position} /\ g[position] = slot
        /\ \A y \in DOMAIN position_slots : y # position => g[y] = position_slots[y]
    BY DEF With
  <2>2. position_slots' = g
    BY <1>3
  <2>. HIDE DEF g
  <2>. QED
    BY <2>1, <2>2
<1>18. ASSUME style = "indexless"  PROVE Filled'
  <2>1. PICK n \in Nat : DOMAIN calls = 0..n - 1
    BY <1>2, <1>18 DEF Filled
  <2>2. slot \in 0..n
    BY <1>3, <1>18, <2>1
  <2>3. PICK m \in Nat : m = IF slot = n THEN n + 1 ELSE n
    BY <2>1
  <2>4. DOMAIN calls' = 0..m - 1
    BY <1>7, <2>1, <2>2, <2>3
  <2>5. \A p \in DOMAIN position_slots' : position_slots'[p] \in DOMAIN calls'
    BY <1>2, <1>7, <1>17, <1>18 DEF Filled
  <2>6. last_slot' \in DOMAIN calls'
    BY <1>3, <1>7
  <2>. QED
    BY <2>4, <2>5, <2>6 DEF Filled
<1>19. ASSUME style = "indexless"  PROVE InTurn'
  <2>1. PICK k \in 0..Len(asked) : Begun = 1..k
    BY <1>2, <1>19 DEF InTurn
  <2>2. k \in Nat /\ c \in Nat /\ (c \in 1..k \/ c = k + 1)
    BY <1>1, <1>3, <1>19, <2>1, CallIsNext
  <2>3. PICK j : j = IF c = k + 1 THEN k + 1 ELSE k
    OBVIOUS
  <2>4. j \in 0..Len(asked) /\ Begun' = 1..j
    BY <1>4, <1>10, <2>1, <2>2, <2>3
  <2>5. Begun' # {} /\ position' \in Nat
    BY <1>1, <1>2, <1>10, <1>19 DEF InTurn
  <2>. QED
    BY <1>1, <2>4, <2>5 DEF InTurn
<1>20. ASSUME style = "indexless", ~strayed'  PROVE Placed'
  <2>1. Placed /\ InTurn /\ slot = c - 1
    BY <1>2, <1>3, <1>20
  <2>2. /\ DOMAIN place' = DOMAIN place \cup {position} /\ place'[position] = c
        /\ \A p \in DOMAIN place : p # position => place'[p] = place[p]
    <3>. DEFINE g == With(place, position, c)
    <3>1. /\ DOMAIN g = DOMAIN place \cup {position} /\ g[position] = c
          /\ \A y \in DOMAIN place : y # position => g[y] = place[y]
      BY DEF With
    <3>2. place' = g
      BY <1>3
    <3>. HIDE DEF g
    <3>. QED
      BY <3>1, <3>2
  <2>3. DOMAIN place' = DOMAIN position_slots'
    BY <1>17, <2>1, <2>2 DEF Placed
  <2>4. \A p \in DOMAIN place' : place'[p] \in Begun' /\ position_slots'[p] = place'[p] - 1
    BY <1>10, <1>17, <2>1, <2>2 DEF Placed
  <2>5. 0 \in DOMAIN place'
    BY <1>1, <2>1, <2>2 DEF Placed, InTurn
  <2>. QED
    BY <2>3, <2>4, <2>5 DEF Placed
<1>21. StreamInv'
  BY <1>1, <1>11, <1>12, <1>13, <1>16, <1>18, <1>19, <1>20, Zenon DEF StreamInv
<1>22. ItemInv'
  <2>1. items = <<>> /\ DOMAIN items = {}
    BY <1>1, <1>2, EmptyIsSeq DEF AnswerInv
  <2>. QED
    BY <1>1, <1>2, <2>1 DEF ItemInv
<1>23. AnswerInv'
  BY <1>1, <1>2 DEF AnswerInv
<1>24. Asked'
  <2>1. style \in {"indexed", "indexless"} /\ (strayed => style = "indexless")
    BY <1>2 DEF Asked
  <2>2. style = "indexed" => AtPlace(f, position)
    BY DEF AtPlace
  <2>. QED
    BY <1>1, <1>2, <1>3, <2>1, <2>2, Zenon DEF Asked
<1>. QED
  BY <1>21, <1>22, <1>23, <1>24 DEF IInv

-----------------------------------------------------------------------------
(* Ids are given, and calls answered.                                      *)

LEMMA SlotsAreCalls ==
  ASSUME IInv, style # "whole", stage # "stream"
  PROVE  /\ Len(asked) \in Nat /\ Calls = 1..Len(asked)
         /\ \E n \in Nat :
              /\ DOMAIN calls = 0..n - 1
              /\ \A s \in 0..n - 1 : IsCall(calls[s]) /\ calls[s].id \in Seq(STRING)
              /\ ~strayed => n = Len(asked) /\ \A c \in Calls : calls[c - 1].id = asked[c].id
<1>1. Asked /\ Slots /\ Progress /\ (~strayed => Merged) /\ (style = "indexless" => Filled)
      /\ \A c \in Calls : Complete(c)
  BY DEF IInv, StreamInv
<1>2. Len(asked) \in Nat /\ Calls = 1..Len(asked)
  BY <1>1, AskedFacts
<1>3. NoId \in Seq(STRING)
  BY EmptySeq DEF NoId
<1>4. \A s \in DOMAIN calls : IsCall(calls[s]) /\ calls[s].id \in Seq(STRING)
  BY <1>1, <1>3, StreamAssumption DEF Slots
<1>5. CASE strayed
  <2>1. PICK n \in Nat : DOMAIN calls = 0..n - 1
    BY <1>1, <1>5 DEF Asked, Filled
  <2>. QED
    BY <1>2, <1>4, <1>5, <2>1
<1>6. CASE ~strayed
  <2>1. Begun = 1..Len(asked)
    BY <1>1, <1>2 DEF Complete, Progress
  <2>2. DOMAIN calls = 0..Len(asked) - 1 /\ \A c \in Calls : calls[c - 1].id = asked[c].id
    BY <1>1, <1>2, <1>6, <2>1, SlotsOfBegun DEF Merged
  <2>. QED
    BY <1>2, <1>4, <2>2
<1>. QED
  BY <1>5, <1>6

\* The calls are taken slot by slot.
LEMMA SlotsInOrder ==
  ASSUME NEW n \in Nat, DOMAIN calls = 0..n - 1, NEW m \in Nat
  PROVE  LET left == {s \in DOMAIN calls : Cardinality({t \in DOMAIN calls : t < s}) >= m}
         IN /\ left # {} => m < n
            /\ m < n => (CHOOSE s \in left : \A t \in left : s <= t) = m
<1>. DEFINE left == {s \in DOMAIN calls : Cardinality({t \in DOMAIN calls : t < s}) >= m}
<1>1. \A s \in 0..n - 1 : Cardinality({t \in DOMAIN calls : t < s}) = s
  <2>. SUFFICES ASSUME NEW s \in 0..n - 1  PROVE Cardinality({t \in DOMAIN calls : t < s}) = s
    OBVIOUS
  <2>1. {t \in DOMAIN calls : t < s} = 0..s - 1
    OBVIOUS
  <2>2. PICK e : e = s - 1 /\ e \in Int
    OBVIOUS
  <2>3. Cardinality(0..e) = IF 0 > e THEN 0 ELSE e - 0 + 1
    BY <2>2, FS_Interval
  <2>4. Cardinality(0..e) = s
    BY <2>2, <2>3
  <2>. QED
    BY <2>1, <2>2, <2>4
<1>2. left = m..n - 1
  <2>1. left = {s \in 0..n - 1 : s >= m}
    BY <1>1
  <2>. HIDE DEF left
  <2>. QED
    BY <2>1
<1>. HIDE DEF left
<1>3. left # {} => m < n
  BY <1>2
<1>4. ASSUME m < n  PROVE (CHOOSE s \in left : \A t \in left : s <= t) = m
  <2>1. m \in left /\ \A t \in left : m <= t
    BY <1>2, <1>4
  <2>2. PICK s : s = CHOOSE z \in left : \A t \in left : z <= t
    OBVIOUS
  <2>3. s \in left /\ \A t \in left : s <= t
    BY <2>1, <2>2, Zenon
  <2>4. s <= m /\ m <= s /\ s \in Int
    BY <1>2, <2>1, <2>3
  <2>. QED
    BY <2>2, <2>4
<1>. QED
  BY <1>3, <1>4 DEF left

LEMMA EndOfStreamInv == IInv /\ EndOfStream => IInv'
<1>. SUFFICES ASSUME IInv, EndOfStream  PROVE IInv'
  OBVIOUS
<1>1. /\ stage = "stream" /\ stage' = "result" /\ \A c \in Calls : Complete(c)
      /\ UNCHANGED <<style, asked, sent, delta, position, calls, last_slot, position_slots>>
      /\ UNCHANGED <<place, strayed, items, seen, answers>>
  BY DEF EndOfStream, provider, merger, observer
<1>2. Asked' /\ StreamInv' /\ ItemInv'
  BY <1>1 DEF IInv, Asked, StreamInv, Slots, Progress, Merged, Filled, Begun, Calls, Complete,
              FlatTexts, ItemInv, Good, Distinct
<1>3. AnswerInv'
  BY <1>1 DEF IInv, AnswerInv
<1>. QED
  BY <1>2, <1>3 DEF IInv

\* What the steps after the stream leave as it is.
LEMMA StreamOver ==
  ASSUME IInv, stage # "stream", stage' # "stream",
         UNCHANGED <<provider, merger, observer>>
  PROVE  /\ Asked' /\ StreamInv' /\ (Good' <=> Good) /\ Count' = Count
         /\ style' = style /\ asked' = asked /\ calls' = calls
<1>1. /\ UNCHANGED <<style, asked, sent, delta, position, calls, last_slot, position_slots>>
      /\ UNCHANGED <<place, strayed>>
  BY DEF provider, merger, observer
<1>2. Asked' /\ StreamInv'
  BY <1>1 DEF IInv, Asked, StreamInv, Slots, Progress, Merged, Filled, Begun, Calls, Complete,
              FlatTexts
<1>3. (Good' <=> Good) /\ Count' = Count
  BY <1>1 DEF Good, Distinct, Calls, Count
<1>. QED
  BY <1>1, <1>2, <1>3

LEMMA IdReplaced ==
  ASSUME NEW a, IsCall(a), NEW v
  PROVE  LET b == [a EXCEPT !.id = v] IN IsCall(b) /\ b.id = v /\ b.text = a.text
<1>1. PICK i, t : a = [id |-> i, text |-> t]
  BY DEF IsCall
<1>2. [a EXCEPT !.id = v] = [id |-> v, text |-> t] /\ a.text = t
  BY <1>1
<1>. QED
  BY <1>2 DEF IsCall

LEMMA ResultInv == IInv /\ Result => IInv'
<1>. SUFFICES ASSUME IInv, Result  PROVE IInv'
  OBVIOUS
<1>1. stage = "result" /\ stage' = "result" /\ UNCHANGED <<provider, merger, observer, answers>>
  BY DEF Result
<1>2. style # "whole" /\ Asked /\ ItemInv /\ AnswerInv
  BY <1>1 DEF IInv, AnswerInv
<1>3. /\ Asked' /\ StreamInv' /\ (Good' <=> Good) /\ Count' = Count
      /\ style' = style /\ asked' = asked /\ calls' = calls
  BY <1>1, StreamOver
<1>4. PICK m : m = Len(items)
  OBVIOUS
<1>5. m \in Nat /\ DOMAIN items = 1..m /\ IsSeq(items)
  BY <1>2, <1>4, SeqFacts DEF ItemInv
<1>6. /\ Len(asked) \in Nat /\ Calls = 1..Len(asked)
      /\ \E n \in Nat :
           /\ DOMAIN calls = 0..n - 1
           /\ \A s \in 0..n - 1 : IsCall(calls[s]) /\ calls[s].id \in Seq(STRING)
           /\ ~strayed => n = Len(asked) /\ \A c \in Calls : calls[c - 1].id = asked[c].id
  BY <1>1, <1>2, SlotsAreCalls
<1>0. PICK all \in Nat :
        /\ DOMAIN calls = 0..all - 1
        /\ \A s \in 0..all - 1 : IsCall(calls[s]) /\ calls[s].id \in Seq(STRING)
        /\ ~strayed => all = Len(asked) /\ \A c \in Calls : calls[c - 1].id = asked[c].id
  BY <1>6
<1>. DEFINE left == {s \in DOMAIN calls : Cardinality({t \in DOMAIN calls : t < s}) >= m}
            slot == CHOOSE s \in left : \A t \in left : s <= t
<1>7. /\ left # {}
      /\ items' = Append(items, [calls[slot] EXCEPT !.id = UsableId(calls[slot].id, m)])
      /\ seen' = seen \cup {UsableId(calls[slot].id, m)}
  BY <1>4, Zenon DEF Result
<1>8. m < all /\ slot = m
  BY <1>0, <1>5, <1>7, SlotsInOrder
<1>. HIDE DEF left, slot
<1>9. m \in 0..all - 1 /\ (m + 1) - 1 = m /\ m + 1 \in 1..m + 1 /\ m + 1 \notin 1..m
  BY <1>5, <1>8
<1>10. PICK id : id = UsableId(calls[m].id, m)
  OBVIOUS
<1>11. PICK e : e = [calls[m] EXCEPT !.id = id]
  OBVIOUS
<1>12. items' = Append(items, e) /\ seen' = seen \cup {id}
  BY <1>7, <1>8, <1>10, <1>11
<1>13. IsCall(e) /\ e.id = id /\ e.text = calls[m].text
  <2>1. IsCall(calls[m])
    BY <1>0, <1>9
  <2>. QED
    BY <1>11, <2>1, IdReplaced
<1>14. /\ IsSeq(items') /\ Len(items') = m + 1 /\ DOMAIN items' = 1..m + 1
       /\ (\A n \in 1..m : items'[n] = items[n]) /\ items'[m + 1] = e
  BY <1>4, <1>5, <1>12, AppendFacts, SeqFacts
<1>15. \A n \in 1..m + 1 : n \in 1..m \/ n = m + 1
  BY <1>5
<1>16. IsFiniteSet(seen) /\ seen = {items[n].id : n \in 1..m}
  BY <1>1, <1>5, <1>2 DEF AnswerInv
<1>17. /\ id \notin seen /\ id # NoId
       /\ calls[m].id # NoId /\ calls[m].id \notin seen => id = calls[m].id
  <2>1. calls[m].id \in Seq(STRING)
    BY <1>0, <1>9
  <2>. QED
    BY <1>10, <1>16, <2>1, UsableIdIsNew
<1>18. Good => id = asked[m + 1].id
  <2>. SUFFICES ASSUME Good  PROVE id = asked[m + 1].id
    OBVIOUS
  <2>1. ~strayed /\ Distinct /\ m + 1 \in Calls
    BY <1>0, <1>5, <1>6, <1>8 DEF Good
  <2>2. calls[m].id = asked[m + 1].id
    BY <1>0, <1>9, <2>1
  <2>3. \A n \in 1..m : n \in Calls /\ n # m + 1 /\ items[n].id = asked[n].id
    BY <1>0, <1>2, <1>5, <1>6, <1>8, <2>1 DEF ItemInv, Good
  <2>4. asked[m + 1].id # NoId /\ asked[m + 1].id \notin seen
    BY <1>16, <2>1, <2>3 DEF Distinct
  <2>. QED
    BY <1>17, <2>2, <2>4
<1>19. ItemInv'
  <2>1. \A n \in 1..m + 1 : IsCall(items'[n]) /\ items'[n].text = calls[n - 1].text
    <3>1. \A n \in 1..m : IsCall(items[n]) /\ items[n].text = calls[n - 1].text
      BY <1>2, <1>5 DEF ItemInv
    <3>. QED
      BY <1>9, <1>13, <1>14, <1>15, <3>1
  <2>2. \A n \in 1..m : items[n].id # id /\ items[n].id # NoId
    BY <1>2, <1>5, <1>16, <1>17 DEF ItemInv
  <2>3. \A n \in 1..m + 1 : items'[n].id # NoId
    BY <1>13, <1>14, <1>15, <1>17, <2>2
  <2>4. \A i, n \in 1..m + 1 : i # n => items'[i].id # items'[n].id
    <3>1. \A i, n \in 1..m : i # n => items[i].id # items[n].id
      BY <1>2, <1>5 DEF ItemInv
    <3>. QED
      BY <1>13, <1>14, <1>15, <2>2, <3>1
  <2>5. Good => \A n \in 1..m + 1 : items'[n].id = asked[n].id
    <3>1. Good => \A n \in 1..m : items[n].id = asked[n].id
      BY <1>2, <1>5 DEF ItemInv
    <3>. QED
      BY <1>13, <1>14, <1>15, <1>18, <3>1
  <2>. QED
    BY <1>2, <1>3, <1>14, <2>1, <2>3, <2>4, <2>5, Zenon DEF ItemInv
<1>20. AnswerInv'
  <2>1. IsFiniteSet(seen')
    BY <1>12, <1>16, FS_AddElement
  <2>2. seen' = {items'[n].id : n \in 1..m + 1}
    BY <1>12, <1>13, <1>14, <1>15, <1>16, <1>5
  <2>3. answers' = answers /\ answers = <<>> /\ IsSeq(answers)
    BY <1>1, <1>2 DEF AnswerInv
  <2>. QED
    BY <1>1, <1>2, <1>3, <1>14, <2>1, <2>2, <2>3 DEF AnswerInv
<1>. QED
  BY <1>3, <1>19, <1>20 DEF IInv

LEMMA FinishInv == IInv /\ Finish => IInv'
<1>. SUFFICES ASSUME IInv, Finish  PROVE IInv'
  OBVIOUS
<1>1. /\ stage = "result" /\ stage' = "parse" /\ seen' = {} /\ Len(items) = Cardinality(DOMAIN calls)
      /\ UNCHANGED <<provider, merger, observer, items, answers>>
  BY DEF Finish
<1>2. style # "whole" /\ Asked /\ ItemInv /\ AnswerInv
  BY <1>1 DEF IInv, AnswerInv
<1>3. /\ Asked' /\ StreamInv' /\ (Good' <=> Good) /\ Count' = Count
      /\ style' = style /\ asked' = asked /\ calls' = calls
  BY <1>1, StreamOver
<1>6. Len(items) = Count
  BY <1>1, <1>2 DEF Count
<1>7. answers = <<>> /\ DOMAIN answers = {} /\ Len(answers) = 0 /\ IsSeq(answers) /\ Len(items) \in Nat
  BY <1>1, <1>2, EmptyIsSeq, SeqFacts DEF AnswerInv, ItemInv
<1>8. ItemInv'
  BY <1>1, <1>2, <1>3 DEF ItemInv
<1>9. AnswerInv'
  <2>1. answers' = answers /\ items' = items
    BY <1>1
  <2>2. IsFiniteSet({}) /\ Len(answers) <= Len(items) /\ {} = {answers[k] : k \in DOMAIN answers}
    BY <1>7, FS_EmptySet
  <2>. QED
    BY <1>1, <1>2, <1>3, <1>6, <1>7, <2>1, <2>2 DEF AnswerInv
<1>. QED
  BY <1>3, <1>8, <1>9 DEF IInv

LEMMA AnswerKeeps == IInv /\ Answer => IInv'
<1>. SUFFICES ASSUME IInv, Answer  PROVE IInv'
  OBVIOUS
<1>1. /\ stage = "parse" /\ stage' = "answered" /\ Len(answers) = Len(items)
      /\ UNCHANGED <<provider, merger, observer, items, seen, answers>>
  BY DEF Answer
<1>2. /\ Asked' /\ StreamInv' /\ (Good' <=> Good) /\ Count' = Count
      /\ style' = style /\ asked' = asked /\ calls' = calls
  BY <1>1, StreamOver
<1>3. ItemInv' /\ AnswerInv'
  BY <1>1, <1>2 DEF IInv, ItemInv, AnswerInv
<1>. QED
  BY <1>2, <1>3 DEF IInv

LEMMA ExceptFacts ==
  ASSUME NEW s, IsSeq(s), NEW i \in DOMAIN s, NEW v
  PROVE  LET r == [s EXCEPT ![i] = v]
         IN IsSeq(r) /\ Len(r) = Len(s) /\ r[i] = v /\ \A n \in DOMAIN s : n # i => r[n] = s[n]
<1>1. PICK S : s \in Seq(S)
  BY DEF IsSeq
<1>2. PICK T : T = S \cup {v}
  OBVIOUS
<1>3. s \in Seq(T) /\ v \in T /\ DOMAIN s = 1..Len(s)
  BY <1>1, <1>2, SeqMonotonic, LenProperties
<1>4. i \in 1..Len(s)
  BY <1>3
<1>5. PICK r : r = [s EXCEPT ![i] = v]
  OBVIOUS
<1>6. /\ r \in Seq(T) /\ Len(r) = Len(s)
      /\ \A n \in 1..Len(s) : r[n] = IF n = i THEN v ELSE s[n]
  BY <1>3, <1>4, <1>5, ExceptSeq
<1>. QED
  BY <1>3, <1>4, <1>5, <1>6 DEF IsSeq

LEMMA ParseInv == IInv /\ Parse => IInv'
<1>. SUFFICES ASSUME IInv, Parse  PROVE IInv'
  OBVIOUS
<1>1. stage = "parse" /\ stage' = "parse" /\ UNCHANGED <<provider, merger, observer>>
  BY DEF Parse
<1>2. Asked /\ ItemInv /\ AnswerInv
  BY DEF IInv
<1>3. /\ Asked' /\ StreamInv' /\ (Good' <=> Good) /\ Count' = Count
      /\ style' = style /\ asked' = asked /\ calls' = calls
  BY <1>1, StreamOver
<1>4. PICK m : m = Len(answers)
  OBVIOUS
<1>5. PICK i : i = m + 1
  OBVIOUS
<1>6. PICK id : id = UsableId(items[i].id, m)
  OBVIOUS
<1>7. PICK e : e = [items[i] EXCEPT !.id = id]
  OBVIOUS
<1>8. /\ m < Len(items)
      /\ items' = [items EXCEPT ![i] = e]
      /\ answers' = Append(answers, id)
      /\ seen' = seen \cup {id}
  BY <1>4, <1>5, <1>6, <1>7, Zenon DEF Parse, Written
<1>9. /\ m \in Nat /\ DOMAIN answers = 1..m /\ IsSeq(answers)
      /\ Len(items) \in Nat /\ DOMAIN items = 1..Len(items) /\ IsSeq(items)
      /\ Len(items) = Count
  BY <1>1, <1>2, <1>4, SeqFacts DEF ItemInv, AnswerInv
<1>10. /\ i \in DOMAIN items /\ i \notin DOMAIN answers /\ i \in 1..i
       /\ \A n \in 1..m : n # i /\ n \in DOMAIN items /\ n \in 1..i
       /\ style = "whole" => DOMAIN items = Calls
  <2>1. style = "whole" => Len(items) = Len(asked) /\ Calls = 1..Len(asked)
    BY <1>2, <1>9, AskedFacts DEF Count
  <2>. QED
    BY <1>5, <1>8, <1>9, <2>1
<1>11. \A n \in 1..i : n \in 1..m \/ n = i
  BY <1>5, <1>9
<1>12. /\ IsFiniteSet(seen) /\ seen = {answers[n] : n \in 1..m}
       /\ \A n \in 1..m : answers[n] = items[n].id /\ answers[n] # NoId
       /\ \A k, n \in 1..m : k # n => answers[k] # answers[n]
       /\ Good => \A n \in 1..m : answers[n] = asked[n].id
       /\ style = "whole" => \A n \in DOMAIN items \ 1..m : items[n].id = asked[n].id
  BY <1>1, <1>2, <1>9 DEF AnswerInv
<1>13. ASSUME style # "whole"
       PROVE  id = items[i].id /\ id # NoId /\ id \notin seen
  <2>1. /\ \A n \in DOMAIN items : items[n].id # NoId
        /\ \A k, n \in DOMAIN items : k # n => items[k].id # items[n].id
    BY <1>2, <1>13 DEF ItemInv
  <2>2. items[i].id # NoId /\ items[i].id \notin seen
    BY <1>10, <1>12, <2>1
  <2>. QED
    BY <1>6, <2>2, Zenon DEF UsableId
<1>14. ASSUME style = "whole"
       PROVE  /\ items[i].id = asked[i].id /\ id \notin seen /\ id # NoId
              /\ asked[i].id # NoId /\ asked[i].id \notin seen => id = asked[i].id
  <2>1. items[i].id = asked[i].id
    BY <1>9, <1>10, <1>12, <1>14
  <2>2. asked[i].id \in Seq(STRING)
    BY <1>2, <1>10, <1>14, AskedFacts
  <2>. QED
    BY <1>6, <1>12, <2>1, <2>2, UsableIdIsNew
<1>15. id \notin seen /\ id # NoId /\ \A n \in 1..m : answers[n] # id
  BY <1>12, <1>13, <1>14
<1>16. Good => id = asked[i].id
  <2>1. CASE style = "whole"
    <3>. SUFFICES ASSUME Good  PROVE asked[i].id # NoId /\ asked[i].id \notin seen
      BY <1>14, <2>1
    <3>. QED
      BY <1>10, <1>12, <2>1 DEF Good, Distinct
  <2>2. CASE style # "whole"
    BY <1>2, <1>10, <1>13, <2>2 DEF ItemInv
  <2>. QED
    BY <2>1, <2>2
<1>17. IsCall(e) /\ e.id = id /\ e.text = items[i].text
  <2>1. IsCall(items[i])
    BY <1>2, <1>10 DEF ItemInv
  <2>. QED
    BY <1>7, <2>1, IdReplaced
<1>18. PICK r : r = items'
  OBVIOUS
<1>19. /\ IsSeq(r) /\ Len(r) = Len(items) /\ DOMAIN r = DOMAIN items /\ r[i] = e
       /\ \A n \in DOMAIN items : n # i => r[n] = items[n]
  BY <1>8, <1>9, <1>10, <1>18, ExceptFacts, SeqFacts
<1>20. ItemInv'
  <2>1. \A n \in DOMAIN r :
          /\ IsCall(r[n])
          /\ r[n].text = IF style = "whole" THEN asked[n].text ELSE calls[n - 1].text
    <3>1. \A n \in DOMAIN items :
            /\ IsCall(items[n])
            /\ items[n].text = IF style = "whole" THEN asked[n].text ELSE calls[n - 1].text
      BY <1>2 DEF ItemInv
    <3>2. \A n \in DOMAIN items : IsCall(r[n]) /\ r[n].text = items[n].text
      BY <1>17, <1>19, <3>1
    <3>. QED
      BY <1>19, <3>1, <3>2
  <2>2. style # "whole" => \A n \in DOMAIN items : r[n].id = items[n].id
    BY <1>13, <1>17, <1>19
  <2>3. style # "whole" =>
          /\ \A n \in DOMAIN r : r[n].id # NoId
          /\ \A k, n \in DOMAIN r : k # n => r[k].id # r[n].id
          /\ Good => \A n \in DOMAIN r : r[n].id = asked[n].id
    BY <1>2, <1>19, <2>2 DEF ItemInv
  <2>. QED
    BY <1>3, <1>18, <1>19, <2>1, <2>3, Zenon DEF ItemInv
<1>21. PICK a : a = answers'
  OBVIOUS
<1>22. /\ IsSeq(a) /\ Len(a) = i /\ DOMAIN a = 1..i /\ a[i] = id
       /\ \A n \in 1..m : a[n] = answers[n]
  BY <1>4, <1>5, <1>8, <1>9, <1>21, AppendFacts, SeqFacts
<1>23. AnswerInv'
  <2>1. IsFiniteSet(seen')
    BY <1>8, <1>12, FS_AddElement
  <2>2. seen' = {a[n] : n \in 1..i}
    BY <1>8, <1>10, <1>11, <1>12, <1>22
  <2>3. \A n \in 1..i : a[n] = r[n].id /\ a[n] # NoId
    BY <1>10, <1>11, <1>12, <1>15, <1>17, <1>19, <1>22
  <2>4. \A k, n \in 1..i : k # n => a[k] # a[n]
    BY <1>11, <1>12, <1>15, <1>22
  <2>5. Good => \A n \in 1..i : a[n] = asked[n].id
    BY <1>11, <1>12, <1>16, <1>22
  <2>6. style = "whole" => \A n \in DOMAIN r \ 1..i : r[n].id = asked[n].id
    BY <1>10, <1>12, <1>19
  <2>7. Len(r) = Count /\ Len(a) <= Len(r)
    BY <1>5, <1>8, <1>9, <1>19, <1>22
  <2>. QED
    BY <1>1, <1>3, <1>18, <1>21, <1>22, <2>1, <2>2, <2>3, <2>4, <2>5, <2>6, <2>7 DEF AnswerInv
<1>. QED
  BY <1>3, <1>20, <1>23 DEF IInv

LEMMA StutterInv == IInv /\ UNCHANGED vars => IInv'
BY DEF IInv, vars, provider, merger, observer, Asked, StreamInv, Slots, Progress, Merged, Chunk, InTurn,
       Filled, Placed, Begun, Calls, SentOf, Complete, FlatTexts, ItemInv, AnswerInv, Good, Count,
       Distinct

LEMMA AlwaysIInv == Spec => []IInv
<1>1. IInv /\ [Next]_vars => IInv'
  BY SendInv, MergeInv, EndOfStreamInv, ResultInv, FinishInv, ParseInv, AnswerKeeps, StutterInv
     DEF Next, Answered
<1>. QED
  BY InitInv, <1>1, PTL DEF Spec

LEMMA AnswersMatch == IInv => AnswersNameCalls
<1>. SUFFICES ASSUME IInv, stage = "answered"  PROVE AnswersNameCalls
  BY DEF AnswersNameCalls
<1>1. Asked /\ ItemInv /\ AnswerInv
  BY DEF IInv
<1>2. /\ Len(items) = Count /\ Len(answers) = Len(items)
      /\ \A n \in DOMAIN answers : answers[n] = items[n].id /\ answers[n] # NoId
      /\ \A k, n \in DOMAIN answers : k # n => answers[k] # answers[n]
      /\ Good => \A n \in DOMAIN answers : answers[n] = asked[n].id
      /\ IsSeq(answers) /\ IsSeq(items)
  BY <1>1 DEF AnswerInv, ItemInv
<1>3. /\ DOMAIN items = 1..Len(items) /\ DOMAIN answers = DOMAIN items
      /\ answers = [n \in DOMAIN items |-> answers[n]]
      /\ Len(asked) \in Nat /\ Calls = 1..Len(asked)
  BY <1>1, <1>2, SeqFacts, AskedFacts
<1>4. answers = [n \in DOMAIN items |-> items[n].id]
  BY <1>2, <1>3
<1>5. ASSUME style # "whole"
      PROVE  /\ DOMAIN items = {s + 1 : s \in DOMAIN calls}
             /\ \A n \in DOMAIN items : items[n].text = calls[n - 1].text
             /\ ~strayed => DOMAIN items = Calls
  <2>1. PICK n \in Nat : DOMAIN calls = 0..n - 1 /\ (~strayed => n = Len(asked))
    BY <1>5, SlotsAreCalls
  <2>2. Len(items) = n
    <3>1. PICK e \in Int : e = n - 1
      OBVIOUS
    <3>2. Cardinality(0..e) = IF 0 > e THEN 0 ELSE e - 0 + 1
      BY FS_Interval
    <3>3. Cardinality(0..e) = n
      BY <3>1, <3>2
    <3>. QED
      BY <1>2, <1>5, <2>1, <3>1, <3>3 DEF Count
  <2>3. {s + 1 : s \in 0..n - 1} = 1..n
    <3>1. ASSUME NEW k \in 1..n  PROVE k \in {s + 1 : s \in 0..n - 1}
      <4>1. k - 1 \in 0..n - 1 /\ k = (k - 1) + 1
        OBVIOUS
      <4>. QED
        BY <4>1
    <3>2. \A s \in 0..n - 1 : s + 1 \in 1..n
      OBVIOUS
    <3>. QED
      BY <3>1, <3>2
  <2>4. \A k \in DOMAIN items : items[k].text = calls[k - 1].text
    BY <1>1, <1>5 DEF ItemInv
  <2>. QED
    BY <1>3, <2>1, <2>2, <2>3, <2>4
<1>6. ASSUME ~strayed
      PROVE  DOMAIN items = Calls /\ (Distinct => \A c \in Calls : answers[c] = asked[c].id)
  <2>1. DOMAIN items = Calls
    <3>1. CASE style = "whole"
      BY <1>2, <1>3, <3>1 DEF Count
    <3>. QED
      BY <1>5, <1>6, <3>1
  <2>. QED
    BY <1>2, <1>3, <1>6, <2>1 DEF Good
<1>. QED
  BY <1>2, <1>3, <1>4, <1>5, <1>6 DEF AnswersNameCalls

-----------------------------------------------------------------------------
(* Theorems.                                                               *)

\* AnswersNameCalls: whatever ids a provider gives or leaves out, and however
\* it cuts its calls into fragments, every call that comes out of the merger is
\* answered once, in order, under an id of its own that the history has for it;
\* good ids are kept if no fragment strays (client.py:353-377,
\* executor.py:128-146).
THEOREM EveryCallIsNamed == Spec => []AnswersNameCalls
BY AnswersMatch, AlwaysIInv, PTL

\* Reassembled: a call merged so far is what the provider has sent of it and, in
\* the end, its arguments, with indices and, as long as no fragment strays from
\* the place where its call is looked for, without, if no arguments have their
\* first token again later on (client.py:303-351, 365-370).
THEOREM FlatTextsReassembled == FlatTexts /\ Spec => []Reassembled
<1>1. FlatTexts /\ IInv => Reassembled
  <2>. SUFFICES ASSUME FlatTexts, IInv, ~strayed
                PROVE  /\ style # "whole" =>
                            /\ DOMAIN calls = {c - 1 : c \in Begun}
                            /\ \A c \in Begun : calls[c - 1].text = SubSeq(asked[c].text, 1, sent[c])
                       /\ DeltasAdded
    BY DEF Reassembled
  <2>1. Asked /\ ItemInv /\ AnswerInv /\ StreamInv
    BY DEF IInv
  <2>2. style # "whole" =>
          /\ DOMAIN calls = {c - 1 : c \in Begun}
          /\ \A c \in Begun : calls[c - 1].text = SubSeq(asked[c].text, 1, sent[c])
    BY <2>1 DEF StreamInv, Merged
  <2>3. ASSUME stage = "answered", NEW c \in Calls  PROVE items[c].text = asked[c].text
    <3>1. DOMAIN items = Calls
      <4>1. AnswersNameCalls
        BY AnswersMatch
      <4>. QED
        BY <2>3, <4>1 DEF AnswersNameCalls
    <3>2. CASE style = "whole"
      BY <2>1, <2>3, <3>1, <3>2 DEF ItemInv
    <3>3. CASE style # "whole"
      <4>1. c \in Begun /\ sent[c] = Len(asked[c].text)
        BY <2>1, <2>3, <3>3 DEF StreamInv, Complete
      <4>2. items[c].text = calls[c - 1].text
        BY <2>1, <2>3, <3>1, <3>3 DEF ItemInv
      <4>3. asked[c].text \in Seq(Tokens)
        BY <2>1, <2>3, AskedFacts, StreamAssumption
      <4>4. SubSeq(asked[c].text, 1, Len(asked[c].text)) = asked[c].text
        BY <4>3, SubSeqFull
      <4>. QED
        BY <2>2, <3>3, <4>1, <4>2, <4>4
    <3>. QED
      BY <3>2, <3>3
  <2>. QED
    BY <2>2, <2>3 DEF DeltasAdded
<1>2. FlatTexts => FlatTexts'
  BY DEF FlatTexts
<1>. QED
  BY <1>1, <1>2, AlwaysIInv, PTL

=============================================================================
