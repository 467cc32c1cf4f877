--------------------------- MODULE ToolCallStream ---------------------------
(***************************************************************************)
(* How the tool calls of one assistant message reach the executor          *)
(* (llm/client.py, tools/executor.py): fragments streamed by a provider    *)
(* are merged into calls, ids that are missing or taken are replaced, the  *)
(* message goes into the history, and every call is answered by its id.    *)
(*                                                                         *)
(* The provider is external.  It gives every fragment an index, or none,   *)
(* or it does not stream at all.  Without indices any fragments may share  *)
(* a chunk, with or without their ids, at any position in it; the observer *)
(* strayed tells whether one came where its call is not looked for.  The   *)
(* arguments of a call are a text of tokens, sent in fragments; a fragment *)
(* may repeat what was sent before.  Of the fields of a call, the type and *)
(* the name are left out: the name is merged as the arguments are.         *)
(***************************************************************************)
EXTENDS Integers, Sequences, FiniteSets, TLC

CONSTANTS Styles,    \* of the provider: "indexed", "indexless", "whole" (no stream)
          MaxCalls,  \* bound: calls of the message
          MaxChunk,  \* bound: fragments in a chunk
          Texts,     \* the arguments a model may write
          GivenIds,  \* the ids a provider may give, as sequences of strings
          Resends    \* a fragment may begin with all that was sent before

Tokens == UNION {{t[n] : n \in DOMAIN t} : t \in Texts}

ASSUME StreamAssumption ==
  /\ Styles \subseteq {"indexed", "indexless", "whole"}
  /\ MaxCalls \in Nat /\ MaxChunk \in Nat
  /\ Resends \in BOOLEAN
  /\ Texts \subseteq Seq(Tokens)
  /\ GivenIds \subseteq Seq(STRING)

NoId == <<>>        \* id "" or no id
NoIndex == -1       \* a fragment without an index

VARIABLES
  style,      \* of this provider
  asked,      \* the calls of the model: the id given to each, and its text
  sent,       \* how much of each text has been merged; begun are its calls
  delta,      \* the fragments of the chunk that are yet to be merged
  position,   \* in the chunk, of the next one
  calls,      \* _StreamToolCallMerger.calls
  last_slot,
  position_slots,
  place,      \* observer: the call whose fragment came last at a position
  strayed,    \* observer: a fragment came that was not at the place of its call
  stage,      \* "stream", "result", "parse", "answered"
  items,      \* message["tool_calls"], which the history shares
  seen,       \* ids met by result, then by parse_tool_calls
  answers     \* the ids of the tool messages

provider == <<style, asked>>
merger == <<sent, delta, position, calls, last_slot, position_slots>>
observer == <<place, strayed>>
vars == <<provider, merger, observer, stage, items, seen, answers>>

Calls == DOMAIN asked

-----------------------------------------------------------------------------
(* The provider.                                                           *)

Init ==
  /\ style \in Styles
  /\ \E n \in 1..MaxCalls : asked \in [1..n -> [id : GivenIds, text : Texts]]
  /\ sent = <<>> /\ delta = <<>> /\ position = 0
  /\ calls = <<>> /\ last_slot = -1 /\ position_slots = <<>>
  /\ place = <<>> /\ strayed = FALSE
  /\ stage = IF style = "whole" THEN "parse" ELSE "stream"
  /\ items = IF style = "whole" THEN asked ELSE <<>>
  /\ seen = {} /\ answers = <<>>

Begun == DOMAIN sent

SentOf(c) == IF c \in Begun THEN sent[c] ELSE 0

\* A fragment brings a call's text up to some point, from where it was, or
\* from its beginning again.  Only the first must have the id.
Fragments(c) ==
  {[call |-> c, upto |-> to,
    index |-> IF style = "indexed" THEN c - 1 ELSE NoIndex,
    id |-> id,
    text |-> SubSeq(asked[c].text, from + 1, to)] :
      id \in IF c \in Begun THEN {NoId, asked[c].id} ELSE {asked[c].id},
      from \in IF Resends THEN {0, SentOf(c)} ELSE {SentOf(c)},
      to \in SentOf(c)..Len(asked[c].text)}

Complete(c) == c \in Begun /\ sent[c] = Len(asked[c].text)

\* The calls that have a fragment in the next chunk, by position: any, but that
\* calls without an index are numbered in the order in which they begin.
Layouts ==
  {l \in UNION {[1..n -> Calls] : n \in 1..MaxChunk} :
     /\ \A m, n \in DOMAIN l : m # n => l[m] # l[n]
     /\ style = "indexless" =>
          \A n \in DOMAIN l : \A c \in 1..l[n] - 1 : c \in Begun \/ \E m \in 1..n - 1 : l[m] = c}

\* Where the fragment of a call without an index is looked for: at the position
\* of its last one, if no other call took it since.  A new call may come at a
\* new position, or take one with an id that is not that of the call before.
AtPlace(f, p) ==
  \/ style = "indexed"
  \/ f.call \in Begun /\ p \in DOMAIN place /\ place[p] = f.call
  \/ f.call \notin Begun /\ (p \in DOMAIN place => f.id \notin {NoId, asked[place[p]].id})

\* Bound: from the first that is not at its place, and with an index at any
\* position but the first, fragments bring all the rest and nothing again.
Brief(f, p) ==
  strayed \/ ~AtPlace(f, p) \/ (style = "indexed" /\ p > 0) =>
    LET text == asked[f.call].text
    IN ~Complete(f.call) /\ f.upto = Len(text) /\ Len(f.text) = Len(text) - SentOf(f.call)

Send ==
  /\ stage = "stream" /\ delta = <<>>
  /\ \E l \in Layouts :
       LET may == [n \in DOMAIN l |-> {f \in Fragments(l[n]) : Brief(f, n - 1)}]
       IN delta' \in {d \in [DOMAIN l -> UNION {may[n] : n \in DOMAIN l}] :
                        \A n \in DOMAIN l : d[n] \in may[n]}
  /\ position' = 0
  /\ UNCHANGED <<provider, sent, calls, last_slot, position_slots, observer>>
  /\ UNCHANGED <<stage, items, seen, answers>>

-----------------------------------------------------------------------------
(* _StreamToolCallMerger.                                                  *)

\* Mutant: the next call takes the slot of the last.
SlotTaken == IF DOMAIN calls = {} THEN 0 ELSE Cardinality(DOMAIN calls) - 1

\* max(self.calls, default=-1) + 1
NewSlot == IF DOMAIN calls = {} THEN 0
           ELSE 1 + CHOOSE s \in DOMAIN calls : \A t \in DOMAIN calls : t <= s

Mapped == position \in DOMAIN position_slots

HasId(id) == {s \in DOMAIN calls : calls[s].id = id}

\* The slot of a fragment with an id and no index.
NamedSlot(id) ==
  IF Mapped /\ position_slots[position] \in HasId(id) THEN position_slots[position]
  ELSE IF Mapped \/ position > 0 \/ HasId(id) = {} THEN NewSlot
  ELSE CHOOSE s \in HasId(id) : TRUE

\* The slot of a fragment with neither.
BareSlot ==
  IF Mapped THEN position_slots[position]
  ELSE IF position > 0 THEN NewSlot
  ELSE IF last_slot >= 0 THEN last_slot
  ELSE position

SlotOf(item) ==
  IF item.index # NoIndex THEN item.index
  ELSE IF item.id # NoId THEN NamedSlot(item.id)
  ELSE BareSlot

StartsWith(s, t) == Len(t) <= Len(s) /\ SubSeq(s, 1, Len(t)) = t

\* Mutant: what is sent again is appended again.
Appended(current, fragment) == current \o fragment

\* _merge_fragment
MergeFragment(current, fragment) ==
  IF fragment = <<>> \/ fragment = current THEN current
  ELSE IF StartsWith(fragment, current) THEN fragment
  ELSE current \o fragment

With(f, x, v) == [y \in DOMAIN f \cup {x} |-> IF y = x THEN v ELSE f[y]]

\* _StreamToolCallMerger.merge, of the next fragment.
Merge ==
  /\ stage = "stream" /\ delta # <<>>
  /\ LET item == Head(delta)
         slot == SlotOf(item)
         current == IF slot \in DOMAIN calls THEN calls[slot]
                    ELSE [id |-> NoId, text |-> <<>>]
     IN /\ calls' = With(calls, slot,
                         [id |-> IF item.id # NoId THEN item.id ELSE current.id,
                          text |-> MergeFragment(current.text, item.text)])
        /\ last_slot' = slot
        /\ position_slots' = With(position_slots, position, slot)
        /\ sent' = With(sent, item.call, item.upto)
        /\ place' = With(place, position, item.call)
        /\ strayed' = (strayed \/ ~AtPlace(item, position))
  /\ delta' = Tail(delta)
  /\ position' = position + 1
  /\ UNCHANGED <<provider, stage, items, seen, answers>>

EndOfStream ==
  /\ stage = "stream" /\ delta = <<>>
  /\ \A c \in Calls : Complete(c)
  /\ stage' = "result"
  /\ UNCHANGED <<provider, merger, observer, items, seen, answers>>

-----------------------------------------------------------------------------
(* Ids.                                                                    *)

\* The made-up id that is tried first (for UniqueId a mutant: it is not compared
\* with those there are).
FirstCandidate(base, index) ==
  (IF base = NoId THEN <<"call">> ELSE base) \o <<ToString(index)>>

\* _unique_tool_call_id: "x" is appended for as long as the id is taken.
UniqueId(base, index) ==
  LET Candidate(n) == FirstCandidate(base, index) \o [k \in 1..n |-> "x"]
      free == {n \in 0..Cardinality(seen) : Candidate(n) \notin seen}
  IN Candidate(CHOOSE n \in free : \A m \in free : n <= m)

\* Mutant: only missing ids are replaced.
MissingId(id, index) == IF id = NoId THEN UniqueId(id, index) ELSE id

UsableId(id, index) == IF id = NoId \/ id \in seen THEN UniqueId(id, index) ELSE id

\* _StreamToolCallMerger.result: the calls by slot, each with an id.
Result ==
  LET index == Len(items)
      left == {s \in DOMAIN calls : Cardinality({t \in DOMAIN calls : t < s}) >= index}
      slot == CHOOSE s \in left : \A t \in left : s <= t
      id == UsableId(calls[slot].id, index)
  IN /\ stage = "result" /\ left # {}
     /\ items' = Append(items, [calls[slot] EXCEPT !.id = id])
     /\ seen' = seen \cup {id}
     /\ UNCHANGED <<provider, merger, observer, stage, answers>>

\* The message is complete, goes into the history, and its calls are parsed.
Finish ==
  /\ stage = "result" /\ Len(items) = Cardinality(DOMAIN calls)
  /\ stage' = "parse"
  /\ seen' = {}
  /\ UNCHANGED <<provider, merger, observer, items, answers>>

\* Mutant: the id is replaced in the parsed call only.
NotWritten(id, index) == items[index + 1].id

\* item["id"] = call_id, in the item that the history holds.
Written(id, index) == id

\* ToolExecutor.parse_tool_calls, of the next item; the call is answered under
\* the id it is parsed with.
Parse ==
  LET index == Len(answers)
      id == UsableId(items[index + 1].id, index)
  IN /\ stage = "parse" /\ index < Len(items)
     /\ items' = [items EXCEPT ![index + 1].id = Written(id, index)]
     /\ answers' = Append(answers, id)
     /\ seen' = seen \cup {id}
     /\ UNCHANGED <<provider, merger, observer, stage>>

Answer ==
  /\ stage = "parse" /\ Len(answers) = Len(items)
  /\ stage' = "answered"
  /\ UNCHANGED <<provider, merger, observer, items, seen, answers>>

Answered == stage = "answered" /\ UNCHANGED vars

Next == Send \/ Merge \/ EndOfStream \/ Result \/ Finish \/ Parse \/ Answer \/ Answered

Spec == Init /\ [][Next]_vars

-----------------------------------------------------------------------------
\* What the class says of itself, that it merges standard deltas
\* (client.py:292): the fragments of a call, one after the other, are its
\* arguments.
DeltasAdded ==
  stage = "answered" => \A c \in Calls : items[c].text = asked[c].text

\* A call merged so far is what the provider has sent of it, and no other call
\* is there: fragments are not given to another call, duplicated or lost, and in
\* the end each call has its arguments - with an index in every fragment, and
\* without, as long as calls keep their positions in the chunks ("usually", says
\* client.py:299-302) or are taken over by new ones with new ids
\* (client.py:303-351).
Reassembled ==
  ~strayed =>
    /\ style # "whole" =>
         /\ DOMAIN calls = {c - 1 : c \in Begun}
         /\ \A c \in Begun : calls[c - 1].text = SubSeq(asked[c].text, 1, sent[c])
    /\ DeltasAdded

\* The provider gave each call an id of its own.
Distinct ==
  \A c \in Calls : asked[c].id # NoId /\ \A d \in Calls \ {c} : asked[d].id # asked[c].id

\* Every call that came out of the merger, also of fragments that strayed, is
\* answered once, in order, under the id that the assistant message in the
\* history has for it, and no two share one, whatever ids the provider gave or
\* left out.  If no fragment strayed these are the calls of the model, and ids
\* that are good are kept (client.py:353-362, executor.py:133-146).
AnswersNameCalls ==
  stage = "answered" =>
    /\ answers = [n \in DOMAIN items |-> items[n].id]
    /\ \A m, n \in DOMAIN items : m # n => answers[m] # answers[n]
    /\ \A n \in DOMAIN items : answers[n] # NoId
    /\ style # "whole" =>
         /\ DOMAIN items = {s + 1 : s \in DOMAIN calls}
         /\ \A n \in DOMAIN items : items[n].text = calls[n - 1].text
    /\ ~strayed =>
         /\ DOMAIN items = Calls
         /\ Distinct => \A c \in Calls : answers[c] = asked[c].id
=============================================================================
