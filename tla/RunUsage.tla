------------------------------ MODULE RunUsage ------------------------------
(***************************************************************************)
(* RunUsage (core/context.py): counters of the model's answers, and what a *)
(* difference of two snapshots says.  A report that has a field counts one *)
(* token in it.                                                            *)
(***************************************************************************)
EXTENDS Integers, Sequences, FiniteSets

\* What a provider may report with an answer: no usage, tokens or none, and
\* with or without how many of them were cached.
Reports == SUBSET {"tokens", "cached"}

Unknown == -1

Usages == [requests : Nat, usage_requests : Nat, tokens : Nat, cached_tokens : Nat,
           cached_usage_requests : Nat]

Zero == [requests |-> 0, usage_requests |-> 0, tokens |-> 0,
         cached_tokens |-> 0, cached_usage_requests |-> 0]

One(r, field) == IF field \in r THEN 1 ELSE 0

\* RunUsage.record.  A report of cached tokens alone does not make the totals
\* exact.
Recorded(u, r) ==
  [requests |-> u.requests + 1,
   usage_requests |-> u.usage_requests + One(r, "tokens"),
   tokens |-> u.tokens + One(r, "tokens"),
   cached_tokens |-> u.cached_tokens + One(r, "cached"),
   cached_usage_requests |-> u.cached_usage_requests + One(r, "cached")]

\* Mutant: the usage of the context.
Everything(u, previous) == u

Since(u, previous) == [f \in DOMAIN u |-> u[f] - previous[f]]

\* RunUsage.to_dict: totals only if every answer had them.
ToDict(u) ==
  [requests |-> u.requests,
   tokens |-> IF u.requests = u.usage_requests THEN u.tokens ELSE Unknown,
   cached |-> IF u.cached_usage_requests > 0 THEN u.cached_tokens ELSE Unknown]

\* What to_dict is to say of a sequence of reports (README.md:273).
Truth(reports) ==
  LET with(field) == Cardinality({n \in DOMAIN reports : field \in reports[n]})
  IN [requests |-> Len(reports),
      tokens |-> IF with("tokens") = Len(reports) THEN Len(reports) ELSE Unknown,
      cached |-> IF with("cached") > 0 THEN with("cached") ELSE Unknown]
=============================================================================
