-------------------------- MODULE MCToolCallStream --------------------------
(***************************************************************************)
(* Texts and ids for TLC.  A text of tokens of its own, and the arguments  *)
(* of a call that nests an object under the key it is itself under, as in  *)
(* {"a":{"a":1}}.  Ids that collide with each other and with made-up ones. *)
(***************************************************************************)
EXTENDS ToolCallStream

Plain == {<<"{a", "}">>}

Nested == {<<"{a", "{a", "1", "}", "}">>}

CollidingIds == {NoId, <<"a">>, <<"call", "1">>}

OneId == {<<"a">>}
=============================================================================
