------------------------------ MODULE MCFlowRun ------------------------------
(***************************************************************************)
(* One graph that exercises every feature, for TLC.                        *)
(*                                                                         *)
(*   the host's flow:  lead --default--> sub --default--> lead             *)
(*   sub's flow:       work --default--> tools --default--> work           *)
(*   what tools runs:  the host's flow again, as a sub-agent               *)
(*                                                                         *)
(* "sub" is an agent with two attempts that exposes its inner action;      *)
(* "work" is a plain node with two attempts; "tools" is a tool node whose  *)
(* body may run a traced agent with a cancel event of its own, twice per   *)
(* execution, and turns every failure into a result.  Every other action   *)
(* ends its flow, so each flow can loop past its cap, and the whole nests  *)
(* in itself without bound.                                                *)
(***************************************************************************)
EXTENDS FlowRun, TLC

MCNodes == {"lead", "sub", "work", "tools"}

MCEdges == [lead |-> "sub", sub |-> "lead", work |-> "tools", tools |-> "work"]

MCSucc == [n \in MCNodes |->
             [a \in Actions |-> IF a = "default" THEN MCEdges[n] ELSE NoNode]]
MCRetries == [n \in MCNodes |-> IF n \in {"sub", "work"} THEN 2 ELSE 1]
MCInner == [n \in MCNodes |->
              CASE n = "sub" -> "work" [] n = "tools" -> "lead" [] OTHER -> NoNode]
MCCap == [n \in MCNodes |-> 2]
MCCalls == [n \in MCNodes |-> IF n = "tools" THEN 2 ELSE 1]
MCExpose == [n \in MCNodes |-> IF n = "sub" THEN Inherit ELSE "default"]
=============================================================================
