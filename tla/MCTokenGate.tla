----------------------------- MODULE MCTokenGate -----------------------------
(***************************************************************************)
(* Two tools, the second without a route; that of the first is restricted. *)
(***************************************************************************)
EXTENDS TokenGate, TLC

CONSTANT read

TwoTools == {"crm", "mail"}
OneTool == {"crm"}

OnlyCrm == [tool \in TwoTools |-> IF tool = "crm" THEN [op |-> None] ELSE None]
OpenCrm == [tool \in OneTool |-> [op |-> None]]
ReadOnlyCrm == {[tool |-> "crm", route |-> [op |-> read]]}

Alike == Permutations(Handlers) \cup Permutations(Tokens)
=============================================================================
