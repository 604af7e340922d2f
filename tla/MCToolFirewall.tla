---------------------------- MODULE MCToolFirewall ----------------------------
(***************************************************************************)
(* Small instances of ToolFirewall: a warning, a block and two reviews.    *)
(***************************************************************************)
EXTENDS ToolFirewall

CONSTANTS u1, u2, r1

Rule(id, a) ==
    [id |-> id, stage |-> "tool", action |-> a, priority |-> 0, severity |-> "high"]

MCPolicy ==
    {Rule(1, "warn"), Rule(2, "block"), Rule(3, "require_human_review"),
     Rule(4, "require_human_review")}

Invocation(method, offers, hits) == [method |-> method, offers |-> offers, hits |-> hits]

(* MCP requests that are blocked or reviewed, under two rules; a tool      *)
(* whose wrapper falls back, warned of or reviewed, under one of the two;  *)
(* and one that its wrapper, having fallen back, cannot run.               *)
MCInvocations ==
    {Invocation("handle", {"callable"}, hits) : hits \in {{2}, {3, 4}}}
        \cup {Invocation("ainvoke", {"callable"}, hits) : hits \in {{1}, {3}}}
        \cup {Invocation("acall", {}, {1})}

(* Tokens for one request and its rules, or for everything; and others     *)
(* that claim everything, with a signature of another secret or none.      *)
MCShapes == {<<"same", "same", "same">>, <<"any", "any", "any">>}
MCForged == {Token(Wildcard, Wildcard, {}, MaxClock, s) : s \in {"forged", "incomparable"}}

MCConfigs == [approval : BOOLEAN, audit : BOOLEAN]
=============================================================================
