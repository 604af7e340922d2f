------------------------------ MODULE MCGateway ------------------------------
(***************************************************************************)
(* Small instances of Gateway.  One policy has every action somewhere, and *)
(* each stage a rule that asks for a review.                               *)
(***************************************************************************)
EXTENDS Gateway, TLC

CONSTANTS c1, c2, c3

Rule(id, s, a) ==
    [id |-> id, stage |-> s, action |-> a, priority |-> 0, severity |-> "high"]

MCPolicy ==
    {Rule(1, "input", "require_human_review"), Rule(2, "input", "block"),
     Rule(3, "output", "require_human_review"), Rule(4, "output", "redact"),
     Rule(5, "tool", "require_human_review"), Rule(6, "tool", "block"),
     Rule(7, "tool", "warn")}

MCConfigs ==
    {[provider |-> TRUE, policy |-> TRUE, approval |-> TRUE, audit |-> TRUE],
     [provider |-> TRUE, policy |-> TRUE, approval |-> FALSE, audit |-> TRUE],
     [provider |-> TRUE, policy |-> TRUE, approval |-> TRUE, audit |-> FALSE],
     [provider |-> TRUE, policy |-> FALSE, approval |-> FALSE, audit |-> TRUE],
     [provider |-> FALSE, policy |-> FALSE, approval |-> FALSE, audit |-> FALSE]}

MCGuarded == {[provider |-> TRUE, policy |-> TRUE, approval |-> TRUE, audit |-> TRUE]}

MCPrompts == {{}, {1}, {2}}

(* Two tool calls of which the second is blocked; one to review and one    *)
(* that passes; a text to review; a text to redact.                        *)
MCReplies ==
    {[choices |-> <<{}>>, tools |-> <<{7}, {6}>>],
     [choices |-> <<{}>>, tools |-> <<{5}, {7}>>],
     [choices |-> <<{3}>>, tools |-> <<>>],
     [choices |-> <<{4}>>, tools |-> <<>>]}

(* A review at each of the later stages.                                   *)
MCReviewedReplies ==
    {[choices |-> <<{3}>>, tools |-> <<>>], [choices |-> <<{}>>, tools |-> <<{5}>>]}

(* A text to redact in the second choice, with a blocked tool call.        *)
MCMixedReplies ==
    {[choices |-> <<{}, {4}>>, tools |-> <<{6}>>]}

Symmetry == Permutations(Calls)

MCForged == {Token(Wildcard, Wildcard, {}, Ttl, s) : s \in {"forged", "incomparable"}}
MCExact == {<<"same", "same", "same">>}
MCShapes == {<<"same", "same", "same">>, <<"any", "any", "any">>}
=============================================================================
