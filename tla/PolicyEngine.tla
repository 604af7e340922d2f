---------------------------- MODULE PolicyEngine ----------------------------
(***************************************************************************)
(* PolicyEngine.evaluate (policy/engine.py): which rules of the loaded     *)
(* policy match a piece of content, and which action they add up to.       *)
(*                                                                         *)
(* Content is abstracted to the set of ids of the rules whose match        *)
(* criteria it meets (its "hits").  A rule id is a natural number: the     *)
(* place of the id in the string order, which is all the sort looks at.    *)
(*                                                                         *)
(* An operator whose name starts with Faulty is a mutant of the definition *)
(* that follows it.                                                        *)
(***************************************************************************)
EXTENDS Integers, FiniteSets, Sequences

Stages == {"input", "output", "tool"}

ActionOrder ==
    [allow |-> 0, warn |-> 1, redact |-> 2, require_human_review |-> 3, block |-> 4]

SeverityOrder == [low |-> 0, medium |-> 1, high |-> 2, critical |-> 3]

Actions == {"allow", "warn", "redact", "require_human_review", "block"}

Rules == [id : Nat, stage : Stages, action : Actions, priority : Int,
          severity : DOMAIN SeverityOrder]

-----------------------------------------------------------------------------

(* The rules of `policy` whose stage and criteria match.                   *)
Matched(policy, stage, hits) ==
    {r \in policy : r.stage = stage /\ r.id \in hits}

RuleIds(matched) == {r.id : r \in matched}

FaultyRanksAbove(r, s) ==                                 \* priority before action
    LET key(x) == <<x.priority, ActionOrder[x.action],
                    SeverityOrder[x.severity], x.id>>
    IN  \E k \in 1..4 : /\ key(r)[k] > key(s)[k]
                        /\ \A j \in 1..(k - 1) : key(r)[j] = key(s)[j]

(* r comes before s in sorted(..., reverse=True).                          *)
RanksAbove(r, s) ==
    LET key(x) == <<ActionOrder[x.action], x.priority,
                    SeverityOrder[x.severity], x.id>>
    IN  \E k \in 1..4 : /\ key(r)[k] > key(s)[k]
                        /\ \A j \in 1..(k - 1) : key(r)[j] = key(s)[j]

Ranked(matched) ==
    CHOOSE ranking \in [1..Cardinality(matched) -> matched] :
        \A i, j \in DOMAIN ranking : i < j => RanksAbove(ranking[i], ranking[j])

(* The EvaluationResult: the head of the ranking gives the action.         *)
Evaluate(policy, stage, hits) ==
    LET matched == Matched(policy, stage, hits)
    IN  [action  |-> IF matched = {} THEN "allow" ELSE Ranked(matched)[1].action,
         matched |-> IF matched = {} THEN <<>> ELSE Ranked(matched)]

(* What the ranking amounts to for the action: the strictest one wins,     *)
(* "allow" if nothing matches.  The run of MCPolicyEngine checks that this *)
(* is Evaluate's action; the modules that only need the action use it.     *)
Strictest(matched) ==
    CHOOSE a \in {r.action : r \in matched} \cup {"allow"} :
        \A r \in matched : ActionOrder[r.action] <= ActionOrder[a]
=============================================================================
