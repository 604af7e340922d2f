--------------------------- MODULE MCPolicyEngine ---------------------------
(***************************************************************************)
(* The engine under every policy that can be written, one rule at a time,  *)
(* from a pool in which actions, priorities, severities and ids disagree.  *)
(***************************************************************************)
EXTENDS PolicyEngine

CONSTANTS Ids, Priorities, Severities

ASSUME PoolAssumption ==
    Ids \subseteq Nat /\ Priorities \subseteq Int /\ Severities \subseteq DOMAIN SeverityOrder

VARIABLE rules

Pool == [id : Ids, stage : {"input", "tool"}, action : Actions,
         priority : Priorities, severity : Severities]

Init == rules = {}

(* load_policy_files appends a rule and refuses a duplicate id.            *)
AddRule(r) ==
    /\ r.id \notin RuleIds(rules)
    /\ rules' = rules \cup {r}

Next == \E r \in Pool : AddRule(r)

Spec == Init /\ [][Next]_rules

-----------------------------------------------------------------------------

(* POLICY_SPEC: the strictest matched action wins, whatever the priorities, *)
(* severities and ids of the rules that matched; and the result lists every *)
(* matched rule exactly once, the deciding one first.                       *)
StrictestActionWins ==
    \A stage \in {"input", "tool"}, hits \in SUBSET Ids :
        LET matched == Matched(rules, stage, hits)
            result  == Evaluate(rules, stage, hits)
        IN  /\ result.action = Strictest(matched)
            /\ Len(result.matched) = Cardinality(matched)
            /\ {result.matched[i] : i \in DOMAIN result.matched} = matched

(* Adding a rule to a policy never turns a decision into a weaker one: a   *)
(* high-priority "allow" cannot switch off somebody else's "block".        *)
AddingARuleNeverWeakens ==
    [][\A stage \in {"input", "tool"}, hits \in SUBSET Ids :
          ActionOrder[Evaluate(rules, stage, hits).action]
            <= ActionOrder[Evaluate(rules', stage, hits).action]]_rules
=============================================================================
