---------------------------- MODULE RankingProofs ----------------------------
(***************************************************************************)
(* The properties of the engine, proved for every pool of rules, however   *)
(* large, and every policy that is written from it one rule at a time.     *)
(***************************************************************************)
EXTENDS MCPolicyEngine, PolicyEngineProofs

(* What loading keeps: finitely many rules, all well-formed, no id twice.  *)
LoadedInv == Rankable(rules) /\ rules \subseteq Pool

LEMMA InitLoadedInv == Init => LoadedInv
BY FS_EmptySet DEF Init, LoadedInv, Rankable, DistinctIds

LEMMA PoolIsOfRules == Pool \subseteq Rules
BY PoolAssumption DEF Pool, Rules, Stages

LEMMA NextLoadedInv ==
    ASSUME LoadedInv, [Next]_rules
    PROVE  LoadedInv'
<1>1. CASE rules' = rules
  BY <1>1 DEF LoadedInv, Rankable, DistinctIds
<1>2. CASE Next
  <2>1. PICK r \in Pool : AddRule(r)
    BY <1>2 DEF Next
  <2>2. rules' = rules \cup {r} /\ r \notin rules /\ \A s \in rules : s.id # r.id
    BY <2>1 DEF AddRule, RuleIds
  <2>3. IsFiniteSet(rules')
    BY <2>2, FS_AddElement DEF LoadedInv, Rankable
  <2>4. rules' \subseteq Pool /\ rules' \subseteq Rules
    BY <2>2, PoolIsOfRules DEF LoadedInv
  <2>5. DistinctIds(rules')
    BY <2>2 DEF LoadedInv, Rankable, DistinctIds
  <2> QED BY <2>3, <2>4, <2>5 DEF LoadedInv, Rankable
<1> QED BY <1>1, <1>2

LEMMA LoadedInvariant == Spec => []LoadedInv
<1>1. LoadedInv /\ [Next]_rules => LoadedInv'
  BY NextLoadedInv
<1> QED BY InitLoadedInv, <1>1, PTL DEF Spec

(* Whatever rules were loaded, evaluate's action is the strictest of those *)
(* that match, and its result lists each of them once (engine.py).         *)
THEOREM StrictestAlwaysWins == Spec => []StrictestActionWins
<1>1. LoadedInv => StrictestActionWins
  <2> SUFFICES ASSUME LoadedInv, NEW stage \in {"input", "tool"}, NEW hits \in SUBSET Ids
               PROVE  LET matched == Matched(rules, stage, hits)
                          result  == Evaluate(rules, stage, hits)
                      IN  /\ result.action = Strictest(matched)
                          /\ Len(result.matched) = Cardinality(matched)
                          /\ {result.matched[i] : i \in DOMAIN result.matched} = matched
    BY DEF StrictestActionWins
  <2>1. Rankable(rules)
    BY DEF LoadedInv
  <2> QED BY <2>1, EvaluateTakesTheStrictest
<1> QED BY LoadedInvariant, <1>1, PTL

(* Loading one more rule never turns a decision of evaluate into a weaker  *)
(* one.                                                                    *)
THEOREM LoadingNeverWeakens == Spec => AddingARuleNeverWeakens
<1> DEFINE Kept == \A stage \in {"input", "tool"}, hits \in SUBSET Ids :
                      ActionOrder[Evaluate(rules, stage, hits).action]
                        <= ActionOrder[Evaluate(rules', stage, hits).action]
<1>1. LoadedInv /\ [Next]_rules => [Kept]_rules
  <2> SUFFICES ASSUME LoadedInv, Next, NEW stage \in {"input", "tool"}, NEW hits \in SUBSET Ids
               PROVE  ActionOrder[Evaluate(rules, stage, hits).action]
                        <= ActionOrder[Evaluate(rules', stage, hits).action]
    OBVIOUS
  <2>1. Rankable(rules) /\ Rankable(rules') /\ rules \subseteq rules'
    BY NextLoadedInv DEF LoadedInv, Next, AddRule, Rankable, DistinctIds
  <2>2. /\ Evaluate(rules, stage, hits).action = Strictest(Matched(rules, stage, hits))
        /\ Evaluate(rules', stage, hits).action = Strictest(Matched(rules', stage, hits))
    BY <2>1, EvaluateTakesTheStrictest
  <2>3. rules \in SUBSET Rules /\ rules' \in SUBSET Rules
    BY <2>1 DEF Rankable
  <2> QED BY <2>1, <2>2, <2>3, MoreRulesNeverWeaken
<1> QED BY LoadedInvariant, <1>1, PTL DEF Spec, AddingARuleNeverWeakens
=============================================================================
