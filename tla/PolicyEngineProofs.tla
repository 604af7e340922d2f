------------------------- MODULE PolicyEngineProofs -------------------------
(***************************************************************************)
(* What the strictest matched action is, for every policy: it exists, no   *)
(* matched rule is stricter, and more rules never weaken it; and it is the *)
(* action of evaluate, whose sort puts a rule that has it first.           *)
(***************************************************************************)
EXTENDS PolicyEngine, FiniteSetTheorems, WellFoundedInduction, TLAPS

LEMMA ActionOrderInjective ==
    \A a, b \in Actions : ActionOrder[a] \in 0..4
                          /\ (ActionOrder[a] = ActionOrder[b] => a = b)
BY DEF Actions, ActionOrder

(* Whatever matched, one of the five actions bounds every matched action.  *)
LEMMA StrictestExists ==
    ASSUME NEW matched, \A r \in matched : r.action \in Actions
    PROVE  \E a \in {r.action : r \in matched} \cup {"allow"} :
              \A r \in matched : ActionOrder[r.action] <= ActionOrder[a]
<1> DEFINE Has(a) == \E r \in matched : r.action = a
           Bounds(a) == \A r \in matched : ActionOrder[r.action] <= ActionOrder[a]
<1>1. \A r \in matched : r.action \in Actions
  OBVIOUS
<1>2. CASE Has("block")
  <2>1. Bounds("block")
    BY <1>1 DEF Actions, ActionOrder
  <2> QED BY <1>2, <2>1
<1>3. CASE ~Has("block") /\ Has("require_human_review")
  <2>1. Bounds("require_human_review")
    BY <1>1, <1>3 DEF Actions, ActionOrder
  <2> QED BY <1>3, <2>1
<1>4. CASE ~Has("block") /\ ~Has("require_human_review") /\ Has("redact")
  <2>1. Bounds("redact")
    BY <1>1, <1>4 DEF Actions, ActionOrder
  <2> QED BY <1>4, <2>1
<1>5. CASE ~Has("block") /\ ~Has("require_human_review") /\ ~Has("redact") /\ Has("warn")
  <2>1. Bounds("warn")
    BY <1>1, <1>5 DEF Actions, ActionOrder
  <2> QED BY <1>5, <2>1
<1>6. CASE ~Has("block") /\ ~Has("require_human_review") /\ ~Has("redact") /\ ~Has("warn")
  <2>1. Bounds("allow")
    BY <1>1, <1>6 DEF Actions, ActionOrder
  <2> QED BY <2>1
<1> QED BY <1>2, <1>3, <1>4, <1>5, <1>6

LEMMA StrictestIsBound ==
    ASSUME NEW matched, \A r \in matched : r.action \in Actions
    PROVE  /\ Strictest(matched) \in {r.action : r \in matched} \cup {"allow"}
           /\ Strictest(matched) \in Actions
           /\ \A r \in matched : ActionOrder[r.action] <= ActionOrder[Strictest(matched)]
<1>1. /\ Strictest(matched) \in {r.action : r \in matched} \cup {"allow"}
      /\ \A r \in matched : ActionOrder[r.action] <= ActionOrder[Strictest(matched)]
  BY StrictestExists DEF Strictest
<1> QED BY <1>1 DEF Actions

(* The strictest action is an action of a matched rule, or "allow"; and no *)
(* matched rule asks for a stricter one (PolicyEngine.evaluate's head).    *)
THEOREM StrictestBounds ==
    ASSUME NEW matched \in SUBSET Rules
    PROVE  /\ Strictest(matched) \in {r.action : r \in matched} \cup {"allow"}
           /\ Strictest(matched) \in Actions
           /\ \A r \in matched : ActionOrder[r.action] <= ActionOrder[Strictest(matched)]
<1>1. \A r \in matched : r.action \in Actions
  BY DEF Rules
<1> QED BY <1>1, StrictestIsBound

(* What more matches is decided no more weakly.                            *)
LEMMA StrictestGrows ==
    ASSUME NEW fewer, NEW more, fewer \subseteq more, \A r \in more : r.action \in Actions
    PROVE  ActionOrder[Strictest(fewer)] <= ActionOrder[Strictest(more)]
<1>1. /\ \A r \in fewer : r.action \in Actions
      /\ Strictest(fewer) \in Actions /\ Strictest(more) \in Actions
  BY StrictestIsBound
<1>2. CASE \E r \in fewer : r.action = Strictest(fewer)
  BY <1>2, StrictestIsBound
<1>3. CASE Strictest(fewer) = "allow"
  BY <1>1, <1>3 DEF Actions, ActionOrder
<1> QED BY <1>1, <1>2, <1>3, StrictestIsBound

(* A policy extended by more rules never decides more weakly: whoever adds *)
(* a rule file cannot switch off what another file blocks.                 *)
THEOREM MoreRulesNeverWeaken ==
    ASSUME NEW policy \in SUBSET Rules, NEW more \in SUBSET Rules, policy \subseteq more,
           NEW stage, NEW hits
    PROVE  ActionOrder[Strictest(Matched(policy, stage, hits))]
             <= ActionOrder[Strictest(Matched(more, stage, hits))]
<1>1. /\ Matched(policy, stage, hits) \subseteq Matched(more, stage, hits)
      /\ \A r \in Matched(more, stage, hits) : r.action \in Actions
  BY DEF Matched, Rules
<1> QED BY <1>1, StrictestGrows

-----------------------------------------------------------------------------
(* The ranking.                                                            *)

DistinctIds(rules) == \A r, s \in rules : r.id = s.id => r = s

(* r comes before s, spelled out: the first of the four places in which    *)
(* they differ decides.                                                    *)
Precedes(r, s) ==
    \/ ActionOrder[r.action] > ActionOrder[s.action]
    \/ /\ ActionOrder[r.action] = ActionOrder[s.action]
       /\ \/ r.priority > s.priority
          \/ /\ r.priority = s.priority
             /\ \/ SeverityOrder[r.severity] > SeverityOrder[s.severity]
                \/ /\ SeverityOrder[r.severity] = SeverityOrder[s.severity]
                   /\ r.id > s.id

LEMMA RanksAboveIsPrecedes ==
    ASSUME NEW r, NEW s
    PROVE  RanksAbove(r, s) <=> Precedes(r, s)
<1> DEFINE key(x) == <<ActionOrder[x.action], x.priority, SeverityOrder[x.severity], x.id>>
           Decides(k) == key(r)[k] > key(s)[k] /\ \A j \in 1..(k - 1) : key(r)[j] = key(s)[j]
<1>1. RanksAbove(r, s) <=> \E k \in 1..4 : Decides(k)
  BY DEF RanksAbove
<1>2. (\E k \in 1..4 : Decides(k)) <=> Decides(1) \/ Decides(2) \/ Decides(3) \/ Decides(4)
  <2> HIDE DEF Decides
  <2> QED OBVIOUS
<1>3. /\ key(r)[1] = ActionOrder[r.action] /\ key(s)[1] = ActionOrder[s.action]
      /\ key(r)[2] = r.priority /\ key(s)[2] = s.priority
      /\ key(r)[3] = SeverityOrder[r.severity] /\ key(s)[3] = SeverityOrder[s.severity]
      /\ key(r)[4] = r.id /\ key(s)[4] = s.id
  OBVIOUS
<1> HIDE DEF key
<1>4. /\ Decides(1) <=> key(r)[1] > key(s)[1]
      /\ Decides(2) <=> key(r)[2] > key(s)[2] /\ key(r)[1] = key(s)[1]
      /\ Decides(3) <=> key(r)[3] > key(s)[3] /\ key(r)[1] = key(s)[1] /\ key(r)[2] = key(s)[2]
      /\ Decides(4) <=> /\ key(r)[4] > key(s)[4] /\ key(r)[1] = key(s)[1]
                        /\ key(r)[2] = key(s)[2] /\ key(r)[3] = key(s)[3]
  OBVIOUS
<1> HIDE DEF Decides
<1> QED BY <1>1, <1>2, <1>3, <1>4 DEF Precedes

LEMMA KeyTypes ==
    ASSUME NEW r \in Rules
    PROVE  /\ ActionOrder[r.action] \in Int /\ r.priority \in Int
           /\ SeverityOrder[r.severity] \in Int /\ r.id \in Int
BY DEF Rules, Actions, ActionOrder, SeverityOrder

(* Rules with distinct ids are strictly and totally ordered.               *)
LEMMA PrecedesOrders ==
    ASSUME NEW r \in Rules, NEW s \in Rules, NEW t \in Rules
    PROVE  /\ ~Precedes(r, r)
           /\ Precedes(r, s) /\ Precedes(s, t) => Precedes(r, t)
           /\ r.id # s.id => Precedes(r, s) \/ Precedes(s, r)
BY KeyTypes DEF Precedes

Ranking(f, rules) ==
    /\ f \in [1..Cardinality(rules) -> rules]
    /\ \A i, j \in DOMAIN f : i < j => RanksAbove(f[i], f[j])

(* A finite set of rules has a last one.                                   *)
HasLast(rules) == \E m \in rules : \A r \in rules \ {m} : Precedes(r, m)

(* Stands in for induction over the size of a set.                         *)
LEMMA Smallest ==
    ASSUME NEW T \in SUBSET Nat, T # {}
    PROVE  \E m \in T : \A n \in T : m <= n
<1>1. T \subseteq Nat
  OBVIOUS
<1>2. PICK m \in T : \A n \in T : ~(<<n, m>> \in OpToRel(<, Nat))
  BY <1>1, NatLessThanWellFounded, WFMin
<1>3. ASSUME NEW n \in T PROVE m <= n
  <2>1. m \in Nat /\ n \in Nat
    BY <1>1
  <2>2. ~(n < m)
    BY <1>2, <2>1 DEF OpToRel
  <2> QED BY <2>1, <2>2
<1> QED BY <1>3

Rankable(rules) ==
    rules \in SUBSET Rules /\ IsFiniteSet(rules) /\ DistinctIds(rules)

LEMMA LastExists ==
    ASSUME NEW rules, Rankable(rules), rules # {}
    PROVE  HasLast(rules)
<1> DEFINE Without == {n \in Nat : \E T : /\ Rankable(T) /\ T # {} /\ ~HasLast(T)
                                          /\ Cardinality(T) = n}
<1>1. ASSUME Without # {} PROVE FALSE
  <2>1. Without \in SUBSET Nat
    OBVIOUS
  <2>2. PICK n \in Without : \A k \in Without : n <= k
    BY ONLY <1>1, <2>1, Smallest
  <2>3. PICK T : Rankable(T) /\ T # {} /\ ~HasLast(T) /\ Cardinality(T) = n
    OBVIOUS
  <2>4. PICK x \in T : TRUE
    BY <2>3
  <2>5. /\ IsFiniteSet(T \ {x}) /\ Cardinality(T \ {x}) = n - 1
        /\ Cardinality(T \ {x}) \in Nat /\ Rankable(T \ {x}) /\ n \in Nat
    BY <2>3, FS_RemoveElement, FS_CardinalityType DEF Rankable, DistinctIds
  <2>6. CASE T \ {x} = {}
    BY <2>3, <2>6 DEF HasLast
  <2>7. CASE T \ {x} # {}
    <3>1. HasLast(T \ {x})
      <4>1. n - 1 \notin Without
        BY <2>2, <2>5
      <4> QED BY <2>5, <2>7, <4>1
    <3>2. PICK m \in T \ {x} : \A r \in (T \ {x}) \ {m} : Precedes(r, m)
      BY <3>1 DEF HasLast
    <3>3. T \subseteq Rules /\ m # x /\ m \in T /\ m.id # x.id
      BY <2>3 DEF Rankable, DistinctIds
    <3>4. CASE Precedes(x, m)
      BY <2>3, <3>2, <3>3, <3>4 DEF HasLast
    <3>5. CASE Precedes(m, x)
      <4>1. \A r \in T \ {x} : Precedes(r, x)
        BY <3>2, <3>3, <3>5, PrecedesOrders
      <4> QED BY <2>3, <4>1 DEF HasLast
    <3> QED BY <3>3, <3>4, <3>5, PrecedesOrders
  <2> QED BY <2>6, <2>7
<1>2. Cardinality(rules) \in Nat
  BY FS_CardinalityType DEF Rankable
<1> QED BY <1>1, <1>2

LEMMA RankingExists ==
    ASSUME NEW rules, Rankable(rules)
    PROVE  \E f : Ranking(f, rules)
<1> DEFINE Unranked == {n \in Nat : \E T : /\ Rankable(T) /\ ~(\E f : Ranking(f, T))
                                           /\ Cardinality(T) = n}
<1>1. ASSUME Unranked # {} PROVE FALSE
  <2>1. Unranked \in SUBSET Nat
    OBVIOUS
  <2>2. PICK n \in Unranked : \A k \in Unranked : n <= k
    BY ONLY <1>1, <2>1, Smallest
  <2>3. PICK T : Rankable(T) /\ ~(\E f : Ranking(f, T)) /\ Cardinality(T) = n
    OBVIOUS
  <2>4. T # {}
    <3>1. SUFFICES ASSUME T = {} PROVE FALSE
      OBVIOUS
    <3>2. Cardinality(T) = 0
      BY <3>1, FS_EmptySet
    <3>3. PICK f : f = [i \in {} |-> i]
      OBVIOUS
    <3>4. 1..0 = {} /\ f \in [{} -> T] /\ DOMAIN f = {}
      BY <3>3
    <3> QED BY <2>3, <3>2, <3>4 DEF Ranking
  <2>5. PICK m \in T : \A r \in T \ {m} : Precedes(r, m)
    BY <2>3, <2>4, LastExists DEF HasLast
  <2>6. /\ IsFiniteSet(T \ {m}) /\ Cardinality(T \ {m}) = n - 1
        /\ Cardinality(T \ {m}) \in Nat /\ Rankable(T \ {m}) /\ n \in Nat
    BY <2>3, FS_RemoveElement, FS_CardinalityType DEF Rankable, DistinctIds
  <2>7. n - 1 \notin Unranked
    BY <2>2, <2>6
  <2>8. PICK f : Ranking(f, T \ {m})
    BY <2>6, <2>7
  <2>9. /\ f \in [1..(n - 1) -> T \ {m}]
        /\ \A i, j \in 1..(n - 1) : i < j => RanksAbove(f[i], f[j])
    BY <2>6, <2>8 DEF Ranking
  <2>10. PICK g : g = [i \in 1..n |-> IF i = n THEN m ELSE f[i]]
    OBVIOUS
  <2>11. g \in [1..n -> T] /\ DOMAIN g = 1..n
    BY <2>6, <2>9, <2>10
  <2>12. ASSUME NEW i \in 1..n, NEW j \in 1..n, i < j PROVE RanksAbove(g[i], g[j])
    <3>1. i \in 1..(n - 1) /\ g[i] = f[i] /\ f[i] \in T \ {m}
      BY <2>6, <2>9, <2>10, <2>12
    <3>2. CASE j = n
      BY <2>5, <2>10, <3>1, <3>2, RanksAboveIsPrecedes
    <3>3. CASE j # n
      <4>1. j \in 1..(n - 1) /\ g[j] = f[j]
        BY <2>6, <2>10, <3>3
      <4> QED BY <2>9, <2>12, <3>1, <4>1
    <3> QED BY <3>2, <3>3
  <2> QED BY <2>3, <2>11, <2>12 DEF Ranking
<1>2. Cardinality(rules) \in Nat
  BY FS_CardinalityType DEF Rankable
<1> QED BY <1>1, <1>2

(* A ranking names every rule, the strictest first.                        *)
LEMMA RankingCovers ==
    ASSUME NEW rules, Rankable(rules), NEW f, Ranking(f, rules)
    PROVE  /\ {f[i] : i \in DOMAIN f} = rules
           /\ rules # {} => /\ 1 \in DOMAIN f
                            /\ \A r \in rules : ActionOrder[r.action] <= ActionOrder[f[1].action]
<1>1. PICK n \in Nat : n = Cardinality(rules)
  BY FS_CardinalityType DEF Rankable
<1>2. f \in [1..n -> rules] /\ DOMAIN f = 1..n /\ rules \subseteq Rules
  BY <1>1 DEF Ranking, Rankable
<1>3. \A i, j \in 1..n : i < j => Precedes(f[i], f[j])
  BY <1>2, RanksAboveIsPrecedes DEF Ranking
<1>4. \A i, j \in 1..n : i # j => f[i] # f[j]
  <2> SUFFICES ASSUME NEW i \in 1..n, NEW j \in 1..n, i # j PROVE f[i] # f[j]
    OBVIOUS
  <2>1. i < j \/ j < i
    OBVIOUS
  <2>2. f[i] \in Rules /\ f[j] \in Rules
    BY <1>2
  <2> QED BY <1>3, <2>1, <2>2, PrecedesOrders
<1>5. f \in Injection(1..n, rules)
  BY <1>2, <1>4 DEF Injection, IsInjective
<1>6. IsFiniteSet(rules) /\ Cardinality(1..n) = n
  BY FS_Interval DEF Rankable
<1>7. f \in Surjection(1..n, rules)
  BY <1>1, <1>5, <1>6, FS_Injection
<1>8. \A r \in rules : \E i \in 1..n : f[i] = r
  BY <1>7 DEF Surjection
<1>9. {f[i] : i \in DOMAIN f} = rules
  BY <1>2, <1>8
<1>10. ASSUME rules # {}
       PROVE  /\ 1 \in DOMAIN f
              /\ \A r \in rules : ActionOrder[r.action] <= ActionOrder[f[1].action]
  <2>1. 1 \in 1..n
    BY <1>8, <1>10
  <2>2. ASSUME NEW r \in rules PROVE ActionOrder[r.action] <= ActionOrder[f[1].action]
    <3>1. PICK i \in 1..n : f[i] = r
      BY <1>8
    <3>2. f[1] \in Rules /\ r \in Rules
      BY <1>2, <2>1
    <3>3. i = 1 \/ 1 < i
      OBVIOUS
    <3>4. f[1] = r \/ Precedes(f[1], r)
      BY <1>3, <2>1, <3>1, <3>3
    <3> QED BY <3>2, <3>4, KeyTypes DEF Precedes
  <2> QED BY <1>2, <2>1, <2>2
<1> QED BY <1>9, <1>10

(* The result of evaluate, for every policy of distinct ids, stage and     *)
(* content: its action is the strictest matched one, whatever the          *)
(* priorities and severities, and it lists every matched rule once.        *)
THEOREM EvaluateTakesTheStrictest ==
    ASSUME NEW policy, Rankable(policy), NEW stage, NEW hits
    PROVE  LET matched == Matched(policy, stage, hits)
               result  == Evaluate(policy, stage, hits)
           IN  /\ result.action = Strictest(matched)
               /\ Len(result.matched) = Cardinality(matched)
               /\ {result.matched[i] : i \in DOMAIN result.matched} = matched
<1> DEFINE matched == Matched(policy, stage, hits)
           result  == Evaluate(policy, stage, hits)
<1>1. Rankable(matched)
  <2>1. matched \in SUBSET policy
    BY DEF Matched
  <2>2. IsFiniteSet(matched)
    BY <2>1, FS_Subset DEF Rankable
  <2> QED BY <2>1, <2>2 DEF Rankable, DistinctIds
<1>2. CASE matched = {}
  <2>1. result = [action |-> "allow", matched |-> <<>>]
    BY <1>2 DEF Evaluate
  <2>2. Strictest(matched) = "allow"
    BY <1>1, <1>2, StrictestBounds DEF Rankable
  <2>3. Cardinality(matched) = 0
    BY <1>2, FS_EmptySet
  <2> QED BY <1>2, <2>1, <2>2, <2>3
<1>3. CASE matched # {}
  <2> HIDE DEF matched
  <2>1. Ranking(Ranked(matched), matched)
    <3>1. \E f : Ranking(f, matched)
      BY <1>1, RankingExists
    <3>2. Ranked(matched) =
            (CHOOSE f \in [1..Cardinality(matched) -> matched] :
                \A i, j \in DOMAIN f : i < j => RanksAbove(f[i], f[j]))
      BY DEF Ranked
    <3> QED BY <3>1, <3>2 DEF Ranking
  <2>2. result = [action |-> Ranked(matched)[1].action, matched |-> Ranked(matched)]
    BY <1>3 DEF Evaluate, matched
  <2>3. PICK f : f = Ranked(matched)
    OBVIOUS
  <2>4. /\ {f[i] : i \in DOMAIN f} = matched
        /\ 1 \in DOMAIN f
        /\ \A r \in matched : ActionOrder[r.action] <= ActionOrder[f[1].action]
    BY <1>1, <1>3, <2>1, <2>3, RankingCovers
  <2>5. PICK n \in Nat : n = Cardinality(matched)
    BY <1>1, FS_CardinalityType DEF Rankable
  <2>6. f \in [1..n -> matched]
    BY <2>1, <2>3, <2>5 DEF Ranking
  <2>7. Len(f) = n
    BY <2>6
  <2>8. f[1].action = Strictest(matched)
    <3>1. matched \in SUBSET Rules
      BY <1>1 DEF Rankable
    <3>2. f[1] \in matched
      BY <2>4
    <3>3. /\ Strictest(matched) \in {r.action : r \in matched} \cup {"allow"}
          /\ ActionOrder[f[1].action] <= ActionOrder[Strictest(matched)]
          /\ Strictest(matched) \in Actions
      BY <3>1, <3>2, StrictestBounds
    <3>4. f[1].action \in Actions
      BY <3>1, <3>2 DEF Rules
    <3>5. ActionOrder[Strictest(matched)] <= ActionOrder[f[1].action]
      <4>1. ActionOrder["allow"] = 0
        BY DEF ActionOrder
      <4>2. ActionOrder[f[1].action] \in 0..4
        BY <3>4, ActionOrderInjective
      <4> QED BY <2>4, <3>3, <4>1, <4>2
    <3>6. ActionOrder[f[1].action] = ActionOrder[Strictest(matched)]
      BY <3>3, <3>4, <3>5, ActionOrderInjective
    <3> QED BY <3>3, <3>4, <3>6, ActionOrderInjective
  <2>9. result.action = f[1].action /\ result.matched = f
    BY <2>2, <2>3
  <2>10. /\ result.action = Strictest(matched) /\ Len(result.matched) = Cardinality(matched)
         /\ {result.matched[i] : i \in DOMAIN result.matched} = matched
    BY <2>4, <2>5, <2>7, <2>8, <2>9
  <2> QED BY <2>10 DEF matched
<1> QED BY <1>2, <1>3
=============================================================================
