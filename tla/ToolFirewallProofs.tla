-------------------------- MODULE ToolFirewallProofs --------------------------
(***************************************************************************)
(* Proofs about ToolFirewall, for every set of uses, tools, arguments and  *)
(* request ids, every policy, and any number of checks in flight: no tool  *)
(* runs uncleared or unrecorded, rejected tokens are on record, and every  *)
(* step of the middleware and its wrappers is a step of GuardedCall, the   *)
(* abstract guard before the tool, or none.                                *)
(***************************************************************************)
EXTENDS ToolFirewall, PolicyEngineProofs, SequenceTheorems

-----------------------------------------------------------------------------
(* What the operators return.                                              *)

LEMMA MatchedType ==
    ASSUME NEW u
    PROVE  /\ Matched(Policy, "tool", use[u].hits) \in SUBSET Rules
           /\ MatchedIds(u) \in SUBSET Ids
BY FirewallPolicyAssumption DEF Matched, MatchedIds, RuleIds, Ids

LEMMA VerdictType ==
    ASSUME NEW u
    PROVE  Verdict(u) \in Actions
<1> DEFINE matched == Matched(Policy, "tool", use[u].hits)
<1>1. matched \in SUBSET Rules
  BY MatchedType
<1> HIDE DEF matched
<1>2. Strictest(matched) \in Actions
  BY <1>1, StrictestBounds
<1> QED BY <1>2 DEF Verdict, matched

LEMMA MethodsType ==
    /\ DOMAIN FallsBackTo \subseteq Methods
    /\ \A m \in DOMAIN FallsBackTo : FallsBackTo[m] \in Methods
BY DEF Methods, Runs, FallsBackTo

(* The event a step of a use logs, and the log it leaves.                  *)
LEMMA LogType ==
    ASSUME TypeOK, NEW u \in Uses,
           NEW type \in {"policy_decision", "approval"},
           NEW decision \in Actions \cup {"approved", "rejected"},
           MayLog(u, type, decision)
    PROVE  audit' \in Seq([use : Uses, rid : Rids, check : {1, 2},
                           type : {"policy_decision", "approval"},
                           decision : Actions \cup {"approved", "rejected"},
                           rules : SUBSET Ids, at : Nat])
<1> DEFINE event == [use |-> u, rid |-> use[u].rid, check |-> check[u], type |-> type,
                     decision |-> decision, rules |-> MatchedIds(u), at |-> clock]
           events == [use : Uses, rid : Rids, check : {1, 2},
                      type : {"policy_decision", "approval"},
                      decision : Actions \cup {"approved", "rejected"},
                      rules : SUBSET Ids, at : Nat]
<1>1. audit \in Seq(events)
  BY DEF TypeOK
<1>2. event \in events
  BY MatchedType DEF TypeOK
<1>3. audit' = audit \/ audit' = Append(audit, event)
  BY DEF MayLog, Log
<1> HIDE DEF event, events
<1>4. audit' \in Seq(events)
  BY <1>1, <1>2, <1>3
<1> QED BY <1>4 DEF events

-----------------------------------------------------------------------------
(* Type correctness.                                                       *)

UseRecords == [method : Methods, offers : SUBSET Capabilities, hits : SUBSET Ids,
               token : Tokens \cup {NoToken}, rid : Rids]

LEMMA InitTypeOK == Init => TypeOK
BY DEF Init, TypeOK, Methods, Runs, Rids, FreshIds

(* A step that only moves a use, and may log for it.                       *)
LEMMA MoveTypeOK ==
    ASSUME TypeOK, NEW u \in Uses,
           NEW place \in {"idle", "called", "judged", "cleared", "running"} \cup Ended,
           Goto(u, place), UNCHANGED <<config, clock, issued, use, check, ran>>,
           \/ UNCHANGED audit
           \/ \E type \in {"policy_decision", "approval"},
                 decision \in Actions \cup {"approved", "rejected"} :
                 MayLog(u, type, decision)
    PROVE  TypeOK'
<1>1. CASE UNCHANGED audit
  BY <1>1 DEF TypeOK, Goto
<1>2. ASSUME NEW type \in {"policy_decision", "approval"},
             NEW decision \in Actions \cup {"approved", "rejected"},
             MayLog(u, type, decision)
      PROVE  TypeOK'
  BY <1>2, LogType DEF TypeOK, Goto
<1> QED BY <1>1, <1>2

LEMMA NextTypeOK == TypeOK /\ [Next]_vars => TypeOK'
<1> SUFFICES ASSUME TypeOK, [Next]_vars PROVE TypeOK'
  OBVIOUS
<1>1. ASSUME NEW u \in Uses,
             \/ Pass(u) \/ Block(u) \/ Demand(u) \/ Choke(u) \/ RejectPayload(u)
             \/ CheckFault(u) \/ FindNothing(u)
      PROVE  TypeOK'
  BY <1>1, MoveTypeOK DEF Pass, Block, Demand, Choke, RejectPayload, CheckFault,
     FindNothing, Ended
<1>2. ASSUME NEW u \in Uses, EvaluateToolCall(u) \/ Accept(u) \/ Reject(u)
      PROVE  TypeOK'
  <2>1. Verdict(u) \in Actions
    BY VerdictType
  <2> QED BY <1>2, <2>1, MoveTypeOK DEF EvaluateToolCall, Accept, Reject, MayLog, Ended
<1>3. ASSUME NEW u \in Uses, AuditFault(u) PROVE TypeOK'
  <2>1. Verdict(u) \in Actions
    BY VerdictType
  <2> QED BY <1>3, <2>1, MoveTypeOK DEF AuditFault, Ended
<1>4. ASSUME NEW u \in Uses, CheckAgain(u) PROVE TypeOK'
  <2>1. <<u, 2>> \in Rids /\ FallsBackTo[use[u].method] \in Methods
    BY <1>4, MethodsType DEF CheckAgain, Rids, FreshIds
  <2> DEFINE again == [method |-> FallsBackTo[use[u].method], offers |-> use[u].offers,
                       hits |-> use[u].hits, token |-> NoToken, rid |-> <<u, 2>>]
  <2>2. again \in UseRecords
    BY <2>1 DEF TypeOK, UseRecords
  <2>3. use' = [use EXCEPT ![u] = again]
    <3>1. use \in [Uses -> UseRecords]
      BY DEF TypeOK, UseRecords
    <3>2. /\ DOMAIN use' = Uses /\ \A v \in Uses \ {u} : use'[v] = use[v]
          /\ use' = [v \in Uses |-> use'[v]]
      BY <1>4, <3>1 DEF CheckAgain
    <3>3. use'[u] = again
      BY <1>4, <3>1 DEF CheckAgain, UseRecords
    <3> HIDE DEF again
    <3> QED BY <3>1, <3>2, <3>3
  <2> HIDE DEF again
  <2>4. use' \in [Uses -> UseRecords]
    BY <2>2, <2>3 DEF TypeOK, UseRecords
  <2>5. pc' = [pc EXCEPT ![u] = "called"] /\ check' = [check EXCEPT ![u] = 2]
        /\ UNCHANGED <<config, clock, issued, audit, ran>>
    BY <1>4 DEF CheckAgain, Goto
  <2> QED BY <2>4, <2>5 DEF TypeOK, UseRecords
<1>5. ASSUME NEW u \in Uses, Execute(u) PROVE TypeOK'
  BY <1>5 DEF Execute, Goto, TypeOK
<1>6. ASSUME NEW u \in Uses, ToolEnds(u) PROVE TypeOK'
  BY <1>6, MoveTypeOK DEF ToolEnds, Ended
<1>7. ASSUME NEW u \in Uses, Call(u) PROVE TypeOK'
  <2>1. PICK call \in Invocations, token \in issued \cup ForgedTokens \cup {NoToken},
             rid \in RequestIds \cup {<<u, 1>>} \cup
                     {use[v].rid : v \in {w \in Uses : pc[w] = "review_required"}} :
             use' = [use EXCEPT ![u] = [method |-> call.method, offers |-> call.offers,
                                        hits |-> call.hits, token |-> token, rid |-> rid]]
    BY <1>7 DEF Call
  <2>2. rid \in Rids
    BY <2>1 DEF TypeOK, Rids, FreshIds
  <2>3. /\ call.method \in Methods /\ call.offers \in SUBSET Capabilities
        /\ call.hits \in SUBSET Ids /\ token \in Tokens \cup {NoToken}
    BY <2>1, FirewallInputsAssumption DEF TypeOK
  <2> DEFINE called == [method |-> call.method, offers |-> call.offers,
                        hits |-> call.hits, token |-> token, rid |-> rid]
  <2>4. called \in UseRecords
    BY <2>2, <2>3 DEF UseRecords
  <2> HIDE DEF called
  <2>5. use' \in [Uses -> UseRecords]
    BY <2>1, <2>4 DEF TypeOK, UseRecords, called
  <2>6. pc' = [pc EXCEPT ![u] = "called"]
        /\ UNCHANGED <<config, clock, issued, audit, check, ran>>
    BY <1>7 DEF Call, Goto
  <2> QED BY <2>5, <2>6 DEF TypeOK, UseRecords
<1>8. ASSUME NEW u \in Uses, IssueFor(u) PROVE TypeOK'
  <2>1. ASSUME NEW rid \in {use[u].rid, Wildcard}, NEW stage \in {"tool", Wildcard},
               NEW rules \in {MatchedIds(u), {}}
        PROVE  Issue(rid, stage, rules, clock, Ttl) \in Tokens
    <3>1. clock + Ttl \in Nat /\ use[u].rid \in Rids
      BY FirewallInputsAssumption DEF TypeOK
    <3>2. MatchedIds(u) \in SUBSET Ids
      BY MatchedType
    <3> QED BY <3>1, <3>2 DEF Issue, Token, Tokens, Signatures, Stages
  <2> QED BY <1>8, <2>1 DEF IssueFor, TypeOK
<1>9. CASE Tick
  BY <1>9 DEF Tick, TypeOK
<1>10. CASE Crash
  BY <1>10 DEF Crash, TypeOK, Ended
<1>11. CASE UNCHANGED vars
  BY <1>11 DEF vars, TypeOK
<1> QED BY <1>1, <1>2, <1>3, <1>4, <1>5, <1>6, <1>7, <1>8, <1>9, <1>10, <1>11
        DEF Next, Guard

(* Every variable keeps its type (gateway/middleware.py).                  *)
THEOREM FirewallTypeCorrect == Spec => []TypeOK
BY InitTypeOK, NextTypeOK, PTL DEF Spec

-----------------------------------------------------------------------------
(* What one use's step leaves alone.                                       *)

Same(v) ==
    /\ pc'[v] = pc[v] /\ use'[v] = use[v] /\ check'[v] = check[v]
    /\ v \in ran' <=> v \in ran

(* Whatever a step logs comes after what is there, and is about its use.   *)
Keeps ==
    /\ DOMAIN audit \subseteq DOMAIN audit'
    /\ \A i \in DOMAIN audit : audit'[i] = audit[i]

Adds(u) ==
    /\ Keeps
    /\ \A i \in DOMAIN audit' \ DOMAIN audit : audit'[i].use = u
    /\ \A i \in DOMAIN audit, j \in DOMAIN audit' \ DOMAIN audit : i < j

LEMMA AppendAdds ==
    ASSUME TypeOK, NEW u, NEW e, audit' = Append(audit, e), e.use = u
    PROVE  /\ Adds(u)
           /\ Len(audit) + 1 \in DOMAIN audit' /\ audit'[Len(audit) + 1] = e
           /\ \A i \in DOMAIN audit' : i <= Len(audit) + 1
<1>1. /\ DOMAIN audit = 1..Len(audit) /\ Len(audit) \in Nat
      /\ DOMAIN audit' = 1..(Len(audit) + 1)
      /\ audit'[Len(audit) + 1] = e
      /\ \A i \in DOMAIN audit : audit'[i] = audit[i]
  BY DEF TypeOK
<1> QED BY <1>1 DEF Adds, Keeps

LEMMA LogAdds ==
    ASSUME TypeOK, NEW u, NEW type, NEW decision, MayLog(u, type, decision)
    PROVE  Adds(u)
<1>1. CASE audit' = audit
  BY <1>1 DEF Adds, Keeps
<1>2. CASE audit' # audit
  <2> DEFINE e == [use |-> u, rid |-> use[u].rid, check |-> check[u], type |-> type,
                   decision |-> decision, rules |-> MatchedIds(u), at |-> clock]
  <2>1. audit' = Append(audit, e) /\ e.use = u
    BY <1>2 DEF MayLog, Log
  <2> HIDE DEF e
  <2> QED BY <2>1, AppendAdds
<1> QED BY <1>1, <1>2

LEMMA OthersSame ==
    ASSUME TypeOK, NEW u \in Uses, Guard(u) \/ Call(u) \/ ToolEnds(u) \/ IssueFor(u)
    PROVE  /\ \A v \in Uses \ {u} : Same(v)
           /\ config' = config /\ issued \subseteq issued'
           /\ Adds(u)
<1>1. CASE EvaluateToolCall(u) \/ Accept(u) \/ Reject(u) \/ AuditFault(u)
  <2>1. Adds(u)
    BY <1>1, LogAdds DEF EvaluateToolCall, Accept, Reject, AuditFault, MayLog
  <2> QED BY <1>1, <2>1 DEF EvaluateToolCall, Accept, Reject, AuditFault, Goto, Same, TypeOK
<1>2. CASE \/ Pass(u) \/ Block(u) \/ Demand(u) \/ Choke(u) \/ RejectPayload(u)
           \/ CheckFault(u) \/ CheckAgain(u) \/ Execute(u) \/ FindNothing(u) \/ Call(u)
           \/ ToolEnds(u) \/ IssueFor(u)
  <2>1. audit' = audit /\ config' = config /\ issued \subseteq issued'
    BY <1>2 DEF Pass, Block, Demand, Choke, RejectPayload, CheckFault, CheckAgain, Execute,
       FindNothing, Call, ToolEnds, IssueFor
  <2>2. \A v \in Uses \ {u} : Same(v)
    BY <1>2 DEF Pass, Block, Demand, Choke, RejectPayload, CheckFault, CheckAgain, Execute,
       FindNothing, Call, ToolEnds, IssueFor, Goto, Same, TypeOK
  <2> QED BY <2>1, <2>2 DEF Adds, Keeps
<1> QED BY <1>1, <1>2 DEF Guard

-----------------------------------------------------------------------------
(* What the log says of a use stays said.                                  *)

LEMMA DecisionStays ==
    ASSUME Keeps, NEW v, use'[v].hits = use[v].hits, NEW k,
           \E i \in DOMAIN audit : Decides(v, k, audit[i])
    PROVE  \E i \in DOMAIN audit' : Decides(v, k, audit[i])'
BY DEF Keeps, Decides, Verdict

LEMMA CheckStays ==
    ASSUME Keeps, NEW v, use'[v] = use[v], NEW k, CheckIsLogged(v, k)
    PROVE  CheckIsLogged(v, k)'
<1>1. PICK i \in DOMAIN audit :
          /\ Decides(v, k, audit[i])
          /\ Verdict(v) = "require_human_review" =>
                \E j \in DOMAIN audit : j > i /\ Approves(v, k, audit[j])
  BY DEF CheckIsLogged
<1>2. Verdict(v)' = Verdict(v)
  BY DEF Verdict
<1>3. i \in DOMAIN audit' /\ Decides(v, k, audit[i])'
  BY <1>1, <1>2 DEF Keeps, Decides
<1>4. ASSUME Verdict(v) = "require_human_review"
      PROVE  \E j \in DOMAIN audit' : j > i /\ Approves(v, k, audit[j])'
  BY <1>1, <1>4 DEF Keeps, Approves
<1> QED BY <1>2, <1>3, <1>4 DEF CheckIsLogged

LEMMA LastStays ==
    ASSUME NEW u, Adds(u), NEW v, v # u, NEW i \in DOMAIN audit, LastOf(v, i)
    PROVE  i \in DOMAIN audit' /\ LastOf(v, i)'
BY DEF Adds, Keeps, LastOf

LEMMA WordStays ==
    ASSUME NEW u, Adds(u), NEW v, v # u, NEW decision, LastWord(v, decision)
    PROVE  LastWord(v, decision)'
<1>1. PICK i \in DOMAIN audit : LastOf(v, i) /\ audit[i].decision = decision
  BY DEF LastWord
<1>2. i \in DOMAIN audit' /\ LastOf(v, i)' /\ audit'[i] = audit[i]
  BY <1>1, LastStays DEF Adds, Keeps
<1> QED BY <1>1, <1>2 DEF LastWord

(* A use that does not move keeps its invariant.                           *)
LEMMA OthersKeep ==
    ASSUME NEW u, NEW v, v # u, Same(v), Adds(u),
           config' = config, issued \subseteq issued', UseInv(v), TrailInv(v)
    PROVE  UseInv(v)' /\ TrailInv(v)'
<1>1. /\ Verdict(v)' = Verdict(v) /\ MatchedIds(v)' = MatchedIds(v)
      /\ HasToken(v)' <=> HasToken(v)
      /\ Chokes(v)' <=> Chokes(v)
  BY DEF Same, Verdict, MatchedIds, HasToken, Chokes
<1>2. Cleared(v) => Cleared(v)'
  BY <1>1 DEF Cleared, Grants, Same
<1>3. UseInv(v)'
  BY <1>1, <1>2 DEF UseInv, Same
<1>4. ASSUME config.audit, check[v] = 2
      PROVE  \E i \in DOMAIN audit' : Decides(v, 1, audit[i])'
  BY <1>4, DecisionStays DEF TrailInv, Same, Adds
<1>5. ASSUME config.audit, pc[v] = "judged"
      PROVE  \E i \in DOMAIN audit' : LastOf(v, i)' /\ Decides(v, check[v], audit[i])'
  <2>1. PICK i \in DOMAIN audit : LastOf(v, i) /\ Decides(v, check[v], audit[i])
    BY <1>5 DEF TrailInv
  <2>2. i \in DOMAIN audit' /\ LastOf(v, i)'
    BY <2>1, LastStays
  <2>3. Decides(v, check[v], audit[i])'
    BY <1>1, <2>1 DEF Decides, Adds, Keeps, Same
  <2> QED BY <2>2, <2>3
<1>6. ASSUME config.audit, pc[v] \in {"cleared", "running"} \/ v \in ran
      PROVE  CheckIsLogged(v, check[v])'
  <2>1. CheckIsLogged(v, check[v])
    BY <1>6 DEF TrailInv
  <2>2. PICK k : k = check[v]
    OBVIOUS
  <2>3. CheckIsLogged(v, k)'
    BY <2>1, <2>2, CheckStays DEF Same, Adds
  <2> QED BY <2>2, <2>3 DEF Same
<1>7. ASSUME config.audit, pc[v] = "review_required" PROVE RefusalIsLogged(v)'
  <2>1. PICK decision : /\ decision = IF HasToken(v) THEN "rejected" ELSE "require_human_review"
                        /\ LastWord(v, decision)
    BY <1>7 DEF TrailInv, RefusalIsLogged
  <2>2. LastWord(v, decision)'
    BY <2>1, WordStays
  <2> QED BY <1>1, <2>1, <2>2 DEF RefusalIsLogged
<1>9. ASSUME config.audit, pc[v] = "choked"
      PROVE  Chokes(v)' /\ LastWord(v, "require_human_review")'
  BY <1>1, <1>9, WordStays DEF TrailInv
<1>8. TrailInv(v)'
  BY <1>4, <1>5, <1>6, <1>7, <1>9 DEF TrailInv, Same
<1> QED BY <1>3, <1>8

-----------------------------------------------------------------------------
(* The steps of a use.                                                     *)

DecisionLast(u) ==
    \E i \in DOMAIN audit : LastOf(u, i) /\ Decides(u, check[u], audit[i])

(* A use that stays as it was called, and moves, owes what its new place   *)
(* asks for.                                                               *)
LEMMA MoveKeeps ==
    ASSUME NEW u, UseInv(u), TrailInv(u), Keeps,
           use'[u] = use[u], check'[u] = check[u], config' = config, issued \subseteq issued',
           pc'[u] = "idle" => pc[u] = "idle",
           u \in ran' => pc'[u] \in {"running", "returned", "failed", "lost"},
           pc'[u] \in {"cleared", "running"} \/ u \in ran' => Cleared(u),
           pc'[u] = "review_required" => Verdict(u) = "require_human_review",
           config.audit =>
              /\ pc'[u] = "judged" => DecisionLast(u)'
              /\ pc'[u] \in {"cleared", "running"} \/ u \in ran' => CheckIsLogged(u, check[u])'
              /\ pc'[u] = "review_required" => RefusalIsLogged(u)'
              /\ pc'[u] = "choked" => Chokes(u) /\ LastWord(u, "require_human_review")'
    PROVE  UseInv(u)' /\ TrailInv(u)'
<1>1. /\ Verdict(u)' = Verdict(u) /\ MatchedIds(u)' = MatchedIds(u)
      /\ Chokes(u)' <=> Chokes(u)
  BY DEF Verdict, MatchedIds, Chokes, HasToken
<1>2. Cleared(u) => Cleared(u)'
  BY <1>1 DEF Cleared, Grants
<1>3. UseInv(u)'
  BY <1>1, <1>2 DEF UseInv
<1>4. ASSUME config.audit, check[u] = 2
      PROVE  \E i \in DOMAIN audit' : Decides(u, 1, audit[i])'
  BY <1>4, DecisionStays DEF TrailInv
<1>5. TrailInv(u)'
  BY <1>1, <1>4 DEF TrailInv, DecisionLast
<1> QED BY <1>3, <1>5

(* The decision just made, once the verdict lets the use pass.             *)
LEMMA PassedIsLogged ==
    ASSUME NEW u, TrailInv(u), config.audit, pc[u] = "judged",
           Verdict(u) # "require_human_review"
    PROVE  CheckIsLogged(u, check[u])
BY DEF TrailInv, CheckIsLogged

LEMMA EvaluateKeeps ==
    ASSUME TypeOK, NEW u \in Uses, UseInv(u), TrailInv(u), EvaluateToolCall(u)
    PROVE  UseInv(u)' /\ TrailInv(u)'
<1>1. /\ use' = use /\ check' = check /\ config' = config /\ issued' = issued /\ ran' = ran
      /\ pc'[u] = "judged" /\ u \notin ran /\ Adds(u)
  BY OthersSame DEF EvaluateToolCall, Guard, Goto, TypeOK, UseInv
<1>2. ASSUME config.audit PROVE DecisionLast(u)'
  <2>1. PICK e : /\ audit' = Append(audit, e)
                 /\ e = [use |-> u, rid |-> use[u].rid, check |-> check[u],
                         type |-> "policy_decision", decision |-> Verdict(u),
                         rules |-> MatchedIds(u), at |-> clock]
    BY <1>2 DEF EvaluateToolCall, Log
  <2>2. e.use = u /\ Decides(u, check[u], e)'
    BY <1>1, <2>1 DEF Decides, Verdict
  <2>3. /\ Len(audit) + 1 \in DOMAIN audit' /\ audit'[Len(audit) + 1] = e
        /\ \A i \in DOMAIN audit' : i <= Len(audit) + 1
    BY <2>1, <2>2, AppendAdds
  <2>4. PICK n : n = Len(audit) + 1
    OBVIOUS
  <2>5. n \in DOMAIN audit' /\ LastOf(u, n)' /\ Decides(u, check[u], audit[n])'
    BY <2>2, <2>3, <2>4 DEF LastOf, Decides
  <2> QED BY <2>5 DEF DecisionLast
<1> QED BY <1>1, <1>2, MoveKeeps DEF Adds

LEMMA PassKeeps ==
    ASSUME TypeOK, NEW u \in Uses, UseInv(u), TrailInv(u), Pass(u)
    PROVE  UseInv(u)' /\ TrailInv(u)'
<1>1. /\ UNCHANGED <<config, issued, audit, use, check, ran>>
      /\ pc[u] = "judged" /\ pc'[u] = "cleared"
      /\ Verdict(u) \in {"allow", "warn", "redact"} /\ Keeps /\ u \notin ran
  BY DEF Pass, Goto, TypeOK, Keeps, UseInv
<1>2. config.audit => CheckIsLogged(u, check[u])'
  BY <1>1, PassedIsLogged, CheckStays
<1> QED BY <1>1, <1>2, MoveKeeps DEF Cleared

LEMMA StopKeeps ==
    ASSUME TypeOK, NEW u \in Uses, UseInv(u), TrailInv(u),
           \/ Block(u) \/ RejectPayload(u) \/ CheckFault(u) \/ FindNothing(u)
           \/ AuditFault(u)
    PROVE  UseInv(u)' /\ TrailInv(u)'
<1>1. /\ UNCHANGED <<config, issued, use, check, ran>>
      /\ pc'[u] \in {"blocked", "failed"} /\ u \notin ran
  BY DEF Block, RejectPayload, CheckFault, FindNothing, AuditFault, Goto, TypeOK, UseInv
<1>2. Keeps
  BY OthersSame DEF Guard, Adds
<1> QED BY <1>1, <1>2, MoveKeeps

LEMMA DemandKeeps ==
    ASSUME TypeOK, NEW u \in Uses, UseInv(u), TrailInv(u), Demand(u)
    PROVE  UseInv(u)' /\ TrailInv(u)'
<1>1. /\ UNCHANGED <<config, issued, audit, use, check, ran>>
      /\ pc[u] = "judged" /\ pc'[u] = "review_required" /\ ~HasToken(u)
      /\ Verdict(u) = "require_human_review" /\ Keeps /\ u \notin ran
  BY DEF Demand, Goto, TypeOK, Keeps, UseInv
<1>2. ASSUME config.audit PROVE RefusalIsLogged(u)'
  <2>1. PICK i \in DOMAIN audit : LastOf(u, i) /\ Decides(u, check[u], audit[i])
    BY <1>1, <1>2 DEF TrailInv
  <2>2. ~HasToken(u)' /\ audit[i].decision = "require_human_review"
    BY <1>1, <2>1 DEF HasToken, Decides
  <2> QED BY <1>1, <2>1, <2>2 DEF RefusalIsLogged, LastWord, LastOf
<1> QED BY <1>1, <1>2, MoveKeeps

(* A token that cannot be compared leaves the decision the last word.      *)
LEMMA ChokeKeeps ==
    ASSUME TypeOK, NEW u \in Uses, UseInv(u), TrailInv(u), Choke(u)
    PROVE  UseInv(u)' /\ TrailInv(u)'
<1>1. /\ UNCHANGED <<config, issued, audit, use, check, ran>>
      /\ pc[u] = "judged" /\ pc'[u] = "choked" /\ Chokes(u)
      /\ Verdict(u) = "require_human_review" /\ Keeps /\ u \notin ran
  BY DEF Choke, Goto, TypeOK, Keeps, UseInv
<1>2. ASSUME config.audit PROVE LastWord(u, "require_human_review")'
  <2>1. PICK i \in DOMAIN audit : LastOf(u, i) /\ Decides(u, check[u], audit[i])
    BY <1>1, <1>2 DEF TrailInv
  <2> QED BY <1>1, <2>1 DEF LastWord, LastOf, Decides
<1> QED BY <1>1, <1>2, MoveKeeps

(* An accepted token is one the manager issued, and it covers the very     *)
(* decision it is presented for.                                           *)
LEMMA AcceptedIsCleared ==
    ASSUME TypeOK, NEW u \in Uses, UseInv(u),
           Verdict(u) = "require_human_review", Acceptable(u)
    PROVE  /\ Cleared(u)
           /\ clock <= use[u].token.exp
<1>1. /\ config.approval /\ use[u].token # NoToken
      /\ use[u].token.signature = "genuine" /\ ~(use[u].token.exp < clock)
      /\ Covers(use[u].token, use[u].rid, "tool", MatchedIds(u))
  BY DEF Acceptable, HasToken, Allows, Decodes
<1>2. use[u].token \in issued
  BY <1>1, FirewallInputsAssumption DEF UseInv
<1>3. use[u].token.exp \in Nat /\ clock \in Nat
  BY <1>2 DEF TypeOK, Tokens
<1>4. Grants(use[u].token, u)
  BY <1>1, <1>2 DEF Covers, Grants
<1> QED BY <1>1, <1>3, <1>4 DEF Cleared

LEMMA AcceptKeeps ==
    ASSUME TypeOK, NEW u \in Uses, UseInv(u), TrailInv(u), Accept(u)
    PROVE  UseInv(u)' /\ TrailInv(u)'
<1>1. /\ UNCHANGED <<config, issued, use, check, ran>>
      /\ pc[u] = "judged" /\ pc'[u] = "cleared" /\ u \notin ran
      /\ Verdict(u) = "require_human_review" /\ Acceptable(u)
  BY DEF Accept, Goto, TypeOK, UseInv
<1>2. Cleared(u) /\ clock <= use[u].token.exp
  BY <1>1, AcceptedIsCleared
<1>3. Keeps
  BY OthersSame DEF Guard, Adds
<1>4. ASSUME config.audit PROVE CheckIsLogged(u, check[u])'
  <2>1. PICK e : /\ audit' = Append(audit, e)
                 /\ e = [use |-> u, rid |-> use[u].rid, check |-> check[u],
                         type |-> "approval", decision |-> "approved",
                         rules |-> MatchedIds(u), at |-> clock]
    BY <1>4 DEF Accept, Log
  <2>2. e.use = u /\ Approves(u, check[u], e)'
    BY <1>1, <1>2, <2>1 DEF Approves
  <2>3. Len(audit) + 1 \in DOMAIN audit' /\ audit'[Len(audit) + 1] = e
    BY <2>1, <2>2, AppendAdds
  <2>4. PICK i \in DOMAIN audit : Decides(u, check[u], audit[i])
    BY <1>1, <1>4 DEF TrailInv
  <2>5. i \in DOMAIN audit' /\ Decides(u, check[u], audit[i])'
    BY <1>1, <1>3, <2>4 DEF Keeps, Decides, Verdict
  <2>6. PICK n : n = Len(audit) + 1
    OBVIOUS
  <2>7. n > i
    BY <2>4, <2>6 DEF TypeOK
  <2>8. n \in DOMAIN audit' /\ Approves(u, check[u], audit[n])'
    BY <2>2, <2>3, <2>6 DEF Approves
  <2> QED BY <2>5, <2>7, <2>8 DEF CheckIsLogged
<1> QED BY <1>1, <1>2, <1>3, <1>4, MoveKeeps

LEMMA RejectKeeps ==
    ASSUME TypeOK, NEW u \in Uses, UseInv(u), TrailInv(u), Reject(u)
    PROVE  UseInv(u)' /\ TrailInv(u)'
<1>1. /\ UNCHANGED <<config, issued, use, check, ran>>
      /\ pc'[u] = "review_required" /\ u \notin ran
      /\ Verdict(u) = "require_human_review" /\ HasToken(u)
  BY DEF Reject, Goto, TypeOK, UseInv
<1>2. Keeps
  BY OthersSame DEF Guard, Adds
<1>3. ASSUME config.audit PROVE RefusalIsLogged(u)'
  <2> DEFINE e == [use |-> u, rid |-> use[u].rid, check |-> check[u],
                   type |-> "approval", decision |-> "rejected",
                   rules |-> MatchedIds(u), at |-> clock]
  <2>1. audit' = Append(audit, e) /\ e.use = u /\ e.decision = "rejected"
    BY <1>3 DEF Reject, Log
  <2> HIDE DEF e
  <2>2. /\ Len(audit) + 1 \in DOMAIN audit' /\ audit'[Len(audit) + 1] = e
        /\ \A i \in DOMAIN audit' : i <= Len(audit) + 1
    BY <2>1, AppendAdds
  <2>3. PICK n : n = Len(audit) + 1
    OBVIOUS
  <2>4. n \in DOMAIN audit' /\ LastOf(u, n)' /\ audit'[n].decision = "rejected"
    BY <2>1, <2>2, <2>3 DEF LastOf
  <2>5. HasToken(u)'
    BY <1>1 DEF HasToken
  <2> QED BY <2>4, <2>5 DEF RefusalIsLogged, LastWord
<1> QED BY <1>1, <1>2, <1>3, MoveKeeps

LEMMA CheckAgainKeeps ==
    ASSUME TypeOK, NEW u \in Uses, UseInv(u), TrailInv(u), CheckAgain(u)
    PROVE  UseInv(u)' /\ TrailInv(u)'
<1>1. /\ UNCHANGED <<config, issued, audit, ran>>
      /\ pc[u] = "cleared" /\ pc'[u] = "called" /\ u \notin ran
      /\ use'[u].hits = use[u].hits /\ use'[u].token = NoToken
      /\ check[u] \in {1, 2} /\ check'[u] = 2
  BY DEF CheckAgain, Goto, TypeOK, UseInv
<1>2. ASSUME config.audit PROVE \E i \in DOMAIN audit : Decides(u, 1, audit[i])
  BY <1>1, <1>2 DEF TrailInv, CheckIsLogged
<1>3. config.audit => \E i \in DOMAIN audit' : Decides(u, 1, audit[i])'
  BY <1>1, <1>2, DecisionStays DEF Keeps
<1> QED BY <1>1, <1>3 DEF UseInv, TrailInv

LEMMA RunKeeps ==
    ASSUME TypeOK, NEW u \in Uses, UseInv(u), TrailInv(u), Execute(u) \/ ToolEnds(u)
    PROVE  UseInv(u)' /\ TrailInv(u)'
<1>1. /\ UNCHANGED <<config, issued, audit, use, check>> /\ Keeps
      /\ pc[u] \in {"cleared", "running"} /\ pc'[u] \in {"running", "returned", "failed"}
  BY DEF Execute, ToolEnds, Goto, TypeOK, Keeps
<1>2. Cleared(u)
  BY <1>1 DEF UseInv
<1>3. config.audit => CheckIsLogged(u, check[u])'
  BY <1>1, CheckStays DEF TrailInv
<1> QED BY <1>1, <1>2, <1>3, MoveKeeps

LEMMA CallKeeps ==
    ASSUME TypeOK, NEW u \in Uses, UseInv(u), TrailInv(u), Call(u)
    PROVE  UseInv(u)' /\ TrailInv(u)'
<1>1. /\ UNCHANGED <<config, issued, audit, check, ran>>
      /\ pc[u] = "idle" /\ pc'[u] = "called"
      /\ use'[u].token \in issued \cup ForgedTokens \cup {NoToken}
  BY DEF Call, Goto, TypeOK
<1> QED BY <1>1 DEF UseInv, TrailInv

(* Nothing happens to the use, or it is lost in a crash.                   *)
LEMMA RestKeeps ==
    ASSUME NEW u, UseInv(u), TrailInv(u),
           UNCHANGED <<config, audit, use, check, ran>>, issued \subseteq issued',
           \/ pc'[u] = pc[u]
           \/ pc[u] # "idle" /\ pc'[u] = "lost"
    PROVE  UseInv(u)' /\ TrailInv(u)'
<1>1. Keeps
  BY DEF Keeps
<1>2. /\ DecisionLast(u) => DecisionLast(u)'
      /\ RefusalIsLogged(u) => RefusalIsLogged(u)'
      /\ LastWord(u, "require_human_review") => LastWord(u, "require_human_review")'
      /\ CheckIsLogged(u, check[u]) => CheckIsLogged(u, check[u])'
  BY DEF DecisionLast, RefusalIsLogged, LastWord, LastOf, HasToken, Decides, Verdict,
     CheckIsLogged, Approves
<1> QED BY <1>1, <1>2, MoveKeeps DEF UseInv, TrailInv, DecisionLast

-----------------------------------------------------------------------------
(* The invariant, and what follows from it.                                *)

LEMMA InitFirewallInv == Init => FirewallInv
BY DEF Init, FirewallInv, UseInv, TrailInv

(* What the manager issues, it has signed.                                 *)
LEMMA IssuedIsGenuine ==
    ASSUME FirewallInv, NEW u \in Uses, IssueFor(u)
    PROVE  \A t \in issued' : t.signature = "genuine"
BY DEF IssueFor, Issue, Token, FirewallInv

LEMMA UseKeeps ==
    ASSUME TypeOK, FirewallInv, NEW u \in Uses,
           Guard(u) \/ Call(u) \/ ToolEnds(u) \/ IssueFor(u)
    PROVE  UseInv(u)' /\ TrailInv(u)'
<1>1. UseInv(u) /\ TrailInv(u)
  BY DEF FirewallInv
<1>2. CASE IssueFor(u)
  BY <1>1, <1>2, RestKeeps DEF IssueFor
<1>3. CASE Execute(u) \/ ToolEnds(u)
  BY <1>1, <1>3, RunKeeps
<1>4. CASE \/ Block(u) \/ RejectPayload(u) \/ CheckFault(u) \/ FindNothing(u)
           \/ AuditFault(u)
  BY <1>1, <1>4, StopKeeps
<1> QED BY <1>1, <1>2, <1>3, <1>4, EvaluateKeeps, PassKeeps, DemandKeeps, ChokeKeeps,
        AcceptKeeps, RejectKeeps, CheckAgainKeeps, CallKeeps DEF Guard

LEMMA NextFirewallInv == TypeOK /\ FirewallInv /\ [Next]_vars => FirewallInv'
<1> SUFFICES ASSUME TypeOK, FirewallInv, [Next]_vars PROVE FirewallInv'
  OBVIOUS
<1>1. ASSUME NEW u \in Uses, Guard(u) \/ Call(u) \/ ToolEnds(u) \/ IssueFor(u)
      PROVE  FirewallInv'
  <2>1. \A t \in issued' : t.signature = "genuine"
    <3>1. CASE IssueFor(u)
      BY <3>1, IssuedIsGenuine
    <3>2. CASE ~IssueFor(u)
      <4>1. issued' = issued
        BY <1>1, <3>2 DEF Guard, EvaluateToolCall, Pass, Block, Accept, Demand, Reject,
           Choke, RejectPayload, CheckFault, AuditFault, CheckAgain, Execute, FindNothing,
           Call, ToolEnds
      <4> QED BY <4>1 DEF FirewallInv
    <3> QED BY <3>1, <3>2
  <2>2. ASSUME NEW v \in Uses PROVE UseInv(v)' /\ TrailInv(v)'
    <3>1. CASE v = u
      BY <1>1, <3>1, UseKeeps
    <3>2. CASE v # u
      BY <1>1, <3>2, OthersSame, OthersKeep DEF FirewallInv
    <3> QED BY <3>1, <3>2
  <2> QED BY <2>1, <2>2 DEF FirewallInv
<1>2. CASE Tick \/ Crash \/ UNCHANGED vars
  <2>1. UNCHANGED <<config, issued, audit, use, check, ran>>
    BY <1>2 DEF Tick, Crash, vars
  <2>2. \A u \in Uses : pc'[u] = pc[u] \/ (pc[u] # "idle" /\ pc'[u] = "lost")
    BY <1>2 DEF Tick, Crash, vars
  <2>3. ASSUME NEW u \in Uses PROVE UseInv(u)' /\ TrailInv(u)'
    BY <2>1, <2>2, RestKeeps DEF FirewallInv
  <2> QED BY <2>1, <2>3 DEF FirewallInv
<1> QED BY <1>1, <1>2 DEF Next

LEMMA FirewallInvAlways == Spec => [](TypeOK /\ FirewallInv)
BY InitTypeOK, NextTypeOK, InitFirewallInv, NextFirewallInv, PTL DEF Spec

(* No tool runs that policy does not let through, unless a token that the  *)
(* manager issued, for this request and every matched rule or for any, was *)
(* presented in that very check; whatever else callers pass for a token    *)
(* (integrations/*.py: check, then run; approvals/tokens.py:79-94).        *)
THEOREM ExecutionIsGuarded == Spec => []ExecutedIsCleared
<1>1. TypeOK /\ FirewallInv => ExecutedIsCleared
  BY DEF TypeOK, FirewallInv, UseInv, ExecutedIsCleared
<1> QED BY <1>1, FirewallInvAlways, PTL

(* No tool runs unrecorded: the decision of every check, and the approval  *)
(* a review needed, are in the log before (middleware.py:208-254).         *)
THEOREM ExecutionIsLogged == Spec => []ExecutedIsLogged
<1>1. ASSUME TypeOK, FirewallInv, config.audit, NEW u \in ran, NEW k \in 1..check[u]
      PROVE  CheckIsLogged(u, k)
  <2>1. UseInv(u) /\ TrailInv(u) /\ check[u] \in {1, 2}
    BY <1>1 DEF FirewallInv, TypeOK
  <2>2. CASE k = check[u]
    BY <1>1, <2>1, <2>2 DEF TrailInv
  <2>3. CASE k # check[u]
    <3>1. check[u] = 2 /\ k = 1
      BY <2>1, <2>3
    <3>2. NoToken \notin issued
      BY <1>1, FirewallInputsAssumption DEF TypeOK
    <3>3. Verdict(u) # "require_human_review"
      BY <1>1, <2>1, <3>1, <3>2 DEF UseInv, Cleared, Grants
    <3> QED BY <1>1, <2>1, <3>1, <3>3 DEF TrailInv, CheckIsLogged
  <2> QED BY <2>2, <2>3
<1>2. TypeOK /\ FirewallInv => ExecutedIsLogged
  BY <1>1 DEF ExecutedIsLogged
<1> QED BY <1>2, FirewallInvAlways, PTL

(* A use that is refused has the last word of its check in the log: the    *)
(* rejection of its token, forged ones included, or the decision; and only *)
(* a token whose comparison raises is turned away without a rejection      *)
(* (middleware.py:299-337, tokens.py:70).                                  *)
THEOREM RejectionsAreLogged == Spec => []RejectionIsLogged
<1>1. TypeOK /\ FirewallInv => RejectionIsLogged
  BY DEF FirewallInv, TrailInv, RejectionIsLogged
<1> QED BY <1>1, FirewallInvAlways, PTL

-----------------------------------------------------------------------------
(* What has been logged so far.                                            *)

(* Whatever is new in the log is of this type, by this check of this use.  *)
Notes(u, type) ==
    \A i \in DOMAIN audit' :
        \/ i \in DOMAIN audit /\ audit'[i] = audit[i]
        \/ audit'[i].use = u /\ audit'[i].check = check[u] /\ audit'[i].type = type

LEMMA LogNotes ==
    ASSUME TypeOK, NEW u, NEW type, NEW decision, MayLog(u, type, decision)
    PROVE  Notes(u, type)
<1>1. CASE audit' = audit
  BY <1>1 DEF Notes
<1>2. CASE audit' # audit
  <2>1. PICK e : /\ audit' = Append(audit, e)
                 /\ e.use = u /\ e.check = check[u] /\ e.type = type
    BY <1>2 DEF MayLog, Log
  <2>2. /\ Len(audit) \in Nat /\ DOMAIN audit = 1..Len(audit)
        /\ DOMAIN audit' = 1..(Len(audit) + 1) /\ audit'[Len(audit) + 1] = e
        /\ \A i \in DOMAIN audit : audit'[i] = audit[i]
    BY <2>1 DEF TypeOK
  <2>3. \A i \in DOMAIN audit' : i \in DOMAIN audit \/ i = Len(audit) + 1
    BY <2>2
  <2> QED BY <2>1, <2>2, <2>3 DEF Notes
<1> QED BY <1>1, <1>2

(* The steps that log, and those that do not.                              *)
LEMMA StepNotes ==
    ASSUME TypeOK, NEW u \in Uses, Guard(u) \/ Call(u) \/ ToolEnds(u) \/ IssueFor(u)
    PROVE  /\ Notes(u, "policy_decision") \/ Notes(u, "approval")
           /\ Pass(u) \/ Accept(u) \/ Block(u) \/ Demand(u) \/ Reject(u)
                => Notes(u, "approval")
           /\ pc[u] = "idle" => audit' = audit
<1>1. EvaluateToolCall(u) \/ AuditFault(u)
      => Notes(u, "policy_decision") \/ Notes(u, "approval")
  BY LogNotes DEF EvaluateToolCall, AuditFault, MayLog
<1>2. \/ RejectPayload(u) \/ CheckFault(u) \/ Choke(u) \/ CheckAgain(u) \/ Execute(u)
      \/ FindNothing(u) \/ Call(u) \/ ToolEnds(u) \/ IssueFor(u)
      => Notes(u, "approval")
  BY DEF RejectPayload, CheckFault, Choke, CheckAgain, Execute, FindNothing, Call,
     ToolEnds, IssueFor, Notes
<1>3. Accept(u) \/ Reject(u) => Notes(u, "approval")
  BY LogNotes DEF Accept, Reject, MayLog
<1>4. Pass(u) \/ Block(u) \/ Demand(u) => Notes(u, "approval")
  BY DEF Pass, Block, Demand, Notes
<1>5. pc[u] = "idle" => audit' = audit
  BY DEF Guard, EvaluateToolCall, Pass, Block, Accept, Demand, Reject, Choke,
     RejectPayload, CheckFault, AuditFault, CheckAgain, Execute, FindNothing, Call,
     ToolEnds, IssueFor
<1>6. Notes(u, "policy_decision") \/ Notes(u, "approval")
  BY <1>1, <1>2, <1>3, <1>4 DEF Guard
<1> QED BY <1>3, <1>4, <1>5, <1>6

LEMMA FallbacksEnd == \A m \in DOMAIN FallsBackTo : FallsBackTo[m] \notin DOMAIN FallsBackTo
BY DEF FallsBackTo

GuardInv == \A u \in Uses : SeenInv(u)

LEMMA InitGuardInv == Init => GuardInv
BY DEF Init, GuardInv, SeenInv

LEMMA NextGuardInv ==
    TypeOK /\ FirewallInv /\ GuardInv /\ [Next]_vars => GuardInv'
<1> SUFFICES ASSUME TypeOK, FirewallInv, GuardInv, [Next]_vars PROVE GuardInv'
  OBVIOUS
<1>0. \A u \in Uses : SeenInv(u)
  BY DEF GuardInv
<1>1. ASSUME NEW u \in Uses, Guard(u) \/ Call(u) \/ ToolEnds(u) \/ IssueFor(u),
             NEW v \in Uses
      PROVE  SeenInv(v)'
  <2>1. \A i \in DOMAIN audit' :
            \/ i \in DOMAIN audit /\ audit'[i] = audit[i]
            \/ audit'[i].use = u /\ audit'[i].check = check[u]
    BY <1>1, StepNotes DEF Notes
  <2>2. CASE v # u
    <3>1. Same(v)
      BY <1>1, <2>2, OthersSame
    <3> QED BY <1>0, <2>1, <2>2, <3>1 DEF SeenInv, Same
  <2>3. CASE v = u
    <3>1. /\ check[u] \in {1, 2} /\ check'[u] \in {1, 2} /\ check'[u] >= check[u]
          /\ pc[u] # "idle" => pc'[u] # "idle"
      BY <1>1 DEF Guard, EvaluateToolCall, Pass, Block, Accept, Demand, Reject, Choke,
         RejectPayload, CheckFault, AuditFault, CheckAgain, Execute, FindNothing, Call,
         ToolEnds, IssueFor, Goto, TypeOK
    <3>2. pc[u] = "idle" => audit' = audit
      BY <1>1, StepNotes
    <3>3. \A i \in DOMAIN audit' :
              audit'[i].use = u => pc'[u] # "idle" /\ audit'[i].check <= check'[u]
      <4> DEFINE events == [use : Uses, rid : Rids, check : {1, 2},
                            type : {"policy_decision", "approval"},
                            decision : Actions \cup {"approved", "rejected"},
                            rules : SUBSET Ids, at : Nat]
      <4>0. audit \in Seq(events) /\ \A e \in events : e.check \in {1, 2}
        BY DEF TypeOK
      <4> HIDE DEF events
      <4>1. \A i \in DOMAIN audit : audit[i].check \in {1, 2}
        BY <4>0
      <4> TAKE i \in DOMAIN audit'
      <4>2. CASE i \in DOMAIN audit /\ audit'[i] = audit[i]
        BY <1>0, <3>1, <4>1, <4>2 DEF SeenInv
      <4>3. CASE audit'[i].check = check[u] /\ pc[u] # "idle"
        BY <3>1, <4>3
      <4> QED BY <2>1, <3>2, <4>2, <4>3
    <3>4. check'[u] = 2 => use'[u].method \notin DOMAIN FallsBackTo
      <4>1. CASE CheckAgain(u)
        <5>1. /\ use[u].method \in DOMAIN FallsBackTo
              /\ use'[u].method = FallsBackTo[use[u].method]
          BY <4>1 DEF CheckAgain, TypeOK
        <5> QED BY <5>1, FallbacksEnd
      <4>2. CASE Call(u)
        BY <4>2 DEF Call, FirewallInv, UseInv
      <4>3. CASE ~(CheckAgain(u) \/ Call(u))
        <5>1. use' = use /\ check' = check
          BY <1>1, <4>3 DEF Guard, EvaluateToolCall, Pass, Block, Accept, Demand, Reject,
             Choke, RejectPayload, CheckFault, AuditFault, Execute, FindNothing, ToolEnds, IssueFor
        <5> QED BY <1>0, <5>1 DEF SeenInv
      <4> QED BY <4>1, <4>2, <4>3
    <3> QED BY <2>3, <3>3, <3>4 DEF SeenInv
  <2> QED BY <2>2, <2>3
<1>2. ASSUME Tick \/ Crash \/ UNCHANGED vars, NEW u \in Uses PROVE SeenInv(u)'
  <2>1. UNCHANGED <<audit, use, check>> /\ (pc[u] # "idle" => pc'[u] # "idle")
    BY <1>2 DEF Tick, Crash, vars
  <2> QED BY <1>0, <2>1 DEF SeenInv
<1> QED BY <1>1, <1>2 DEF Next, GuardInv

LEMMA GuardInvAlways == Spec => []((TypeOK /\ FirewallInv) /\ GuardInv)
BY InitGuardInv, NextGuardInv, FirewallInvAlways, PTL DEF Spec

-----------------------------------------------------------------------------
(* What a step means to the abstract guard.                                *)

Held(v) ==
    /\ Phase(v)' = Phase(v)
    /\ Cleared(v)' <=> Cleared(v)
    /\ OnRecord(v)' <=> OnRecord(v)

LEMMA PhaseType == \A u \in Uses : Phase(u) \in Guarded!Phases
BY DEF Phase, Guarded!Phases

(* A step of one use that the guard allows, seen from outside.             *)
Moves(u) ==
    \/ Held(u)
    \/ Phase(u) = "idle" /\ Phase(u)' = "open" /\ (OnRecord(u)' <=> OnRecord(u))
    \/ /\ Phase(u) = "open" /\ Phase(u)' = "open"
       /\ OnRecord(u)' /\ (Cleared(u)' <=> Cleared(u))
    \/ /\ Phase(u) = "open" /\ Phase(u)' = "open"
       /\ ~OnRecord(u)' /\ (Cleared(u)' => Cleared(u))
    \/ /\ Phase(u) = "open" /\ Phase(u)' = "released"
       /\ Cleared(u) /\ Cleared(u)'
       /\ config.audit => OnRecord(u)
       /\ OnRecord(u)' <=> OnRecord(u)
    \/ /\ Phase(u) = "open" /\ Phase(u)' = "refused"
       /\ Cleared(u)' <=> Cleared(u)
       /\ config.audit => OnRecord(u)
       /\ OnRecord(u)' <=> OnRecord(u)
    \/ /\ Phase(u) \in {"open", "released"} /\ Phase(u)' = "ended"
       /\ Cleared(u)' <=> Cleared(u)
       /\ OnRecord(u) => OnRecord(u)'

LEMMA MovesAreSteps ==
    ASSUME NEW u \in Uses, \A v \in Uses \ {u} : Held(v), config' = config, Moves(u)
    PROVE  Guarded!Next \/ UNCHANGED Guarded!vars
<1>1. CASE Held(u)
  BY <1>1 DEF Held, Guarded!vars
<1>2. CASE Phase(u) = "idle" /\ Phase(u)' = "open" /\ (OnRecord(u)' <=> OnRecord(u))
  <2>1. Guarded!Arrive(u)
    BY <1>2 DEF Held, Guarded!Arrive
  <2> QED BY <2>1 DEF Guarded!Next
<1>3. CASE /\ Phase(u) = "open" /\ Phase(u)' = "open"
           /\ OnRecord(u)' /\ (Cleared(u)' <=> Cleared(u))
  <2>1. Guarded!Record(u)
    BY <1>3 DEF Held, Guarded!Record
  <2> QED BY <2>1 DEF Guarded!Next
<1>4. CASE /\ Phase(u) = "open" /\ Phase(u)' = "open"
           /\ ~OnRecord(u)' /\ (Cleared(u)' => Cleared(u))
  <2>1. Guarded!Reconsider(u)
    BY <1>4 DEF Held, Guarded!Reconsider
  <2> QED BY <2>1 DEF Guarded!Next
<1>5. CASE /\ Phase(u) = "open" /\ Phase(u)' = "released"
           /\ Cleared(u) /\ Cleared(u)' /\ (config.audit => OnRecord(u))
           /\ OnRecord(u)' <=> OnRecord(u)
  <2>1. Guarded!Release(u)
    BY <1>5 DEF Held, Guarded!Release, Guarded!OnRecord
  <2> QED BY <2>1 DEF Guarded!Next
<1>6. CASE /\ Phase(u) = "open" /\ Phase(u)' = "refused"
           /\ Cleared(u)' <=> Cleared(u)
           /\ config.audit => OnRecord(u)
           /\ OnRecord(u)' <=> OnRecord(u)
  <2>1. Guarded!Refuse(u)
    BY <1>6 DEF Held, Guarded!Refuse, Guarded!OnRecord
  <2> QED BY <2>1 DEF Guarded!Next
<1>7. CASE /\ Phase(u) \in {"open", "released"} /\ Phase(u)' = "ended"
           /\ Cleared(u)' <=> Cleared(u)
           /\ OnRecord(u) => OnRecord(u)'
  <2>1. Guarded!End(u)
    BY <1>7 DEF Held, Guarded!End
  <2> QED BY <2>1 DEF Guarded!Next
<1> QED BY <1>1, <1>2, <1>3, <1>4, <1>5, <1>6, <1>7 DEF Moves

-----------------------------------------------------------------------------
(* What each step is.                                                      *)

(* Verdict and clearance depend on the arguments and the token of the use  *)
(* alone: a token in hand that was not issued never comes to be.           *)
LEMMA ClearanceStays ==
    ASSUME TypeOK, TypeOK', FirewallInv, FirewallInv', NEW v \in Uses,
           use'[v] = use[v], config' = config, issued \subseteq issued'
    PROVE  Verdict(v)' = Verdict(v) /\ (Cleared(v)' <=> Cleared(v))
<1>1. Verdict(v)' = Verdict(v) /\ MatchedIds(v)' = MatchedIds(v)
  BY DEF Verdict, MatchedIds
<1>2. NoToken \notin issued /\ NoToken \notin issued'
  BY FirewallInputsAssumption DEF TypeOK
<1>3. use[v].token \in issued' <=> use[v].token \in issued
  BY <1>2, FirewallInputsAssumption DEF FirewallInv, UseInv
<1> QED BY <1>1, <1>3 DEF Cleared, Grants

(* A log that grows by other uses' events, or by approvals, records no     *)
(* further decision.                                                       *)
LEMMA RecordStays ==
    ASSUME Keeps, NEW v, Verdict(v)' = Verdict(v), check'[v] = check[v],
           \A i \in DOMAIN audit' :
               \/ i \in DOMAIN audit /\ audit'[i] = audit[i]
               \/ audit'[i].use # v
               \/ audit'[i].type = "approval"
    PROVE  OnRecord(v)' <=> OnRecord(v)
<1>1. ASSUME NEW i \in DOMAIN audit, Decides(v, check[v], audit[i])
      PROVE  i \in DOMAIN audit' /\ Decides(v, check[v], audit[i])'
  BY <1>1 DEF Keeps, Decides
<1>2. ASSUME NEW i \in DOMAIN audit', Decides(v, check[v], audit[i])'
      PROVE  i \in DOMAIN audit /\ Decides(v, check[v], audit[i])
  BY <1>2 DEF Decides
<1> QED BY <1>1, <1>2 DEF OnRecord

LEMMA OthersAreHeld ==
    ASSUME TypeOK, TypeOK', FirewallInv, FirewallInv', NEW u \in Uses,
           Guard(u) \/ Call(u) \/ ToolEnds(u) \/ IssueFor(u),
           NEW v \in Uses, v # u
    PROVE  Held(v)
<1>1. Same(v) /\ config' = config /\ issued \subseteq issued' /\ Adds(u)
  BY OthersSame
<1>3. Verdict(v)' = Verdict(v) /\ (Cleared(v)' <=> Cleared(v))
  BY <1>1, ClearanceStays DEF Same
<1>4. OnRecord(v)' <=> OnRecord(v)
  BY <1>1, <1>3, RecordStays DEF Adds, Keeps, Same
<1> QED BY <1>1, <1>3, <1>4 DEF Held, Phase, Same

(* Every step of a use, but the calls and the second checks, keeps what    *)
(* the guard admits; and those that log no decision keep what it records.  *)
LEMMA OwnStep ==
    ASSUME TypeOK, TypeOK', FirewallInv, FirewallInv', NEW u \in Uses,
           Guard(u) \/ Call(u) \/ ToolEnds(u) \/ IssueFor(u),
           UNCHANGED <<use, check>>
    PROVE  /\ Verdict(u)' = Verdict(u)
           /\ Cleared(u)' <=> Cleared(u)
           /\ OnRecord(u) => OnRecord(u)'
           /\ Notes(u, "approval") => (OnRecord(u)' <=> OnRecord(u))
<1>1. config' = config /\ issued \subseteq issued' /\ Keeps
  BY OthersSame DEF Adds
<1>3. Verdict(u)' = Verdict(u) /\ (Cleared(u)' <=> Cleared(u))
  BY <1>1, ClearanceStays
<1>4. OnRecord(u) => OnRecord(u)'
  BY <1>1, <1>3 DEF OnRecord, Keeps, Decides
<1>5. Notes(u, "approval") => (OnRecord(u)' <=> OnRecord(u))
  BY <1>1, <1>3, RecordStays DEF Notes
<1> QED BY <1>3, <1>4, <1>5

LEMMA UseMoves ==
    ASSUME TypeOK, TypeOK', FirewallInv, FirewallInv', GuardInv, NEW u \in Uses,
           Guard(u) \/ Call(u) \/ ToolEnds(u) \/ IssueFor(u)
    PROVE  Moves(u)
<1>1. UseInv(u) /\ TrailInv(u) /\ SeenInv(u)
  BY DEF FirewallInv, GuardInv
<1>2. CASE EvaluateToolCall(u)
  <2>1. Phase(u) = "open" /\ Phase(u)' = "open" /\ (Cleared(u)' <=> Cleared(u))
    BY <1>2, OwnStep DEF EvaluateToolCall, Guard, Goto, Phase, TypeOK
  <2>2. CASE config.audit
    <3>1. PICK e : /\ audit' = Append(audit, e)
                   /\ e = [use |-> u, rid |-> use[u].rid, check |-> check[u],
                           type |-> "policy_decision", decision |-> Verdict(u),
                           rules |-> MatchedIds(u), at |-> clock]
      BY <1>2, <2>2 DEF EvaluateToolCall, Log
    <3>2. Decides(u, check[u], e)'
      BY <1>2, <3>1, OwnStep DEF EvaluateToolCall, Guard, Decides
    <3>3. Len(audit) + 1 \in DOMAIN audit' /\ audit'[Len(audit) + 1] = e
      BY <3>1, AppendAdds
    <3>4. PICK n : n = Len(audit) + 1
      OBVIOUS
    <3>5. n \in DOMAIN audit' /\ Decides(u, check[u], audit[n])'
      BY <3>2, <3>3, <3>4 DEF Decides
    <3>6. OnRecord(u)'
      BY <3>5 DEF OnRecord
    <3> QED BY <2>1, <3>6 DEF Moves
  <2>3. CASE ~config.audit
    <3>1. audit' = audit
      BY <1>2, <2>3 DEF EvaluateToolCall, Log
    <3>2. OnRecord(u)' <=> OnRecord(u)
      BY <1>2, <3>1, OwnStep DEF EvaluateToolCall, Guard, Notes
    <3> QED BY <2>1, <3>2 DEF Moves, Held
  <2> QED BY <2>2, <2>3
<1>3. CASE Pass(u) \/ Accept(u)
  <2>1. Phase(u) = "open" /\ Phase(u)' = "open" /\ UNCHANGED <<use, check>>
    BY <1>3 DEF Pass, Accept, Goto, Phase, TypeOK
  <2>2. Notes(u, "approval")
    BY <1>3, StepNotes
  <2> QED BY <1>3, <2>1, <2>2, OwnStep DEF Guard, Moves, Held
<1>4. CASE Block(u) \/ Demand(u) \/ Reject(u)
  <2>1. /\ pc[u] = "judged" /\ Phase(u) = "open" /\ Phase(u)' = "refused"
        /\ UNCHANGED <<use, check>>
    BY <1>4 DEF Block, Demand, Reject, Goto, Phase, TypeOK
  <2>2. Notes(u, "approval")
    BY <1>4, StepNotes
  <2>3. config.audit => OnRecord(u)
    BY <1>1, <2>1 DEF TrailInv, OnRecord
  <2> QED BY <1>4, <2>1, <2>2, <2>3, OwnStep DEF Guard, Moves
<1>5. CASE \/ RejectPayload(u) \/ CheckFault(u) \/ Choke(u) \/ AuditFault(u)
           \/ FindNothing(u) \/ ToolEnds(u)
  <2>1. /\ Phase(u) \in {"open", "released"} /\ Phase(u)' = "ended"
        /\ UNCHANGED <<use, check>>
    BY <1>5 DEF RejectPayload, CheckFault, Choke, AuditFault, FindNothing, ToolEnds,
       Goto, Phase, TypeOK
  <2> QED BY <1>5, <2>1, OwnStep DEF Guard, Moves
<1>6. CASE Execute(u)
  <2>1. /\ pc[u] = "cleared" /\ Phase(u) = "open" /\ Phase(u)' = "released"
        /\ UNCHANGED <<use, check, audit>>
    BY <1>6 DEF Execute, Goto, Phase, TypeOK
  <2>2. Notes(u, "approval")
    BY <2>1 DEF Notes
  <2>3. Cleared(u) /\ (config.audit => OnRecord(u))
    BY <1>1, <2>1 DEF UseInv, TrailInv, CheckIsLogged, OnRecord
  <2> QED BY <1>6, <2>1, <2>2, <2>3, OwnStep DEF Guard, Moves
<1>7. CASE CheckAgain(u)
  <2>1. /\ pc[u] = "cleared" /\ Phase(u) = "open" /\ Phase(u)' = "open"
        /\ use[u].method \in DOMAIN FallsBackTo
        /\ use'[u].hits = use[u].hits /\ use'[u].token = NoToken /\ check'[u] = 2
        /\ UNCHANGED <<config, issued, audit>>
    BY <1>7 DEF CheckAgain, Goto, Phase, TypeOK
  <2>2. Cleared(u)
    BY <1>1, <2>1 DEF UseInv
  <2>3. check[u] = 1
    BY <1>1, <2>1 DEF SeenInv, TypeOK
  <2>4. ~OnRecord(u)'
    BY <1>1, <2>1, <2>3 DEF SeenInv, OnRecord, Decides
  <2> QED BY <2>1, <2>2, <2>4 DEF Moves
<1>8. CASE Call(u)
  <2>1. /\ pc[u] = "idle" /\ Phase(u) = "idle" /\ Phase(u)' = "open" /\ audit' = audit
    BY <1>8 DEF Call, Goto, Phase, TypeOK
  <2>2. ~OnRecord(u) /\ ~OnRecord(u)'
    BY <1>1, <2>1 DEF SeenInv, OnRecord, Decides
  <2> QED BY <2>1, <2>2 DEF Moves
<1>9. CASE IssueFor(u)
  <2>1. Phase(u)' = Phase(u) /\ UNCHANGED <<use, check, audit>>
    BY <1>9 DEF IssueFor, Phase
  <2>2. Notes(u, "approval")
    BY <2>1 DEF Notes
  <2> QED BY <1>9, <2>1, <2>2, OwnStep DEF Moves, Held
<1> QED BY <1>2, <1>3, <1>4, <1>5, <1>6, <1>7, <1>8, <1>9 DEF Guard

-----------------------------------------------------------------------------
(* The refinement.                                                         *)

LEMMA InitIsInit == Init => Guarded!Init
<1> SUFFICES ASSUME Init PROVE Guarded!Init
  OBVIOUS
<1>1. \A u \in Uses : Phase(u) = "idle" /\ ~OnRecord(u)
  BY DEF Init, Phase, OnRecord
<1>2. config.audit \in BOOLEAN
  BY FirewallInputsAssumption DEF Init
<1> QED BY <1>1, <1>2 DEF Guarded!Init

LEMMA NextIsNext ==
    ASSUME TypeOK, TypeOK', FirewallInv, FirewallInv', GuardInv, [Next]_vars
    PROVE  Guarded!Next \/ UNCHANGED Guarded!vars
<1>1. ASSUME NEW u \in Uses, Guard(u) \/ Call(u) \/ ToolEnds(u) \/ IssueFor(u)
      PROVE  Guarded!Next \/ UNCHANGED Guarded!vars
  <2>1. config' = config
    BY <1>1, OthersSame
  <2>2. Moves(u)
    BY <1>1, UseMoves
  <2>3. \A v \in Uses \ {u} : Held(v)
    BY <1>1, OthersAreHeld
  <2> QED BY <2>1, <2>2, <2>3, MovesAreSteps
<1>2. CASE Tick \/ UNCHANGED vars
  <2>1. \A v \in Uses : Held(v)
    BY <1>2 DEF Tick, vars, Held, Phase, Cleared, Grants, OnRecord, Decides, Verdict, MatchedIds
  <2>2. config' = config
    BY <1>2 DEF Tick, vars
  <2> QED BY <2>1, <2>2 DEF Held, Guarded!vars
<1>3. CASE Crash
  <2>1. \A v \in Uses : /\ Cleared(v)' <=> Cleared(v)
                        /\ OnRecord(v)' <=> OnRecord(v)
    BY <1>3 DEF Crash, Cleared, Grants, OnRecord, Decides, Verdict, MatchedIds
  <2>2. \A v \in Uses : Phase(v)' = IF Phase(v) \in {"open", "released"} THEN "ended"
                                    ELSE Phase(v)
    BY <1>3 DEF Crash, Phase, TypeOK, Ended
  <2>3. config' = config
    BY <1>3 DEF Crash
  <2>4. Guarded!Lose
    BY <2>1, <2>2, <2>3 DEF Guarded!Lose
  <2> QED BY <2>4 DEF Guarded!Next
<1> QED BY <1>1, <1>2, <1>3 DEF Next

(* The middleware and its wrappers implement the guard: whatever the tools *)
(* offer and however the uses interleave, fail or crash, a tool runs at    *)
(* most once per use, admitted, and after the decision of the check it     *)
(* follows is on record; a refusal is recorded first, and final.           *)
THEOREM MiddlewareIsGuard == Spec => ToolsAreGuarded
<1>1. /\ (TypeOK /\ FirewallInv) /\ GuardInv
      /\ ((TypeOK /\ FirewallInv) /\ GuardInv)'
      /\ [Next]_vars
      => [Guarded!Next]_(Guarded!vars)
  BY NextIsNext
<1> QED BY <1>1, InitIsInit, GuardInvAlways, PTL DEF Spec, ToolsAreGuarded, Guarded!Spec
=============================================================================
