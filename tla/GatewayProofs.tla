---------------------------- MODULE GatewayProofs ----------------------------
(***************************************************************************)
(* Proofs about Gateway, for every set of calls, policy, wiring, content,  *)
(* token and clock the constants allow: its guards and its log.  The log   *)
(* only grows, every approval in it is backed by a token and comes right   *)
(* after the decision it overrides, and no review is asked for that a      *)
(* token at hand already settles.  Then that the log explains every        *)
(* answer, and that Gateway implements GuardedCall: every step of the      *)
(* gateway and of what surrounds it is a step of the abstract guard before *)
(* the provider, or none.                                                  *)
(***************************************************************************)
EXTENDS Gateway, PolicyEngineProofs, SequenceTheorems, FiniteSetTheorems

-----------------------------------------------------------------------------
(* What the operators return.                                              *)

LEMMA MatchedType ==
    ASSUME NEW s, NEW hits
    PROVE  /\ Matched(Policy, s, hits) \in SUBSET Rules
           /\ MatchedIds(s, hits) \in SUBSET Ids
BY PolicyAssumption DEF Matched, MatchedIds, RuleIds, Ids

LEMMA VerdictType ==
    ASSUME NEW s, NEW hits
    PROVE  Verdict(s, hits) \in Actions
BY MatchedType, StrictestBounds DEF Verdict

LEMMA EmptyType == Empty \in Completions
BY DEF Empty, Completions

LEMMA RedactType ==
    ASSUME NEW body \in Completions
    PROVE  Redact(body) \in Completions /\ Redact(body).tools = body.tools
<1>1. CASE body.choices = <<>>
  BY <1>1 DEF Redact
<1>2. CASE body.choices # <<>>
  <2>1. [body.choices EXCEPT ![1] = {}] \in Seq(SUBSET Ids)
    BY <1>2, ExceptSeq, EmptySeq DEF Completions
  <2>2. Redact(body) = [choices |-> [body.choices EXCEPT ![1] = {}], tools |-> body.tools]
    BY <1>2 DEF Redact, Completions
  <2> QED BY <2>1, <2>2 DEF Completions
<1> QED BY <1>1, <1>2

LEMMA EventType ==
    ASSUME TypeOK, NEW c \in Calls,
           NEW type \in {"policy_decision", "approval", "gateway_error"},
           NEW s \in Stages \cup {"provider"},
           NEW decision \in Actions \cup {"approved", "error"},
           NEW rules \in SUBSET Ids,
           Log(c, type, s, decision, rules)
    PROVE  audit' \in Seq(Events)
<1>1. Event(c, type, s, decision, rules) \in Events
  BY DEF TypeOK, Event, Events, Requests
<1> QED BY <1>1 DEF TypeOK, Log

LEMMA FinishType ==
    ASSUME TypeOK, NEW c \in Calls, NEW a, Finish(c, a),
           a \in Answers
    PROVE  /\ loop' \in Calls \cup {Free}
           /\ pc' \in [Calls -> Places]
           /\ answer' \in [Calls -> Answers]
BY DEF TypeOK, Finish, Finished, Places

LEMMA AnswerType ==
    ASSUME NEW kind \in AnswerKinds
    PROVE  /\ Failure(kind) \in Answers
           /\ \A body \in Completions : Delivery(kind, body) \in Answers
           /\ \A s \in Stages, rules \in SUBSET Ids : Refusal(kind, s, rules) \in Answers
BY EmptyType DEF Failure, Delivery, Refusal, NoAnswer, Stages, Answers

-----------------------------------------------------------------------------
(* Type correctness.                                                       *)

LEMMA InitTypeOK == Init => TypeOK
<1> SUFFICES ASSUME Init PROVE TypeOK
  OBVIOUS
<1>1. NoAnswer \in Answers
  BY EmptyType DEF NoAnswer, AnswerKinds, Stages, Answers
<1>2. \A c \in Calls : [rid |-> c, token |-> NoToken, hits |-> {}]
                         \in Requests
  BY DEF Rids, Requests
<1> QED BY <1>1, <1>2, EmptyType DEF Init, TypeOK, NoReply, Stages, Places, Outcomes

LEMMA JudgeTypeOK ==
    ASSUME TypeOK, NEW c \in Calls, NEW s \in Stages, Judge(c, s)
    PROVE  TypeOK'
<1>1. audit' \in Seq(Events)
  BY MatchedType, VerdictType, EventType DEF Judge
<1> QED BY <1>1 DEF TypeOK, Judge, Places

LEMMA AcceptsTypeOK ==
    ASSUME TypeOK, NEW c \in Calls, NEW s \in Stages, Accepts(c, s)
    PROVE  audit' \in Seq(Events)
BY MatchedType, EventType DEF Accepts

LEMMA NextTypeOK == TypeOK /\ [Next]_vars => TypeOK'
<1> SUFFICES ASSUME TypeOK, [Next]_vars PROVE TypeOK'
  OBVIOUS
<1>1. ASSUME NEW c \in Calls, RejectUnconfigured(c) PROVE TypeOK'
  <2>1. Failure("provider_not_configured") \in Answers
    BY AnswerType DEF AnswerKinds
  <2> QED BY <1>1, <2>1, FinishType DEF RejectUnconfigured, TypeOK
<1>2. ASSUME NEW c \in Calls, Forward(c), audit' \in Seq(Events) PROVE TypeOK'
  BY <1>2 DEF Forward, TypeOK, Places
<1>3. ASSUME NEW c \in Calls, ForwardUnguarded(c) PROVE TypeOK'
  BY <1>2, <1>3 DEF ForwardUnguarded, TypeOK
<1>4. ASSUME NEW c \in Calls, EvaluateInput(c) \/ EvaluateOutput(c) \/ EvaluateTool(c)
      PROVE  TypeOK'
  BY <1>4, JudgeTypeOK DEF EvaluateInput, EvaluateOutput, EvaluateTool, Stages
<1>5. ASSUME NEW c \in Calls, PassInput(c) \/ ApproveInput(c) PROVE TypeOK'
  BY <1>2, <1>5, AcceptsTypeOK DEF PassInput, ApproveInput, Passes, Stages, TypeOK
<1>6. ASSUME NEW c \in Calls, Block(c) \/ Review(c) PROVE TypeOK'
  <2>1. stage[c] \in Stages
    BY DEF TypeOK
  <2>2. \A kind \in AnswerKinds :
           Refusal(kind, stage[c], MatchedIds(stage[c], Hits(c, stage[c])))
             \in Answers
    BY <2>1, MatchedType, AnswerType
  <2>3. UNCHANGED <<config, clock, issued, audit, stage, req, reply, next>>
    BY <1>6 DEF Block, Review
  <2> QED BY <1>6, <2>2, <2>3, FinishType DEF Block, Review, AnswerKinds, TypeOK
<1>7. ASSUME NEW c \in Calls, AnswerUpstreamFailure(c) PROVE TypeOK'
  <2>1. audit' \in Seq(Events)
    BY <1>7, EventType DEF AnswerUpstreamFailure
  <2>2. Failure(reply[c].kind) \in Answers
    BY <1>7, AnswerType DEF AnswerUpstreamFailure, FailsUpstream, AnswerKinds
  <2> QED BY <1>7, <2>1, <2>2, FinishType DEF AnswerUpstreamFailure, TypeOK
<1>8. ASSUME NEW c \in Calls, DeliverUnguarded(c) \/ Deliver(c) PROVE TypeOK'
  <2>1. Delivery("delivered", reply[c].body) \in Answers
    BY AnswerType DEF AnswerKinds, TypeOK, Outcomes
  <2> QED BY <1>8, <2>1, FinishType DEF DeliverUnguarded, Deliver, TypeOK
<1>9. ASSUME NEW c \in Calls, FailOnMalformed(c) \/ AuditFault(c) \/ CheckFault(c) PROVE TypeOK'
  <2>1. Failure("internal_error") \in Answers
    BY AnswerType DEF AnswerKinds
  <2>2. audit' \in Seq(Events)
    <3>1. CASE AuditFault(c)
      <4>1. stage[c] \in Stages /\ audit \in Seq(Events)
        BY DEF TypeOK
      <4>2. ASSUME NEW s \in Stages,
                   MayLog(c, "policy_decision", s, Verdict(s, Hits(c, s)),
                          MatchedIds(s, Hits(c, s)))
            PROVE  audit' \in Seq(Events)
        BY <4>1, <4>2, MatchedType, VerdictType, EventType DEF MayLog
      <4>3. ASSUME MayLog(c, "gateway_error", "provider", "error", {})
            PROVE  audit' \in Seq(Events)
        <5>1. CASE Log(c, "gateway_error", "provider", "error", {})
          BY <5>1, EventType
        <5> QED BY <4>1, <4>3, <5>1 DEF MayLog
      <4>4. ASSUME MayLog(c, "approval", stage[c], "approved",
                          MatchedIds(stage[c], Hits(c, stage[c])))
            PROVE  audit' \in Seq(Events)
        BY <4>1, <4>4, MatchedType, EventType DEF MayLog
      <4> QED BY <3>1, <4>2, <4>3, <4>4 DEF AuditFault
    <3>2. CASE FailOnMalformed(c) \/ CheckFault(c)
      BY <3>2 DEF FailOnMalformed, CheckFault, TypeOK
    <3> QED BY <1>9, <3>1, <3>2
  <2> QED BY <1>9, <2>1, <2>2, FinishType DEF FailOnMalformed, AuditFault, CheckFault, TypeOK
<1>10. ASSUME NEW c \in Calls, PassOutput(c) \/ ApproveOutput(c) PROVE TypeOK'
  <2>1. audit' \in Seq(Events)
    BY <1>10, AcceptsTypeOK DEF PassOutput, ApproveOutput, Passes, Stages, TypeOK
  <2>2. StartTools(c)
    BY <1>10 DEF PassOutput, ApproveOutput
  <2> QED BY <2>1, <2>2 DEF StartTools, TypeOK, Places
<1>11. ASSUME NEW c \in Calls, RedactOutput(c) PROVE TypeOK'
  <2>1. Delivery("redacted", Redact(reply[c].body))
          \in Answers
    BY RedactType, AnswerType DEF AnswerKinds, TypeOK, Outcomes
  <2> QED BY <1>11, <2>1, FinishType DEF RedactOutput, Passes, TypeOK
<1>12. ASSUME NEW c \in Calls, PassTool(c) \/ ApproveTool(c) PROVE TypeOK'
  <2>1. audit' \in Seq(Events)
    BY <1>12, AcceptsTypeOK DEF PassTool, ApproveTool, Passes, Stages, TypeOK
  <2>2. NextTool(c)
    BY <1>12 DEF PassTool, ApproveTool
  <2> QED BY <2>1, <2>2 DEF NextTool, TypeOK, Places
<1>13. ASSUME NEW c \in Calls, Submit(c) PROVE TypeOK'
  <2>1. PICK rid \in Rids, token \in Tokens \cup {NoToken}, hits \in SUBSET Ids :
           req' = [req EXCEPT ![c] = [rid |-> rid, token |-> token, hits |-> hits]]
    <3>1. PICK rid \in ClientIds \cup {c} \cup {req[d].rid : d \in {e \in Calls :
                                          answer[e].kind = "human_review_required"}},
               token \in issued \cup ForgedTokens \cup {NoToken}, hits \in Prompts :
             req' = [req EXCEPT ![c] = [rid |-> rid, token |-> token, hits |-> hits]]
      BY <1>13 DEF Submit
    <3>2. rid \in Rids
      BY DEF Rids, TypeOK, Requests
    <3>3. token \in Tokens \cup {NoToken} /\ hits \in SUBSET Ids
      BY TokensAssumption, ContentAssumption DEF TypeOK
    <3> QED BY <3>1, <3>2, <3>3
  <2> QED BY <1>13, <2>1 DEF Submit, TypeOK, Places, Requests
<1>14. ASSUME NEW c \in Calls, UpstreamReplies(c) \/ UpstreamFails(c) \/ UpstreamTimesOut(c)
       PROVE  TypeOK'
  <2>1. PICK r \in Outcomes : UpstreamEnds(c, r)
    BY <1>14, EmptyType, ContentAssumption
       DEF UpstreamReplies, UpstreamFails, UpstreamTimesOut, Outcomes
  <2> QED BY <2>1 DEF UpstreamEnds, TypeOK, Places
<1>15. ASSUME NEW c \in Calls, IssueFor(c) PROVE TypeOK'
  <2>1. PICK t \in Tokens : issued' = issued \cup {t}
    <3>1. PICK shape \in GrantShapes :
             issued' = issued \cup
               {Issue(IF shape[1] = "any" THEN Wildcard ELSE req[c].rid,
                      IF shape[2] = "any" THEN Wildcard ELSE answer[c].stage,
                      IF shape[3] = "any" THEN {} ELSE answer[c].rules,
                      clock, Ttl)}
      BY <1>15 DEF IssueFor
    <3> DEFINE rid == IF shape[1] = "any" THEN Wildcard ELSE req[c].rid
               s == IF shape[2] = "any" THEN Wildcard ELSE answer[c].stage
               rules == IF shape[3] = "any" THEN {} ELSE answer[c].rules
    <3>2. rid \in Rids \cup {Wildcard} /\ s \in Stages \cup {Wildcard}
      BY DEF TypeOK, Requests, Answers
    <3>3. rules \in SUBSET Ids /\ clock + Ttl \in Nat
      BY ClockAssumption DEF TypeOK, Answers
    <3> HIDE DEF rid, s, rules
    <3>4. Issue(rid, s, rules, clock, Ttl) \in Tokens
      BY <3>2, <3>3 DEF Issue, Token, Tokens, Signatures
    <3> QED BY <3>1, <3>4 DEF rid, s, rules
  <2> QED BY <1>15, <2>1 DEF IssueFor, TypeOK
<1>16. CASE Tick
  BY <1>16 DEF Tick, TypeOK
<1>17. CASE Crash
  BY <1>17 DEF Crash, TypeOK, Places, Finished
<1>18. CASE UNCHANGED vars
  BY <1>18 DEF vars, TypeOK
<1> QED BY <1>1, <1>3, <1>4, <1>5, <1>6, <1>7, <1>8, <1>9, <1>10, <1>11, <1>12, <1>13,
           <1>14, <1>15, <1>16, <1>17, <1>18 DEF Next, Handler

(* Every reachable state of the gateway is well typed.                     *)
THEOREM TypeCorrect == Spec => []TypeOK
BY InitTypeOK, NextTypeOK, PTL DEF Spec

-----------------------------------------------------------------------------
(* Nothing unguarded gets through: GuardInv is inductive.                  *)

Same(c) ==
    /\ pc'[c] = pc[c] /\ stage'[c] = stage[c] /\ req'[c] = req[c]
    /\ reply'[c] = reply[c] /\ next'[c] = next[c] /\ answer'[c] = answer[c]

(* Clearance is never lost: tokens stay issued, requests stay as they are. *)
LEMMA ClearedIsStable ==
    ASSUME NEW c \in Calls, NEW s, NEW hits,
           config' = config, issued \subseteq issued', req'[c] = req[c],
           Cleared(c, s, hits)
    PROVE  Cleared(c, s, hits)'
BY DEF Cleared, Grants, Verdict, MatchedIds

LEMMA OutputHitsStable ==
    ASSUME NEW c \in Calls, reply'[c] = reply[c]
    PROVE  Hits(c, "output")' = Hits(c, "output")
BY DEF Hits

LEMMA ClearancesAreStable ==
    ASSUME NEW c \in Calls, config' = config, issued \subseteq issued',
           req'[c] = req[c], reply'[c] = reply[c]
    PROVE  /\ InputCleared(c) => InputCleared(c)'
           /\ Hits(c, "output")' = Hits(c, "output")
           /\ OutputCleared(c) => OutputCleared(c)'
           /\ Verdict("output", Hits(c, "output"))' = Verdict("output", Hits(c, "output"))
           /\ \A i \in DOMAIN reply[c].body.tools :
                 Cleared(c, "tool", reply[c].body.tools[i])
                   => Cleared(c, "tool", reply[c].body.tools[i])'
<1>1. InputCleared(c) => InputCleared(c)'
  BY ClearedIsStable DEF InputCleared
<1>2. /\ Hits(c, "output")' = Hits(c, "output")
      /\ OutputCleared(c) => OutputCleared(c)'
  BY ClearedIsStable, OutputHitsStable DEF OutputCleared
<1>3. Verdict("output", Hits(c, "output"))' = Verdict("output", Hits(c, "output"))
  BY <1>2 DEF Verdict
<1>4. ASSUME NEW i \in DOMAIN reply[c].body.tools,
             Cleared(c, "tool", reply[c].body.tools[i])
      PROVE  Cleared(c, "tool", reply[c].body.tools[i])'
  <2> DEFINE hits == reply[c].body.tools[i]
  <2>1. hits' = hits
    OBVIOUS
  <2> QED BY <1>4, <2>1, ClearedIsStable
<1> QED BY <1>1, <1>2, <1>3, <1>4

(* A call that a step leaves alone keeps its invariant.                    *)
LEMMA SameCall ==
    ASSUME NEW c \in Calls, CallInv(c), Same(c),
           config' = config, issued \subseteq issued'
    PROVE  CallInv(c)'
<1>1. Placed(c)'
  BY DEF CallInv, Same, Placed
<1>2. ASSUME config.policy PROVE ClearedSoFar(c)'
  BY <1>2, ClearancesAreStable DEF CallInv, ClearedSoFar, Same
<1> QED BY <1>1, <1>2 DEF CallInv

(* A step of one call leaves the others alone.                             *)
LEMMA OthersSame ==
    ASSUME TypeOK, NEW c \in Calls, NEW d \in Calls, d # c,
           \/ Submit(c) \/ Handler(c) \/ IssueFor(c)
           \/ UpstreamReplies(c) \/ UpstreamFails(c) \/ UpstreamTimesOut(c)
    PROVE  Same(d)
<1>1. CASE Submit(c)
  BY <1>1 DEF Submit, TypeOK, Same
<1>2. CASE IssueFor(c)
  BY <1>2 DEF IssueFor, Same
<1>3. CASE UpstreamReplies(c) \/ UpstreamFails(c) \/ UpstreamTimesOut(c)
  BY <1>3 DEF UpstreamReplies, UpstreamFails, UpstreamTimesOut, UpstreamEnds, TypeOK, Same
<1>4. ASSUME Forward(c) PROVE Same(d)
  BY <1>4 DEF Forward, TypeOK, Same
<1>5. ASSUME NEW s, Judge(c, s) PROVE Same(d)
  BY <1>5 DEF Judge, TypeOK, Same
<1>6. ASSUME StartTools(c) \/ NextTool(c) PROVE Same(d)
  BY <1>6 DEF StartTools, NextTool, TypeOK, Same
<1>7. ASSUME NEW a, Finish(c, a), UNCHANGED <<stage, req, reply, next>> PROVE Same(d)
  BY <1>7 DEF Finish, TypeOK, Same
<1>8. CASE ForwardUnguarded(c) \/ PassInput(c) \/ ApproveInput(c)
  BY <1>4, <1>8 DEF ForwardUnguarded, PassInput, ApproveInput
<1>9. CASE EvaluateInput(c) \/ EvaluateOutput(c) \/ EvaluateTool(c)
  BY <1>5, <1>9 DEF EvaluateInput, EvaluateOutput, EvaluateTool
<1>10. CASE PassOutput(c) \/ ApproveOutput(c) \/ PassTool(c) \/ ApproveTool(c)
  BY <1>6, <1>10 DEF PassOutput, ApproveOutput, PassTool, ApproveTool
<1>11. CASE \/ RejectUnconfigured(c) \/ AnswerUpstreamFailure(c) \/ DeliverUnguarded(c)
            \/ FailOnMalformed(c) \/ RedactOutput(c) \/ Deliver(c) \/ Block(c)
            \/ Review(c) \/ AuditFault(c) \/ CheckFault(c)
  BY <1>7, <1>11 DEF RejectUnconfigured, AnswerUpstreamFailure, DeliverUnguarded,
     FailOnMalformed, RedactOutput, Deliver, Block, Review, AuditFault, CheckFault
<1> QED BY <1>1, <1>2, <1>3, <1>8, <1>9, <1>10, <1>11 DEF Handler

(* No step changes the wiring or revokes a token.                          *)
LEMMA TokensStay ==
    ASSUME [Next]_vars
    PROVE  config' = config /\ issued \subseteq issued'
<1>1. ASSUME NEW c \in Calls, Submit(c) \/ IssueFor(c) PROVE config' = config /\ issued \subseteq issued'
  BY <1>1 DEF Submit, IssueFor
<1>2. ASSUME NEW c \in Calls, UpstreamReplies(c) \/ UpstreamFails(c) \/ UpstreamTimesOut(c)
      PROVE  UNCHANGED <<config, issued>>
  BY <1>2 DEF UpstreamReplies, UpstreamFails, UpstreamTimesOut, UpstreamEnds
<1>3. ASSUME NEW c \in Calls, Handler(c) PROVE UNCHANGED <<config, issued>>
  BY <1>3 DEF Handler, RejectUnconfigured, ForwardUnguarded, EvaluateInput, PassInput,
     ApproveInput, AnswerUpstreamFailure, DeliverUnguarded, FailOnMalformed,
     EvaluateOutput, PassOutput, ApproveOutput, RedactOutput, EvaluateTool, PassTool,
     ApproveTool, Deliver, Block, Review, AuditFault, CheckFault, Judge, Forward, StartTools,
     NextTool
<1>4. CASE Tick \/ Crash \/ UNCHANGED vars
  BY <1>4 DEF Tick, Crash, vars
<1> QED BY <1>1, <1>2, <1>3, <1>4 DEF Next

(* A token the handler accepts is one the manager issued for the decision. *)
LEMMA ApprovedGrants ==
    ASSUME TypeOK, NEW c \in Calls, Placed(c), Approved(c)
    PROVE  /\ config.approval
           /\ Grants(req[c].token, req[c].rid, stage[c],
                     MatchedIds(stage[c], Hits(c, stage[c])))
<1>1. /\ req[c].token.signature = "genuine"
      /\ Covers(req[c].token, req[c].rid, stage[c], MatchedIds(stage[c], Hits(c, stage[c])))
  BY DEF Approved, Allows, Decodes
<1>2. req[c].token \in issued
  BY <1>1, TokensAssumption DEF Placed, Approved
<1> QED BY <1>1, <1>2 DEF Approved, Covers, Grants

(* Getting past a stage means being cleared for it.                        *)
LEMMA PassingClears ==
    ASSUME TypeOK, NEW c \in Calls, Placed(c), NEW s \in Stages,
           NEW verdicts \in SUBSET {"allow", "warn", "redact"},
           Passes(c, s, verdicts) \/ Accepts(c, s)
    PROVE  /\ Cleared(c, s, Hits(c, s)) /\ pc[c] = "judged" /\ stage[c] = s
           /\ Passes(c, s, verdicts) => Verdict(s, Hits(c, s)) \in verdicts
           /\ Accepts(c, s) => Verdict(s, Hits(c, s)) = "require_human_review"
<1>1. CASE Passes(c, s, verdicts)
  BY <1>1 DEF Passes, Judges, Cleared, Accepts
<1>2. CASE Accepts(c, s)
  BY <1>2, ApprovedGrants DEF Accepts, Judges, Cleared, Passes
<1> QED BY <1>1, <1>2

(* Ending without a completion keeps the invariant.                        *)
LEMMA RefusingKeepsInv ==
    ASSUME TypeOK, NEW c \in Calls, CallInv(c), NEW a,
           a.kind \notin {"delivered", "redacted"}, Finish(c, a),
           UNCHANGED <<config, issued, stage, req, reply, next>>
    PROVE  CallInv(c)'
<1>1. pc'[c] = "answered" /\ answer'[c] = a
  BY DEF Finish, TypeOK
<1>2. Placed(c)'
  BY <1>1 DEF CallInv, Placed
<1>3. ASSUME config.policy PROVE ClearedSoFar(c)'
  <2>1. reply[c].kind # "none" => InputCleared(c)'
    BY <1>3, ClearancesAreStable DEF CallInv, ClearedSoFar
  <2> QED BY <1>1, <2>1 DEF ClearedSoFar
<1> QED BY <1>1, <1>2, <1>3 DEF CallInv

LEMMA ForwardingKeepsInv ==
    ASSUME TypeOK, NEW c \in Calls, CallInv(c), Forward(c), reply[c].kind = "none",
           pc[c] # "answered", config.policy => InputCleared(c)
    PROVE  CallInv(c)'
<1>1. /\ pc'[c] = "awaiting" /\ answer[c] = NoAnswer
      /\ UNCHANGED <<config, issued, stage, req, reply, next, answer>>
  BY DEF Forward, TypeOK, CallInv, Placed
<1>2. Placed(c)'
  BY <1>1 DEF CallInv, Placed
<1>3. ASSUME config.policy PROVE ClearedSoFar(c)'
  <2>1. InputCleared(c)'
    BY <1>1, <1>3, ClearancesAreStable
  <2> QED BY <1>1, <2>1 DEF ClearedSoFar, NoAnswer
<1> QED BY <1>1, <1>2, <1>3 DEF CallInv

LEMMA JudgingKeepsInv ==
    ASSUME TypeOK, NEW c \in Calls, CallInv(c), NEW s \in Stages, Judge(c, s),
           \/ s = "input" /\ pc[c] = "sent"
           \/ s = "output" /\ JudgesOutput(c)
           \/ s = "tool" /\ JudgesTool(c)
    PROVE  CallInv(c)'
<1>1. /\ pc'[c] = "judged" /\ stage'[c] = s /\ answer[c] = NoAnswer
      /\ UNCHANGED <<config, issued, req, reply, next, answer>>
  BY DEF Judge, TypeOK, CallInv, Placed, JudgesOutput, JudgesTool
<1>2. Placed(c)'
  BY <1>1 DEF CallInv, Placed, JudgesOutput, JudgesTool, Stages
<1>3. ASSUME config.policy PROVE ClearedSoFar(c)'
  <2>1. reply[c].kind # "none" => InputCleared(c)'
    BY <1>1, <1>3, ClearancesAreStable DEF CallInv, ClearedSoFar
  <2>2. ASSUME s = "tool"
        PROVE  /\ OutputCleared(c)'
               /\ Verdict("output", Hits(c, "output"))' # "redact"
               /\ \A i \in DOMAIN reply[c].body.tools :
                     i < next[c] => Cleared(c, "tool", reply[c].body.tools[i])'
    <3>1. pc[c] = "tools"
      BY <2>2 DEF JudgesTool
    <3> QED BY <1>1, <1>3, <3>1, ClearancesAreStable DEF CallInv, ClearedSoFar
  <2> QED BY <1>1, <2>1, <2>2 DEF ClearedSoFar, NoAnswer
<1> QED BY <1>1, <1>2, <1>3 DEF CallInv

LEMMA StartingToolsKeepsInv ==
    ASSUME TypeOK, NEW c \in Calls, CallInv(c), StartTools(c),
           pc[c] = "judged", stage[c] = "output", OutputCleared(c),
           Verdict("output", Hits(c, "output")) # "redact"
    PROVE  CallInv(c)'
<1>1. /\ pc'[c] = "tools" /\ next'[c] = 1 /\ answer[c] = NoAnswer
      /\ UNCHANGED <<config, issued, stage, req, reply, answer>>
      /\ reply[c].kind = "completion"
  BY DEF StartTools, TypeOK, CallInv, Placed
<1>2. Placed(c)'
  BY <1>1 DEF CallInv, Placed
<1>3. ASSUME config.policy PROVE ClearedSoFar(c)'
  <2>1. /\ InputCleared(c)' /\ OutputCleared(c)'
        /\ Verdict("output", Hits(c, "output"))' # "redact"
    BY <1>1, <1>3, ClearancesAreStable DEF CallInv, ClearedSoFar
  <2>2. \A i \in DOMAIN reply[c].body.tools : ~(i < 1)
    BY DEF TypeOK, Outcomes, Completions
  <2> QED BY <1>1, <2>1, <2>2 DEF ClearedSoFar, NoAnswer
<1> QED BY <1>1, <1>2, <1>3 DEF CallInv

LEMMA NextToolKeepsInv ==
    ASSUME TypeOK, NEW c \in Calls, CallInv(c), NextTool(c),
           pc[c] = "judged", stage[c] = "tool", Cleared(c, "tool", Hits(c, "tool"))
    PROVE  CallInv(c)'
<1>1. /\ pc'[c] = "tools" /\ next'[c] = next[c] + 1 /\ answer[c] = NoAnswer
      /\ UNCHANGED <<config, issued, stage, req, reply, answer>>
      /\ reply[c].kind = "completion" /\ next[c] \in DOMAIN reply[c].body.tools
  BY DEF NextTool, TypeOK, CallInv, Placed
<1>2. Placed(c)'
  BY <1>1 DEF CallInv, Placed
<1>3. ASSUME config.policy PROVE ClearedSoFar(c)'
  <2>1. /\ InputCleared(c)' /\ OutputCleared(c)'
        /\ Verdict("output", Hits(c, "output"))' # "redact"
    BY <1>1, <1>3, ClearancesAreStable DEF CallInv, ClearedSoFar
  <2>2. ASSUME NEW i \in DOMAIN reply[c].body.tools, i < next[c] + 1
        PROVE  Cleared(c, "tool", reply[c].body.tools[i])'
    <3>1. i < next[c] \/ i = next[c]
      BY <2>2 DEF TypeOK, Outcomes, Completions
    <3>2. Cleared(c, "tool", reply[c].body.tools[next[c]])
      BY DEF Hits
    <3>3. Cleared(c, "tool", reply[c].body.tools[i])
      BY <1>3, <3>1, <3>2 DEF CallInv, ClearedSoFar
    <3> QED BY <1>1, <3>3, ClearancesAreStable
  <2> QED BY <1>1, <2>1, <2>2 DEF ClearedSoFar, NoAnswer
<1> QED BY <1>1, <1>2, <1>3 DEF CallInv

LEMMA DeliveringKeepsInv ==
    ASSUME TypeOK, NEW c \in Calls, CallInv(c),
           DeliverUnguarded(c) \/ Deliver(c) \/ RedactOutput(c)
    PROVE  CallInv(c)'
<1>1. /\ pc'[c] = "answered"
      /\ UNCHANGED <<config, issued, stage, req, reply, next>>
  BY DEF DeliverUnguarded, Deliver, RedactOutput, Finish, TypeOK
<1>2. Placed(c)'
  BY <1>1 DEF CallInv, Placed
<1>3. CASE DeliverUnguarded(c)
  BY <1>1, <1>2, <1>3 DEF DeliverUnguarded, CallInv
<1>4. ASSUME Deliver(c), config.policy PROVE ClearedSoFar(c)'
  <2>1. /\ answer'[c] = Delivery("delivered", reply[c].body)
        /\ pc[c] = "tools" /\ next[c] \notin DOMAIN reply[c].body.tools
        /\ reply[c].kind = "completion"
    BY <1>4 DEF Deliver, Finish, TypeOK, CallInv, Placed, JudgesTool
  <2>2. \A i \in DOMAIN reply[c].body.tools : i < next[c]
    BY <2>1 DEF TypeOK, Outcomes, Completions
  <2>3. /\ InputCleared(c)' /\ OutputCleared(c)'
        /\ Verdict("output", Hits(c, "output"))' # "redact"
        /\ \A i \in DOMAIN reply[c].body.tools :
              Cleared(c, "tool", reply[c].body.tools[i])'
    BY <1>1, <1>4, <2>1, <2>2, ClearancesAreStable DEF CallInv, ClearedSoFar
  <2>4. answer'[c].kind = "delivered" /\ answer'[c].body = reply'[c].body
    BY <1>1, <2>1 DEF Delivery, NoAnswer
  <2> QED BY <1>1, <2>3, <2>4 DEF ClearedSoFar
<1>5. ASSUME RedactOutput(c), config.policy PROVE ClearedSoFar(c)'
  <2>1. answer'[c].kind = "redacted" /\ reply[c].kind = "completion"
    BY <1>5 DEF RedactOutput, Passes, Judges, Finish, Delivery, NoAnswer, TypeOK,
                CallInv, Placed
  <2>2. OutputCleared(c)
    BY <1>5, PassingClears DEF RedactOutput, OutputCleared, CallInv, Stages
  <2>3. InputCleared(c)' /\ OutputCleared(c)'
    BY <1>1, <1>5, <2>1, <2>2, ClearancesAreStable DEF CallInv, ClearedSoFar
  <2> QED BY <1>1, <2>1, <2>3 DEF ClearedSoFar
<1>6. config' = config
  BY <1>1
<1> QED BY <1>2, <1>3, <1>4, <1>5, <1>6 DEF CallInv

LEMMA HandlerKeepsInv ==
    ASSUME TypeOK, NEW c \in Calls, CallInv(c), Handler(c)
    PROVE  CallInv(c)'
<1>1. CASE RejectUnconfigured(c)
  BY <1>1, RefusingKeepsInv DEF RejectUnconfigured, Failure, NoAnswer
<1>2. CASE ForwardUnguarded(c)
  BY <1>2, ForwardingKeepsInv DEF ForwardUnguarded, CallInv, Placed
<1>3. CASE EvaluateInput(c) \/ EvaluateOutput(c) \/ EvaluateTool(c)
  BY <1>3, JudgingKeepsInv DEF EvaluateInput, JudgesInput, EvaluateOutput, EvaluateTool, Stages
<1>4. CASE PassInput(c) \/ ApproveInput(c)
  <2>1. /\ Forward(c) /\ Cleared(c, "input", Hits(c, "input"))
        /\ pc[c] = "judged" /\ stage[c] = "input"
    BY <1>4, PassingClears DEF PassInput, ApproveInput, CallInv, Stages
  <2>2. InputCleared(c) /\ reply[c].kind = "none"
    BY <2>1 DEF InputCleared, Hits, CallInv, Placed
  <2> QED BY <2>1, <2>2, ForwardingKeepsInv
<1>5. CASE PassOutput(c) \/ ApproveOutput(c)
  <2>1. /\ StartTools(c) /\ OutputCleared(c) /\ pc[c] = "judged" /\ stage[c] = "output"
        /\ Verdict("output", Hits(c, "output")) # "redact"
    BY <1>5, PassingClears DEF PassOutput, ApproveOutput, OutputCleared, CallInv, Stages
  <2> QED BY <2>1, StartingToolsKeepsInv
<1>6. CASE PassTool(c) \/ ApproveTool(c)
  <2>1. /\ NextTool(c) /\ Cleared(c, "tool", Hits(c, "tool"))
        /\ pc[c] = "judged" /\ stage[c] = "tool"
    BY <1>6, PassingClears DEF PassTool, ApproveTool, CallInv, Stages
  <2> QED BY <2>1, NextToolKeepsInv
<1>7. CASE DeliverUnguarded(c) \/ Deliver(c) \/ RedactOutput(c)
  BY <1>7, DeliveringKeepsInv
<1>8. CASE AnswerUpstreamFailure(c)
  BY <1>8, RefusingKeepsInv DEF AnswerUpstreamFailure, FailsUpstream, Failure, NoAnswer
<1>9. CASE FailOnMalformed(c) \/ AuditFault(c) \/ CheckFault(c)
  BY <1>9, RefusingKeepsInv DEF FailOnMalformed, AuditFault, CheckFault, Failure, NoAnswer
<1>10. CASE Block(c) \/ Review(c)
  <2>1. PICK kind \in {"safety_blocked", "human_review_required"} :
           Finish(c, Refusal(kind, stage[c], MatchedIds(stage[c], Hits(c, stage[c]))))
    BY <1>10 DEF Block, Review
  <2>2. UNCHANGED <<config, issued, stage, req, reply, next>>
    BY <1>10 DEF Block, Review
  <2> QED BY <2>1, <2>2, RefusingKeepsInv DEF Refusal
<1> QED BY <1>1, <1>2, <1>3, <1>4, <1>5, <1>6, <1>7, <1>8, <1>9, <1>10 DEF Handler

LEMMA SurroundingsKeepInv ==
    ASSUME TypeOK, NEW c \in Calls, CallInv(c),
           \/ Submit(c) \/ IssueFor(c)
           \/ UpstreamReplies(c) \/ UpstreamFails(c) \/ UpstreamTimesOut(c)
    PROVE  CallInv(c)'
<1>1. CASE Submit(c)
  <2>1. /\ pc[c] = "unsent" /\ pc'[c] = "sent"
        /\ req'[c].token \in issued \cup ForgedTokens \cup {NoToken}
        /\ UNCHANGED <<config, issued, stage, reply, next, answer>>
    BY <1>1 DEF Submit, TypeOK
  <2> QED BY <2>1 DEF CallInv, Placed, ClearedSoFar, NoAnswer
<1>2. CASE IssueFor(c)
  BY <1>2, SameCall DEF IssueFor, Same
<1>3. CASE UpstreamReplies(c) \/ UpstreamFails(c) \/ UpstreamTimesOut(c)
  <2>1. PICK r : UpstreamEnds(c, r)
    BY <1>3 DEF UpstreamReplies, UpstreamFails, UpstreamTimesOut
  <2>2. /\ pc[c] = "awaiting" /\ pc'[c] = "resumable" /\ answer[c] = NoAnswer
        /\ UNCHANGED <<config, issued, stage, req, next, answer>>
    BY <2>1 DEF UpstreamEnds, TypeOK, CallInv, Placed
  <2>3. config.policy => InputCleared(c)'
    BY <2>2, ClearedIsStable DEF InputCleared, CallInv, ClearedSoFar
  <2> QED BY <2>2, <2>3 DEF CallInv, Placed, ClearedSoFar, NoAnswer
<1> QED BY <1>1, <1>2, <1>3

LEMMA InitGuardInv == Init => GuardInv
BY DEF Init, GuardInv, CallInv, Placed, ClearedSoFar, NoReply, NoAnswer

LEMMA NextGuardInv == TypeOK /\ GuardInv /\ [Next]_vars => GuardInv'
<1> SUFFICES ASSUME TypeOK, GuardInv, [Next]_vars, NEW d \in Calls
             PROVE  CallInv(d)'
  BY DEF GuardInv
<1>1. CallInv(d) /\ config' = config /\ issued \subseteq issued'
  BY TokensStay DEF GuardInv
<1>2. ASSUME NEW c \in Calls,
             \/ Submit(c) \/ Handler(c) \/ IssueFor(c)
             \/ UpstreamReplies(c) \/ UpstreamFails(c) \/ UpstreamTimesOut(c)
      PROVE  CallInv(d)'
  <2>1. CASE c = d
    BY <1>1, <1>2, <2>1, HandlerKeepsInv, SurroundingsKeepInv
  <2>2. CASE c # d
    BY <1>1, <1>2, <2>2, OthersSame, SameCall
  <2> QED BY <2>1, <2>2
<1>3. CASE Crash
  <2>1. /\ pc'[d] \in {pc[d], "lost"} /\ (pc'[d] = "lost" \/ pc'[d] = pc[d])
        /\ pc[d] = "answered" => pc'[d] = "answered"
        /\ UNCHANGED <<stage, req, reply, next, answer>>
    BY <1>3 DEF Crash, Finished, TypeOK
  <2>2. CASE pc'[d] = pc[d]
    BY <1>1, <2>1, <2>2, SameCall DEF Same
  <2>3. CASE pc'[d] = "lost" /\ pc[d] # "answered"
    <3>1. Placed(d)'
      BY <1>1, <2>1, <2>3 DEF CallInv, Placed
    <3>2. ASSUME config.policy PROVE ClearedSoFar(d)'
      <4>1. (reply[d].kind # "none" => InputCleared(d)') /\ answer'[d] = NoAnswer
        BY <1>1, <2>1, <2>3, <3>2, ClearancesAreStable DEF CallInv, Placed, ClearedSoFar
      <4> QED BY <2>1, <2>3, <4>1 DEF ClearedSoFar, NoAnswer
    <3> QED BY <1>1, <3>1, <3>2 DEF CallInv
  <2> QED BY <2>1, <2>2, <2>3
<1>4. CASE Tick \/ UNCHANGED vars
  BY <1>1, <1>4, SameCall DEF Tick, vars, Same
<1> QED BY <1>2, <1>3, <1>4 DEF Next

LEMMA GuardInvAlways == Spec => [](TypeOK /\ GuardInv)
BY InitTypeOK, NextTypeOK, InitGuardInv, NextGuardInv, PTL DEF Spec

(* The provider is never called with a prompt that the input stage did not *)
(* clear (the order of app.py:326-387, under every interleaving).          *)
THEOREM ForwardingIsGuarded == Spec => []ForwardedIsCleared
<1>1. TypeOK /\ GuardInv => ForwardedIsCleared
  BY DEF GuardInv, CallInv, ClearedSoFar, ForwardedIsCleared
<1> QED BY <1>1, GuardInvAlways, PTL

(* No completion is delivered past a block, a missing or foreign approval, *)
(* or an unchecked tool call, unless its text was redacted.                *)
THEOREM DeliveryIsGuarded == Spec => []DeliveredIsCleared
<1>1. TypeOK /\ GuardInv => DeliveredIsCleared
  BY DEF GuardInv, CallInv, ClearedSoFar, DeliveredIsCleared
<1> QED BY <1>1, GuardInvAlways, PTL

-----------------------------------------------------------------------------
(* What a handler does to the log and to its own request: it logs nothing  *)
(* or one event, and an approval only while a token is accepted.           *)
Records(c, e) ==
    /\ audit' = Append(audit, e)
    /\ e.call = c
    /\ e.type = "approval" =>
          /\ Judges(c, "require_human_review") /\ Approved(c) /\ config.audit
          /\ e = Event(c, "approval", stage[c], "approved",
                       MatchedIds(stage[c], Hits(c, stage[c])))

LEMMA LogRecords ==
    ASSUME NEW c \in Calls, NEW type, NEW s, NEW decision, NEW rules,
           Log(c, type, s, decision, rules),
           type = "approval" =>
              /\ Judges(c, "require_human_review") /\ Approved(c)
              /\ s = stage[c] /\ decision = "approved"
              /\ rules = MatchedIds(stage[c], Hits(c, stage[c]))
    PROVE  audit' = audit \/ \E e : Records(c, e)
<1> DEFINE e == Event(c, type, s, decision, rules)
<1>1. e.call = c /\ e.type = type
  BY DEF Event
<1>2. audit' = audit \/ (audit' = Append(audit, e) /\ config.audit)
  BY DEF Log
<1>3. type = "approval" =>
         /\ Judges(c, "require_human_review") /\ Approved(c)
         /\ e = Event(c, "approval", stage[c], "approved",
                      MatchedIds(stage[c], Hits(c, stage[c])))
  OBVIOUS
<1> HIDE DEF e
<1> QED BY <1>1, <1>2, <1>3 DEF Records

LEMMA HandlerRecords ==
    ASSUME NEW c \in Calls, Handler(c)
    PROVE  audit' = audit \/ \E e : Records(c, e)
<1>1. ASSUME NEW s, Judge(c, s) PROVE audit' = audit \/ \E e : Records(c, e)
  BY <1>1, LogRecords DEF Judge
<1>2. ASSUME NEW s, Accepts(c, s) PROVE audit' = audit \/ \E e : Records(c, e)
  BY <1>2, LogRecords DEF Accepts
<1>3. CASE EvaluateInput(c) \/ EvaluateOutput(c) \/ EvaluateTool(c)
  BY <1>1, <1>3 DEF EvaluateInput, EvaluateOutput, EvaluateTool
<1>4. CASE ApproveInput(c) \/ ApproveOutput(c) \/ ApproveTool(c)
  BY <1>2, <1>4 DEF ApproveInput, ApproveOutput, ApproveTool
<1>5. CASE AnswerUpstreamFailure(c)
  BY <1>5, LogRecords DEF AnswerUpstreamFailure
<1>6. CASE AuditFault(c)
  BY <1>6, LogRecords DEF AuditFault, MayLog
<1>7. CASE \/ RejectUnconfigured(c) \/ ForwardUnguarded(c) \/ PassInput(c)
           \/ DeliverUnguarded(c) \/ FailOnMalformed(c) \/ PassOutput(c)
           \/ RedactOutput(c) \/ PassTool(c) \/ Deliver(c)
           \/ Block(c) \/ Review(c) \/ CheckFault(c)
  BY <1>7 DEF CheckFault, RejectUnconfigured, ForwardUnguarded, PassInput, DeliverUnguarded,
     FailOnMalformed, PassOutput, RedactOutput, PassTool, Deliver, Block, Review, Passes
<1> QED BY <1>3, <1>4, <1>5, <1>6, <1>7 DEF Handler

(* A handler only runs for a call that has arrived, never sends it back,   *)
(* and changes neither requests, tokens nor the clock.                     *)
LEMMA HandlerKeepsRequests ==
    ASSUME TypeOK, NEW c \in Calls, Handler(c)
    PROVE  /\ pc[c] # "unsent" /\ pc'[c] # "unsent"
           /\ UNCHANGED <<req, issued, clock>>
<1>1. ASSUME NEW s, Judge(c, s) PROVE pc'[c] # "unsent" /\ UNCHANGED <<req, issued, clock>>
  BY <1>1 DEF Judge, TypeOK
<1>2. ASSUME Forward(c) \/ StartTools(c) \/ NextTool(c)
      PROVE  pc'[c] # "unsent" /\ UNCHANGED <<req, issued, clock>>
  BY <1>2 DEF Forward, StartTools, NextTool, TypeOK
<1>3. ASSUME NEW a, Finish(c, a) PROVE pc'[c] # "unsent"
  BY <1>3 DEF Finish, TypeOK
<1>4. CASE EvaluateInput(c) \/ EvaluateOutput(c) \/ EvaluateTool(c)
  BY <1>1, <1>4 DEF EvaluateInput, EvaluateOutput, EvaluateTool, JudgesInput,
     JudgesOutput, JudgesTool
<1>5. CASE \/ ForwardUnguarded(c) \/ PassInput(c) \/ ApproveInput(c) \/ PassOutput(c)
           \/ ApproveOutput(c) \/ PassTool(c) \/ ApproveTool(c)
  BY <1>2, <1>5 DEF ForwardUnguarded, PassInput, ApproveInput, PassOutput, ApproveOutput,
     PassTool, ApproveTool, Passes, Accepts, Judges
<1>6. CASE \/ RejectUnconfigured(c) \/ AnswerUpstreamFailure(c) \/ DeliverUnguarded(c)
           \/ FailOnMalformed(c) \/ RedactOutput(c) \/ Deliver(c)
           \/ Block(c) \/ Review(c) \/ AuditFault(c) \/ CheckFault(c)
  BY <1>3, <1>6 DEF RejectUnconfigured, AnswerUpstreamFailure, FailsUpstream,
     DeliverUnguarded, FailOnMalformed, RedactOutput, Deliver, Block, Review, AuditFault,
     CheckFault, Passes, Judges, Evaluates, Chokes, JudgesInput, JudgesOutput, JudgesTool
<1> QED BY <1>4, <1>5, <1>6 DEF Handler

(* Everything else leaves the log alone.                                   *)
LEMMA OnlyHandlersLog ==
    ASSUME [Next]_vars, audit' # audit
    PROVE  \E c \in Calls : Handler(c)
<1>1. ASSUME NEW c \in Calls, Submit(c) \/ IssueFor(c) PROVE audit' = audit
  BY <1>1 DEF Submit, IssueFor
<1>2. ASSUME NEW c \in Calls, UpstreamReplies(c) \/ UpstreamFails(c) \/ UpstreamTimesOut(c)
      PROVE  audit' = audit
  BY <1>2 DEF UpstreamReplies, UpstreamFails, UpstreamTimesOut, UpstreamEnds
<1>3. CASE Tick \/ Crash \/ UNCHANGED vars
  BY <1>3 DEF Tick, Crash, vars
<1> QED BY <1>1, <1>2, <1>3 DEF Next

LEMMA LogGrows ==
    ASSUME TypeOK, [Next]_vars
    PROVE  audit' = audit \/ \E c \in Calls : Handler(c) /\ \E e : Records(c, e)
BY OnlyHandlersLog, HandlerRecords

-----------------------------------------------------------------------------
(* Approvals are backed.                                                   *)

Backed(e) ==
    e.type = "approval" =>
        /\ Grants(req[e.call].token, e.rid, e.stage, e.rules)
        /\ req[e.call].token.exp - Ttl <= e.at /\ e.at <= req[e.call].token.exp

(* The strengthening: no token was issued in the future, and the request   *)
(* of a call that has logged something is final.                           *)
LogInv ==
    /\ \A t \in issued : t.exp <= clock + Ttl
    /\ \A i \in DOMAIN audit : pc[audit[i].call] # "unsent" /\ Backed(audit[i])

(* A call that has arrived does not come back with another request.        *)
LEMMA RequestsAreFinal ==
    ASSUME TypeOK, [Next]_vars, NEW d \in Calls, pc[d] # "unsent"
    PROVE  pc'[d] # "unsent" /\ req'[d] = req[d]
<1>1. ASSUME NEW c \in Calls, c # d,
             \/ Submit(c) \/ Handler(c) \/ IssueFor(c)
             \/ UpstreamReplies(c) \/ UpstreamFails(c) \/ UpstreamTimesOut(c)
      PROVE  pc'[d] # "unsent" /\ req'[d] = req[d]
  BY <1>1, OthersSame DEF Same
<1>2. CASE Handler(d)
  BY <1>2, HandlerKeepsRequests
<1>3. CASE \/ Submit(d) \/ IssueFor(d) \/ UpstreamReplies(d) \/ UpstreamFails(d)
           \/ UpstreamTimesOut(d)
  BY <1>3 DEF Submit, IssueFor, UpstreamReplies, UpstreamFails, UpstreamTimesOut,
     UpstreamEnds, TypeOK
<1>4. CASE Tick \/ Crash \/ UNCHANGED vars
  BY <1>4 DEF Tick, Crash, vars, TypeOK
<1> QED BY <1>1, <1>2, <1>3, <1>4 DEF Next

LEMMA IssuedInTime ==
    ASSUME TypeOK, [Next]_vars, \A t \in issued : t.exp <= clock + Ttl
    PROVE  \A t \in issued' : t.exp <= clock' + Ttl
<1>1. CASE UNCHANGED <<issued, clock>>
  BY <1>1
<1>2. ASSUME NEW c \in Calls, IssueFor(c) PROVE \A t \in issued' : t.exp <= clock' + Ttl
  <2>1. clock' = clock /\ \A t \in issued' \ issued : t.exp = clock + Ttl
    BY <1>2 DEF IssueFor, Issue, Token
  <2> QED BY <2>1, ClockAssumption DEF TypeOK
<1>3. CASE Tick
  <2>1. \A t \in issued : t.exp \in Nat
    BY DEF TypeOK, Tokens
  <2> QED BY <1>3, <2>1, ClockAssumption DEF Tick, TypeOK
<1>4. ASSUME NEW c \in Calls,
             \/ Submit(c) \/ Handler(c)
             \/ UpstreamReplies(c) \/ UpstreamFails(c) \/ UpstreamTimesOut(c)
      PROVE  UNCHANGED <<issued, clock>>
  BY <1>4, HandlerKeepsRequests
     DEF Submit, UpstreamReplies, UpstreamFails, UpstreamTimesOut, UpstreamEnds
<1>5. CASE Crash \/ UNCHANGED vars
  BY <1>1, <1>5 DEF Crash, vars
<1> QED BY <1>1, <1>2, <1>3, <1>4, <1>5 DEF Next

(* Tokens stay issued, so what backs an event backs it for good.           *)
LEMMA BackingStays ==
    ASSUME [Next]_vars, NEW e, Backed(e), req'[e.call] = req[e.call]
    PROVE  Backed(e)'
BY TokensStay DEF Backed, Grants

(* A token that is accepted backs the approval that is logged for it.      *)
LEMMA AcceptedIsBacked ==
    ASSUME TypeOK, NEW c \in Calls, Placed(c), Approved(c),
           \A t \in issued : t.exp <= clock + Ttl
    PROVE  Backed(Event(c, "approval", stage[c], "approved",
                        MatchedIds(stage[c], Hits(c, stage[c]))))
<1>1. Grants(req[c].token, req[c].rid, stage[c], MatchedIds(stage[c], Hits(c, stage[c])))
  BY ApprovedGrants
<1>2. req[c].token \in issued /\ ~(req[c].token.exp < clock)
  BY <1>1 DEF Grants, Approved, Allows, Decodes
<1>3. req[c].token.exp \in Nat
  BY <1>2 DEF TypeOK, Tokens
<1>4. req[c].token.exp - Ttl <= clock /\ clock <= req[c].token.exp
  BY <1>2, <1>3, ClockAssumption DEF TypeOK
<1> QED BY <1>1, <1>4 DEF Backed, Event

LEMMA NextLogInv == TypeOK /\ GuardInv /\ LogInv /\ [Next]_vars => LogInv'
<1> SUFFICES ASSUME TypeOK, GuardInv, LogInv, [Next]_vars PROVE LogInv'
  OBVIOUS
<1>1. \A t \in issued' : t.exp <= clock' + Ttl
  BY IssuedInTime DEF LogInv
<1>2. ASSUME NEW i \in DOMAIN audit, NEW e, e = audit[i]
      PROVE  pc'[e.call] # "unsent" /\ Backed(e)'
  <2>1. e.call \in Calls
    <3>1. audit \in Seq(Events)
      BY DEF TypeOK
    <3>2. e \in Events
      BY <1>2, <3>1
    <3> QED BY <3>2 DEF Events
  <2>2. pc'[e.call] # "unsent" /\ req'[e.call] = req[e.call]
    BY <1>2, <2>1, RequestsAreFinal DEF LogInv
  <2>3. Backed(e)
    BY <1>2 DEF LogInv
  <2> QED BY <2>2, <2>3, BackingStays
<1>3. CASE audit' = audit
  BY <1>1, <1>2, <1>3 DEF LogInv
<1>4. ASSUME NEW c \in Calls, Handler(c), NEW e, Records(c, e) PROVE LogInv'
  <2>1. pc'[c] # "unsent" /\ req' = req
    BY <1>4, HandlerKeepsRequests
  <2>2. Backed(e)
    <3>1. CASE e.type = "approval"
      BY <1>4, <3>1, AcceptedIsBacked DEF Records, GuardInv, CallInv, LogInv
    <3> QED BY <3>1 DEF Backed
  <2>3. Backed(e)' /\ pc'[e.call] # "unsent"
    BY <1>4, <2>1, <2>2, BackingStays DEF Records
  <2>4. /\ DOMAIN audit' = DOMAIN audit \cup {Len(audit) + 1}
        /\ \A i \in DOMAIN audit : audit'[i] = audit[i]
        /\ audit'[Len(audit) + 1] = e
    BY <1>4 DEF Records, TypeOK
  <2> QED BY <1>1, <1>2, <2>3, <2>4 DEF LogInv
<1> QED BY <1>3, <1>4, LogGrows

(* Every approval on record was given by a token that was issued for that  *)
(* request, stage and rules and was in force (app.py:350-377, tokens.py).  *)
THEOREM ApprovalsAreBacked == Spec => []ApprovalIsBacked
<1>1. Init => LogInv
  BY DEF Init, LogInv
<1>2. LogInv => ApprovalIsBacked
  BY DEF LogInv, Backed, ApprovalIsBacked
<1> QED BY <1>1, <1>2, NextLogInv, GuardInvAlways, PTL DEF Spec

-----------------------------------------------------------------------------
(* Approvals follow the decision they override.                            *)

(* Between its await and its answer, a handler keeps the event loop ...    *)
HoldsLoop == \A c \in Calls : pc[c] \in {"judged", "tools"} => loop = c

IsDecision(e, c) ==
    /\ e.call = c /\ e.rid = req[c].rid /\ e.type = "policy_decision"
    /\ e.stage = stage[c] /\ e.decision = Verdict(stage[c], Hits(c, stage[c]))
    /\ e.rules = MatchedIds(stage[c], Hits(c, stage[c]))

(* ... so that the last event of the log is the decision it has just made. *)
DecisionIsLast ==
    \A c \in Calls :
        pc[c] = "judged" /\ config.audit =>
            audit # <<>> /\ IsDecision(audit[Len(audit)], c)

FollowInv == HoldsLoop /\ DecisionIsLast /\ ApprovalFollowsItsDecision

LEMMA HandlerHasLoop ==
    ASSUME HoldsLoop, NEW c \in Calls, Handler(c)
    PROVE  loop \in {Free, c}
<1>1. CASE \/ RejectUnconfigured(c) \/ ForwardUnguarded(c) \/ EvaluateInput(c)
           \/ EvaluateOutput(c) \/ EvaluateTool(c) \/ AnswerUpstreamFailure(c)
           \/ DeliverUnguarded(c) \/ FailOnMalformed(c) \/ AuditFault(c) \/ CheckFault(c)
  BY <1>1 DEF RejectUnconfigured, ForwardUnguarded, EvaluateInput, EvaluateOutput,
     EvaluateTool, AnswerUpstreamFailure, DeliverUnguarded, FailOnMalformed, AuditFault, CheckFault,
     Judge, MayRun
<1>2. CASE \/ PassInput(c) \/ ApproveInput(c) \/ PassOutput(c) \/ ApproveOutput(c)
           \/ RedactOutput(c) \/ PassTool(c) \/ ApproveTool(c) \/ Deliver(c)
           \/ Block(c) \/ Review(c)
  <2>1. pc[c] \in {"judged", "tools"}
    BY <1>2 DEF PassInput, ApproveInput, PassOutput, ApproveOutput, RedactOutput,
       PassTool, ApproveTool, Deliver, Block, Review, Passes, Accepts, Judges
  <2> QED BY <2>1 DEF HoldsLoop
<1> QED BY <1>1, <1>2 DEF Handler

(* A handler is left in one of three ways: a decision has just been made,  *)
(* the tool loop goes on, or the handler has let go of the event loop.     *)
LEMMA HandlerLeaves ==
    ASSUME TypeOK, HoldsLoop, NEW c \in Calls, Handler(c)
    PROVE  \/ \E s \in Stages : Judge(c, s)
           \/ pc'[c] = "tools" /\ loop' = c
           \/ pc'[c] \notin {"judged", "tools"}
<1>1. CASE EvaluateInput(c) \/ EvaluateOutput(c) \/ EvaluateTool(c)
  BY <1>1 DEF EvaluateInput, EvaluateOutput, EvaluateTool, Stages
<1>2. CASE PassOutput(c) \/ ApproveOutput(c) \/ PassTool(c) \/ ApproveTool(c)
  <2>1. pc[c] = "judged"
    BY <1>2 DEF PassOutput, ApproveOutput, PassTool, ApproveTool, Passes, Accepts, Judges
  <2> QED BY <1>2, <2>1 DEF PassOutput, ApproveOutput, PassTool, ApproveTool, StartTools,
             NextTool, HoldsLoop, TypeOK
<1>3. CASE ForwardUnguarded(c) \/ PassInput(c) \/ ApproveInput(c)
  BY <1>3 DEF ForwardUnguarded, PassInput, ApproveInput, Forward, TypeOK
<1>4. ASSUME NEW a, Finish(c, a) PROVE pc'[c] \notin {"judged", "tools"}
  BY <1>4 DEF Finish, TypeOK
<1>5. CASE \/ RejectUnconfigured(c) \/ AnswerUpstreamFailure(c) \/ DeliverUnguarded(c)
           \/ FailOnMalformed(c) \/ RedactOutput(c) \/ Deliver(c)
           \/ Block(c) \/ Review(c) \/ AuditFault(c) \/ CheckFault(c)
  BY <1>4, <1>5 DEF RejectUnconfigured, AnswerUpstreamFailure, DeliverUnguarded,
     FailOnMalformed, RedactOutput, Deliver, Block, Review, AuditFault, CheckFault
<1> QED BY <1>1, <1>2, <1>3, <1>5 DEF Handler

LEMMA JudgeLogsDecision ==
    ASSUME TypeOK, NEW c \in Calls, NEW s \in Stages, Judge(c, s)
    PROVE  /\ config'.audit => audit' # <<>> /\ IsDecision(audit[Len(audit)], c)'
           /\ loop' = c
<1>1. /\ stage'[c] = s /\ req' = req /\ reply' = reply /\ next' = next /\ config' = config
      /\ loop' = c
  BY DEF Judge, TypeOK
<1>2. Hits(c, s)' = Hits(c, s)
  BY <1>1 DEF Hits
<1> DEFINE e == Event(c, "policy_decision", s, Verdict(s, Hits(c, s)),
                      MatchedIds(s, Hits(c, s)))
<1>3. ASSUME config.audit PROVE audit' # <<>> /\ audit'[Len(audit')] = e
  <2>1. audit' = Append(audit, e)
    BY <1>3 DEF Judge, Log
  <2> HIDE DEF e
  <2> QED BY <2>1 DEF TypeOK
<1>4. ASSUME audit'[Len(audit')] = e PROVE IsDecision(audit[Len(audit)], c)'
  BY <1>1, <1>2, <1>4 DEF IsDecision, Event, Verdict, MatchedIds
<1> QED BY <1>1, <1>3, <1>4

(* What a step does not touch stays the last decision.                     *)
LEMMA DecisionStays ==
    ASSUME NEW c \in Calls, Same(c), NEW e, IsDecision(e, c)
    PROVE  IsDecision(e, c)'
BY DEF Same, IsDecision, Hits, Verdict, MatchedIds

LEMMA NextHoldsLoop ==
    ASSUME TypeOK, HoldsLoop, [Next]_vars
    PROVE  HoldsLoop'
<1> SUFFICES ASSUME NEW d \in Calls, pc'[d] \in {"judged", "tools"} PROVE loop' = d
  BY DEF HoldsLoop
<1>1. ASSUME NEW c \in Calls, Handler(c) PROVE loop' = d
  <2>1. CASE c = d
    BY <1>1, <2>1, HandlerLeaves DEF Judge
  <2>2. CASE c # d
    <3>1. pc'[d] = pc[d]
      BY <1>1, <2>2, OthersSame DEF Same
    <3>2. loop = d /\ loop \in {Free, c}
      BY <1>1, <3>1, HandlerHasLoop DEF HoldsLoop
    <3> QED BY <2>2, <3>2, CallsAssumption
  <2> QED BY <2>1, <2>2
<1>2. ASSUME NEW c \in Calls,
             \/ Submit(c) \/ IssueFor(c)
             \/ UpstreamReplies(c) \/ UpstreamFails(c) \/ UpstreamTimesOut(c)
      PROVE  loop' = d
  <2>1. loop' = loop /\ pc'[d] = pc[d]
    BY <1>2 DEF Submit, IssueFor, UpstreamReplies, UpstreamFails, UpstreamTimesOut,
       UpstreamEnds, TypeOK
  <2> QED BY <2>1 DEF HoldsLoop
<1>3. CASE Crash
  BY <1>3 DEF Crash, TypeOK, Finished
<1>4. CASE Tick \/ UNCHANGED vars
  BY <1>4 DEF Tick, vars, HoldsLoop
<1> QED BY <1>1, <1>2, <1>3, <1>4 DEF Next

LEMMA NextDecisionIsLast ==
    ASSUME TypeOK, HoldsLoop, DecisionIsLast, [Next]_vars
    PROVE  DecisionIsLast'
<1> SUFFICES ASSUME NEW d \in Calls, pc'[d] = "judged", config'.audit
             PROVE  audit' # <<>> /\ IsDecision(audit[Len(audit)], d)'
  BY DEF DecisionIsLast
<1>1. ASSUME Same(d), audit' = audit PROVE audit' # <<>> /\ IsDecision(audit[Len(audit)], d)'
  <2> DEFINE e == audit[Len(audit)]
  <2>1. audit # <<>> /\ IsDecision(e, d)
    BY <1>1, TokensStay DEF Same, DecisionIsLast
  <2>2. e' = e
    BY <1>1
  <2> HIDE DEF e
  <2>3. PICK f : f = e
    OBVIOUS
  <2>4. IsDecision(f, d)'
    BY <1>1, <2>1, <2>3, DecisionStays
  <2>5. IsDecision(e, d)'
    BY <2>2, <2>3, <2>4
  <2> QED BY <1>1, <2>1, <2>5 DEF e
<1>2. ASSUME NEW c \in Calls, Handler(c)
      PROVE  audit' # <<>> /\ IsDecision(audit[Len(audit)], d)'
  <2>1. CASE c = d
    BY <1>2, <2>1, HandlerLeaves, JudgeLogsDecision
  <2>2. CASE c # d
    <3>1. pc[d] = "judged"
      BY <1>2, <2>2, OthersSame DEF Same
    <3>2. loop = d /\ loop \in {Free, c}
      BY <1>2, <3>1, HandlerHasLoop DEF HoldsLoop
    <3> QED BY <2>2, <3>2, CallsAssumption
  <2> QED BY <2>1, <2>2
<1>3. ASSUME ~\E c \in Calls : Handler(c) PROVE audit' = audit /\ Same(d)
  <2>1. audit' = audit
    BY <1>3, OnlyHandlersLog
  <2>2. ASSUME NEW c \in Calls,
               \/ Submit(c) \/ IssueFor(c)
               \/ UpstreamReplies(c) \/ UpstreamFails(c) \/ UpstreamTimesOut(c)
        PROVE  Same(d)
    <3>1. CASE c = d
      BY <2>2, <3>1 DEF Submit, IssueFor, UpstreamReplies, UpstreamFails,
         UpstreamTimesOut, UpstreamEnds, TypeOK, Same
    <3> QED BY <2>2, <3>1, OthersSame
  <2>3. CASE Tick \/ Crash \/ UNCHANGED vars
    BY <2>3 DEF Tick, Crash, vars, TypeOK, Same
  <2> QED BY <1>3, <2>1, <2>2, <2>3 DEF Next
<1> QED BY <1>1, <1>2, <1>3

LEMMA NextFollows ==
    ASSUME TypeOK, HoldsLoop, DecisionIsLast, ApprovalFollowsItsDecision, [Next]_vars
    PROVE  ApprovalFollowsItsDecision'
<1> DEFINE Overrides(a, e) ==
             e = [a EXCEPT !.type = "policy_decision",
                           !.decision = "require_human_review", !.at = e.at]
<1>1. CASE audit' = audit
  BY <1>1 DEF ApprovalFollowsItsDecision
<1>2. ASSUME NEW c \in Calls, Handler(c), NEW a, Records(c, a)
      PROVE  ApprovalFollowsItsDecision'
  <2>1. /\ audit \in Seq(Events)
        /\ audit' \in Seq(Events)
        /\ DOMAIN audit' = DOMAIN audit \cup {Len(audit) + 1}
        /\ \A i \in DOMAIN audit : audit'[i] = audit[i]
        /\ audit'[Len(audit) + 1] = a
    BY <1>2, NextTypeOK DEF Records, TypeOK
  <2>2. ASSUME a.type = "approval"
        PROVE  audit # <<>> /\ Overrides(a, audit[Len(audit)])
    <3>1. a = Event(c, "approval", stage[c], "approved",
                    MatchedIds(stage[c], Hits(c, stage[c])))
      BY <1>2, <2>2 DEF Records
    <3>2. Judges(c, "require_human_review") /\ config.audit
      BY <1>2, <2>2 DEF Records
    <3>3. audit # <<>> /\ IsDecision(audit[Len(audit)], c)
      BY <3>2 DEF DecisionIsLast, Judges
    <3> DEFINE e == audit[Len(audit)]
    <3>4. e \in Events
      BY <2>1, <3>3
    <3>5. /\ e.call = a.call /\ e.rid = a.rid /\ e.stage = a.stage /\ e.rules = a.rules
          /\ e.type = "policy_decision" /\ e.decision = "require_human_review"
      BY <3>1, <3>2, <3>3 DEF IsDecision, Event, Judges
    <3> HIDE DEF e
    <3>6. Overrides(a, e)
      BY <3>1, <3>4, <3>5 DEF Events, Event
    <3> QED BY <3>3, <3>6 DEF e
  <2>3. ASSUME NEW i \in DOMAIN audit', audit'[i].type = "approval"
        PROVE  i > 1 /\ Overrides(audit'[i], audit'[i - 1])
    <3>1. CASE i \in DOMAIN audit
      <4>1. i > 1 /\ Overrides(audit[i], audit[i - 1])
        BY <2>1, <2>3, <3>1 DEF ApprovalFollowsItsDecision
      <4>2. i - 1 \in DOMAIN audit
        BY <2>1, <3>1, <4>1
      <4> QED BY <2>1, <3>1, <4>1, <4>2
    <3>2. CASE i = Len(audit) + 1
      <4>1. audit # <<>> /\ Overrides(a, audit[Len(audit)])
        BY <2>1, <2>2, <2>3, <3>2
      <4>2. Len(audit) \in DOMAIN audit
        BY <2>1, <4>1
      <4> HIDE DEF Overrides
      <4> QED BY <2>1, <3>2, <4>1, <4>2
    <3> QED BY <2>1, <3>1, <3>2
  <2> QED BY <2>3 DEF ApprovalFollowsItsDecision
<1> HIDE DEF Overrides
<1> QED BY <1>1, <1>2, LogGrows

(* In the log, an approval comes right after the decision it overrides,    *)
(* whatever other calls are in flight (app.py:326-377 has no await).       *)
THEOREM ApprovalsFollowDecisions == Spec => []ApprovalFollowsItsDecision
<1>1. Init => FollowInv
  BY DEF Init, FollowInv, HoldsLoop, DecisionIsLast, ApprovalFollowsItsDecision
<1>2. TypeOK /\ FollowInv /\ [Next]_vars => FollowInv'
  BY NextHoldsLoop, NextDecisionIsLast, NextFollows DEF FollowInv
<1>3. FollowInv => ApprovalFollowsItsDecision
  BY DEF FollowInv
<1> QED BY <1>1, <1>2, <1>3, TypeCorrect, PTL DEF Spec

-----------------------------------------------------------------------------
(* Refusals are justified.                                                 *)

(* Forged tokens and issued ones never meet.                               *)
IssuedAreGenuine == \A t \in issued : t.signature = "genuine"

JustInv == IssuedAreGenuine /\ RefusalIsJustified

LEMMA ClockRuns ==
    ASSUME TypeOK, [Next]_vars
    PROVE  clock <= clock' /\ (IssuedAreGenuine => IssuedAreGenuine')
<1>1. CASE UNCHANGED <<issued, clock>>
  BY <1>1 DEF TypeOK, IssuedAreGenuine
<1>2. ASSUME NEW c \in Calls, IssueFor(c)
      PROVE  clock' = clock /\ \A t \in issued' \ issued : t.signature = "genuine"
  BY <1>2 DEF IssueFor, Issue, Token
<1>3. CASE Tick
  BY <1>3 DEF Tick, TypeOK, IssuedAreGenuine
<1>4. ASSUME NEW c \in Calls,
             \/ Submit(c) \/ Handler(c)
             \/ UpstreamReplies(c) \/ UpstreamFails(c) \/ UpstreamTimesOut(c)
      PROVE  UNCHANGED <<issued, clock>>
  BY <1>4, HandlerKeepsRequests
     DEF Submit, UpstreamReplies, UpstreamFails, UpstreamTimesOut, UpstreamEnds
<1>5. CASE Crash \/ UNCHANGED vars
  BY <1>1, <1>5 DEF Crash, vars
<1> QED BY <1>1, <1>2, <1>3, <1>4, <1>5 DEF Next, TypeOK, IssuedAreGenuine

(* A call is asked for a review in one place only.                         *)
LEMMA OnlyReviewRefuses ==
    ASSUME TypeOK, NEW c \in Calls, [Next]_vars,
           answer'[c].kind = "human_review_required"
    PROVE  answer'[c] = answer[c] \/ Review(c)
<1>1. ASSUME NEW a, Finish(c, a), a.kind # "human_review_required" PROVE FALSE
  BY <1>1 DEF Finish, TypeOK
<1>2. CASE Handler(c)
  <2>1. CASE \/ RejectUnconfigured(c) \/ AnswerUpstreamFailure(c) \/ FailOnMalformed(c)
             \/ AuditFault(c) \/ CheckFault(c)
    BY <1>1, <2>1 DEF RejectUnconfigured, AnswerUpstreamFailure, FailsUpstream,
       FailOnMalformed, AuditFault, CheckFault, Failure, NoAnswer
  <2>2. CASE DeliverUnguarded(c) \/ RedactOutput(c) \/ Deliver(c)
    BY <1>1, <2>2 DEF DeliverUnguarded, RedactOutput, Deliver, Delivery, NoAnswer
  <2>3. CASE Block(c)
    BY <1>1, <2>3 DEF Block, Refusal
  <2>4. CASE \/ ForwardUnguarded(c) \/ EvaluateInput(c) \/ PassInput(c) \/ ApproveInput(c)
             \/ EvaluateOutput(c) \/ PassOutput(c) \/ ApproveOutput(c)
             \/ EvaluateTool(c) \/ PassTool(c) \/ ApproveTool(c)
    BY <2>4 DEF ForwardUnguarded, EvaluateInput, PassInput, ApproveInput, EvaluateOutput,
       PassOutput, ApproveOutput, EvaluateTool, PassTool, ApproveTool, Judge, Forward,
       StartTools, NextTool
  <2> QED BY <1>2, <2>1, <2>2, <2>3, <2>4 DEF Handler
<1>3. CASE \/ Submit(c) \/ IssueFor(c)
           \/ UpstreamReplies(c) \/ UpstreamFails(c) \/ UpstreamTimesOut(c)
  BY <1>3 DEF Submit, IssueFor, UpstreamReplies, UpstreamFails, UpstreamTimesOut, UpstreamEnds
<1>4. ASSUME NEW d \in Calls, d # c,
             \/ Submit(d) \/ Handler(d) \/ IssueFor(d)
             \/ UpstreamReplies(d) \/ UpstreamFails(d) \/ UpstreamTimesOut(d)
      PROVE  answer'[c] = answer[c]
  BY <1>4, OthersSame DEF Same
<1>5. CASE Tick \/ Crash \/ UNCHANGED vars
  BY <1>5 DEF Tick, Crash, vars
<1> QED BY <1>2, <1>3, <1>4, <1>5 DEF Next

(* A token that grants a decision later granted it from the start.         *)
LEMMA NoLateGrant ==
    ASSUME TypeOK, TypeOK', NEW c \in Calls, Placed(c), IssuedAreGenuine',
           NEW t, t = req[c].token, NEW rid, NEW s, NEW rules,
           Grants(t, rid, s, rules)'
    PROVE  Grants(t, rid, s, rules)
<1>1. t \in issued' /\ t.signature = "genuine" /\ t # NoToken
  BY TokensAssumption DEF Grants, IssuedAreGenuine, TypeOK
<1>2. t \in issued
  BY <1>1, TokensAssumption DEF Placed
<1> QED BY <1>2 DEF Grants

LEMMA ReviewIsJustified ==
    ASSUME TypeOK, TypeOK', IssuedAreGenuine, NEW c \in Calls, Review(c)
    PROVE  \/ ~config.approval
           \/ ~Grants(req[c].token, req[c].rid, answer'[c].stage, answer'[c].rules)
           \/ req[c].token.exp < clock
<1>1. /\ answer'[c].stage = stage[c]
      /\ answer'[c].rules = MatchedIds(stage[c], Hits(c, stage[c]))
      /\ ~Approved(c)
  BY DEF Review, Finish, Refusal, TypeOK
<1>2. CASE config.approval /\ req[c].token \in issued /\ ~(req[c].token.exp < clock)
  <2>1. ~Covers(req[c].token, req[c].rid, stage[c], MatchedIds(stage[c], Hits(c, stage[c])))
    BY <1>1, <1>2, TokensAssumption DEF Approved, Allows, Decodes, IssuedAreGenuine, TypeOK
  <2> QED BY <1>1, <2>1 DEF Covers, Grants
<1> QED BY <1>2 DEF Grants

LEMMA NextJustInv == TypeOK /\ GuardInv /\ JustInv /\ [Next]_vars => JustInv'
<1> SUFFICES ASSUME TypeOK, GuardInv, JustInv, [Next]_vars, NEW c \in Calls,
                    answer'[c].kind = "human_review_required"
             PROVE  \/ ~config'.approval
                    \/ ~Grants(req[c].token, req[c].rid, answer[c].stage, answer[c].rules)'
                    \/ req'[c].token.exp < clock'
  BY ClockRuns DEF JustInv, RefusalIsJustified
<1>1. TypeOK' /\ IssuedAreGenuine' /\ config' = config /\ clock <= clock'
  BY NextTypeOK, ClockRuns, TokensStay DEF JustInv
<1>2. Placed(c)
  BY DEF GuardInv, CallInv
<1>3. PICK t, rid, s, rules : /\ t = req[c].token /\ rid = req[c].rid
                              /\ s = answer'[c].stage /\ rules = answer'[c].rules
  OBVIOUS
<1>4. pc[c] # "unsent"
  <2>1. CASE answer'[c] = answer[c]
    BY <1>2, <2>1 DEF Placed, NoAnswer
  <2>2. CASE Review(c)
    BY <2>2 DEF Review, Judges
  <2> QED BY <2>1, <2>2, OnlyReviewRefuses
<1>5. req'[c] = req[c]
  BY <1>4, RequestsAreFinal
<1>6. ~config.approval \/ ~Grants(t, rid, s, rules) \/ t.exp < clock
  <2>1. CASE answer'[c] = answer[c]
    BY <1>3, <2>1 DEF JustInv, RefusalIsJustified
  <2>2. CASE Review(c)
    BY <1>1, <1>3, <2>2, ReviewIsJustified DEF JustInv
  <2> QED BY <2>1, <2>2, OnlyReviewRefuses
<1>7. CASE ~config.approval
  BY <1>1, <1>7
<1>8. CASE ~Grants(t, rid, s, rules)
  <2>1. ~Grants(t, rid, s, rules)'
    BY <1>1, <1>2, <1>3, <1>8, NoLateGrant
  <2> QED BY <1>3, <1>5, <2>1 DEF Grants
<1>9. CASE Grants(t, rid, s, rules) /\ t.exp < clock
  <2>1. t.exp \in Nat
    BY <1>9 DEF Grants, TypeOK, Tokens
  <2> QED BY <1>1, <1>3, <1>5, <1>9, <2>1 DEF TypeOK
<1> QED BY <1>6, <1>7, <1>8, <1>9

(* Nobody is asked for a review with a token in hand that covers that very *)
(* decision and is still good (tokens.py:74, 88-96).                       *)
THEOREM RefusalsAreJustified == Spec => []RefusalIsJustified
<1>1. Init => JustInv
  BY DEF Init, JustInv, IssuedAreGenuine, RefusalIsJustified, NoAnswer
<1>2. JustInv => RefusalIsJustified
  BY DEF JustInv
<1> QED BY <1>1, <1>2, NextJustInv, GuardInvAlways, PTL DEF Spec

-----------------------------------------------------------------------------
(* What a step that records no decision of c leaves of c's story.          *)

IsOwn(c, e) == e.call = c /\ e.type = "policy_decision"

Silent(c) == audit' = audit \/ \E e : audit' = Append(audit, e) /\ ~IsOwn(c, e)

LEMMA Appended ==
    ASSUME TypeOK, NEW e, audit' = Append(audit, e)
    PROVE  /\ Len(audit) \in Nat /\ DOMAIN audit = 1..Len(audit)
           /\ DOMAIN audit' = 1..(Len(audit) + 1)
           /\ DOMAIN audit' = DOMAIN audit \cup {Len(audit) + 1}
           /\ Len(audit) + 1 \notin DOMAIN audit
           /\ audit'[Len(audit) + 1] = e
           /\ \A i \in DOMAIN audit : audit'[i] = audit[i] /\ i <= Len(audit)
BY DEF TypeOK

LEMMA DecisionsFinite ==
    ASSUME TypeOK, NEW c
    PROVE  /\ IsFiniteSet(Decisions(c)) /\ Cardinality(Decisions(c)) \in Nat
           /\ \A i \in Decisions(c) : i \in Nat /\ i <= Len(audit)
<1>1. DOMAIN audit = 1..Len(audit) /\ Len(audit) \in Nat
  BY DEF TypeOK
<1>2. IsFiniteSet(1..Len(audit)) /\ Decisions(c) \in SUBSET (1..Len(audit))
  BY <1>1, FS_Interval DEF Decisions
<1>3. IsFiniteSet(Decisions(c))
  BY <1>2, FS_Subset
<1> QED BY <1>1, <1>2, <1>3, FS_CardinalityType

LEMMA SilentKeepsDecisions ==
    ASSUME TypeOK, NEW c, Silent(c)
    PROVE  /\ Decisions(c)' = Decisions(c)
           /\ \A i \in Decisions(c) : audit'[i] = audit[i]
<1>1. CASE audit' = audit
  BY <1>1 DEF Decisions
<1>2. ASSUME NEW e, audit' = Append(audit, e), ~IsOwn(c, e)
      PROVE  /\ Decisions(c)' = Decisions(c)
             /\ \A i \in Decisions(c) : audit'[i] = audit[i]
  BY <1>2, Appended DEF Decisions, IsOwn
<1> QED BY <1>1, <1>2 DEF Silent

LEMMA DueStays ==
    ASSUME NEW c, NEW k, NEW e, req'[c] = req[c], reply'[c] = reply[c] \/ k = 1,
           IsDue(c, k, e)
    PROVE  IsDue(c, k, e)'
<1>1. DueHits(c, k)' = DueHits(c, k)
  BY DEF DueHits, Hits
<1> QED BY <1>1 DEF IsDue, Verdict, MatchedIds

LEMMA RankOfOne ==
    ASSUME TypeOK, NEW c, Cardinality(Decisions(c)) = 1, NEW i \in Decisions(c)
    PROVE  Rank(c, i) = 1
<1>1. PICK x : Decisions(c) = {x}
  BY DecisionsFinite, FS_Singleton
<1>2. {j \in Decisions(c) : j <= i} = Decisions(c)
  BY <1>1, DecisionsFinite
<1> QED BY <1>2 DEF Rank

LEMMA ToldStays ==
    ASSUME TypeOK, NEW c, NEW n, Told(c, n), Silent(c),
           req'[c] = req[c], reply'[c] = reply[c] \/ n = 1
    PROVE  Told(c, n)'
<1>1. Decisions(c)' = Decisions(c) /\ \A i \in Decisions(c) : audit'[i] = audit[i]
  BY SilentKeepsDecisions
<1>2. ASSUME NEW i \in Decisions(c) PROVE IsDue(c, Rank(c, i), audit[i])'
  <2>1. PICK k : k = Rank(c, i)
    OBVIOUS
  <2>2. PICK e : e = audit[i]
    OBVIOUS
  <2>3. IsDue(c, k, e)
    BY <1>2, <2>1, <2>2 DEF Told
  <2>4. n = 1 => k = 1
    BY <1>2, <2>1, RankOfOne DEF Told
  <2>5. IsDue(c, k, e)'
    BY <2>3, <2>4, DueStays
  <2>6. Rank(c, i)' = k /\ audit'[i] = e
    BY <1>1, <1>2, <2>1, <2>2 DEF Rank
  <2> QED BY <2>5, <2>6
<1> QED BY <1>1, <1>2 DEF Told

(* One more decision.                                                      *)
LEMMA ToldGrows ==
    ASSUME TypeOK, NEW c, NEW n \in Nat, Told(c, n), NEW e, audit' = Append(audit, e),
           IsOwn(c, e), req'[c] = req[c], reply'[c] = reply[c], IsDue(c, n + 1, e)
    PROVE  Told(c, n + 1)'
<1> DEFINE D == Decisions(c)
           last == Len(audit) + 1
<1>1. /\ D' = D \cup {last} /\ last \notin D
      /\ \A i \in D : audit'[i] = audit[i]
      /\ audit'[last] = e
  BY Appended DEF Decisions, IsOwn
<1>2. IsFiniteSet(D) /\ \A i \in D : i \in Nat /\ i < last
  BY DecisionsFinite DEF TypeOK
<1>3. last \in Nat
  BY DEF TypeOK
<1> HIDE DEF D, last
<1>4. Cardinality(D \cup {last}) = n + 1
  BY <1>1, <1>2, FS_AddElement DEF Told, D
<1>5. ASSUME NEW i \in D PROVE IsDue(c, Rank(c, i), audit[i])'
  <2>1. PICK k : k = Rank(c, i)
    OBVIOUS
  <2>2. PICK f : f = audit[i]
    OBVIOUS
  <2>3. IsDue(c, k, f)
    BY <2>1, <2>2 DEF Told, D
  <2>4. IsDue(c, k, f)'
    BY <2>3, DueStays
  <2>5. {j \in D' : j <= i} = {j \in D : j <= i}
    BY <1>1, <1>2, <1>3
  <2>6. Rank(c, i)' = k /\ audit'[i] = f
    BY <1>1, <2>1, <2>2, <2>5 DEF Rank, D
  <2> QED BY <2>4, <2>6
<1>6. ASSUME NEW i, i = last PROVE IsDue(c, Rank(c, i), audit[i])'
  <2>1. PICK k : k = n + 1
    OBVIOUS
  <2>2. IsDue(c, k, e)'
    BY <2>1, DueStays
  <2>3. {j \in D' : j <= i} = D \cup {last}
    BY <1>1, <1>2, <1>3, <1>6
  <2>4. Rank(c, i)' = k
    BY <1>4, <2>1, <2>3 DEF Rank, D
  <2>5. audit'[i] = e
    BY <1>1, <1>6
  <2> QED BY <2>2, <2>4, <2>5
<1>7. Cardinality(Decisions(c))' = n + 1
  BY <1>1, <1>4 DEF D
<1> QED BY <1>1, <1>5, <1>6, <1>7 DEF Told, D

-----------------------------------------------------------------------------
(* A step of others.                                                       *)

Quiet(c) == audit' = audit \/ \E e : audit' = Append(audit, e) /\ e.call # c

LEMMA EndingStays ==
    ASSUME TypeOK, NEW c, Quiet(c), answer'[c] = answer[c], NEW type, NEW decision,
           EndsWith(c, type, decision)
    PROVE  EndsWith(c, type, decision)'
<1>1. CASE audit' = audit
  BY <1>1 DEF EndsWith
<1>2. ASSUME NEW e, audit' = Append(audit, e), e.call # c
      PROVE  EndsWith(c, type, decision)'
  <2>1. PICK i \in DOMAIN audit :
            /\ audit[i].call = c /\ \A j \in DOMAIN audit : audit[j].call = c => j <= i
            /\ audit[i].type = type /\ audit[i].decision = decision
            /\ type = "policy_decision" =>
                  audit[i].stage = answer[c].stage /\ audit[i].rules = answer[c].rules
    BY DEF EndsWith
  <2>2. i \in DOMAIN audit' /\ audit'[i] = audit[i]
    BY <1>2, Appended
  <2>3. \A j \in DOMAIN audit' : audit'[j].call = c => j \in DOMAIN audit /\ audit'[j] = audit[j]
    BY <1>2, Appended
  <2> QED BY <2>1, <2>2, <2>3 DEF EndsWith
<1> QED BY <1>1, <1>2 DEF Quiet

LEMMA QuietIsSilent == ASSUME NEW c, Quiet(c) PROVE Silent(c)
BY DEF Quiet, Silent, IsOwn

LEMMA ExplainedStays ==
    ASSUME TypeOK, NEW c, Quiet(c), Explained(c), req'[c] = req[c],
           reply'[c] = reply[c], answer'[c] = answer[c]
    PROVE  Explained(c)'
<1>1. PICK n : n = 2 + Len(reply[c].body.tools)
  OBVIOUS
<1>2. Told(c, 2) => Told(c, 2)'
  BY QuietIsSilent, ToldStays
<1>3. Told(c, n) => Told(c, n)'
  BY QuietIsSilent, ToldStays
<1> QED BY <1>1, <1>2, <1>3, EndingStays DEF Explained

LEMMA OthersKeepStory ==
    ASSUME TypeOK, NEW c, Same(c), Quiet(c), StoryInv(c)
    PROVE  StoryInv(c)'
<1>1. Explained(c)'
  BY ExplainedStays DEF StoryInv, Same
<1>2. \A n : Told(c, n) => Told(c, n)'
  BY QuietIsSilent, ToldStays DEF Same
<1>3. Made(c)' = Made(c)
  BY DEF Made, Same
<1>4. PICK m : m = Made(c)
  OBVIOUS
<1>5. PICK l : l = 1 + next[c]
  OBVIOUS
<1>6. pc[c] = "judged" => Told(c, Made(c))'
  BY <1>2, <1>3, <1>4 DEF StoryInv
<1>7. pc[c] = "tools" => Told(c, 1 + next[c])'
  BY <1>2, <1>5 DEF StoryInv, Same
<1> QED BY <1>1, <1>2, <1>6, <1>7 DEF StoryInv, Same

-----------------------------------------------------------------------------
(* The steps of a call.                                                    *)

Recording == config.policy /\ config.audit

LEMMA NothingTold ==
    ASSUME TypeOK, NEW c
    PROVE  Told(c, 0) <=> Decisions(c) = {}
BY DecisionsFinite, FS_EmptySet DEF Told

(* A call that has no answer has none to explain.                          *)
LEMMA Unanswered ==
    ASSUME NEW c, answer'[c].kind \in {"none", "provider_not_configured", "internal_error"}
    PROVE  Explained(c)'
BY DEF Explained

LEMMA JudgeTells ==
    ASSUME TypeOK, Recording, NEW c \in Calls, Placed(c), StoryInv(c),
           NEW s \in Stages, Evaluates(c, s), Judge(c, s)
    PROVE  StoryInv(c)'
<1> DEFINE n == IF s = "input" THEN 0 ELSE IF s = "output" THEN 1 ELSE 1 + next[c]
<1>1. /\ pc[c] # "answered" /\ pc'[c] = "judged" /\ stage'[c] = s
      /\ UNCHANGED <<req, reply, next, answer>>
  BY DEF Evaluates, JudgesInput, JudgesOutput, JudgesTool, Judge, TypeOK
<1>2. n \in Nat
  BY DEF TypeOK
<1>3. Told(c, n)
  BY DEF Evaluates, JudgesInput, JudgesOutput, JudgesTool, StoryInv, Stages
<1>4. PICK e : audit' = Append(audit, e) /\
               e = Event(c, "policy_decision", s, Verdict(s, Hits(c, s)),
                         MatchedIds(s, Hits(c, s)))
  BY DEF Judge, Log, Recording
<1>5. IsOwn(c, e) /\ e.stage = s /\ e.decision = Verdict(s, Hits(c, s))
      /\ e.rules = MatchedIds(s, Hits(c, s))
  BY <1>4 DEF IsOwn, Event
<1>6. DueStage(n + 1) = s /\ DueHits(c, n + 1) = Hits(c, s)
  <2>1. CASE s = "input"
    BY <2>1 DEF DueStage, DueHits, Hits
  <2>2. CASE s = "output"
    BY <2>2 DEF DueStage, DueHits
  <2>3. CASE s = "tool"
    <3>1. PICK i \in Nat \ {0} : i = next[c]
      BY DEF TypeOK
    <3>2. PICK k \in Nat : k = n + 1
      BY <1>2
    <3>3. k = i + 2
      BY <2>3, <3>1, <3>2
    <3> HIDE DEF n
    <3>4. k # 1 /\ k # 2 /\ k - 2 = i
      BY <3>1, <3>2, <3>3
    <3>5. DueStage(k) = "tool" /\ DueHits(c, k) = reply[c].body.tools[i]
      BY <3>4 DEF DueStage, DueHits
    <3> QED BY <2>3, <3>1, <3>2, <3>5 DEF Hits
  <2> QED BY <2>1, <2>2, <2>3 DEF Stages
<1>7. Made(c)' = n + 1
  BY <1>1, <1>2 DEF Made, Stages, TypeOK
<1> HIDE DEF n
<1>8. PICK k \in Nat : k = n
  BY <1>2
<1>9. IsDue(c, k + 1, e)
  BY <1>5, <1>6, <1>8 DEF IsDue
<1>10. Told(c, k + 1)'
  BY <1>1, <1>3, <1>4, <1>5, <1>8, <1>9, ToldGrows
<1>11. Told(c, Made(c))'
  BY <1>7, <1>8, <1>10
<1>12. Explained(c)'
  BY <1>1, Unanswered DEF Placed, NoAnswer
<1> QED BY <1>1, <1>11, <1>12 DEF StoryInv

(* Nothing that lets a stage pass is a decision.                           *)
LEMMA PassingIsSilent ==
    ASSUME NEW c, NEW s, NEW verdicts, Passes(c, s, verdicts) \/ Accepts(c, s)
    PROVE  Silent(c) /\ pc[c] = "judged" /\ stage[c] = s
<1>1. CASE Passes(c, s, verdicts)
  BY <1>1 DEF Passes, Silent, Judges
<1>2. CASE Accepts(c, s)
  BY <1>2 DEF Accepts, Log, Event, Silent, IsOwn, Judges
<1> QED BY <1>1, <1>2

LEMMA ForwardTells ==
    ASSUME TypeOK, NEW c \in Calls, Placed(c), StoryInv(c), Silent(c),
           pc[c] = "judged", stage[c] = "input", Forward(c)
    PROVE  StoryInv(c)'
<1>1. pc'[c] = "awaiting" /\ UNCHANGED <<req, reply, answer>> /\ Told(c, 1)
  BY DEF Forward, StoryInv, Made, TypeOK
<1>2. Told(c, 1)'
  BY <1>1, ToldStays
<1>3. Explained(c)'
  BY <1>1, Unanswered DEF Placed, NoAnswer
<1> QED BY <1>1, <1>2, <1>3 DEF StoryInv

LEMMA StartToolsTells ==
    ASSUME TypeOK, NEW c \in Calls, Placed(c), StoryInv(c), Silent(c),
           pc[c] = "judged", stage[c] = "output", StartTools(c)
    PROVE  StoryInv(c)'
<1>1. pc'[c] = "tools" /\ next'[c] = 1 /\ UNCHANGED <<req, reply, answer>> /\ Told(c, 2)
  BY DEF StartTools, StoryInv, Made, TypeOK
<1>2. Told(c, 2)'
  BY <1>1, ToldStays
<1>3. Explained(c)'
  BY <1>1, Unanswered DEF Placed, NoAnswer
<1>4. Len(reply[c].body.tools) \in Nat
  BY DEF TypeOK, Outcomes, Completions
<1>5. Told(c, 1 + next[c])'
  BY <1>1, <1>2
<1> QED BY <1>1, <1>3, <1>4, <1>5 DEF StoryInv

LEMMA NextToolTells ==
    ASSUME TypeOK, NEW c \in Calls, Placed(c), StoryInv(c), Silent(c),
           pc[c] = "judged", stage[c] = "tool", NextTool(c)
    PROVE  StoryInv(c)'
<1>1. /\ pc'[c] = "tools" /\ next'[c] = next[c] + 1 /\ UNCHANGED <<req, reply, answer>>
      /\ Told(c, 2 + next[c])
  BY DEF NextTool, StoryInv, Made, TypeOK
<1>2. PICK n \in Nat : n = next[c]
  BY DEF TypeOK
<1>3. Told(c, 2 + n)'
  BY <1>1, <1>2, ToldStays
<1>4. Told(c, 1 + next[c])'
  BY <1>1, <1>2, <1>3
<1>5. Explained(c)'
  BY <1>1, Unanswered DEF Placed, NoAnswer
<1>6. next'[c] <= 1 + Len(reply'[c].body.tools)
  <2>1. reply[c].body.tools \in Seq(SUBSET Ids) /\ next[c] \in DOMAIN reply[c].body.tools
    BY DEF Placed, TypeOK, Outcomes, Completions
  <2> QED BY <1>1, <2>1
<1> QED BY <1>1, <1>4, <1>5, <1>6 DEF StoryInv

(* A refusal ends the story with the decision it enforces.                 *)
LEMMA RefusalTells ==
    ASSUME TypeOK, DecisionIsLast, Recording, NEW c \in Calls, Placed(c),
           Block(c) \/ Review(c)
    PROVE  StoryInv(c)'
<1>1. PICK v \in {"block", "require_human_review"} :
          /\ Judges(c, v)
          /\ v = "block" => Block(c)
          /\ v = "require_human_review" => Review(c)
  BY DEF Block, Review
<1>2. /\ pc'[c] = "answered" /\ audit' = audit
      /\ answer'[c].stage = stage[c]
      /\ answer'[c].rules = MatchedIds(stage[c], Hits(c, stage[c]))
      /\ answer'[c].kind = IF v = "block" THEN "safety_blocked" ELSE "human_review_required"
  BY <1>1 DEF Block, Review, Finish, Refusal, TypeOK
<1>3. PICK n : n = Len(audit)
  OBVIOUS
<1>4. n \in DOMAIN audit /\ IsDecision(audit[n], c) /\ \A j \in DOMAIN audit : j <= n
  BY <1>1, <1>3 DEF DecisionIsLast, Judges, Recording, TypeOK
<1>5. audit[n].decision = v
  BY <1>1, <1>4 DEF IsDecision, Judges
<1>6. EndsWith(c, "policy_decision", v)'
  BY <1>2, <1>4, <1>5 DEF EndsWith, IsDecision
<1>7. Explained(c)'
  BY <1>2, <1>6 DEF Explained
<1> QED BY <1>2, <1>7 DEF StoryInv

LEMMA FailureTells ==
    ASSUME TypeOK, Recording, NEW c \in Calls, AnswerUpstreamFailure(c)
    PROVE  StoryInv(c)'
<1>1. /\ pc'[c] = "answered"
      /\ answer'[c].kind = reply[c].kind /\ reply[c].kind \in {"provider_error", "exception"}
  BY DEF AnswerUpstreamFailure, FailsUpstream, Finish, Failure, NoAnswer, TypeOK
<1>2. PICK e : audit' = Append(audit, e) /\ e.call = c /\ e.type = "gateway_error"
               /\ e.decision = "error"
  BY DEF AnswerUpstreamFailure, Log, Event, Recording
<1>3. PICK n : n = Len(audit) + 1
  OBVIOUS
<1>4. n \in DOMAIN audit' /\ audit'[n] = e /\ \A j \in DOMAIN audit' : j <= n
  BY <1>2, <1>3, Appended
<1>5. EndsWith(c, "gateway_error", "error")'
  BY <1>2, <1>4 DEF EndsWith
<1>6. Explained(c)'
  BY <1>1, <1>5 DEF Explained
<1> QED BY <1>1, <1>6 DEF StoryInv

(* A delivery has been led to by every decision it owes.                   *)
LEMMA DeliveryTells ==
    ASSUME TypeOK, NEW c \in Calls, StoryInv(c), RedactOutput(c) \/ Deliver(c)
    PROVE  StoryInv(c)'
<1>1. pc'[c] = "answered" /\ audit' = audit /\ req' = req /\ reply' = reply
  BY DEF RedactOutput, Deliver, Finish, Passes, TypeOK
<1>2. CASE RedactOutput(c)
  <2>1. Told(c, 2)
    BY <1>2 DEF RedactOutput, Passes, Judges, StoryInv, Made
  <2>2. Told(c, 2)' /\ answer'[c].kind = "redacted"
    BY <1>1, <1>2, <2>1, ToldStays DEF Silent, RedactOutput, Finish, Delivery, NoAnswer, TypeOK
  <2> QED BY <1>1, <2>2 DEF StoryInv, Explained
<1>3. CASE Deliver(c)
  <2> DEFINE m == Len(reply[c].body.tools)
  <2>1. /\ reply[c].body.tools \in Seq(SUBSET Ids)
        /\ next[c] \in Nat \ {0}
        /\ next[c] \notin DOMAIN reply[c].body.tools /\ next[c] <= 1 + m
        /\ Told(c, 1 + next[c])
    BY <1>3 DEF Deliver, JudgesTool, StoryInv, TypeOK, Outcomes, Completions
  <2>2. 1 + next[c] = 2 + m
    BY <2>1
  <2>3. PICK n : n = 2 + m
    OBVIOUS
  <2>4. Told(c, n)'
    BY <1>1, <2>1, <2>2, <2>3, ToldStays DEF Silent
  <2>5. Told(c, 2 + m)'
    BY <1>1, <2>3, <2>4
  <2>6. answer'[c].kind = "delivered"
    BY <1>3 DEF Deliver, Finish, Delivery, NoAnswer, TypeOK
  <2> QED BY <1>1, <2>5, <2>6 DEF StoryInv, Explained
<1> QED BY <1>2, <1>3

LEMMA OtherAnswersTell ==
    ASSUME TypeOK, NEW c \in Calls,
           RejectUnconfigured(c) \/ FailOnMalformed(c) \/ AuditFault(c) \/ CheckFault(c)
    PROVE  StoryInv(c)'
<1>1. pc'[c] = "answered"
      /\ answer'[c].kind \in {"provider_not_configured", "internal_error"}
  BY DEF RejectUnconfigured, FailOnMalformed, AuditFault, CheckFault, Finish, Failure,
     NoAnswer, TypeOK
<1>2. Explained(c)'
  BY <1>1, Unanswered
<1> QED BY <1>1, <1>2 DEF StoryInv

LEMMA HandlerTells ==
    ASSUME TypeOK, DecisionIsLast, Recording, NEW c \in Calls, Placed(c), StoryInv(c),
           Handler(c)
    PROVE  StoryInv(c)'
<1>1. CASE EvaluateInput(c) \/ EvaluateOutput(c) \/ EvaluateTool(c)
  BY <1>1, JudgeTells DEF EvaluateInput, EvaluateOutput, EvaluateTool, Evaluates, Stages
<1>2. CASE PassInput(c) \/ ApproveInput(c)
  BY <1>2, PassingIsSilent, ForwardTells DEF PassInput, ApproveInput
<1>3. CASE PassOutput(c) \/ ApproveOutput(c)
  BY <1>3, PassingIsSilent, StartToolsTells DEF PassOutput, ApproveOutput
<1>4. CASE PassTool(c) \/ ApproveTool(c)
  BY <1>4, PassingIsSilent, NextToolTells DEF PassTool, ApproveTool
<1>5. CASE ForwardUnguarded(c) \/ DeliverUnguarded(c)
  BY <1>5 DEF ForwardUnguarded, DeliverUnguarded, Recording
<1> QED BY <1>1, <1>2, <1>3, <1>4, <1>5, RefusalTells, FailureTells, DeliveryTells,
           OtherAnswersTell DEF Handler

LEMMA ClientTells ==
    ASSUME TypeOK, NEW c \in Calls, Placed(c), StoryInv(c),
           \/ Submit(c) \/ IssueFor(c)
           \/ UpstreamReplies(c) \/ UpstreamFails(c) \/ UpstreamTimesOut(c)
    PROVE  StoryInv(c)'
<1>1. CASE Submit(c)
  <2>1. pc[c] = "unsent" /\ pc'[c] = "sent" /\ audit' = audit /\ answer' = answer
    BY <1>1 DEF Submit, TypeOK
  <2>2. Decisions(c) = {}
    BY <2>1, NothingTold DEF StoryInv
  <2>3. Told(c, 0)'
    BY <2>1, <2>2, FS_EmptySet DEF Told, Decisions
  <2>4. Explained(c)'
    BY <2>1, Unanswered DEF Placed, NoAnswer
  <2> QED BY <2>1, <2>3, <2>4 DEF StoryInv
<1>2. CASE IssueFor(c)
  BY <1>2, OthersKeepStory DEF IssueFor, Same, Quiet
<1>3. CASE UpstreamReplies(c) \/ UpstreamFails(c) \/ UpstreamTimesOut(c)
  <2>1. /\ pc[c] = "awaiting" /\ pc'[c] = "resumable"
        /\ audit' = audit /\ req' = req /\ answer' = answer
    BY <1>3 DEF UpstreamReplies, UpstreamFails, UpstreamTimesOut, UpstreamEnds, TypeOK
  <2>2. Told(c, 1)'
    BY <2>1, ToldStays DEF StoryInv, Silent
  <2>3. Explained(c)'
    BY <2>1, Unanswered DEF Placed, NoAnswer
  <2> QED BY <2>1, <2>2, <2>3 DEF StoryInv
<1> QED BY <1>1, <1>2, <1>3

LEMMA CrashTells ==
    ASSUME TypeOK, NEW c \in Calls, StoryInv(c), Crash
    PROVE  StoryInv(c)'
<1>1. /\ pc'[c] = pc[c] \/ pc'[c] = "lost"
      /\ audit' = audit /\ UNCHANGED <<stage, req, reply, next, answer>>
  BY DEF Crash, TypeOK
<1>2. Quiet(c) /\ Explained(c)'
  BY <1>1, ExplainedStays DEF Quiet, StoryInv
<1>3. CASE pc'[c] = pc[c]
  BY <1>1, <1>2, <1>3, OthersKeepStory DEF Same
<1>4. CASE pc'[c] = "lost"
  BY <1>2, <1>4 DEF StoryInv
<1> QED BY <1>1, <1>3, <1>4

TrailInv == Recording => \A c \in Calls : StoryInv(c)

LEMMA InitTrailInv == Init => TrailInv
<1> SUFFICES ASSUME Init, NEW c \in Calls PROVE StoryInv(c)
  BY DEF TrailInv
<1>1. Decisions(c) = {} /\ pc[c] = "unsent" /\ answer[c].kind = "none"
  BY DEF Init, Decisions, NoAnswer
<1>2. Told(c, 0)
  BY <1>1, FS_EmptySet DEF Told
<1> QED BY <1>1, <1>2 DEF StoryInv, Explained

LEMMA NextTrailInv ==
    TypeOK /\ GuardInv /\ FollowInv /\ TrailInv /\ [Next]_vars => TrailInv'
<1> SUFFICES ASSUME TypeOK, GuardInv, FollowInv, TrailInv, [Next]_vars, Recording',
                    NEW d \in Calls
             PROVE  StoryInv(d)'
  BY DEF TrailInv
<1>1. Recording /\ StoryInv(d) /\ Placed(d) /\ DecisionIsLast
  BY TokensStay DEF Recording, TrailInv, GuardInv, CallInv, FollowInv
<1>2. ASSUME NEW c \in Calls, c # d,
             \/ Submit(c) \/ Handler(c) \/ IssueFor(c)
             \/ UpstreamReplies(c) \/ UpstreamFails(c) \/ UpstreamTimesOut(c)
      PROVE  StoryInv(d)'
  <2>1. Same(d)
    BY <1>2, OthersSame
  <2>2. audit' = audit \/ \E e : Records(c, e)
    BY <1>2, HandlerRecords DEF Submit, IssueFor, UpstreamReplies, UpstreamFails,
       UpstreamTimesOut, UpstreamEnds
  <2>3. Quiet(d)
    BY <1>2, <2>2 DEF Quiet, Records
  <2> QED BY <1>1, <2>1, <2>3, OthersKeepStory
<1>3. CASE Handler(d)
  BY <1>1, <1>3, HandlerTells
<1>4. CASE \/ Submit(d) \/ IssueFor(d)
           \/ UpstreamReplies(d) \/ UpstreamFails(d) \/ UpstreamTimesOut(d)
  BY <1>1, <1>4, ClientTells
<1>5. CASE Crash
  BY <1>1, <1>5, CrashTells
<1>6. CASE Tick \/ UNCHANGED vars
  <2>1. Same(d) /\ Quiet(d)
    BY <1>6 DEF Tick, vars, Same, Quiet
  <2> QED BY <1>1, <2>1, OthersKeepStory
<1> QED BY <1>2, <1>3, <1>4, <1>5, <1>6 DEF Next

(* However calls, retries, failing writes and crashes interleave, the log  *)
(* ends, for a refused or failed call, with what it was answered, and      *)
(* holds, for a delivered one, exactly the decisions that led to it, in    *)
(* their order (app.py:326-562).                                           *)
THEOREM LogExplainsAnswers == Spec => []TrailExplainsAnswer
<1>1. Init => FollowInv
  BY DEF Init, FollowInv, HoldsLoop, DecisionIsLast, ApprovalFollowsItsDecision
<1>2. TypeOK /\ FollowInv /\ [Next]_vars => FollowInv'
  BY NextHoldsLoop, NextDecisionIsLast, NextFollows DEF FollowInv
<1>3. TrailInv => TrailExplainsAnswer
  BY DEF TrailInv, Recording, StoryInv, TrailExplainsAnswer
<1> QED BY <1>1, <1>2, <1>3, InitTrailInv, NextTrailInv, GuardInvAlways, PTL DEF Spec

-----------------------------------------------------------------------------
(* What the log says of a call's prompt.                                   *)

LogKept ==
    /\ DOMAIN audit \subseteq DOMAIN audit'
    /\ \A i \in DOMAIN audit : audit'[i] = audit[i]

(* Whatever is new in the log is no decision on c's prompt.                *)
PromptQuiet(c) ==
    \A i \in DOMAIN audit' :
        \/ i \in DOMAIN audit /\ audit'[i] = audit[i]
        \/ audit'[i].call # c
        \/ audit'[i].type # "policy_decision"
        \/ audit'[i].stage # "input"

LEMMA AppendedLast ==
    ASSUME TypeOK, NEW e, audit' = Append(audit, e)
    PROVE  /\ LogKept
           /\ Len(audit) + 1 \in DOMAIN audit' /\ audit'[Len(audit) + 1] = e
           /\ \A i \in DOMAIN audit' : i \in DOMAIN audit \/ audit'[i] = e
<1>1. /\ Len(audit) \in Nat /\ DOMAIN audit = 1..Len(audit)
      /\ DOMAIN audit' = 1..(Len(audit) + 1) /\ audit'[Len(audit) + 1] = e
      /\ \A i \in DOMAIN audit : audit'[i] = audit[i]
  BY DEF TypeOK
<1>2. \A i \in DOMAIN audit' : i \in DOMAIN audit \/ i = Len(audit) + 1
  BY <1>1
<1> QED BY <1>1, <1>2 DEF LogKept

LEMMA LogIsKept == TypeOK /\ [Next]_vars => LogKept
<1> SUFFICES ASSUME TypeOK, [Next]_vars PROVE LogKept
  OBVIOUS
<1>1. CASE audit' = audit
  BY <1>1 DEF LogKept
<1>2. ASSUME NEW e, audit' = Append(audit, e) PROVE LogKept
  BY <1>2, AppendedLast
<1> QED BY <1>1, <1>2, LogGrows DEF Records

(* Another call's step, or one that logs something else, is quiet.         *)
LEMMA QuietIf ==
    ASSUME TypeOK, NEW c
    PROVE  /\ audit' = audit => PromptQuiet(c)
           /\ \A e : /\ audit' = Append(audit, e)
                     /\ e.call # c \/ e.type # "policy_decision" \/ e.stage # "input"
                     => PromptQuiet(c)
<1>1. audit' = audit => PromptQuiet(c)
  BY DEF PromptQuiet
<1>2. ASSUME NEW e, audit' = Append(audit, e),
             e.call # c \/ e.type # "policy_decision" \/ e.stage # "input"
      PROVE  PromptQuiet(c)
  BY <1>2, AppendedLast DEF PromptQuiet, LogKept
<1> QED BY <1>1, <1>2

LEMMA LogIsQuiet ==
    ASSUME TypeOK, NEW c, NEW type, NEW s, NEW decision, NEW rules,
           Log(c, type, s, decision, rules), type # "policy_decision" \/ s # "input"
    PROVE  PromptQuiet(c)
<1>1. PICK e : e = Event(c, type, s, decision, rules)
  OBVIOUS
<1>2. audit' = audit \/ audit' = Append(audit, e)
  BY <1>1 DEF Log
<1>3. e.type # "policy_decision" \/ e.stage # "input"
  BY <1>1 DEF Event
<1> QED BY <1>2, <1>3, QuietIf

LEMMA RecordStays ==
    ASSUME LogKept, NEW c, req'[c] = req[c]
    PROVE  /\ PromptIsRecorded(c) => PromptIsRecorded(c)'
           /\ PromptQuiet(c) => (PromptIsRecorded(c)' <=> PromptIsRecorded(c))
<1>1. Verdict("input", req[c].hits)' = Verdict("input", req[c].hits)
  BY DEF Verdict
<1>2. PromptIsRecorded(c) => PromptIsRecorded(c)'
  BY <1>1 DEF PromptIsRecorded, LogKept
<1>3. PromptQuiet(c) /\ PromptIsRecorded(c)' => PromptIsRecorded(c)
  BY <1>1 DEF PromptIsRecorded, PromptQuiet
<1> QED BY <1>2, <1>3

(* The evaluation of a prompt records it, if anything does.                *)
LEMMA EvaluationRecords ==
    ASSUME TypeOK, NEW c \in Calls, EvaluateInput(c), config.audit
    PROVE  PromptIsRecorded(c)'
<1>1. PICK e : /\ audit' = Append(audit, e)
               /\ e = Event(c, "policy_decision", "input", Verdict("input", Hits(c, "input")),
                            MatchedIds("input", Hits(c, "input")))
  BY DEF EvaluateInput, Judge, Log
<1>2. /\ e.call = c /\ e.type = "policy_decision" /\ e.stage = "input"
      /\ e.decision = Verdict("input", req[c].hits)'
  BY <1>1 DEF Event, Hits, EvaluateInput, Judge, Verdict
<1>3. PICK n : n = Len(audit) + 1
  OBVIOUS
<1>4. n \in DOMAIN audit' /\ audit'[n] = e
  BY <1>1, <1>3, AppendedLast
<1> QED BY <1>2, <1>4 DEF PromptIsRecorded

-----------------------------------------------------------------------------
(* The strengthening: a prompt that has been judged is on record.          *)

RecordInv ==
    config.policy /\ config.audit =>
        \A c \in Calls : pc[c] = "judged" /\ stage[c] = "input" => PromptIsRecorded(c)

(* Only the evaluation of the prompt leads to that place.                  *)
LEMMA JudgedByEvaluation ==
    ASSUME TypeOK, NEW c \in Calls, [Next]_vars, pc'[c] = "judged", stage'[c] = "input"
    PROVE  /\ req'[c] = req[c]
           /\ EvaluateInput(c) \/ (pc[c] = "judged" /\ stage[c] = "input")
<1>1. ASSUME NEW d \in Calls, d # c,
             \/ Submit(d) \/ Handler(d) \/ IssueFor(d)
             \/ UpstreamReplies(d) \/ UpstreamFails(d) \/ UpstreamTimesOut(d)
      PROVE  req'[c] = req[c] /\ pc[c] = "judged" /\ stage[c] = "input"
  BY <1>1, OthersSame DEF Same
<1>2. ASSUME NEW a, Finish(c, a) PROVE FALSE
  BY <1>2 DEF Finish, TypeOK
<1>3. ASSUME Forward(c) \/ StartTools(c) \/ NextTool(c) PROVE FALSE
  BY <1>3 DEF Forward, StartTools, NextTool, TypeOK
<1>4. ASSUME NEW s, Judge(c, s) PROVE s = "input" /\ req'[c] = req[c]
  BY <1>4 DEF Judge, TypeOK
<1>5. CASE Handler(c)
  <2>1. CASE \/ ForwardUnguarded(c) \/ PassInput(c) \/ ApproveInput(c) \/ PassOutput(c)
             \/ ApproveOutput(c) \/ PassTool(c) \/ ApproveTool(c)
    BY <1>3, <2>1 DEF ForwardUnguarded, PassInput, ApproveInput, PassOutput,
       ApproveOutput, PassTool, ApproveTool
  <2>2. CASE \/ RejectUnconfigured(c) \/ AnswerUpstreamFailure(c) \/ DeliverUnguarded(c)
             \/ FailOnMalformed(c) \/ RedactOutput(c) \/ Deliver(c) \/ Block(c)
             \/ Review(c) \/ AuditFault(c) \/ CheckFault(c)
    BY <1>2, <2>2 DEF RejectUnconfigured, AnswerUpstreamFailure, DeliverUnguarded,
       FailOnMalformed, RedactOutput, Deliver, Block, Review, AuditFault, CheckFault
  <2>3. CASE EvaluateInput(c) \/ EvaluateOutput(c) \/ EvaluateTool(c)
    BY <1>4, <2>3 DEF EvaluateInput, EvaluateOutput, EvaluateTool
  <2> QED BY <1>5, <2>1, <2>2, <2>3 DEF Handler
<1>6. CASE \/ Submit(c) \/ UpstreamReplies(c) \/ UpstreamFails(c) \/ UpstreamTimesOut(c)
  BY <1>6 DEF Submit, UpstreamReplies, UpstreamFails, UpstreamTimesOut, UpstreamEnds, TypeOK
<1>7. CASE IssueFor(c) \/ Tick \/ UNCHANGED vars
  BY <1>7 DEF IssueFor, Tick, vars
<1>8. CASE Crash
  BY <1>8 DEF Crash, TypeOK
<1> QED BY <1>1, <1>5, <1>6, <1>7, <1>8 DEF Next

LEMMA NextRecordInv == TypeOK /\ RecordInv /\ [Next]_vars => RecordInv'
<1> SUFFICES ASSUME TypeOK, RecordInv, [Next]_vars, NEW c \in Calls,
                    config'.policy, config'.audit, pc'[c] = "judged", stage'[c] = "input"
             PROVE  PromptIsRecorded(c)'
  BY DEF RecordInv
<1>1. config' = config
  BY TokensStay
<1>2. CASE EvaluateInput(c)
  BY <1>1, <1>2, EvaluationRecords
<1>3. CASE pc[c] = "judged" /\ stage[c] = "input"
  BY <1>1, <1>3, JudgedByEvaluation, LogIsKept, RecordStays DEF RecordInv
<1> QED BY <1>2, <1>3, JudgedByEvaluation

LEMMA StrengthenedAlways ==
    Spec => []((TypeOK /\ GuardInv) /\ LogInv /\ IssuedAreGenuine /\ RecordInv)
<1>1. Init => LogInv /\ IssuedAreGenuine /\ RecordInv
  BY DEF Init, LogInv, IssuedAreGenuine, RecordInv
<1>2. TypeOK /\ GuardInv /\ LogInv /\ IssuedAreGenuine /\ RecordInv /\ [Next]_vars
      => LogInv' /\ IssuedAreGenuine' /\ RecordInv'
  BY NextLogInv, ClockRuns, NextRecordInv
<1> QED BY <1>1, <1>2, GuardInvAlways, PTL DEF Spec

-----------------------------------------------------------------------------
(* What a step means to the abstract guard.                                *)

Held(c) ==
    /\ Phase(c)' = Phase(c)
    /\ InputCleared(c)' <=> InputCleared(c)
    /\ PromptIsRecorded(c)' <=> PromptIsRecorded(c)

OnRecord(c) == config.policy /\ config.audit => PromptIsRecorded(c)

(* A step of one call that the guard allows, seen from outside.            *)
Moves(c) ==
    \/ Held(c)
    \/ /\ Phase(c) = "idle" /\ Phase(c)' = "open"
       /\ PromptIsRecorded(c)' <=> PromptIsRecorded(c)
    \/ /\ Phase(c) = "open" /\ Phase(c)' = "open"
       /\ PromptIsRecorded(c)' /\ (InputCleared(c)' <=> InputCleared(c))
    \/ /\ Phase(c) = "open" /\ Phase(c)' = "released"
       /\ config.policy => InputCleared(c)
       /\ OnRecord(c)
       /\ InputCleared(c)' <=> InputCleared(c)
       /\ PromptIsRecorded(c)' <=> PromptIsRecorded(c)
    \/ /\ Phase(c) = "open" /\ Phase(c)' = "refused"
       /\ OnRecord(c)
       /\ InputCleared(c)' <=> InputCleared(c)
       /\ PromptIsRecorded(c)' <=> PromptIsRecorded(c)
    \/ /\ Phase(c) \in {"open", "released"} /\ Phase(c)' = "ended"
       /\ InputCleared(c)' <=> InputCleared(c)
       /\ PromptIsRecorded(c) => PromptIsRecorded(c)'

LEMMA MovesAreSteps ==
    ASSUME NEW c \in Calls, \A d \in Calls \ {c} : Held(d), config' = config, Moves(c)
    PROVE  Guarded!Next \/ UNCHANGED Guarded!vars
<1>1. CASE Held(c)
  BY <1>1 DEF Held, Guarded!vars
<1>2. CASE /\ Phase(c) = "idle" /\ Phase(c)' = "open"
           /\ PromptIsRecorded(c)' <=> PromptIsRecorded(c)
  <2>1. Guarded!Arrive(c)
    BY <1>2 DEF Held, Guarded!Arrive
  <2> QED BY <2>1 DEF Guarded!Next
<1>3. CASE /\ Phase(c) = "open" /\ Phase(c)' = "open"
           /\ PromptIsRecorded(c)' /\ (InputCleared(c)' <=> InputCleared(c))
  <2>1. Guarded!Record(c)
    BY <1>3 DEF Held, Guarded!Record
  <2> QED BY <2>1 DEF Guarded!Next
<1>4. CASE /\ Phase(c) = "open" /\ Phase(c)' = "released"
           /\ config.policy => InputCleared(c)
           /\ OnRecord(c)
           /\ InputCleared(c)' <=> InputCleared(c)
           /\ PromptIsRecorded(c)' <=> PromptIsRecorded(c)
  <2>1. Guarded!Release(c)
    BY <1>4 DEF Held, OnRecord, Guarded!Release, Guarded!OnRecord
  <2> QED BY <2>1 DEF Guarded!Next
<1>5. CASE /\ Phase(c) = "open" /\ Phase(c)' = "refused"
           /\ OnRecord(c)
           /\ InputCleared(c)' <=> InputCleared(c)
           /\ PromptIsRecorded(c)' <=> PromptIsRecorded(c)
  <2>1. Guarded!Refuse(c)
    BY <1>5 DEF Held, OnRecord, Guarded!Refuse, Guarded!OnRecord
  <2> QED BY <2>1 DEF Guarded!Next
<1>6. CASE /\ Phase(c) \in {"open", "released"} /\ Phase(c)' = "ended"
           /\ InputCleared(c)' <=> InputCleared(c)
           /\ PromptIsRecorded(c) => PromptIsRecorded(c)'
  <2>1. Guarded!End(c)
    BY <1>6 DEF Held, Guarded!End
  <2> QED BY <2>1 DEF Guarded!Next
<1> QED BY <1>1, <1>2, <1>3, <1>4, <1>5, <1>6 DEF Moves

-----------------------------------------------------------------------------
(* What each step is.                                                      *)

(* A prompt is cleared by tokens of the call alone, which have been issued *)
(* by the time it arrives, or never are.                                   *)
LEMMA ClearanceStays ==
    ASSUME TypeOK, TypeOK', NEW c \in Calls, Placed(c), IssuedAreGenuine',
           config' = config, issued \subseteq issued', req'[c] = req[c]
    PROVE  InputCleared(c)' <=> InputCleared(c)
<1>1. PICK hits, rules : hits = req[c].hits /\ rules = MatchedIds("input", hits)
  OBVIOUS
<1>2. PICK t, rid : t = req[c].token /\ rid = req[c].rid
  OBVIOUS
<1>3. Grants(t, rid, "input", rules) => Grants(t, rid, "input", rules)'
  BY DEF Grants
<1>4. Grants(t, rid, "input", rules)' => Grants(t, rid, "input", rules)
  <2>1. PICK s : s = "input"
    OBVIOUS
  <2> QED BY <1>2, <2>1, NoLateGrant
<1>5. /\ Verdict("input", hits)' = Verdict("input", hits)
      /\ MatchedIds("input", hits)' = MatchedIds("input", hits)
  BY DEF Verdict, MatchedIds
<1> QED BY <1>1, <1>2, <1>3, <1>4, <1>5 DEF InputCleared, Cleared

LEMMA StepKeeps ==
    ASSUME TypeOK, TypeOK', GuardInv, IssuedAreGenuine', [Next]_vars,
           NEW c \in Calls, req'[c] = req[c]
    PROVE  /\ InputCleared(c)' <=> InputCleared(c)
           /\ PromptIsRecorded(c) => PromptIsRecorded(c)'
           /\ PromptQuiet(c) => (PromptIsRecorded(c)' <=> PromptIsRecorded(c))
<1>1. Placed(c) /\ config' = config /\ issued \subseteq issued' /\ LogKept
  BY TokensStay, LogIsKept DEF GuardInv, CallInv
<1> QED BY <1>1, ClearanceStays, RecordStays

LEMMA OthersAreHeld ==
    ASSUME TypeOK, TypeOK', GuardInv, IssuedAreGenuine', [Next]_vars,
           NEW c \in Calls, NEW d \in Calls, d # c,
           \/ Submit(c) \/ Handler(c) \/ IssueFor(c)
           \/ UpstreamReplies(c) \/ UpstreamFails(c) \/ UpstreamTimesOut(c)
    PROVE  Held(d)
<1>1. Same(d)
  BY OthersSame
<1>2. PromptQuiet(d)
  <2>1. CASE Handler(c)
    BY <2>1, HandlerRecords, QuietIf DEF Records
  <2>2. CASE ~Handler(c)
    <3>1. audit' = audit
      BY <2>2 DEF Submit, IssueFor, UpstreamReplies, UpstreamFails, UpstreamTimesOut,
         UpstreamEnds
    <3> QED BY <3>1, QuietIf
  <2> QED BY <2>1, <2>2
<1> QED BY <1>1, <1>2, StepKeeps DEF Held, Phase, PromptIsRefused, Same

(* A call that is answered with anything but a refusal of its prompt ends. *)
LEMMA FinishEnds ==
    ASSUME TypeOK, NEW c \in Calls, NEW a, Finish(c, a),
           \/ a.stage # "input"
           \/ a.kind \notin {"safety_blocked", "human_review_required"}
    PROVE  Phase(c)' = "ended"
<1>1. pc'[c] = "answered" /\ answer'[c] = a
  BY DEF Finish, TypeOK
<1> QED BY <1>1 DEF Phase, PromptIsRefused, Finished

LEMMA CallMoves ==
    ASSUME TypeOK, TypeOK', GuardInv, LogInv, RecordInv, IssuedAreGenuine', [Next]_vars,
           NEW c \in Calls,
           \/ Submit(c) \/ Handler(c) \/ IssueFor(c)
           \/ UpstreamReplies(c) \/ UpstreamFails(c) \/ UpstreamTimesOut(c)
    PROVE  Moves(c)
<1>1. Placed(c) /\ stage[c] \in Stages /\ config' = config
  BY TokensStay DEF GuardInv, CallInv, TypeOK
<1>2. CASE Submit(c)
  <2>1. /\ pc[c] = "unsent" /\ pc'[c] = "sent" /\ audit' = audit
    BY <1>2 DEF Submit, TypeOK
  <2>2. ~PromptIsRecorded(c) /\ ~PromptIsRecorded(c)'
    BY <2>1 DEF LogInv, PromptIsRecorded
  <2> QED BY <2>1, <2>2 DEF Moves, Phase, PromptIsRefused, Finished
<1>3. CASE \/ IssueFor(c)
           \/ UpstreamReplies(c) \/ UpstreamFails(c) \/ UpstreamTimesOut(c)
  <2>1. req'[c] = req[c] /\ audit' = audit /\ Phase(c)' = Phase(c)
    BY <1>3 DEF IssueFor, UpstreamReplies, UpstreamFails, UpstreamTimesOut, UpstreamEnds,
       Phase, PromptIsRefused, TypeOK, Finished
  <2> QED BY <2>1, QuietIf, StepKeeps DEF Moves, Held
<1>4. Handler(c) => req'[c] = req[c]
  BY HandlerKeepsRequests
<1>5. CASE \/ RejectUnconfigured(c) \/ AnswerUpstreamFailure(c) \/ AuditFault(c)
           \/ CheckFault(c)
  <2>1. Phase(c) \in {"open", "released"}
    BY <1>1, <1>5 DEF RejectUnconfigured, AnswerUpstreamFailure, AuditFault, CheckFault,
       FailsUpstream, Chokes, Evaluates, JudgesInput, JudgesOutput, JudgesTool, Judges, Phase,
       PromptIsRefused, Finished, Stages
  <2>2. Phase(c)' = "ended"
    BY <1>5, FinishEnds DEF RejectUnconfigured, AnswerUpstreamFailure, AuditFault, CheckFault,
       FailsUpstream, Failure, NoAnswer
  <2> QED BY <1>4, <1>5, <2>1, <2>2, StepKeeps DEF Handler, Moves
<1>6. CASE DeliverUnguarded(c) \/ FailOnMalformed(c) \/ RedactOutput(c) \/ Deliver(c)
  <2>1. Phase(c) \in {"open", "released"}
    BY <1>1, <1>6 DEF DeliverUnguarded, FailOnMalformed, RedactOutput, Deliver, Passes,
       Judges, Phase, PromptIsRefused, Finished, Stages
  <2>2. Phase(c)' = "ended"
    BY <1>6, FinishEnds DEF DeliverUnguarded, FailOnMalformed, RedactOutput, Deliver,
       Failure, Delivery, NoAnswer
  <2> QED BY <1>4, <1>6, <2>1, <2>2, StepKeeps DEF Handler, Moves
<1>7. CASE ForwardUnguarded(c)
  <2>1. /\ pc[c] = "sent" /\ pc'[c] = "awaiting" /\ ~config.policy /\ audit' = audit
    BY <1>7 DEF ForwardUnguarded, Forward, TypeOK
  <2>2. Phase(c) = "open" /\ Phase(c)' = "released"
    BY <2>1 DEF Phase, PromptIsRefused, Finished
  <2> QED BY <1>4, <1>7, <2>1, <2>2, QuietIf, StepKeeps DEF Handler, Moves, OnRecord
<1>8. CASE EvaluateInput(c)
  <2>1. Phase(c) = "open" /\ Phase(c)' = "open"
    BY <1>8 DEF EvaluateInput, JudgesInput, Judge, Phase, PromptIsRefused, Finished, TypeOK
  <2>2. CASE config.audit
    BY <1>4, <1>8, <2>1, <2>2, EvaluationRecords, StepKeeps DEF Handler, Moves
  <2>3. CASE ~config.audit
    <3>1. audit' = audit
      BY <1>8, <2>3 DEF EvaluateInput, Judge, Log
    <3> QED BY <1>4, <1>8, <2>1, <3>1, QuietIf, StepKeeps DEF Handler, Moves, Held
  <2> QED BY <2>2, <2>3
<1>9. CASE PassInput(c) \/ ApproveInput(c)
  <2>1. /\ pc[c] = "judged" /\ stage[c] = "input" /\ pc'[c] = "awaiting"
        /\ Cleared(c, "input", Hits(c, "input"))
    BY <1>1, <1>9, PassingClears DEF PassInput, ApproveInput, Forward, Stages, TypeOK
  <2>2. Phase(c) = "open" /\ Phase(c)' = "released"
    BY <2>1 DEF Phase, PromptIsRefused, Finished
  <2>3. InputCleared(c) /\ OnRecord(c)
    BY <2>1 DEF InputCleared, Hits, OnRecord, RecordInv
  <2>4. PromptQuiet(c)
    BY <1>9, QuietIf, LogIsQuiet DEF PassInput, ApproveInput, Passes, Accepts
  <2> QED BY <1>4, <1>9, <2>2, <2>3, <2>4, StepKeeps DEF Handler, Moves
<1>10. CASE Block(c) \/ Review(c)
  <2>1. /\ pc[c] = "judged" /\ audit' = audit
        /\ \E kind \in {"safety_blocked", "human_review_required"} :
              Finish(c, Refusal(kind, stage[c], MatchedIds(stage[c], Hits(c, stage[c]))))
    BY <1>10 DEF Block, Review, Judges
  <2>2. CASE stage[c] = "input"
    <3>1. /\ pc'[c] = "answered" /\ answer'[c].stage = "input"
          /\ answer'[c].kind \in {"safety_blocked", "human_review_required"}
      BY <2>1, <2>2 DEF Finish, Refusal, TypeOK
    <3>2. Phase(c) = "open"
      BY <2>1, <2>2 DEF Phase, PromptIsRefused, Finished
    <3>3. Phase(c)' = "refused"
      BY <3>1 DEF Phase, PromptIsRefused, Finished
    <3>4. OnRecord(c)
      BY <2>1, <2>2 DEF OnRecord, RecordInv
    <3> QED BY <1>4, <1>10, <2>1, <3>2, <3>3, <3>4, QuietIf, StepKeeps DEF Handler, Moves
  <2>3. CASE stage[c] # "input"
    <3>1. Phase(c) = "released"
      BY <2>1, <2>3 DEF Phase, PromptIsRefused, Finished
    <3>2. Phase(c)' = "ended"
      BY <2>1, <2>3, FinishEnds DEF Refusal
    <3> QED BY <1>4, <1>10, <3>1, <3>2, StepKeeps DEF Handler, Moves
  <2> QED BY <2>2, <2>3
<1>11. CASE EvaluateOutput(c) \/ EvaluateTool(c)
  <2>1. /\ pc[c] \in {"resumable", "tools"} /\ pc'[c] = "judged"
        /\ stage'[c] \in {"output", "tool"}
    BY <1>11 DEF EvaluateOutput, EvaluateTool, JudgesOutput, JudgesTool, Judge, TypeOK
  <2>2. Phase(c) = "released" /\ Phase(c)' = "released"
    BY <2>1 DEF Phase, PromptIsRefused, Finished
  <2>3. PromptQuiet(c)
    BY <1>11, LogIsQuiet DEF EvaluateOutput, EvaluateTool, Judge
  <2> QED BY <1>4, <1>11, <2>2, <2>3, StepKeeps DEF Handler, Moves, Held
<1>12. CASE PassOutput(c) \/ ApproveOutput(c) \/ PassTool(c) \/ ApproveTool(c)
  <2>1. pc[c] = "judged" /\ stage[c] \in {"output", "tool"} /\ pc'[c] = "tools"
    BY <1>12 DEF PassOutput, ApproveOutput, PassTool, ApproveTool, Passes, Accepts, Judges,
       StartTools, NextTool, TypeOK
  <2>2. Phase(c) = "released" /\ Phase(c)' = "released"
    BY <2>1 DEF Phase, PromptIsRefused, Finished
  <2>3. PromptQuiet(c)
    BY <1>12, QuietIf, LogIsQuiet DEF PassOutput, ApproveOutput, PassTool, ApproveTool,
       Passes, Accepts
  <2> QED BY <1>4, <1>12, <2>2, <2>3, StepKeeps DEF Handler, Moves, Held
<1> QED BY <1>2, <1>3, <1>5, <1>6, <1>7, <1>8, <1>9, <1>10, <1>11, <1>12 DEF Handler

-----------------------------------------------------------------------------
(* The refinement.                                                         *)

LEMMA InitIsInit == Init => Guarded!Init
<1> SUFFICES ASSUME Init PROVE Guarded!Init
  OBVIOUS
<1>1. \A c \in Calls : Phase(c) = "idle" /\ ~PromptIsRecorded(c)
  BY DEF Init, Phase, PromptIsRefused, Finished, PromptIsRecorded
<1>2. (config.policy /\ config.audit) \in BOOLEAN
  BY ConfigsAssumption DEF Init
<1> QED BY <1>1, <1>2 DEF Guarded!Init

LEMMA NextIsNext ==
    ASSUME TypeOK, TypeOK', GuardInv, LogInv, RecordInv, IssuedAreGenuine', [Next]_vars
    PROVE  Guarded!Next \/ UNCHANGED Guarded!vars
<1>1. config' = config
  BY TokensStay
<1>2. ASSUME NEW c \in Calls,
             \/ Submit(c) \/ Handler(c) \/ IssueFor(c)
             \/ UpstreamReplies(c) \/ UpstreamFails(c) \/ UpstreamTimesOut(c)
      PROVE  Guarded!Next \/ UNCHANGED Guarded!vars
  <2>1. Moves(c)
    BY <1>2, CallMoves
  <2>2. \A d \in Calls \ {c} : Held(d)
    BY <1>2, OthersAreHeld
  <2> QED BY <1>1, <2>1, <2>2, MovesAreSteps
<1>3. CASE Tick \/ UNCHANGED vars
  <2>1. \A d \in Calls : Held(d)
    <3> TAKE d \in Calls
    <3>1. req'[d] = req[d] /\ audit' = audit /\ Phase(d)' = Phase(d)
      BY <1>3 DEF Tick, vars, Phase, PromptIsRefused
    <3> QED BY <3>1, QuietIf, StepKeeps DEF Held
  <2> QED BY <1>1, <2>1 DEF Held, Guarded!vars
<1>4. CASE Crash
  <2>1. \A d \in Calls : /\ InputCleared(d)' <=> InputCleared(d)
                         /\ PromptIsRecorded(d)' <=> PromptIsRecorded(d)
    <3> TAKE d \in Calls
    <3>1. req'[d] = req[d] /\ audit' = audit
      BY <1>4 DEF Crash
    <3> QED BY <3>1, QuietIf, StepKeeps
  <2>2. \A d \in Calls : Phase(d)' = IF Phase(d) \in {"open", "released"} THEN "ended"
                                     ELSE Phase(d)
    BY <1>4 DEF Crash, Phase, PromptIsRefused, TypeOK, Finished
  <2>3. Guarded!Lose
    BY <1>1, <2>1, <2>2 DEF Guarded!Lose
  <2> QED BY <2>3 DEF Guarded!Next
<1> QED BY <1>2, <1>3, <1>4 DEF Next

(* The gateway implements the guard before the provider: however calls,    *)
(* retries, tokens, failing writes, upstream failures and crashes          *)
(* interleave, a prompt goes up at most once, admitted, and after its      *)
(* decision is on record; its refusal is recorded first, and final.        *)
THEOREM GatewayIsGuard == Spec => ProviderIsGuarded
<1>1. /\ (TypeOK /\ GuardInv) /\ LogInv /\ IssuedAreGenuine /\ RecordInv
      /\ ((TypeOK /\ GuardInv) /\ LogInv /\ IssuedAreGenuine /\ RecordInv)'
      /\ [Next]_vars
      => [Guarded!Next]_(Guarded!vars)
  BY NextIsNext
<1> QED BY <1>1, InitIsInit, StrengthenedAlways, PTL DEF Spec, ProviderIsGuarded, Guarded!Spec
=============================================================================
