------------------------------- MODULE Gateway -------------------------------
(***************************************************************************)
(* POST /v1/chat/completions of the gateway (gateway/app.py) together with *)
(* what surrounds it: clients that call and retry, a reviewer who issues   *)
(* approval tokens, the upstream provider, the audit log and the process.  *)
(*                                                                         *)
(* The handler is a coroutine on one event loop.  Its only await is the    *)
(* provider call, so a handler keeps the loop (`loop = c`) from its first  *)
(* evaluation to that await and again from the reply to its answer; other  *)
(* handlers cannot run in between, but the clock, the reviewer's CLI, the  *)
(* upstream and a crash of the process can.                                *)
(*                                                                         *)
(* An operator whose name starts with Faulty is a mutant of the definition *)
(* that follows it.                                                        *)
(***************************************************************************)
EXTENDS Integers, FiniteSets, Sequences, PolicyEngine, ApprovalTokens

CONSTANTS
    Calls,          \* HTTP calls; a retry is another call
    Free,           \* the value of `loop` when no handler runs
    ClientIds,      \* the ids clients put in x-request-id
    Policy,         \* the loaded policy, a set of rules
    Configs,        \* how create_app may be wired
    Prompts,        \* what a request's text may hit: sets of rule ids
    Replies,        \* completions the provider may return
    GrantShapes,    \* <<rid, stage, rules>> scopes the reviewer may choose
    NoToken,        \* no x-jinguzhou-approval-token header
    ForgedTokens,   \* tokens the manager's secret did not sign, whatever they claim
    Ttl,            \* ttl_seconds of issued tokens
    MaxClock        \* bound on the clock

Rids == ClientIds \cup Calls    \* the uuid4 of a call is named after the call
Ids == {r.id : r \in Policy}
Tokens == [rid : Rids \cup {Wildcard}, stage : Stages \cup {Wildcard},
           rules : SUBSET Ids, exp : Nat, signature : Signatures]
Completions == [choices : Seq(SUBSET Ids), tools : Seq(SUBSET Ids)]
Empty == [choices |-> <<>>, tools |-> <<>>]

ASSUME PolicyAssumption == Policy \subseteq Rules
ASSUME CallsAssumption == Free \notin Calls
ASSUME ConfigsAssumption ==
    Configs \subseteq [provider : BOOLEAN, policy : BOOLEAN,
                       approval : BOOLEAN, audit : BOOLEAN]
ASSUME ContentAssumption ==
    Prompts \subseteq SUBSET Ids /\ Replies \subseteq Completions
ASSUME TokensAssumption ==
    /\ NoToken \notin Tokens
    /\ ForgedTokens \subseteq Tokens
    /\ \A t \in ForgedTokens : t.signature # "genuine"
    /\ GrantShapes \subseteq {"same", "any"} \X {"same", "any"} \X {"same", "any"}
ASSUME ClockAssumption == Ttl \in Nat /\ MaxClock \in Nat

VARIABLES
    config,     \* the create_app wiring of this process
    clock,      \* wall clock, in ticks
    issued,     \* tokens issued so far with the manager's secret
    audit,      \* the audit log, oldest event first
    loop,       \* the handler that occupies the event loop, or Free
    pc,         \* where each call is
    stage,      \* the stage last evaluated for each call
    req,        \* each call's request: id, token header, what its text hits
    reply,      \* what the provider call ended with
    next,       \* index of the tool call to evaluate
    answer      \* the HTTP answer of each call

vars == <<config, clock, issued, audit, loop, pc, stage, req, reply, next, answer>>

NoReply == [kind |-> "none", body |-> Empty]
NoAnswer == [kind |-> "none", stage |-> "input", rules |-> {}, body |-> Empty]
Refusal(kind, s, rules) == [kind |-> kind, stage |-> s, rules |-> rules, body |-> Empty]
Failure(kind) == [NoAnswer EXCEPT !.kind = kind]
Delivery(kind, body) == [NoAnswer EXCEPT !.kind = kind, !.body = body]

Finished == {"answered", "lost"}

-----------------------------------------------------------------------------
(* What is evaluated, and what comes of it.                                *)

(* _extract_input_text / _extract_output_text join all the texts; a tool   *)
(* call is evaluated by itself.                                            *)
Hits(c, s) ==
    IF s = "input" THEN req[c].hits
    ELSE IF s = "output"
         THEN UNION {reply[c].body.choices[i] : i \in DOMAIN reply[c].body.choices}
         ELSE reply[c].body.tools[next[c]]

MatchedIds(s, hits) == RuleIds(Matched(Policy, s, hits))
Verdict(s, hits) == Strictest(Matched(Policy, s, hits))

Judges(c, v) == pc[c] = "judged" /\ Verdict(stage[c], Hits(c, stage[c])) = v

(* _approval_from_request: the claims, or nothing.                         *)
Approved(c) ==
    /\ config.approval
    /\ req[c].token # NoToken
    /\ Allows(req[c].token, req[c].rid, stage[c],
              MatchedIds(stage[c], Hits(c, stage[c])), clock)

(* Its token cannot even be compared with a genuine one.                   *)
Chokes(c) ==
    /\ Judges(c, "require_human_review")
    /\ config.approval /\ req[c].token # NoToken
    /\ Raises(req[c].token)

(* _redact_output_text replaces the content of choices[0] only; its tool   *)
(* calls stay, and so do the other choices.                                *)
Redact(body) ==
    IF body.choices = <<>> THEN body ELSE [body EXCEPT !.choices[1] = {}]

-----------------------------------------------------------------------------
(* Building blocks of the steps.                                           *)

MayRun(c) == loop \in {Free, c}

Event(c, type, s, decision, rules) ==
    [call |-> c, rid |-> req[c].rid, type |-> type, stage |-> s,
     decision |-> decision, rules |-> rules, at |-> clock]

FaultyLog(c, type, s, decision, rules) ==                 \* "allow" is not logged
    audit' = IF config.audit /\ decision # "allow"
             THEN Append(audit, Event(c, type, s, decision, rules))
             ELSE audit

(* _write_audit_event; `call` is not in the real event, it tells retries   *)
(* that share a request id apart.                                          *)
Log(c, type, s, decision, rules) ==
    audit' = IF config.audit
             THEN Append(audit, Event(c, type, s, decision, rules))
             ELSE audit

Finish(c, a) ==
    /\ answer' = [answer EXCEPT ![c] = a]
    /\ pc' = [pc EXCEPT ![c] = "answered"]
    /\ loop' = Free

FaultyJudge(c, s) ==                                      \* awaits the log's write
    /\ MayRun(c)
    /\ Log(c, "policy_decision", s, Verdict(s, Hits(c, s)), MatchedIds(s, Hits(c, s)))
    /\ pc' = [pc EXCEPT ![c] = "judged"]
    /\ stage' = [stage EXCEPT ![c] = s]
    /\ loop' = Free
    /\ UNCHANGED <<config, clock, issued, req, reply, next, answer>>

(* Evaluate one stage and log the decision; the handler keeps the loop.    *)
Judge(c, s) ==
    /\ MayRun(c)
    /\ Log(c, "policy_decision", s, Verdict(s, Hits(c, s)), MatchedIds(s, Hits(c, s)))
    /\ pc' = [pc EXCEPT ![c] = "judged"]
    /\ stage' = [stage EXCEPT ![c] = s]
    /\ loop' = c
    /\ UNCHANGED <<config, clock, issued, req, reply, next, answer>>

(* The decision lets the stage pass: nothing is logged ...                 *)
Passes(c, s, verdicts) ==
    /\ stage[c] = s /\ \E v \in verdicts : Judges(c, v)
    /\ UNCHANGED audit

(* ... or a token is accepted, and that is.                                *)
Accepts(c, s) ==
    /\ stage[c] = s /\ Judges(c, "require_human_review")
    /\ Approved(c)
    /\ Log(c, "approval", s, "approved", MatchedIds(s, Hits(c, s)))

(* Call the provider: the coroutine suspends and frees the loop.           *)
Forward(c) ==
    /\ pc' = [pc EXCEPT ![c] = "awaiting"]
    /\ loop' = Free
    /\ UNCHANGED <<config, clock, issued, stage, req, reply, next, answer>>

FaultyStartTools(c) ==                                    \* the first index is 1
    /\ pc' = [pc EXCEPT ![c] = "tools"]
    /\ next' = [next EXCEPT ![c] = 0]
    /\ UNCHANGED <<config, clock, issued, loop, stage, req, reply, answer>>

StartTools(c) ==
    /\ pc' = [pc EXCEPT ![c] = "tools"]
    /\ next' = [next EXCEPT ![c] = 1]
    /\ UNCHANGED <<config, clock, issued, loop, stage, req, reply, answer>>

NextTool(c) ==
    /\ pc' = [pc EXCEPT ![c] = "tools"]
    /\ next' = [next EXCEPT ![c] = @ + 1]
    /\ UNCHANGED <<config, clock, issued, loop, stage, req, reply, answer>>

-----------------------------------------------------------------------------
(* The handler, in the order of the code.                                  *)

RejectUnconfigured(c) ==
    /\ pc[c] = "sent" /\ MayRun(c) /\ ~config.provider
    /\ Finish(c, Failure("provider_not_configured"))
    /\ UNCHANGED <<config, clock, issued, audit, stage, req, reply, next>>

ForwardUnguarded(c) ==
    /\ pc[c] = "sent" /\ MayRun(c) /\ config.provider /\ ~config.policy
    /\ UNCHANGED audit
    /\ Forward(c)

JudgesInput(c) == pc[c] = "sent" /\ config.provider /\ config.policy
EvaluateInput(c) == JudgesInput(c) /\ Judge(c, "input")
FaultyPassInput(c) ==                                     \* no check for "block"
    Passes(c, "input", Actions \ {"require_human_review"}) /\ Forward(c)
PassInput(c) == Passes(c, "input", {"allow", "warn", "redact"}) /\ Forward(c)
ApproveInput(c) == Accepts(c, "input") /\ Forward(c)

(* Any stage: 403 safety_blocked.                                          *)
Block(c) ==
    /\ Judges(c, "block")
    /\ Finish(c, Refusal("safety_blocked", stage[c],
                         MatchedIds(stage[c], Hits(c, stage[c]))))
    /\ UNCHANGED <<config, clock, issued, audit, stage, req, reply, next>>

(* Any stage: 409 human_review_required, naming every matched rule.        *)
Review(c) ==
    /\ Judges(c, "require_human_review")
    /\ ~Approved(c) /\ ~Chokes(c)
    /\ Finish(c, Refusal("human_review_required", stage[c],
                         MatchedIds(stage[c], Hits(c, stage[c]))))
    /\ UNCHANGED <<config, clock, issued, audit, stage, req, reply, next>>

(* The provider raised: ProviderError, or any other exception.             *)
FailsUpstream(c) ==
    pc[c] = "resumable" /\ reply[c].kind \in {"provider_error", "exception"}
AnswerUpstreamFailure(c) ==
    /\ FailsUpstream(c) /\ MayRun(c)
    /\ Log(c, "gateway_error", "provider", "error", {})
    /\ Finish(c, Failure(reply[c].kind))
    /\ UNCHANGED <<config, clock, issued, stage, req, reply, next>>

DeliverUnguarded(c) ==
    /\ pc[c] = "resumable" /\ reply[c].kind \in {"completion", "malformed"}
    /\ MayRun(c) /\ ~config.policy
    /\ Finish(c, Delivery("delivered", reply[c].body))
    /\ UNCHANGED <<config, clock, issued, audit, stage, req, reply, next>>

(* A 2xx body that is not a chat completion breaks _extract_output_text,   *)
(* outside the try: nothing is logged, the framework answers 500.          *)
FailOnMalformed(c) ==
    /\ pc[c] = "resumable" /\ reply[c].kind = "malformed"
    /\ MayRun(c) /\ config.policy
    /\ Finish(c, Failure("internal_error"))
    /\ UNCHANGED <<config, clock, issued, audit, stage, req, reply, next>>

JudgesOutput(c) == pc[c] = "resumable" /\ reply[c].kind = "completion" /\ config.policy
EvaluateOutput(c) == JudgesOutput(c) /\ Judge(c, "output")
PassOutput(c) == Passes(c, "output", {"allow", "warn"}) /\ StartTools(c)
ApproveOutput(c) == Accepts(c, "output") /\ StartTools(c)

(* A redacted answer is returned at once, before the tool calls' turn.     *)
RedactOutput(c) ==
    /\ Passes(c, "output", {"redact"})
    /\ Finish(c, Delivery("redacted", Redact(reply[c].body)))
    /\ UNCHANGED <<config, clock, issued, stage, req, reply, next>>

FaultyJudgesTool(c) ==                                    \* only tool_calls[0]
    pc[c] = "tools" /\ next[c] \in DOMAIN reply[c].body.tools \cap {1}
JudgesTool(c) == pc[c] = "tools" /\ next[c] \in DOMAIN reply[c].body.tools
EvaluateTool(c) == JudgesTool(c) /\ Judge(c, "tool")
PassTool(c) == Passes(c, "tool", {"allow", "warn", "redact"}) /\ NextTool(c)
ApproveTool(c) == Accepts(c, "tool") /\ NextTool(c)

Deliver(c) ==
    /\ pc[c] = "tools" /\ ~JudgesTool(c)
    /\ Finish(c, Delivery("delivered", reply[c].body))
    /\ UNCHANGED <<config, clock, issued, audit, stage, req, reply, next>>

(* The write of an event raises (disk full, database gone): nothing in the *)
(* handler catches it, the framework answers 500.  The event may be in the *)
(* log all the same: the file was written and its close failed, or the     *)
(* commit arrived and its acknowledgement did not.                         *)
MayLog(c, type, s, decision, rules) ==
    Log(c, type, s, decision, rules) \/ UNCHANGED audit

Evaluates(c, s) ==
    \/ s = "input" /\ JudgesInput(c)
    \/ s = "output" /\ JudgesOutput(c)
    \/ s = "tool" /\ JudgesTool(c)

AuditFault(c) ==
    /\ config.audit /\ MayRun(c)
    /\ \/ \E s \in Stages :
             /\ Evaluates(c, s)
             /\ MayLog(c, "policy_decision", s, Verdict(s, Hits(c, s)),
                       MatchedIds(s, Hits(c, s)))
       \/ /\ FailsUpstream(c)
          /\ MayLog(c, "gateway_error", "provider", "error", {})
       \/ /\ Judges(c, "require_human_review") /\ Approved(c)
          /\ MayLog(c, "approval", stage[c], "approved",
                    MatchedIds(stage[c], Hits(c, stage[c])))
    /\ Finish(c, Failure("internal_error"))
    /\ UNCHANGED <<config, clock, issued, stage, req, reply, next>>

(* The evaluation raises (a regular expression of the policy that does not *)
(* compile, a URL that urlparse refuses), or the check of the token does:  *)
(* nothing is logged, the framework answers 500.                           *)
CheckFault(c) ==
    /\ MayRun(c)
    /\ (\E s \in Stages : Evaluates(c, s)) \/ Chokes(c)
    /\ Finish(c, Failure("internal_error"))
    /\ UNCHANGED <<config, clock, issued, audit, stage, req, reply, next>>

-----------------------------------------------------------------------------
(* Around the handler.                                                     *)

(* A client calls, with an id of its own, with the id a refusal told it,   *)
(* or with none; and with a token it was given, a forged one, or none.     *)
Submit(c) ==
    /\ pc[c] = "unsent"
    /\ \E rid \in ClientIds \cup {c} \cup {req[d].rid : d \in {e \in Calls :
                                        answer[e].kind = "human_review_required"}},
          token \in issued \cup ForgedTokens \cup {NoToken},
          hits \in Prompts :
             req' = [req EXCEPT ![c] = [rid |-> rid, token |-> token, hits |-> hits]]
    /\ pc' = [pc EXCEPT ![c] = "sent"]
    /\ UNCHANGED <<config, clock, issued, audit, loop, stage, reply, next, answer>>

UpstreamEnds(c, r) ==
    /\ pc[c] = "awaiting"
    /\ reply' = [reply EXCEPT ![c] = r]
    /\ pc' = [pc EXCEPT ![c] = "resumable"]
    /\ UNCHANGED <<config, clock, issued, audit, loop, stage, req, next, answer>>

(* response.json() of a 2xx answer: a completion, or some other JSON.      *)
UpstreamReplies(c) ==
    \/ \E body \in Replies : UpstreamEnds(c, [kind |-> "completion", body |-> body])
    \/ UpstreamEnds(c, [kind |-> "malformed", body |-> Empty])

(* An HTTP or transport error (ProviderError), or JSON that does not parse.*)
UpstreamFails(c) ==
    \E kind \in {"provider_error", "exception"} :
        UpstreamEnds(c, [kind |-> kind, body |-> Empty])

(* httpx gives up after timeout_seconds: a ProviderError.                  *)
FaultyUpstreamTimesOut(c) == FALSE                        \* no timeout is set
UpstreamTimesOut(c) == UpstreamEnds(c, [kind |-> "provider_error", body |-> Empty])

(* A human reads a 409 body and issues a token for it (`jinguzhou approval *)
(* issue`, or the manager's issue), as it stands or more broadly: with a   *)
(* wildcard for the request id or the stage, or without rule ids.          *)
IssueFor(c) ==
    /\ answer[c].kind = "human_review_required"
    /\ \E shape \in GrantShapes :
          issued' = issued \cup
            {Issue(IF shape[1] = "any" THEN Wildcard ELSE req[c].rid,
                   IF shape[2] = "any" THEN Wildcard ELSE answer[c].stage,
                   IF shape[3] = "any" THEN {} ELSE answer[c].rules,
                   clock, Ttl)}
    /\ UNCHANGED <<config, clock, audit, loop, pc, stage, req, reply, next, answer>>

Tick ==
    /\ clock < MaxClock
    /\ clock' = clock + 1
    /\ UNCHANGED <<config, issued, audit, loop, pc, stage, req, reply, next, answer>>

(* The process dies and is started again: every call in flight is lost,    *)
(* what is in the log file stays.                                          *)
Crash ==
    /\ \E c \in Calls : pc[c] \notin {"unsent"} \cup Finished
    /\ pc' = [c \in Calls |-> IF pc[c] \in {"unsent"} \cup Finished
                              THEN pc[c] ELSE "lost"]
    /\ loop' = Free
    /\ UNCHANGED <<config, clock, issued, audit, stage, req, reply, next, answer>>

-----------------------------------------------------------------------------

Init ==
    /\ config \in Configs
    /\ clock = 0
    /\ issued = {}
    /\ audit = <<>>
    /\ loop = Free
    /\ pc = [c \in Calls |-> "unsent"]
    /\ stage = [c \in Calls |-> "input"]
    /\ req = [c \in Calls |-> [rid |-> c, token |-> NoToken, hits |-> {}]]
    /\ reply = [c \in Calls |-> NoReply]
    /\ next = [c \in Calls |-> 1]
    /\ answer = [c \in Calls |-> NoAnswer]

Handler(c) ==
    \/ RejectUnconfigured(c) \/ ForwardUnguarded(c)
    \/ EvaluateInput(c) \/ PassInput(c) \/ ApproveInput(c)
    \/ AnswerUpstreamFailure(c) \/ DeliverUnguarded(c) \/ FailOnMalformed(c)
    \/ EvaluateOutput(c) \/ PassOutput(c) \/ ApproveOutput(c) \/ RedactOutput(c)
    \/ EvaluateTool(c) \/ PassTool(c) \/ ApproveTool(c) \/ Deliver(c)
    \/ Block(c) \/ Review(c) \/ AuditFault(c) \/ CheckFault(c)

Next ==
    \/ \E c \in Calls : \/ Submit(c) \/ Handler(c) \/ IssueFor(c)
                        \/ UpstreamReplies(c) \/ UpstreamFails(c) \/ UpstreamTimesOut(c)
    \/ Tick \/ Crash

Spec == Init /\ [][Next]_vars

(* The event loop runs every ready handler, and the provider call ends at  *)
(* the latest when it times out.  Nothing else has to happen.              *)
Fairness == \A c \in Calls : WF_vars(Handler(c)) /\ WF_vars(UpstreamTimesOut(c))

FairSpec == Spec /\ Fairness

-----------------------------------------------------------------------------
(* Properties.                                                             *)

Places == {"unsent", "sent", "judged", "awaiting", "resumable", "tools"} \cup Finished

Requests == [rid : Rids, token : Tokens \cup {NoToken}, hits : SUBSET Ids]

Outcomes ==
    [kind : {"none", "completion", "malformed", "provider_error", "exception"},
     body : Completions]

AnswerKinds ==
    {"none", "delivered", "redacted", "safety_blocked", "human_review_required",
     "provider_not_configured", "provider_error", "exception", "internal_error"}

Answers == [kind : AnswerKinds, stage : Stages, rules : SUBSET Ids, body : Completions]

Events == [call : Calls, rid : Rids,
           type : {"policy_decision", "approval", "gateway_error"},
           stage : Stages \cup {"provider"},
           decision : Actions \cup {"approved", "error"},
           rules : SUBSET Ids, at : Nat]

(* Every variable keeps its type; in particular every refusal names ids of *)
(* the policy, and the index of the tool loop never leaves the naturals    *)
(* from 1, whatever stage a handler comes from.                            *)
TypeOK ==
    /\ config \in Configs
    /\ clock \in Nat
    /\ issued \subseteq Tokens
    /\ audit \in Seq(Events)
    /\ loop \in Calls \cup {Free}
    /\ pc \in [Calls -> Places]
    /\ stage \in [Calls -> Stages]
    /\ req \in [Calls -> Requests]
    /\ reply \in [Calls -> Outcomes]
    /\ next \in [Calls -> Nat \ {0}]
    /\ answer \in [Calls -> Answers]

(* The manager issued t, for this decision: this request or any, this      *)
(* stage or any, and every rule that matched (or any).                     *)
Grants(t, rid, s, rules) ==
    /\ t \in issued
    /\ t.rid = rid \/ t.rid = Wildcard
    /\ t.stage = s \/ t.stage = Wildcard
    /\ \A id \in rules : id \in t.rules \/ t.rules = {}

(* Content with these hits may pass stage s on behalf of call c: policy    *)
(* lets it pass, or asks for a review that a token this manager issued,    *)
(* presented by this call, covers.                                         *)
Cleared(c, s, hits) ==
    /\ Verdict(s, hits) # "block"
    /\ Verdict(s, hits) = "require_human_review" =>
          config.approval /\ Grants(req[c].token, req[c].rid, s, MatchedIds(s, hits))

InputCleared(c) == Cleared(c, "input", req[c].hits)
OutputCleared(c) == Cleared(c, "output", Hits(c, "output"))

(* The provider is never called with a prompt the input stage did not      *)
(* clear, however calls, retries and tokens interleave.                    *)
ForwardedIsCleared ==
    config.policy =>
        \A c \in Calls : pc[c] = "awaiting" \/ reply[c].kind # "none" => InputCleared(c)

(* A completion reaches the client only if its prompt, its text and, when  *)
(* it is not redacted, each of its tool calls were cleared; text that is   *)
(* to be redacted is never delivered as it came.                           *)
DeliveredIsCleared ==
    config.policy =>
        \A c \in Calls :
            /\ answer[c].kind \in {"delivered", "redacted"} =>
                   InputCleared(c) /\ OutputCleared(c)
            /\ answer[c].kind = "delivered" =>
                   /\ Verdict("output", Hits(c, "output")) # "redact"
                   /\ answer[c].body = reply[c].body
                   /\ \A i \in DOMAIN answer[c].body.tools :
                         Cleared(c, "tool", answer[c].body.tools[i])

(* The strengthening that makes the two invariants above inductive: where  *)
(* a call stands tells what the provider has returned for it ...           *)
Placed(c) ==
    /\ req[c].token \in issued \cup ForgedTokens \cup {NoToken}
    /\ pc[c] \in {"unsent", "sent", "awaiting"} => reply[c].kind = "none"
    /\ pc[c] = "judged" => reply[c].kind = IF stage[c] = "input" THEN "none"
                                           ELSE "completion"
    /\ pc[c] = "judged" /\ stage[c] = "tool" => next[c] \in DOMAIN reply[c].body.tools
    /\ pc[c] = "tools" => reply[c].kind = "completion"
    /\ pc[c] # "answered" => answer[c] = NoAnswer

(* ... and what has been cleared for it so far.                            *)
ClearedSoFar(c) ==
    /\ pc[c] = "awaiting" \/ reply[c].kind # "none" => InputCleared(c)
    /\ pc[c] = "tools" \/ (pc[c] = "judged" /\ stage[c] = "tool") =>
          /\ OutputCleared(c)
          /\ Verdict("output", Hits(c, "output")) # "redact"
          /\ \A i \in DOMAIN reply[c].body.tools :
                i < next[c] => Cleared(c, "tool", reply[c].body.tools[i])
    /\ answer[c].kind \in {"delivered", "redacted"} =>
          InputCleared(c) /\ OutputCleared(c)
    /\ answer[c].kind = "delivered" =>
          /\ Verdict("output", Hits(c, "output")) # "redact"
          /\ answer[c].body = reply[c].body
          /\ \A i \in DOMAIN answer[c].body.tools :
                Cleared(c, "tool", answer[c].body.tools[i])

CallInv(c) == Placed(c) /\ (config.policy => ClearedSoFar(c))
GuardInv == \A c \in Calls : CallInv(c)

(* Every approval in the log is backed: its call presented a token that    *)
(* was issued for the logged request, stage and rules, not later than the  *)
(* approval, and it had not expired by then.                               *)
ApprovalIsBacked ==
    \A i \in DOMAIN audit :
        LET e == audit[i]
            t == req[e.call].token
        IN  e.type = "approval" =>
              /\ Grants(t, e.rid, e.stage, e.rules)
              /\ t.exp - Ttl <= e.at /\ e.at <= t.exp

(* No needless 409: whoever is asked for a review did not hold a token     *)
(* that covers that decision and is still good.                            *)
RefusalIsJustified ==
    \A c \in Calls :
        answer[c].kind = "human_review_required" =>
            \/ ~config.approval
            \/ ~Grants(req[c].token, req[c].rid, answer[c].stage, answer[c].rules)
            \/ req[c].token.exp < clock

(* The decisions on record for a call, and the rank of one among them.     *)
Decisions(c) ==
    {i \in DOMAIN audit : audit[i].call = c /\ audit[i].type = "policy_decision"}
Rank(c, i) == Cardinality({j \in Decisions(c) : j <= i})

(* The k-th decision a call owes: its prompt, its text, its tool calls.    *)
DueStage(k) == IF k = 1 THEN "input" ELSE IF k = 2 THEN "output" ELSE "tool"
DueHits(c, k) ==
    IF k = 1 THEN req[c].hits
    ELSE IF k = 2 THEN Hits(c, "output") ELSE reply[c].body.tools[k - 2]

IsDue(c, k, e) ==
    /\ e.stage = DueStage(k)
    /\ e.decision = Verdict(DueStage(k), DueHits(c, k))
    /\ e.rules = MatchedIds(DueStage(k), DueHits(c, k))

(* The log holds the first n decisions a call owes, in order, no other.    *)
Told(c, n) ==
    /\ Cardinality(Decisions(c)) = n
    /\ \A i \in Decisions(c) : IsDue(c, Rank(c, i), audit[i])

EndsWith(c, type, decision) ==
    \E i \in DOMAIN audit :
        /\ audit[i].call = c /\ \A j \in DOMAIN audit : audit[j].call = c => j <= i
        /\ audit[i].type = type /\ audit[i].decision = decision
        /\ type = "policy_decision" =>
              audit[i].stage = answer[c].stage /\ audit[i].rules = answer[c].rules

Explained(c) ==
    /\ answer[c].kind = "safety_blocked" => EndsWith(c, "policy_decision", "block")
    /\ answer[c].kind = "human_review_required" =>
           EndsWith(c, "policy_decision", "require_human_review")
    /\ answer[c].kind \in {"provider_error", "exception"} =>
           EndsWith(c, "gateway_error", "error")
    /\ answer[c].kind = "redacted" => Told(c, 2)
    /\ answer[c].kind = "delivered" => Told(c, 2 + Len(reply[c].body.tools))

(* The log tells the story of every answer: it ends with the refusal or    *)
(* the failure that was answered, and it holds exactly the decisions that  *)
(* led to a delivery, in their order.                                      *)
TrailExplainsAnswer ==
    config.policy /\ config.audit => \A c \in Calls : Explained(c)

(* The strengthening that makes it inductive: what is on record for a call *)
(* in each place.                                                          *)
Made(c) == IF stage[c] = "input" THEN 1 ELSE IF stage[c] = "output" THEN 2 ELSE 2 + next[c]

StoryInv(c) ==
    /\ pc[c] \in {"unsent", "sent"} => Told(c, 0)
    /\ pc[c] = "judged" => Told(c, Made(c))
    /\ pc[c] \in {"awaiting", "resumable"} => Told(c, 1)
    /\ pc[c] = "tools" => Told(c, 1 + next[c]) /\ next[c] <= 1 + Len(reply[c].body.tools)
    /\ Explained(c)

(* An approval in the log comes right after the decision it overrides: no  *)
(* event of another call gets in between, since the handler does not give  *)
(* up the event loop there.                                                *)
ApprovalFollowsItsDecision ==
    \A i \in DOMAIN audit :
        audit[i].type = "approval" =>
            /\ i > 1
            /\ audit[i - 1] = [audit[i] EXCEPT !.type = "policy_decision",
                                              !.decision = "require_human_review",
                                              !.at = audit[i - 1].at]

(* The guard of the provider, as GuardedCall has it: a call is open while  *)
(* its prompt is, and released from then on.                               *)
PromptIsRefused(c) ==
    /\ pc[c] = "answered" /\ answer[c].stage = "input"
    /\ answer[c].kind \in {"safety_blocked", "human_review_required"}

Phase(c) ==
    CASE pc[c] = "unsent" -> "idle"
      [] pc[c] = "sent" \/ (pc[c] = "judged" /\ stage[c] = "input") -> "open"
      [] PromptIsRefused(c) -> "refused"
      [] pc[c] \in Finished /\ ~PromptIsRefused(c) -> "ended"
      [] OTHER -> "released"

PromptIsRecorded(c) ==
    \E i \in DOMAIN audit :
        /\ audit[i].call = c /\ audit[i].type = "policy_decision"
        /\ audit[i].stage = "input" /\ audit[i].decision = Verdict("input", req[c].hits)

Guarded ==
    INSTANCE GuardedCall WITH
        phase <- [c \in Calls |-> Phase(c)],
        admitted <- {c \in Calls : config.policy => InputCleared(c)},
        recorded <- {c \in Calls : PromptIsRecorded(c)},
        recording <- config.policy /\ config.audit

(* The gateway is a guard before the provider: a prompt goes up at most    *)
(* once, never after a refusal, and only once its own decision is on       *)
(* record, whatever other calls, tokens, failures and crashes do.          *)
ProviderIsGuarded == Guarded!Spec

(* Every call that arrives ends: it is answered, or lost in a crash.       *)
EveryCallEnds == \A c \in Calls : pc[c] = "sent" ~> pc[c] \in Finished

-----------------------------------------------------------------------------
(* What the repository says of the gateway and the code does not do.       *)

(* README.md:30: checks are enforced on tool calls.  Of a redacted answer  *)
(* too, one would expect.                                                  *)
DeliveredToolCallsAreCleared ==
    config.policy =>
        \A c \in Calls : \A i \in DOMAIN answer[c].body.tools :
            Cleared(c, "tool", answer[c].body.tools[i])

(* app.py:74: "Output content was redacted by Jinguzhou policy."           *)
RedactedOutputIsClean ==
    \A c \in Calls :
        answer[c].kind = "redacted" =>
            Verdict("output", UNION {answer[c].body.choices[i] :
                                        i \in DOMAIN answer[c].body.choices}) # "redact"

StageOrder == [input |-> 1, output |-> 2, tool |-> 3]

(* APPROVALS.md:15-16: a retry of the same request that carries a token    *)
(* for the decision that stopped it continues the guarded flow: it is not  *)
(* asked for a review at a stage it had already got through.               *)
ApprovedRetryContinues ==
    \A c, d \in Calls :
        /\ answer[c].kind = "human_review_required"
        /\ answer[d].kind = "human_review_required"
        /\ req[d].rid = req[c].rid /\ req[d].hits = req[c].hits
        /\ Grants(req[d].token, req[c].rid, answer[c].stage, answer[c].rules)
        /\ clock <= req[d].token.exp
        => StageOrder[answer[d].stage] >= StageOrder[answer[c].stage]
=============================================================================
