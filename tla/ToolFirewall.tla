----------------------------- MODULE ToolFirewall -----------------------------
(***************************************************************************)
(* ToolFirewallMiddleware (gateway/middleware.py) and the wrappers that    *)
(* put it in front of a tool (integrations/*.py).  Agent runtimes call     *)
(* guarded tools from several threads or tasks; they share the middleware, *)
(* its audit logger and its approval manager, and nothing is locked, so    *)
(* the uses interleave at every step.                                      *)
(*                                                                         *)
(* A wrapper's method checks once and then runs the first thing the        *)
(* wrapped tool offers for it.  LangChain's ainvoke and run, and           *)
(* LlamaIndex's acall, on a tool that lacks that method, fall back to the  *)
(* wrapper's own invoke or call, which checks again, after the token and   *)
(* the request id have been popped from the arguments.  Attributes that a  *)
(* wrapper does not define are the tool's own and outside this model.      *)
(*                                                                         *)
(* An operator whose name starts with Faulty is a mutant of the definition *)
(* that follows it.                                                        *)
(***************************************************************************)
EXTENDS Integers, FiniteSets, Sequences, PolicyEngine, ApprovalTokens

CONSTANTS
    Uses,           \* calls of guarded tools
    RequestIds,     \* jinguzhou_request_id values the runtime may pass
    Policy,         \* the loaded policy
    Configs,        \* whether an approval manager and a logger are configured
    Invocations,    \* what a runtime may call: a wrapper's method, what the tool
                    \* under it offers, and the rules the call's arguments hit
    GrantShapes,    \* <<rid, stage, rules>> scopes the reviewer may choose
    NoToken,        \* no jinguzhou_approval_token
    ForgedTokens,   \* tokens the manager's secret did not sign, whatever they claim
    Ttl,            \* ttl_seconds of issued tokens
    MaxClock        \* bound on the clock

Ids == {r.id : r \in Policy}
FreshIds == Uses \X {1, 2}          \* the uuid4 of a use's first or second check
Rids == RequestIds \cup FreshIds

(* What each method of a wrapper runs, if the tool offers it (`function`   *)
(* stands for the wrapped functions of OpenAI Agents and for the           *)
(* middleware's own invoke, `handle` for MCP requests) ...                 *)
Runs ==
    [invoke |-> {"invoke", "callable"}, ainvoke |-> {"ainvoke"}, run |-> {"run"},
     call |-> {"call", "invoke", "callable"}, acall |-> {"acall"},
     function |-> {"callable"}, handle |-> {"callable"}]
Methods == DOMAIN Runs
Capabilities == {"invoke", "ainvoke", "run", "call", "acall", "callable"}

(* ... and the wrapper's method it turns to otherwise, if any.             *)
FallsBackTo == [ainvoke |-> "invoke", run |-> "invoke", acall |-> "call"]

Tokens == [rid : Rids \cup {Wildcard}, stage : Stages \cup {Wildcard},
           rules : SUBSET Ids, exp : Nat, signature : Signatures]

ASSUME FirewallPolicyAssumption == Policy \subseteq Rules
ASSUME FirewallInputsAssumption ==
    /\ Invocations \subseteq [method : Methods, offers : SUBSET Capabilities,
                              hits : SUBSET Ids]
    /\ Configs \subseteq [approval : BOOLEAN, audit : BOOLEAN]
    /\ NoToken \notin Tokens
    /\ ForgedTokens \subseteq Tokens
    /\ \A t \in ForgedTokens : t.signature # "genuine"
    /\ GrantShapes \subseteq {"same", "any"} \X {"same", "any"} \X {"same", "any"}
    /\ Ttl \in Nat /\ MaxClock \in Nat

VARIABLES
    config,     \* approval manager and audit logger of the middleware
    clock,      \* wall clock, in ticks
    issued,     \* tokens issued so far
    audit,      \* the audit log, oldest event first
    pc,         \* where each use is
    use,        \* each use's method, tool, arguments, request id and token
    check,      \* 1 in the first check of a use, 2 in a second one
    ran         \* the uses whose tool was executed

vars == <<config, clock, issued, audit, pc, use, check, ran>>

Ended == {"returned", "blocked", "review_required", "choked", "failed", "lost"}

MatchedIds(u) == RuleIds(Matched(Policy, "tool", use[u].hits))
Verdict(u) == Strictest(Matched(Policy, "tool", use[u].hits))

-----------------------------------------------------------------------------
(* evaluate_tool_call.                                                     *)

Log(u, type, decision) ==
    audit' = IF config.audit
             THEN Append(audit, [use |-> u, rid |-> use[u].rid, check |-> check[u],
                                 type |-> type, decision |-> decision,
                                 rules |-> MatchedIds(u), at |-> clock])
             ELSE audit

Goto(u, place) == pc' = [pc EXCEPT ![u] = place]

EvaluateToolCall(u) ==
    /\ pc[u] = "called"
    /\ Log(u, "policy_decision", Verdict(u))
    /\ Goto(u, "judged")
    /\ UNCHANGED <<config, clock, issued, use, check, ran>>

Pass(u) ==
    /\ pc[u] = "judged" /\ Verdict(u) \in {"allow", "warn", "redact"}
    /\ Goto(u, "cleared")
    /\ UNCHANGED <<config, clock, issued, audit, use, check, ran>>

Block(u) ==
    /\ pc[u] = "judged" /\ Verdict(u) = "block"
    /\ Goto(u, "blocked")
    /\ UNCHANGED <<config, clock, issued, audit, use, check, ran>>

(* _approve: no manager or no token, an acceptable token, one that cannot  *)
(* be compared with a genuine one, or another one.                         *)
HasToken(u) == config.approval /\ use[u].token # NoToken
Acceptable(u) ==
    HasToken(u) /\ Allows(use[u].token, use[u].rid, "tool", MatchedIds(u), clock)
Chokes(u) == HasToken(u) /\ Raises(use[u].token)

Accept(u) ==
    /\ pc[u] = "judged" /\ Verdict(u) = "require_human_review"
    /\ Acceptable(u)
    /\ Log(u, "approval", "approved")
    /\ Goto(u, "cleared")
    /\ UNCHANGED <<config, clock, issued, use, check, ran>>

Demand(u) ==
    /\ pc[u] = "judged" /\ Verdict(u) = "require_human_review"
    /\ ~HasToken(u)
    /\ Goto(u, "review_required")
    /\ UNCHANGED <<config, clock, issued, audit, use, check, ran>>

FaultyReject(u) ==                                         \* rejection not logged
    /\ pc[u] = "judged" /\ Verdict(u) = "require_human_review"
    /\ HasToken(u) /\ ~Acceptable(u) /\ ~Chokes(u)
    /\ Goto(u, "review_required")
    /\ UNCHANGED <<config, clock, issued, audit, use, check, ran>>
Reject(u) ==
    /\ pc[u] = "judged" /\ Verdict(u) = "require_human_review"
    /\ HasToken(u) /\ ~Acceptable(u) /\ ~Chokes(u)
    /\ Log(u, "approval", "rejected")
    /\ Goto(u, "review_required")
    /\ UNCHANGED <<config, clock, issued, use, check, ran>>

(* The TypeError of the comparison leaves the check: nothing is logged.    *)
Choke(u) ==
    /\ pc[u] = "judged" /\ Verdict(u) = "require_human_review"
    /\ Chokes(u)
    /\ Goto(u, "choked")
    /\ UNCHANGED <<config, clock, issued, audit, use, check, ran>>

(* The MCP payload holds no tool call, or more than one: ValueError.       *)
RejectPayload(u) ==
    /\ pc[u] = "called" /\ use[u].method = "handle"
    /\ Goto(u, "failed")
    /\ UNCHANGED <<config, clock, issued, audit, use, check, ran>>

(* The evaluation raises: a regular expression of the policy that does not *)
(* compile, a URL that urlparse refuses.                                   *)
CheckFault(u) ==
    /\ pc[u] = "called"
    /\ Goto(u, "failed")
    /\ UNCHANGED <<config, clock, issued, audit, use, check, ran>>

(* The logger raises: so does the check, and the tool does not run.  The   *)
(* event may be in the log all the same: the file was written and its      *)
(* close failed, or the commit arrived and its acknowledgement did not.    *)
MayLog(u, type, decision) == Log(u, type, decision) \/ UNCHANGED audit
FaultyAuditFault(u) ==                                     \* the error is swallowed
    /\ config.audit
    /\ pc[u] = "called" \/ (pc[u] = "judged" /\ HasToken(u)
                            /\ Verdict(u) = "require_human_review")
    /\ Goto(u, IF pc[u] = "called" THEN "judged" ELSE "cleared")
    /\ UNCHANGED <<config, clock, issued, audit, use, check, ran>>
AuditFault(u) ==
    /\ config.audit
    /\ \/ /\ pc[u] = "called"
          /\ MayLog(u, "policy_decision", Verdict(u))
       \/ /\ pc[u] = "judged" /\ Verdict(u) = "require_human_review"
          /\ HasToken(u) /\ ~Chokes(u)
          /\ MayLog(u, "approval", IF Acceptable(u) THEN "approved" ELSE "rejected")
    /\ Goto(u, "failed")
    /\ UNCHANGED <<config, clock, issued, use, check, ran>>

-----------------------------------------------------------------------------
(* The wrappers.                                                           *)

Runnable(u) == use[u].offers \cap Runs[use[u].method] # {}

FaultyCheckAgain(u) ==                            \* falls back to the same method
    /\ pc[u] = "cleared" /\ ~Runnable(u) /\ use[u].method \in DOMAIN FallsBackTo
    /\ use' = [use EXCEPT ![u].rid = <<u, 2>>, ![u].token = NoToken]
    /\ check' = [check EXCEPT ![u] = @ + 1]
    /\ Goto(u, "called")
    /\ UNCHANGED <<config, clock, issued, audit, ran>>
(* The check passed, and the wrapper delegates to its own invoke or call:  *)
(* a new check, without the token and under a new request id.              *)
CheckAgain(u) ==
    /\ pc[u] = "cleared" /\ ~Runnable(u) /\ use[u].method \in DOMAIN FallsBackTo
    /\ use' = [use EXCEPT ![u].method = FallsBackTo[@],
                          ![u].rid = <<u, 2>>, ![u].token = NoToken]
    /\ check' = [check EXCEPT ![u] = 2]
    /\ Goto(u, "called")
    /\ UNCHANGED <<config, clock, issued, audit, ran>>

FaultyExecute(u) ==                        \* the fallback's coroutine is not awaited
    /\ pc[u] = "cleared" /\ Runnable(u) /\ check[u] = 1
    /\ Goto(u, "running")
    /\ ran' = ran \cup {u}
    /\ UNCHANGED <<config, clock, issued, audit, use, check>>
Execute(u) ==
    /\ pc[u] = "cleared" /\ Runnable(u)
    /\ Goto(u, "running")
    /\ ran' = ran \cup {u}
    /\ UNCHANGED <<config, clock, issued, audit, use, check>>

(* The tool offers nothing the method can run: TypeError.                  *)
FindNothing(u) ==
    /\ pc[u] = "cleared" /\ ~Runnable(u) /\ use[u].method \notin DOMAIN FallsBackTo
    /\ Goto(u, "failed")
    /\ UNCHANGED <<config, clock, issued, audit, use, check, ran>>

ToolEnds(u) ==
    /\ pc[u] = "running"
    /\ \E place \in {"returned", "failed"} : Goto(u, place)
    /\ UNCHANGED <<config, clock, issued, audit, use, check, ran>>

-----------------------------------------------------------------------------
(* The runtime, the reviewer, the clock and the process.                   *)

Call(u) ==
    /\ pc[u] = "idle"
    /\ \E call \in Invocations, token \in issued \cup ForgedTokens \cup {NoToken},
          rid \in RequestIds \cup {<<u, 1>>} \cup
                  {use[v].rid : v \in {w \in Uses : pc[w] = "review_required"}} :
             use' = [use EXCEPT ![u] = [method |-> call.method, offers |-> call.offers,
                                        hits |-> call.hits, token |-> token, rid |-> rid]]
    /\ Goto(u, "called")
    /\ UNCHANGED <<config, clock, issued, audit, check, ran>>

(* `approval issue`, for the request id, the stage and the rules of a      *)
(* violation or for any.                                                   *)
IssueFor(u) ==
    /\ pc[u] = "review_required"
    /\ \E shape \in GrantShapes :
          issued' = issued \cup
            {Issue(IF shape[1] = "any" THEN Wildcard ELSE use[u].rid,
                   IF shape[2] = "any" THEN Wildcard ELSE "tool",
                   IF shape[3] = "any" THEN {} ELSE MatchedIds(u),
                   clock, Ttl)}
    /\ UNCHANGED <<config, clock, audit, pc, use, check, ran>>

Tick ==
    /\ clock < MaxClock
    /\ clock' = clock + 1
    /\ UNCHANGED <<config, issued, audit, pc, use, check, ran>>

Crash ==
    /\ \E u \in Uses : pc[u] \notin {"idle"} \cup Ended
    /\ pc' = [u \in Uses |-> IF pc[u] \in {"idle"} \cup Ended THEN pc[u] ELSE "lost"]
    /\ UNCHANGED <<config, clock, issued, audit, use, check, ran>>

-----------------------------------------------------------------------------

Init ==
    /\ config \in Configs
    /\ clock = 0 /\ issued = {} /\ audit = <<>> /\ ran = {}
    /\ pc = [u \in Uses |-> "idle"]
    /\ use = [u \in Uses |-> [method |-> "invoke", offers |-> {}, hits |-> {},
                              token |-> NoToken, rid |-> <<u, 1>>]]
    /\ check = [u \in Uses |-> 1]

(* The steps a guarded use takes by itself, up to the start of the tool.   *)
Guard(u) ==
    \/ EvaluateToolCall(u) \/ Pass(u) \/ Block(u) \/ Accept(u) \/ Demand(u) \/ Reject(u)
    \/ Choke(u) \/ RejectPayload(u) \/ CheckFault(u) \/ AuditFault(u)
    \/ CheckAgain(u) \/ Execute(u) \/ FindNothing(u)

Next ==
    \/ \E u \in Uses : Call(u) \/ Guard(u) \/ ToolEnds(u) \/ IssueFor(u)
    \/ Tick \/ Crash

Spec == Init /\ [][Next]_vars

(* The thread that runs a use is scheduled until the tool starts; how long *)
(* the tool itself takes is not the middleware's business.                 *)
FairSpec == Spec /\ \A u \in Uses : WF_vars(Guard(u))

-----------------------------------------------------------------------------
(* Properties.                                                             *)

TypeOK ==
    /\ config \in Configs /\ clock \in Nat /\ issued \subseteq Tokens
    /\ audit \in Seq([use : Uses, rid : Rids, check : {1, 2},
                      type : {"policy_decision", "approval"},
                      decision : Actions \cup {"approved", "rejected"},
                      rules : SUBSET Ids, at : Nat])
    /\ pc \in [Uses -> {"idle", "called", "judged", "cleared", "running"} \cup Ended]
    /\ use \in [Uses -> [method : Methods, offers : SUBSET Capabilities,
                         hits : SUBSET Ids, token : Tokens \cup {NoToken}, rid : Rids]]
    /\ check \in [Uses -> {1, 2}] /\ ran \subseteq Uses

(* The manager issued t, for this use: its request or any, its stage or    *)
(* any, and every rule that its arguments meet, or any.                    *)
Grants(t, u) ==
    /\ t \in issued
    /\ t.rid = use[u].rid \/ t.rid = Wildcard
    /\ t.stage = "tool" \/ t.stage = Wildcard
    /\ \A id \in MatchedIds(u) : id \in t.rules \/ t.rules = {}

(* Policy lets the arguments of a use pass, or asks for a review that the  *)
(* token presented in this very check covers.                              *)
Cleared(u) ==
    \/ Verdict(u) \in {"allow", "warn", "redact"}
    \/ /\ Verdict(u) = "require_human_review"
       /\ config.approval /\ Grants(use[u].token, u)

(* A tool runs only if policy lets its arguments pass, or a token that the *)
(* manager issued was presented in the very check the run follows, and     *)
(* covers the request and every matched rule of that check: by name, or by *)
(* a wildcard the reviewer chose.  No other text a caller passes for a     *)
(* token gets a tool to run.                                               *)
ExecutedIsCleared == \A u \in ran : Cleared(u)

Decides(u, k, e) ==
    /\ e.use = u /\ e.check = k
    /\ e.type = "policy_decision" /\ e.decision = Verdict(u)

Approves(u, k, e) ==
    /\ e.use = u /\ e.check = k /\ e.decision = "approved"
    /\ e.at <= use[u].token.exp

CheckIsLogged(u, k) ==
    \E i \in DOMAIN audit :
        /\ Decides(u, k, audit[i])
        /\ Verdict(u) = "require_human_review" =>
              \E j \in DOMAIN audit : j > i /\ Approves(u, k, audit[j])

(* With a logger, no tool runs unrecorded: the log holds the decision of   *)
(* every check the use went through, and, if it was a review, the          *)
(* acceptance of an unexpired token after it; failing to write is failing  *)
(* the call.                                                               *)
ExecutedIsLogged ==
    config.audit => \A u \in ran : \A k \in 1..check[u] : CheckIsLogged(u, k)

LastOf(u, i) ==
    audit[i].use = u /\ \A j \in DOMAIN audit : audit[j].use = u => j <= i

LastWord(u, decision) ==
    \E i \in DOMAIN audit : LastOf(u, i) /\ audit[i].decision = decision

RefusalIsLogged(u) ==
    LastWord(u, IF HasToken(u) THEN "rejected" ELSE "require_human_review")

(* Whoever is refused with a token in hand finds the rejection in the log, *)
(* as the last word on that use; and only then.  There is one way to be    *)
(* stopped by the token and find only the decision there: it could not be  *)
(* compared.                                                               *)
RejectionIsLogged ==
    config.audit => \A u \in Uses :
        /\ pc[u] = "review_required" => RefusalIsLogged(u)
        /\ pc[u] = "choked" => Chokes(u) /\ LastWord(u, "require_human_review")

(* The strengthening that makes the three invariants inductive: what a use *)
(* has at hand in each place, and what it has left in the log.             *)
UseInv(u) ==
    /\ use[u].token \in issued \cup ForgedTokens \cup {NoToken}
    /\ pc[u] = "idle" => check[u] = 1
    /\ check[u] = 2 => use[u].token = NoToken
    /\ u \in ran => pc[u] \in {"running", "returned", "failed", "lost"}
    /\ pc[u] \in {"cleared", "running"} \/ u \in ran => Cleared(u)
    /\ pc[u] = "review_required" => Verdict(u) = "require_human_review"

TrailInv(u) ==
    config.audit =>
        /\ check[u] = 2 => \E i \in DOMAIN audit : Decides(u, 1, audit[i])
        /\ pc[u] = "judged" =>
              \E i \in DOMAIN audit : LastOf(u, i) /\ Decides(u, check[u], audit[i])
        /\ pc[u] \in {"cleared", "running"} \/ u \in ran => CheckIsLogged(u, check[u])
        /\ pc[u] = "review_required" => RefusalIsLogged(u)
        /\ pc[u] = "choked" => Chokes(u) /\ LastWord(u, "require_human_review")

(* What a use has logged belongs to the checks it went through, and it     *)
(* falls back only once.                                                   *)
SeenInv(u) ==
    /\ \A i \in DOMAIN audit :
          audit[i].use = u => pc[u] # "idle" /\ audit[i].check <= check[u]
    /\ check[u] = 2 => use[u].method \notin DOMAIN FallsBackTo

FirewallInv ==
    /\ \A t \in issued : t.signature = "genuine"
    /\ \A u \in Uses : UseInv(u) /\ TrailInv(u)

(* The guard of the tools, as GuardedCall has it.                          *)
Phase(u) ==
    CASE pc[u] = "idle" -> "idle"
      [] pc[u] \in {"called", "judged", "cleared"} -> "open"
      [] pc[u] = "running" -> "released"
      [] pc[u] \in {"blocked", "review_required"} -> "refused"
      [] OTHER -> "ended"

OnRecord(u) == \E i \in DOMAIN audit : Decides(u, check[u], audit[i])

Guarded ==
    INSTANCE GuardedCall WITH
        Calls <- Uses,
        phase <- [u \in Uses |-> Phase(u)],
        admitted <- {u \in Uses : Cleared(u)},
        recorded <- {u \in Uses : OnRecord(u)},
        recording <- config.audit

(* The middleware and its wrappers are a guard before the tools: a tool is *)
(* run at most once per use, never after a refusal, and only once the      *)
(* decision of the check it follows, not of an earlier one, is on record.  *)
ToolsAreGuarded == Guarded!Spec

(* Every call of a guarded tool gets to the tool or ends.                  *)
EveryCheckEnds ==
    \A u \in Uses : pc[u] = "called" ~> (u \in ran \/ pc[u] \in Ended)

(* LANGCHAIN_TOOL_POLICY.md:32, APPROVALS.md:16: a token is accepted, the  *)
(* acceptance is logged, and the guarded flow continues: a use is not then *)
(* stopped for want of a review.                                           *)
ApprovedUseIsNotRefused ==
    \A i \in DOMAIN audit :
        audit[i].decision = "approved" => pc[audit[i].use] # "review_required"
=============================================================================
