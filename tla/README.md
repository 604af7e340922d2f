# Jinguzhou in TLA+

TLA+ models, TLC runs and TLAPS proofs for Jinguzhou, the policy gateway and
tool firewall in `src/src/jinguzhou`. Paths below are relative to that
directory unless they start with `docs/` or `README`.

Contents: [the system](#1-the-system), [modules](#2-modules-and-the-code-they-model),
[abstractions](#3-abstractions), [runs](#4-runs), [fairness](#5-fairness),
[proofs](#6-proofs), [findings](#7-findings), [not modelled](#8-not-modelled),
[plan](#9-plan).

## 1. The system

A client sends a chat completion to the gateway. The gateway evaluates the text
of the request against policy (stage `input`), calls the upstream provider,
evaluates the text of the completion (`output`) and each of its tool calls
(`tool`), writes every decision to an audit log and answers. A rule may allow,
warn, redact, block, or ask for a human review. In the last case the client
gets a 409 with the request id and the rule ids; a reviewer issues a signed,
expiring approval token for them; the client retries with that token. Agent
runtimes use the same engine without the gateway, through a middleware and
per-framework wrappers that check a tool call before they run the tool. All of
this is set up by command-line tools that write, validate and load the files of
a project.

| Component | State | Operations | Hard behaviour | What makes it correct |
|---|---|---|---|---|
| Chat-completions gateway `gateway/app.py` | wiring; per call where its handler is | one handler: input stage, provider call, output stage, tool loop, answers 200/403/409/5xx | handlers interleave at the `await` of the provider; crash and restart; a failing log in mid-handler; retries under the same id | nothing uncleared is forwarded or delivered; every answer is explained by the log; every call ends |
| Policy engine `policy/engine.py` | none (a set of rules) | `evaluate` | four sort keys in one descending sort | the strictest matched action wins; more rules never weaken |
| Matchers and fact extraction `policy/matchers.py`, `policy/extractors.py` | none | `matches`, `extract_tool_facts`, path expressions | nested arguments, keys that differ in case, fields found twice | a field name finds what it names and nothing else; one more field never weakens |
| Policy loader `policy/loader.py` | merged document | load and merge files, refuse duplicates | order of files, first-source rule, files that change during the load | no id is loaded twice |
| Approval tokens `approvals/tokens.py` | secret | `issue`, `decode`, `allows` | expiry boundary, wildcards, tokens reused by other calls | an approval is backed by an issued, unexpired token for that very decision; a good token is never refused |
| Tool firewall `gateway/middleware.py` | shared engine, logger, manager | `evaluate_tool_call`, `invoke`, `ainvoke` | several threads, no lock; failing logger | no tool runs uncleared or unrecorded; rejections are on record |
| Framework integrations `integrations/*.py` | none | wrapper methods | a fallback that checks twice; a tool without the method | a check that passed reaches the tool |
| Tool adapter registry `tools/adapters.py`, `adapters/*.py` | ordered adapters | resolve, normalise, six extractors | ordering of adapters; one response in several shapes; arguments parsed twice | an adapter affects only its own tools; no item hides another; gateway and wrapper judge the same call |
| Audit log `audit/logger.py`, `audit/query.py` | a JSONL file | append, query, replay | concurrent appenders, short writes, crashes, readers of a torn file | whole events only; what was written is found |
| Postgres logger `audit/postgres.py` | a table | insert and commit | an acknowledgement that is lost after the commit | as the callers of a logger see it |
| Provider adapter `providers/openai_compatible.py` | none | one POST with a timeout | transport error, HTTP error, body that is not JSON, silence | every outcome leads to an answer |
| Runtime configuration and wiring `config.py`, `gateway/runtime.py` | configuration | load, resolve secrets, build the parts | parts that are absent, values from file or environment | what validation accepts is what the gateway serves |
| Project initializer `init_project.py` | files | check, then write each file | two initialisers, edits meanwhile, cut off half way | no existing file is overwritten; a refusal leaves no trace |
| Command line `cli.py` | none | `init`, `validate-config`, `gateway`, `check-*`, `approval issue`, `audit query`, `audit replay` | processes of their own over shared files | as the parts it calls |

Components interact by calls, with four exceptions that the models are about:
the **event loop** that handlers share, the **audit log** that handlers,
threads and processes append to and readers open at any time, **tokens**,
which travel from the reviewer through the client to any later call, and the
**project files**, which commands and an operator write while others read them.

The hazards (what can go wrong here that a test would hardly reach, with source
lines and the properties that watch them) are listed under `hazards` in
`PROJECT.json`. Two have no property. `results[-limit:]` with limit 0 is the
whole list (`audit/query.py:45`): nothing in the repository says what 0 should
mean, so `Latest` models what it does. And a phrase that a rule's `command_contains`
finds only across two commands, joined with a blank (`policy/matchers.py:41`), can be
parted by one that comes to lie between them: strings have no characters here.

## 2. Modules and the code they model

| Module | Models |
|---|---|
| `GuardedCall` | the abstract specification of a guard: what a policy enforcement point promises of one call. `Gateway` is shown to implement it before the provider, `ToolFirewall` before the tools |
| `PolicyEngine` | `PolicyEngine.evaluate`: `Matched`, the ranking (`RanksAbove`, `Ranked`), the result (`Evaluate`), and `Strictest`, what the ranking amounts to |
| `MCPolicyEngine` | a policy that grows rule by rule; run module |
| `ApprovalTokens` | `issue`, `decode`, `allows` |
| `Gateway` | the handler of `POST /v1/chat/completions` with clients, reviewer, provider, log, clock and crashes; extends `PolicyEngine` and `ApprovalTokens` |
| `ToolFirewall` | `ToolFirewallMiddleware` and the wrappers over it; extends the same two |
| `AuditLog` | the JSONL file, its writers and its readers |
| `AuditStore` | what a reader is promised: an append-only store of whole events that may break, once and for good; `AuditLog` is shown to implement it |
| `ToolRegistry` | adapters and the extraction of tool calls from responses |
| `FactExtraction` | `extract_tool_facts`: field names and path expressions over nested arguments, and the facts they yield |
| `Matchers` | `matches`: the criteria of a rule that look at a tool call |
| `ToolPolicy` | the composition of the last three with the engine: from response to decision |
| `PolicyLoader` | `load_policy_file` and `load_policy_files`: sources and duplicates |
| `Deployment` | the project's files and the commands that write, validate and load them: `init_project.py`, `config.py`, `gateway/runtime.py`; extends `PolicyLoader` |
| `PolicyEngineProofs`, `RankingProofs`, `GatewayProofs`, `ToolFirewallProofs`, `ToolPolicyProofs`, `AuditLogProofs`, `DeploymentProofs` | theorems |
| `FoldLemmas` | lemmas about folds over sequences, and over the levels of nested values, taken by `AuditLogProofs`, `DeploymentProofs` and `ToolPolicyProofs` |
| `MC*` | instances for TLC |

Operators whose names begin with `Faulty` or `Wrong` (and `HastyDecodes`,
`CarelessDecodes`) are bugs one could plausibly make in the definition that
follows them. They are used by no specification; they show that each property
can fail (`mutants` in `PROJECT.json`).

### GuardedCall

A call is `idle`, `open`, `released`, `refused` or `ended`. It is released at
most once, while it is `admitted` and, where decisions are recorded
(`recording`), once its current decision is (`recorded`); a refusal needs the
record too, and is final. `Reconsider` lets a guard start over, which takes the
record back; `Lose` is a crash. Admission does not change while a call is open,
except that reconsidering may lose it: no step of another call can admit one.

| | `Gateway`, before the provider | `ToolFirewall`, before a tool |
|---|---|---|
| open | `sent`, or `judged` at `input` | `called`, `judged`, `cleared` |
| released | from `awaiting` to the answer | `running` |
| refused | answered 403 or 409 at `input` | `blocked`, `review_required` |
| admitted | `InputCleared`, or there is no policy | `Cleared` |
| recorded | the prompt's decision is in the log | the decision of the current check is |
| recording | policy and logger are wired | a logger is wired |

### Gateway

A call's `pc` follows the handler (`gateway/app.py:306-567`):

    unsent -> sent -> judged(input) -> awaiting -> resumable
           -> judged(output) -> tools -> judged(tool) -> tools ... -> answered

and `lost` if the process died. The action names are the steps of the code:
`EvaluateInput/Output/Tool` evaluate and log a decision, `Pass*` is a verdict
that lets the stage through, `Approve*` a review that a token settles, `Block`
the 403, `Review` the 409, `RedactOutput` the early return of a redacted
completion, `AnswerUpstreamFailure`, `FailOnMalformed` and `AuditFault` the
error paths, `CheckFault` an evaluation or a token check that raises (a 500, with
nothing logged), `ForwardUnguarded`, `DeliverUnguarded` and `RejectUnconfigured`
the wirings without policy or provider.

The handler is a coroutine whose only `await` is the provider call. `loop` is
the handler that occupies the event loop: it is taken at the first evaluation
and given back at the await and at the answer, so handlers interleave exactly
where the code lets them. Evaluation, approval and answer are nevertheless
separate steps, because the clock, the reviewer's CLI (another process), the
provider and a crash do not wait for the loop.

The surroundings: `Submit` (a client calls with an id of its own, with the id of
a refusal, or none, and with any token it may hold, one the manager did not sign,
or none),
`IssueFor` (a reviewer reads a 409 and issues a token for it, as it stands or
with wildcards), `UpstreamReplies`, `UpstreamFails`, `UpstreamTimesOut`, `Tick`,
`Crash`.

### ToolFirewall

`pc` of a use: `idle -> called -> judged -> cleared -> running -> returned`, or
`blocked`, `review_required`, `choked`, `failed`, `lost`. Uses run in threads
without a lock, so every step interleaves with every other. `Reject` writes the
rejection of a token, `Demand` refuses a use without one. `Choke` is a token whose
signature is not ASCII: `hmac.compare_digest` raises `TypeError`, `_approve` expects
`ValueError`, and the check ends with neither a token accepted nor a rejection
written. `AuditFault` is a logger that raises, `CheckFault` an evaluation that does.

A runtime passes any token that was issued, one that was not (`ForgedTokens`), or
none; the reviewer issues tokens for one request, the stage `tool` and its rules, or
with wildcards for each (`IssueFor`, as in `Gateway`).

An `Invocation` is a `method` of a wrapper, called on a tool that `offers` some of what
the methods look for, with arguments that `hits` some rules. `Runs` is what each method
can run, `FallsBackTo` the method that `GuardedLangChainTool.ainvoke`/`run` and
`GuardedLlamaIndexTool.acall` delegate to when the tool offers nothing of theirs. They
do so on the wrapper itself and after the token and the request id were popped from the
arguments: `CheckAgain` is that second check. `FindNothing` is the `TypeError` when
nothing fits, `RejectPayload` the `ValueError` of an MCP payload that does not hold
exactly one call.

### AuditLog

The file is a sequence of pieces: whole events, fragments and line breaks. An event that
fits Python's buffer is appended together with its newline at the close; a longer one is
appended at once and its newline at the close, so another writer, a full disk or a crash
can come between. A write that raises may have left nothing, a part or the whole line
(`WriteFails`, `CloseFails`). Readers (`Lines`, a fold of the pieces by `Take`;
`Parses`; `Query`, a fold of the events by `Collect`) do what `iter_audit_events` and
`query_audit_events` do, including `splitlines` breaking at U+0085, U+2028 and U+2029.
The specification of the store is `Store!Spec`, an instance of `AuditStore` whose `log`
is what the readers get and whose `ok` is whether they get anything.

### ToolRegistry, FactExtraction, Matchers, ToolPolicy

`Resolve` is the stable descending sort by priority and number of patterns
followed by the first fit; `Recognised`, `Protocol` and `Candidates` are the six
extractors; `Normalize` parses arguments a second time, as the code does, and
carries along the extraction settings of the adapter; `Direct` is a framework
wrapper's own normalisation of the call it is about to make.

`CandidateValues` is the set of strings that the fields of an extraction setting lead
to: by path expressions (`ResolveToken`: keys, indices from either end, wildcards,
recursion) and as top-level fields of a name. The recursive functions of
`policy/extractors.py` are folds over the levels of nesting (`RecursiveValues`: what was
found, and what is inside that), of which there are at most `MaxDepth`. Keys match in
any spelling; the first one in a dict wins for a key in a path, all of them count for a
plain name or a recursive one: the code differs there, which is why a field has a
`spelling`. `ToolFacts` classifies and collects, `Matches` is the conjunction of a
rule's criteria, `Decision` the engine's verdict. Keywords and `regex` are looked for in
the text of the whole call: `Text` is what it contains, `Ending` what it ends with, and
a pattern `Finds` terms it wants, terms it rules out and a term at the end.

Nothing of this has a behaviour in time. The actions, one more configured
adapter, one more item in the response, one more field in the arguments,
enumerate configurations and inputs and put neighbouring ones beside each other,
which is what the properties compare.

### PolicyLoader and Deployment

`Merge` folds documents as `load_policy_files` does: an id is a duplicate if the
first source it was known from is a true value, and a document without sources
gets its path for one.

`Deployment` has a `disk` of named contents and any number of `Commands`, each a
process: `init` with its options (`CheckAhead`, `RefuseAhead` for the checks of
`write_starter_project` ahead of all writing; `Open` and `Fill` for one
`write_text`, which empties or creates the file before it writes; `Recheck` and
`RefuseLate` for the check before each rule file; `Interrupt` for a kill, a directory
that cannot be made or a disk that is full; `CutShort` for one that fills up in the
middle of a file), and the readers `validate-config`, `gateway` and `check-*` (`ReadConfig`,
`LoadFile` one at a time, `MergePolicy`, `Wire`, each with its failure).
`validate-config` loads the policy twice, once by itself and once in
`build_app_from_config`, as the code does. `Edit` is an operator who saves a file
by renaming a new one over it, which leaves an `init` in the midst of a write with
a file that is no longer at its path (`linked`), or who removes it.

`since`, `disturbed` and `written` are history: the files that have existed since a
command began, who else changed files meanwhile, and what an init opened. They
are read by properties only.

## 3. Abstractions

- **Content** in `Gateway` and `ToolFirewall` is the set of ids of the rules whose
  criteria it meets. Matching a text that the code joins from several parts is
  the union of the parts' hits. How criteria are met is the subject of `ToolPolicy`.
- **Strings** in `FactExtraction` are names; `Meaning` tells what the code sees in
  one: the marks of a sensitive path, what it starts with, the host of a URL, the
  words of SQL, the terms a keyword can be, and those of them the string ends with.
  Parsing of path expressions and URLs is behind these names, and a term is in
  one string, never across two that the code joins. A pattern of `regex` is what it
  asks of the text as a whole: one of some terms, the absence of some, one of some at
  the end. What is extracted is a set: no
  fact depends on the order or the number of times a value is found.
- **Arguments** nest at most `MaxDepth` levels, and no key of theirs looks like a path
  expression (the code would take a field `$..path` by that very name as well).
- **Rule ids** are naturals, by their place in the string order, which is all
  the sort looks at.
- **Tokens** are their claims plus what comparing their signature with the
  manager's own tells. HMAC is taken to be unforgeable: `ForgedTokens`, whatever they
  claim, are not `genuine`. They are `forged`, which stands for everything `decode`
  refuses with a `ValueError`, texts that do not parse included; or, if the signature
  is not ASCII, `incomparable` (`approvals/tokens.py:70` raises `TypeError`).
- **Faults of the evaluation** (a regular expression that does not compile, a URL
  that `urlparse` refuses) are a choice of the step that evaluates (`CheckFault`) and
  not derived from the content; `ToolPolicy` is about calls that can be judged.
- **Time** is a clock in ticks, bounded by `MaxClock`; the comparison at
  `expires_at` is kept exactly.
- **Audit events** in `Gateway` carry the call (`ToolFirewall`: the use and the
  check) they belong to. The real event does not; the field lets properties tell
  calls with a common request id apart and no action reads it.
- **The write of an event** in `Gateway` and `ToolFirewall` happens, raises, or
  raises although the event was written: a file whose close fails, a commit
  whose acknowledgement is lost. `AuditLog` is what a write means on a file.
- **Globs** of an adapter are the set of names they fit and how many they are.
  In `ToolRegistry`, arguments are how often they are JSON-encoded, and what is
  inside; in `FactExtraction`, nested values.
- **Files** in `Deployment` hold a content that has a name; `Settings` and
  `Documents` tell what YAML of that name says, and a content in neither cannot
  be parsed. One read is one step, and so is the one write that follows the
  opening: the files are shorter than a buffer.
- **What a wrapper passes through** to its tool by `__getattr__` is the tool's own.
- A request or completion of unexpected JSON shape is the one value `malformed`
  of a reply; malformed requests are left out.

## 4. Runs

Every run explores its instance exhaustively.

| Run | Instance | Shows |
|---|---|---|
| `policy_engine` | 3 ids, 2 stages, 2 priorities, 2 severities, all actions | `StrictestActionWins`: the ranking decides for the strictest matched action and lists each match once; `AddingARuleNeverWeakens` |
| `gateway_approvals` | 3 calls with a prompt that needs a review, completions that need one at output or tool, exact and wildcard tokens, a forged and an incomparable one, TTL 0, clock to 1, upstream and log faults, crashes; 2.5 million states | `TypeOK`, `ForwardedIsCleared`, `ApprovalIsBacked`, `RefusalIsJustified`, `ApprovalFollowsItsDecision`, `TrailExplainsAnswer` |
| `gateway_wiring` | 2 calls that may share a request id, 5 wirings, prompts that pass, need a review or are blocked, completions that warn, are reviewed, redacted, or blocked at the second tool call; `FairSpec`; 170 thousand states | `DeliveredIsCleared`, `EveryCallEnds`, `ProviderIsGuarded` (the gateway implements `GuardedCall`), and `ForwardedIsCleared` and `TrailExplainsAnswer` whatever is configured |
| `tool_firewall` | 2 uses of 5 invocations (a direct method, one that falls back, one that nothing fits; warned of, blocked, reviewed under one rule or two), exact and wildcard tokens, a forged and an incomparable one, with and without manager and logger, TTL 0, clock to 1, `FairSpec`; 650 thousand states | `TypeOK`, `ExecutedIsCleared`, `ExecutedIsLogged`, `RejectionIsLogged`, `EveryCheckEnds`, `ToolsAreGuarded` (the middleware implements `GuardedCall`) |
| `audit_log` | 2 processes, 3 writes, short, long and separator-carrying events, writes that fail with nothing, a part or all of the line in the file, 16 filters | `OnlyTornLinesBreakTheLog`, `WrittenIsRead`, `LatestMatchesAreReturned`, and that the file implements `AuditStore` (`ReadersSeeAStore`) |
| `tool_registry` | responses of up to 3 of 12 items in six shapes, up to 2 of 3 adapters on top of the built-in six; arguments of up to 2 of 12 fields, nested and in two spellings; 10 rules with every criterion, patterns with a negation and with an anchor among them | `AnAdapterTakesOnlyItsOwn`, `AnItemAddsItsCall`, `GuardsAgree`, `NamedFieldsAreFound`, `AFieldNeverWeakens` |
| `deployment` | 2 commands of any kind and options, a configuration and 2 rule files, 4 initial disks, 2 edits, files cut off empty or in part, with and without secrets and database; 3.2 million states | `UnforcedInitKeepsFiles`, `RefusedInitLeavesNoTrace`, `RacingInitsAgree`, `ValidationIsExact`, `LoadedIdsAreUnique` |
| `gateway_redacted_tools`, `gateway_redacted_choices`, `gateway_two_reviews`, `firewall_fallback`, `audit_separators` | small | the findings of section 7, as counterexamples |

Why the bounds are enough:

- *Calls.* A property that relates a refusal to its retry needs two calls. Two
  approved handlers in flight at once need three: one that was refused, and two
  that carry its token. Further calls add no new relation, since calls interact
  only through the loop, the log and issued tokens.
- *Clock and TTL.* A token has to be used at its expiry and after it, and to
  expire between two stages of one call: TTL 0 and two instants do both. With
  TTL 1 and three instants, in the runs of findings, it is used before its
  expiry too, where `allows` is the same comparison.
- *Policy.* One policy has every action somewhere and a review at every stage,
  so that every branch of the handler is taken; the engine itself is checked
  with every policy of its bound.
- *Replies.* One tool call too few cannot show a loop that stops early or a
  blocked call behind a passing one; two can.
- *Wirings.* The five differ in each part that the handler asks for, and include
  the two that leave out the policy.
- *Invocations and tokens.* They go three ways through the wrappers: what the tool
  offers is run at once, after a second check, or never. Each verdict that differs
  occurs, on the ways where it can make a difference; and a token is exact, all
  wildcards, or claims as much without being genuine, so each refusal of `decode`
  and `allows` happens. A use's request id is its own or that of the other's refusal.
- *Audit file.* A torn line needs a writer that is interrupted and one that
  appends after it; a limit needs more matches than it lets through.
- *Responses and arguments.* Two items or fields can hide each other or change
  places; a third item shows that it does not matter what is around them. Nested
  values are up to four levels deep, which lets every kind of path expression find
  something below something else it finds; `MaxDepth` is 4 for that. A second field
  puts a term behind the one an anchored pattern found, or one that a pattern rules out.
- *Files.* A configuration and two rule files give `init` a check ahead of and
  one after a first write, and a merge a first and a later document. Two
  commands and an operator are every pair that can meet: two inits, init and a
  reader, a validation and a gateway, each with an edit in between, and one more
  that puts back what it changed.
- Symmetry is used in runs of invariants and action properties only, on calls,
  commands and writers, which are interchangeable.

`CHECK_DEADLOCK FALSE` is set in all configurations because a finite number of
calls, uses, writes, rules, items or commands ends in a state without
successors, which is no failure.

## 5. Fairness

`gateway_wiring` assumes weak fairness of `Handler(c)`, because asyncio's event
loop runs every handler that is ready, and of `UpstreamTimesOut(c)`, because the
provider adapter gives httpx a timeout. (httpx applies it to each network
operation: a provider that keeps sending bytes is not cut off. Replies are
finite, so such a call ends by replying.) No fairness is assumed of clients,
reviewers, replies, the clock, log faults or crashes.

`tool_firewall` assumes weak fairness of a use's own steps up to the start of the
tool: the thread that runs it gets scheduled. How long the tool takes is not
assumed, and `EveryCheckEnds` does not speak of it.

## 6. Proofs

TLAPS proves the following for every value of the constants that satisfies the named
assumptions. Those of `Gateway` (`PolicyAssumption`, `CallsAssumption`,
`ConfigsAssumption`, `ContentAssumption`, `TokensAssumption`, `ClockAssumption`) and of
`ToolFirewall` (`FirewallPolicyAssumption`, `FirewallInputsAssumption`) say that the
constants have their types, that the policy is a set of rules, and that forged tokens
are not genuine. Of `Deployment`, `FilesAssumption` says that the starter project names
each of its files once and gives each a content, as part of a file is one, and
`SettingsAssumption` that configurations and policy files have their types and no path
is the empty string (`str(path)` never is). `EventsAssumption` and `WritesAssumption` of
`AuditLog` and `PoolAssumption` of `MCPolicyEngine` (what rules can be loaded: any
finite number of ids, priorities and severities) are assumptions on types. Of
`ToolRegistry`, `RegistryAssumption` gives an item its type, and `AdaptersAssumption`
says that priorities are numbers and that one of the built-in adapters fits every tool
of every protocol, as the last of `_default_adapter_configs` does (`adapters.py:240`).
Of `ToolPolicy`, `ToolPolicyAssumption` says that rules have one of the five actions,
`ExtractionAssumption` that the tokens of a field expression are a sequence, and
`FieldsAssumption` what section 3 says of arguments: no deeper than `MaxDepth`
(`DepthAssumption`: a natural number, as large as one likes), no key that looks like an
expression. TLC evaluates all of them.

| Theorem | Statement |
|---|---|
| `StrictestBounds`, `MoreRulesNeverWeaken` (`PolicyEngineProofs`) | `Strictest` is an action at least as strict as every matched rule's, and one of theirs or allow; a larger policy is never weaker |
| `EvaluateTakesTheStrictest` (`PolicyEngineProofs`) | for a finite policy with distinct ids, the ranking by four keys exists, holds every matched rule once, and its first action is `Strictest` |
| `StrictestAlwaysWins`, `LoadingNeverWeakens` (`RankingProofs`) | `Spec => []StrictestActionWins`, `Spec => AddingARuleNeverWeakens` |
| `TypeCorrect` (`GatewayProofs`) | `Spec => []TypeOK` |
| `ForwardingIsGuarded`, `DeliveryIsGuarded` (`GatewayProofs`) | `Spec => []ForwardedIsCleared`, `Spec => []DeliveredIsCleared` |
| `ApprovalsAreBacked`, `ApprovalsFollowDecisions`, `RefusalsAreJustified` (`GatewayProofs`) | `Spec => []ApprovalIsBacked`, `Spec => []ApprovalFollowsItsDecision`, `Spec => []RefusalIsJustified` |
| `LogExplainsAnswers` (`GatewayProofs`) | `Spec => []TrailExplainsAnswer` |
| `GatewayIsGuard` (`GatewayProofs`) | `Spec => ProviderIsGuarded`: the gateway implements `GuardedCall` |
| `FirewallTypeCorrect` (`ToolFirewallProofs`) | `Spec => []TypeOK` |
| `ExecutionIsGuarded`, `ExecutionIsLogged`, `RejectionsAreLogged` (`ToolFirewallProofs`) | `Spec => []ExecutedIsCleared`, `Spec => []ExecutedIsLogged`, `Spec => []RejectionIsLogged` |
| `MiddlewareIsGuard` (`ToolFirewallProofs`) | `Spec => ToolsAreGuarded`: the middleware and its wrappers implement `GuardedCall` |
| `OnlyTheTornIsLost`, `WrittenIsFound`, `QueriesReturnTheLatest` (`AuditLogProofs`) | `Spec => []OnlyTornLinesBreakTheLog`, `Spec => []WrittenIsRead`, `Spec => []LatestMatchesAreReturned` |
| `ReadersSeeTheStore` (`AuditLogProofs`) | `Spec => ReadersSeeAStore`: the file, as its readers see it, implements `AuditStore` |
| `AnAdapterIsLocal`, `AnItemHidesNothing`, `GuardsJudgeTheSame` (`ToolPolicyProofs`) | `PolicySpec => AnAdapterTakesOnlyItsOwn`, `PolicySpec => AnItemAddsItsCall`, `PolicySpec => []GuardsAgree` |
| `AFieldIsHarmless` (`ToolPolicyProofs`) | `PolicySpec => AFieldNeverWeakens` |
| `FieldsAreFound` (`ToolPolicyProofs`) | `PolicySpec => []NamedFieldsAreFound` |
| `UnforcedInitIsSafe`, `RefusedInitIsClean`, `RacingInitsSucceed` (`DeploymentProofs`) | `Spec => []UnforcedInitKeepsFiles`, `Spec => []RefusedInitLeavesNoTrace`, `Spec => []RacingInitsAgree` |
| `ValidationTellsTheGateway`, `LoadedPolicyIsUnique` (`DeploymentProofs`) | `Spec => []ValidationIsExact`, `Spec => []LoadedIdsAreUnique` |

*Data without induction.* The library's induction theorems take an operator as
a parameter, which the provers cannot instantiate. Where a statement about all
sequences or all finite sets is needed, it is shown by a least counterexample:
`Least` (the natural numbers are well-founded) gives the smallest number for
which it fails, and the step from its predecessor contradicts that. `FoldLemmas`
does this once for folds: its step and what is to hold of the accumulator are
constant operators of the module, and each use is an instance of it.

*The engine's ranking.* `Evaluate` takes the first of a sequence that is sorted by
action, severity, priority and id. That there is one is `RankingExists`, by the
number of matched rules: take the last of them (`LastExists`, which rests on
`PrecedesOrders`: distinct ids make the order total) and put it behind a ranking of
the others. `RankingCovers` says that nothing is left out or repeated. The invariant
of the growing policy is `LoadedInv`: finite, and no id twice.

*The gateway's guard.* `ForwardedIsCleared` and `DeliveredIsCleared` are not
inductive: they say nothing of a handler that is past a stage but has not
forwarded or delivered yet, nor of how far the tool loop has come. `GuardInv`
adds, for each call, `Placed` (where a call stands tells what the provider
returned for it, and its token is one a client could have) and `ClearedSoFar`
(what is cleared at each point, in the tool loop every tool call before `next`).
The proof has a lemma per kind of step; `ClearedIsStable` shows that clearance
survives the steps of others (tokens stay issued, requests stay as they are), and
`OthersSame` with `SameCall` reduces a step to the call that takes it.
`ApprovedGrants` is where the signature matters: an accepted token is genuine, and
thus in `issued`, for `ForgedTokens` are not.

*The gateway's log.* `LogInv` strengthens `ApprovalIsBacked` with: no token was
issued in the future, and a call that has logged something has left `unsent`, so
that its request, which the property refers to, is final. `FollowInv` strengthens
`ApprovalFollowsItsDecision` with: a handler between evaluation and answer holds
the loop (`HoldsLoop`), and then the last event of the log is its decision
(`DecisionIsLast`). `JustInv` strengthens `RefusalIsJustified` with: issued tokens
are genuine, so that a token that did not grant a decision when it was refused
cannot come to grant it when another token is issued.

*The gateway's trail.* `TrailExplainsAnswer` speaks of the order of a call's
decisions without a subsequence: the decision at index `i` is the one due at its
rank, the number of the call's decisions up to `i`. `StoryInv` says how many there
are at each `pc` (`Made`). One more decision raises the cardinality by one and
leaves the ranks of the earlier ones (`FiniteSetTheorems`); events of other calls
change neither.

*The tool firewall.* `FirewallInv` says that issued tokens are genuine, and has two
parts for each use. `UseInv`: the token is issued, one of `ForgedTokens` or none, a
second check has none, and a use at `cleared` or beyond is cleared by the very request
it carries now; a fallback replaces that request, and goes back to `called`. That a
token which was accepted is one of the issued, with claims that name the request, the
stage and the rules or leave them open, is `AcceptedIsCleared`. `TrailInv`: what the log
holds of each check at each `pc`, the last event included. A refusal with a token in
hand has the rejection for its last event; `RejectionIsLogged` names the one exception,
`choked`, and says when it occurs. A logger that raises may have written: this is why
`TrailInv` asks nothing of `failed` uses, and why no property says that a logged
approval was used.

*The refinements.* Every step of a use or call is shown to be one of a few
`Moves` of it and to leave the others `Held`, and these to be steps or stutters of
`GuardedCall`; a crash is `Lose`. The mapping needs invariants of its own. For
the gateway, `RecordInv` (a judged prompt is on record), `LogInv` (a call that has
not arrived is not), and that issued tokens are genuine, so that admission cannot
change when a token is issued. For the firewall, `SeenInv`: what is in the log of
a use belongs to the checks it went through, so that a second check starts without
a record, which is `Reconsider`; and a use falls back only once.

*Init.* Both properties follow from `ProjectInv`: `InitInv` is what an init has
written at each place, as a prefix of the project (`WrittenUpTo`); `FoundMissing`
that what it has checked was not there all along; `Ownership` that, while nobody
else changes the files, what exists was there before or is its own. From the
last, a late refusal is impossible undisturbed: the file that causes it would be
either, and both are excluded.

*Races of inits.* `RaceInv` follows what is there of each file while every
command is unforced and nobody edits: it is complete, or the init that has just
emptied it will fill it (`Complete`, `HalfMade`), and a refused init has
written nothing at or past the file it stumbled on (`WrittenInv`). Were all refused,
the one refused at the furthest place found a file there that one of them must have
made, and none had got to (`OneGetsThrough`); so one is done, and it has written
them all.

*Validation and gateway.* What an undisturbed command holds is a function of the
files as they are now (`HoldsInv`: the documents it has loaded are a prefix of
`Sources`, its result is `Guarded`, what a policy that loads amounts to), and it
succeeds if and only if the files are `Accepted`. Two such commands agree because
each agrees with the files.

*Merged policies.* `MergedInv` is what holds of documents merged so far: ids that
occur twice were first seen in a document without a source (`UniqueOrBlank`).
`FoldLemmas` carries it through both folds of `Merge`, the rules of a document
and the documents; `PolicyInv` says of a command that its documents are ones a
load can yield, whichever edits fell between its reads.

*The audit log.* `AuditInv` has `WritersInv` (a process is in the middle of one
write at most, and no two of the same) and `ReadInv`, which is about the file as
read so far: the text of an event is in one line at most (`Once`), that of a write
which is under way or has returned is in some line (`Held`), and a line that does
not parse, or is still open for the next writer to fall into, has a torn event in it
(`LinesTorn`, `OpenTorn`). One more piece changes a reading in one place
(`TakePiece`), a line break in none (`TakeBreak`); with `ReadAppend`, from
`FoldLemmas`, that settles every step of a writer. `Follows` says what the step does
to the events read: none or one more, or the file cannot be read from then on. That
is the refinement of `AuditStore`. For queries, each event of the log is matched with
its place among the results, so that a limit keeps the latest.

*The tool registry.* `Ahead` orders the registered adapters totally
(`AheadOrders`), so that of those that fit a tool call one comes first
(`FirstExists`, by a least counterexample). A new adapter is put behind the
configured ones and moves the built-in ones by one place, which keeps their order:
either it comes first of those that fit, and the one it replaces has no higher
priority, or the same one does as before. That some built-in adapter fits matters:
`Resolve`'s fallback has priority 0 and would hide a new adapter with a lower one.
For the items of a response, `PutIn(s, t, x, i)` says that `t` is `s` with `x` at
place `i`; it survives appending to the slot (`PutAtEnd`), what other slots put
before (`PutAfter`) and behind (`PutBefore`), and so the six slots one by one
(`OneMoreFound`). The guards agree because parsing what has been parsed changes
nothing (`ParsedOnceIsParsed`) for the arguments `GuardsAgree` speaks of. The steps
of `PolicySpec` are those of the registry and `AddField`, which leaves the registry's
variables alone (`ArgumentsApart`).

*One more field.* Two dicts of which the second has more fields behind those of the
first (`Extends`) are compared level by level: whatever the first yields, the second
does (`Kept`), except that a dict that is itself a result becomes the longer one.
`ValuesGrow` shows it of the levels (by `Climb`, the step from each level to the next),
`TokenKeeps` and `PathKeeps` of path expressions, where it matters that a new field
comes last: `_match_dict_key` takes the first (`NamedGrows`). So the facts grow
(`FactsGrow`), except that sensitivities which are stated replace those of paths: that
is the first exception in `AFieldNeverWeakens`. The text grows too (`TextGrows`),
but what it ends with changes, and it may come to contain what a pattern rules out:
this is the second exception, `SteadilyMatched` being the rules that match without
such a pattern. They go on matching (`MatchesGrow`: all other criteria ask for
something to be there), so that the strictest of the actions after is at least the
strictest of theirs before (`StrictestGrows`).

*What a field name finds.* `NamedFieldsAreFound` speaks of places, which are sequences
of indices. `IsPlace(v, p)` says that there is something at every step of `p`, which
holds of its prefixes too (`ShorterPlace`) and of one more step to something inside
(`LongerPlace`). `Places(v)` are these, and `RecursiveValues(v)` is what is at them
(`FoundIsBelow`, `BelowIsFound`), each by going one level at a time. Both are cut off at
`MaxDepth`; that nothing is lost rests on `FieldsAssumption`: a place of the arguments
with its first index taken off is one of a field's value (`PlaceBelow`), so that it would
have one too deep (`ArgumentsAreShallow`). Then the fields of a name at the top
(`TopFields`) or at any depth (`AllFields`) are the places that end in that name, and the
strings below them those of the values there (`StringsBelowAreFound`).

*Only model-checked:* liveness (`EveryCallEnds`, `EveryCheckEnds`), which needs
ENABLED. Every other property of a passing run is a theorem. The counterexamples of
section 7 are TLC's.

## 7. Findings

Each is a run that TLC ends with a counterexample; `findings` in `PROJECT.json`
quotes the line of the repository that says otherwise.

1. `gateway_redacted_tools`: a redacted completion is returned before its tool
   calls are evaluated, with the tool calls in it (`gateway/app.py:496`).
2. `gateway_redacted_choices`: output is judged over all choices, redacted in
   the first only (`gateway/app.py:66`).
3. `gateway_two_reviews`: a request that needs a review at two stages cannot be
   completed with stage-specific tokens: one header, checked at every stage.
4. `firewall_fallback`: a wrapper's fallback checks a second time without the
   token, and refuses a use whose approval is already on record.
5. `audit_separators`: an event with U+0085, U+2028 or U+2029 in a string makes
   the whole log unreadable to queries and replays (`audit/query.py:16`).

## 8. Not modelled

- Admin, health, pending-approval and dashboard endpoints: fixed content behind
  a key comparison, no state.
- The Postgres logger's connection, table and columns. What its callers see of it
  is modelled.
- The parsing of path expressions, URLs and SQL words, and what a regular expression
  may ask for beyond terms, their absence and the end of the text: pure string
  functions. Criteria on metadata, model and provider: equality.
- Values of the configuration that only pass through (host, port, headers), the
  name, version and description of a policy.
- `audit tail`, `version` and the output of commands; `redact_text` patterns: wording.
- Guards, detector and adapter stubs: one-line wrappers and docstrings.
- Example requests and `extract_calls` filters of the framework adapters; packaging,
  Docker files, the npm wrapper, charts and release scripts: plumbing.

## 9. Plan

Done, in this order: policy engine, approval tokens, gateway with its runs and
proofs, tool firewall, audit log with its abstract specification, tool registry;
then policy loader and deployment, matching and extraction, the wrappers' methods,
lost acknowledgements, `GuardedCall` with the two refinements, and the proofs of
the firewall, the trail, the refinements and of `init`; then those of the ranking,
the policy merge, validation, racing inits, the audit log, the tool registry and
the extraction of facts.

What would add most from here:

1. *The gateway as a guard before the client*: `GuardedCall` once more, with the
   delivery as the release, which holds for completions that are not redacted.
2. *Framework adapters*: the filters of `extract_calls` and the alternative
   spellings of the fields of a tool call, as items of the registry.
