----------------------------- MODULE ToolPolicy -----------------------------
(***************************************************************************)
(* How a tool call is judged, from the response to the decision: the       *)
(* registry of ToolRegistry names it and picks its extraction settings,    *)
(* FactExtraction finds what its arguments speak of, Matchers tells which  *)
(* rules that meets, and PolicyEngine which action they add up to.         *)
(*                                                                         *)
(* The arguments object is a state of its own, that grows field by field,  *)
(* so that its decision can be compared with that of the object before.    *)
(***************************************************************************)
EXTENDS ToolRegistry, Matchers, PolicyEngine

CONSTANTS
    Policy,         \* rules of the tool stage, each with its match criteria
    Fields,         \* fields that arguments may have
    MaxFields       \* bound on the fields of the arguments

ASSUME ToolPolicyAssumption ==
    /\ MaxFields \in Nat
    /\ \A r \in Policy : r.action \in Actions

(* Every field expression of an adapter is a sequence of tokens.           *)
Kinds == {"command", "path", "path_sensitivity", "url", "db_operation", "sql"}

ASSUME ExtractionAssumption ==
    \A e \in {a.extraction : a \in Adapters \cup Range(Defaults)} \cup {DefaultExtraction} :
        \A kind \in Kinds : \A f \in Range(e[kind]) : f.tokens \in Seq(Range(f.tokens))

VARIABLE arguments      \* the fields of the arguments object, in their order

(* What of a normalised call the decision depends on, for every call.      *)
Judged ==
    {LET call == Normalize(Registered(custom), protocol, name,
                           [encoded |-> 0, value |-> "object"])
     IN  [tool_name |-> call.tool_name, extraction |-> call.extraction] :
        protocol \in Protocols, name \in ToolNames}

(* evaluate with the EvaluationContext that the gateway and the middleware *)
(* build for a tool call.                                                  *)
MatchedRules(call, payload) ==
    LET facts == ToolFacts(payload, call.extraction)
    IN  {r \in Policy : Matches(r.match, call.tool_name, payload, facts)}

Decision(matched) == Strictest(Matched(matched, "tool", RuleIds(matched)))

(* A dict holds a key once; the same name in another spelling is another   *)
(* key.  Arguments and responses are varied one at a time.                 *)
AddField ==
    /\ Len(arguments) < MaxFields /\ Size = 0
    /\ \E f \in Fields :
          /\ \A k \in DOMAIN arguments :
                <<arguments[k].name, arguments[k].spelling>> # <<f.name, f.spelling>>
          /\ arguments' = Append(arguments, f)
    /\ UNCHANGED vars

PolicyInit == Init /\ arguments = <<>>
Respond(step) == step /\ arguments = <<>> /\ UNCHANGED arguments
PolicyNext == AddField \/ Respond(Configure) \/ Respond(Carry)

PolicySpec == PolicyInit /\ [][PolicyNext]_<<vars, arguments>>

-----------------------------------------------------------------------------
(* Properties.                                                             *)

(* The rules that the call meets by what its text contains, not by what it *)
(* lacks or how it ends.                                                   *)
SteadilyMatched(call, payload) ==
    {r \in MatchedRules(call, payload) :
        r.match.regex # {} =>
           \E p \in r.match.regex : Steady(p) /\ Finds(p, Text(call.tool_name, payload), {})}

(* Whatever adapters are configured, one more field in the arguments never *)
(* gets a tool call out of a rule, nor to a weaker decision, except:       *)
(*   - where it is the first to state the sensitivity of paths, which      *)
(*     replaces what the paths say;                                        *)
(*   - out of a rule that only a pattern found that looks ahead, for terms *)
(*     that must not follow or for the end of the text.                    *)
(* (Terms are in one of the commands: where a term is only found across    *)
(* two that are joined, a field between can part them.)                    *)
AFieldNeverWeakens ==
    [][arguments' # arguments => \A call \in Judged :
          LET before == SteadilyMatched(call, Dict(arguments))
              after  == MatchedRules(call, Dict(arguments'))
              stated(payload) ==
                  CandidateValues(payload, call.extraction.path_sensitivity) \ {""}
          IN  stated(Dict(arguments)) # {} \/ stated(Dict(arguments')) = {} =>
                 /\ before \subseteq after
                 /\ ActionOrder[Decision(before)] <= ActionOrder[Decision(after)]]_arguments

(* A place in a value is the sequence of indices that leads there.         *)
ValueAt(v, p) == FoldLeft(LAMBDA w, k : Inside(w)[k], v, p)

Places(v) ==
    FoldLeft(LAMBDA found, depth :
                found \cup UNION {{Append(p, k) : k \in DOMAIN Inside(ValueAt(v, p))} : p \in found},
             {<<>>}, [depth \in 1..MaxDepth |-> depth])

(* The arguments nest no deeper than MaxDepth, and no key of theirs looks  *)
(* like a path expression.                                                 *)
ASSUME FieldsAssumption ==
    \A f \in Fields : /\ \A p \in Places(f.value) : Len(p) < MaxDepth
                      /\ \A g \in Fields : f.name # "$.." \o g.name

NamedAt(v, p, names) == \E n \in names : Last(p) \in Named(ValueAt(v, Front(p)), n)

StringsBelow(v, depths, names) ==
    {ValueAt(v, p).s : p \in {q \in Places(v) :
        /\ ValueAt(v, q).t = "str"
        /\ \E d \in depths \cap DOMAIN q : NamedAt(v, SubSeq(q, 1, d), names)}}

Names    == {f.name : f \in Fields}
Plain(n) == [name |-> n, tokens |-> <<>>]
Deep(n)  == [name |-> "$.." \o n, tokens |-> <<[kind |-> "recursive_key", name |-> n]>>]

(* A field name finds the strings below the top-level fields of that name, *)
(* "$..name" those below any field of that name, in whatever spelling and  *)
(* however deep; and neither finds anything else.                          *)
NamedFieldsAreFound ==
    LET payload == Dict(arguments)
    IN  \A n, m \in Names :
           /\ CandidateValues(payload, <<Plain(n), Plain(m)>>) = StringsBelow(payload, {1}, {n, m})
           /\ CandidateValues(payload, <<Deep(n)>>) = StringsBelow(payload, 1..MaxDepth, {n})
           /\ CandidateValues(payload, <<Plain(n), Deep(m)>>) =
                 StringsBelow(payload, {1}, {n}) \cup StringsBelow(payload, 1..MaxDepth, {m})
=============================================================================
