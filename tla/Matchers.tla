------------------------------ MODULE Matchers ------------------------------
(***************************************************************************)
(* matches (policy/matchers.py), for tool calls: whether a rule's criteria *)
(* hold of a tool's name, its arguments and the facts extracted from them. *)
(* A criterion that is left empty asks for nothing.                        *)
(*                                                                         *)
(* Keywords and the patterns of `regex` are looked for in one text, of the *)
(* tool's name and then `key=value` for every field.  Of the text a model  *)
(* keeps the names and terms in it, and those it ends with.  The patterns  *)
(* for paths and domains, and domain suffixes, are tried on one of them at *)
(* a time, and are the set of those they fit.                              *)
(***************************************************************************)
EXTENDS FactExtraction

(* _normalize_text: what the printed arguments contain, nested ones too,   *)
(* in lower case, ...                                                      *)
Text(name, payload) ==
    {name} \cup UNION {Meaning[s].terms : s \in FlattenStrings(payload)}
           \cup UNION {{w.fields[k].name : k \in DOMAIN w.fields} :
                          w \in {x \in RecursiveValues(payload) : x.t = "dict"}}

(* ... and what they end with; lists and dicts end with a bracket.         *)
Ending(name, payload) ==
    IF payload.fields = <<>> THEN {name}
    ELSE LET last == Last(payload.fields).value
         IN  IF last.t = "str" THEN Meaning[last.s].ends ELSE {}

Meets(wanted, found) == wanted # {} => wanted \cap found # {}

(* re.search over the whole text: an alternation of terms, as in `rm|del`; *)
(* terms it rules out, as in `^(?!.*sandbox)`; and an anchor, as in `rm$`. *)
Finds(pattern, text, ending) ==
    /\ Meets(pattern.has, text)
    /\ pattern.lacks \cap text = {}
    /\ Meets(pattern.ends, ending)

(* The pattern asks nothing of what comes after the term it is found at.   *)
Steady(pattern) == pattern.lacks = {} /\ pattern.ends = {}

OneFinds(patterns, text, ending) ==
    patterns # {} => \E pattern \in patterns : Finds(pattern, text, ending)

Matches(rule, name, payload, facts) ==
    /\ Meets(rule.any_keywords, Text(name, payload))
    /\ rule.all_keywords \subseteq Text(name, payload)
    /\ OneFinds(rule.regex, Text(name, payload), Ending(name, payload))
    /\ rule.tool_name # "" => rule.tool_name = name
    /\ Meets(rule.command_contains, UNION {Meaning[s].terms : s \in facts.commands})
    /\ Meets(rule.path_starts_with, UNION {Meaning[s].starts : s \in facts.paths})
    /\ Meets(rule.path_regex, facts.paths)
    /\ Meets(rule.path_sensitivity_in, facts.path_sensitivities)
    /\ Meets(rule.domain_in, facts.domains)
    /\ Meets(rule.domain_suffix_in, facts.domains)
    /\ Meets(rule.domain_regex, facts.domains)
    /\ Meets(rule.db_operation_in, facts.db_operations)
=============================================================================
