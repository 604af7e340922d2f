--------------------------- MODULE FactExtraction ---------------------------
(***************************************************************************)
(* extract_tool_facts (policy/extractors.py): the commands, paths, path    *)
(* sensitivities, domains and database operations that a tool call's       *)
(* arguments speak of, found through the field names and the path          *)
(* expressions of an extraction configuration.                             *)
(*                                                                         *)
(* A JSON value is a string, a list or a dict, the latter a sequence of    *)
(* fields, as Python keeps their order.  A key is a name and one of its    *)
(* spellings: keys of one name differ in case only.  A string is a name,   *)
(* and Meaning says what the code would see in it.  What the extraction    *)
(* finds is a set: the facts do not depend on the order it is found in.    *)
(* What raises in here, a path expression that does not parse or a URL     *)
(* that urlparse refuses, is CheckFault in Gateway and ToolFirewall.       *)
(*                                                                         *)
(* An operator whose name starts with Faulty is a mutant of the definition *)
(* that follows it.                                                        *)
(***************************************************************************)
EXTENDS Integers, Sequences, SequencesExt

CONSTANTS
    Meaning,    \* string -> [features, starts, host, words, terms, ends]
    MaxDepth    \* bound on the nesting of arguments

ASSUME DepthAssumption == MaxDepth \in Nat

Str(s) == [t |-> "str", s |-> s]
List(items) == [t |-> "list", items |-> items]
Dict(fields) == [t |-> "dict", fields |-> fields]
Field(name, spelling, value) == [name |-> name, spelling |-> spelling, value |-> value]

SqlKeywords == {"select", "insert", "update", "delete", "drop", "alter", "create",
                "truncate", "grant", "revoke"}

-----------------------------------------------------------------------------

(* The values right inside a list or a dict.                               *)
Inside(v) ==
    IF v.t = "list" THEN v.items
    ELSE IF v.t = "dict" THEN [k \in DOMAIN v.fields |-> v.fields[k].value]
    ELSE <<>>

(* _recursive_values: v and what is inside it at any depth.                *)
RecursiveValues(v) ==
    FoldLeft(LAMBDA found, depth : found \cup UNION {Range(Inside(w)) : w \in found},
             {v}, [depth \in 1..MaxDepth |-> depth])

FlattenStrings(v) == {w.s : w \in {x \in RecursiveValues(v) : x.t = "str"}}

Named(v, name) ==
    IF v.t = "dict" THEN {k \in DOMAIN v.fields : v.fields[k].name = name} ELSE {}

FaultyMatchDictKey(v, name) ==                            \* the last spelling
    {v.fields[k].value : k \in {i \in Named(v, name) : \A j \in Named(v, name) : j <= i}}

(* _match_dict_key: the first field of that name, in any spelling.         *)
MatchDictKey(v, name) ==
    {v.fields[k].value : k \in {i \in Named(v, name) : \A j \in Named(v, name) : i <= j}}

FaultyFindKey(v, name) == MatchDictKey(v, name)           \* goes no deeper

(* _recursive_find_key: every field of that name, at any depth.            *)
FindKey(v, name) ==
    UNION {{w.fields[k].value : k \in Named(w, name)} : w \in RecursiveValues(v)}

(* _resolve_path_token                                                     *)
ResolveToken(v, token) ==
    CASE token.kind = "key" ->
            UNION {MatchDictKey(x, token.name) :
                      x \in IF v.t = "list" THEN Range(v.items) ELSE {v}}
      [] token.kind = "index" ->
            LET k == IF token.index < 0 THEN Len(Inside(v)) + token.index ELSE token.index
            IN  IF v.t = "list" /\ k \in 0..(Len(v.items) - 1) THEN {v.items[k + 1]} ELSE {}
      [] token.kind = "wildcard" -> Range(Inside(v))
      [] token.kind = "recursive_key" -> FindKey(v, token.name)
      [] token.kind = "recursive_wildcard" -> RecursiveValues(v)
      [] OTHER -> {}

ResolveFieldPath(payload, tokens) ==
    FoldLeft(LAMBDA values, token : UNION {ResolveToken(v, token) : v \in values},
             {payload}, tokens)

(* extract_candidate_values: the strings that path expressions lead to,    *)
(* and those in the top-level fields with the name of any of `fields`.     *)
(* `tokens` of a plain name is empty.                                      *)
CandidateValues(payload, fields) ==
    LET paths  == {f \in Range(fields) : f.tokens # <<>>}
        byPath == UNION {ResolveFieldPath(payload, f.tokens) : f \in paths}
        byName == {payload.fields[k].value :
                      k \in UNION {Named(payload, f.name) : f \in Range(fields)}}
    IN  UNION {FlattenStrings(v) : v \in byPath \cup byName}

-----------------------------------------------------------------------------

(* classify_path_sensitivity: the first class one of whose marks the path  *)
(* has.                                                                    *)
PathClass(path) ==
    LET marks == Meaning[path].features
    IN  IF "system directory" \in marks THEN "system"
        ELSE IF "secret file" \in marks THEN "secrets"
        ELSE IF "home directory" \in marks THEN "user_data"
        ELSE IF "relative" \in marks THEN "workspace" ELSE "unknown"

(* extract_tool_facts: classifications the arguments state themselves      *)
(* replace those of their paths.                                           *)
ToolFacts(payload, extraction) ==
    LET paths    == CandidateValues(payload, extraction.path) \ {""}
        explicit == CandidateValues(payload, extraction.path_sensitivity) \ {""}
    IN  [commands           |-> CandidateValues(payload, extraction.command),
         paths              |-> paths,
         path_sensitivities |-> IF explicit # {} THEN explicit
                                ELSE {PathClass(p) : p \in paths},
         domains            |-> {Meaning[u].host : u \in CandidateValues(payload, extraction.url)} \ {""},
         db_operations      |-> CandidateValues(payload, extraction.db_operation) \cup
                                (UNION {Meaning[s].words : s \in CandidateValues(payload, extraction.sql)}
                                    \cap SqlKeywords)]
=============================================================================
