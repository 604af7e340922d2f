---------------------------- MODULE ToolRegistry ----------------------------
(***************************************************************************)
(* ToolAdapterRegistry (tools/adapters.py) and the framework adapters over *)
(* it (adapters/*.py): how the tool calls of a response, in whichever of   *)
(* the six shapes they come, become the invocations that policy judges.    *)
(*                                                                         *)
(* A shape ("slot") of a response is the sequence of its items, over all   *)
(* choices; items that are not what the slot expects are skipped.  A glob  *)
(* of an adapter is abstracted to the tool names it fits.  Arguments are   *)
(* how often they are JSON-encoded, and what is inside.                    *)
(*                                                                         *)
(* An operator whose name starts with Faulty is a mutant of the definition *)
(* that follows it.                                                        *)
(***************************************************************************)
EXTENDS Integers, Sequences, SequencesExt

CONSTANTS
    Items,          \* what a response may carry: [slot, type, name, protocol, args]
    Defaults,       \* the built-in adapters, in their order
    Adapters,       \* adapters a configuration may add
    DefaultExtraction,  \* the fields ToolExtractionConfig() names
    ToolNames,      \* names of tools
    McpNames,       \* those that start with "mcp."
    Sources,        \* protocol, framework or source named by a response, "" for none
    MaxItems,       \* bound on the items of a response
    MaxAdapters     \* bound on the custom adapters

Slots == <<"openai", "block", "langchain", "top", "jsonrpc", "output">>

ASSUME RegistryAssumption ==
    /\ McpNames \subseteq ToolNames
    /\ \A x \in Items : /\ x.slot \in {Slots[i] : i \in DOMAIN Slots} /\ x.name \in ToolNames
                        /\ x.args \in [encoded : Nat, value : STRING]
    /\ MaxItems \in Nat /\ MaxAdapters \in Nat

(* The last of the built-in adapters fits every tool of every protocol.    *)
ASSUME AdaptersAssumption ==
    /\ Defaults \in Seq(Range(Defaults))
    /\ \A a \in Adapters \cup Range(Defaults) : a.priority \in Int /\ a.patterns \in Nat
    /\ \E a \in Range(Defaults) : "*" \in a.protocols /\ a.tools = ToolNames

VARIABLES
    custom,     \* config.tool_adapters
    source,     \* what the response says it comes from
    items       \* the items of the response, per slot

vars == <<custom, source, items>>

-----------------------------------------------------------------------------
(* Which adapter a tool call gets.                                         *)

FaultyRegistered(added) == IF added = <<>> THEN Defaults ELSE added   \* instead of
Registered(added) == added \o Defaults

(* ToolAdapterConfig.matches                                               *)
Fits(adapter, protocol, name) ==
    /\ {"*", IF protocol = "" THEN "generic" ELSE protocol} \cap adapter.protocols # {}
    /\ name \in adapter.tools

(* adapters[i] comes before adapters[j] in sorted(..., reverse=True), which *)
(* keeps the order of equals.                                              *)
Ahead(adapters, i, j) ==
    LET a == adapters[i]
        b == adapters[j]
    IN  \/ a.priority > b.priority
        \/ a.priority = b.priority /\ a.patterns > b.patterns
        \/ a.priority = b.priority /\ a.patterns = b.patterns /\ i < j

Fallback == [name |-> "default", protocols |-> {"*"}, tools |-> ToolNames,
             patterns |-> 1, canonical |-> "", priority |-> 0,
             extraction |-> DefaultExtraction]

Resolve(adapters, protocol, name) ==
    LET fit == {i \in DOMAIN adapters : Fits(adapters[i], protocol, name)}
    IN  IF fit = {} THEN Fallback
        ELSE adapters[CHOOSE i \in fit : \A j \in fit \ {i} : Ahead(adapters, i, j)]

-----------------------------------------------------------------------------
(* Normalisation.                                                          *)

(* _parse_arguments: a string is decoded, once; one that is not JSON is    *)
(* wrapped in an object.                                                   *)
Parse(args) ==
    IF args.encoded > 0 THEN [args EXCEPT !.encoded = @ - 1]
    ELSE IF args.value = "text" THEN [args EXCEPT !.value = "raw_arguments"]
    ELSE args

FaultyNormalize(adapters, protocol, name, args) ==        \* left to the extractors
    LET adapter == Resolve(adapters, protocol, name)
    IN  [protocol  |-> IF protocol = "" THEN "generic" ELSE protocol,
         tool_name |-> IF adapter.canonical = "" THEN name ELSE adapter.canonical,
         adapter   |-> adapter.name,
         extraction |-> adapter.extraction,
         args      |-> args]

(* normalize_tool_call                                                     *)
Normalize(adapters, protocol, name, args) ==
    LET adapter == Resolve(adapters, protocol, name)
    IN  [protocol  |-> IF protocol = "" THEN "generic" ELSE protocol,
         tool_name |-> IF adapter.canonical = "" THEN name ELSE adapter.canonical,
         adapter   |-> adapter.name,
         extraction |-> adapter.extraction,
         args      |-> Parse(args)]

(* What each of the extractors takes for a tool call ...                   *)
Recognised(x) ==
    /\ x.type # "junk"                                    \* not an object
    /\ x.slot = "block" =>
          x.type \in {"tool_use", "server_tool_use", "mcp_tool_call", "mcp_call"}
    /\ x.slot = "jsonrpc" => x.type \in {"tools/call", "tool/call"}
    /\ x.slot = "output" => x.type \in {"function_call", "tool_call"}

(* ... and which protocol it says the call has.                            *)
Protocol(x) ==
    CASE x.slot = "block" ->
            IF x.type \in {"mcp_tool_call", "mcp_call"} \/ x.name \in McpNames
            THEN "mcp" ELSE "content_block"
      [] x.slot = "top" ->
            IF x.protocol # "" THEN x.protocol
            ELSE IF source # "" THEN source ELSE "generic"
      [] x.slot = "jsonrpc" -> "mcp"
      [] x.slot = "output" -> "openai_agents"
      [] OTHER -> x.slot

FaultyCandidates(seq) ==                                  \* stops at the first other item
    LET others == {i \in DOMAIN seq : ~Recognised(seq[i])}
    IN  SelectSeq(seq, LAMBDA x : \A i \in others : \E j \in 1..(i - 1) : seq[j] = x)
Candidates(seq) ==
    FoldLeft(LAMBDA found, x : IF Recognised(x) THEN Append(found, x) ELSE found, <<>>, seq)

(* extract_tool_calls: the arguments are parsed by the extractor, and then *)
(* again by normalize_tool_call.                                           *)
ExtractToolCalls(adapters, response) ==
    LET found == FoldLeft(LAMBDA calls, slot : calls \o Candidates(response[slot]), <<>>, Slots)
    IN  [i \in DOMAIN found |->
            Normalize(adapters, Protocol(found[i]), found[i].name, Parse(found[i].args))]

(* The wrapper of a framework normalises, under the framework's protocol,  *)
(* the call it is about to make.                                           *)
Frameworks == {"mcp", "langchain", "llamaindex", "openai_agents"}

Direct(adapters, framework, x) == Normalize(adapters, framework, x.name, x.args)

-----------------------------------------------------------------------------

(* The configuration lists one more adapter.                               *)
Configure ==
    /\ Len(custom) < MaxAdapters
    /\ \E a \in Adapters : custom' = Append(custom, a)
    /\ UNCHANGED <<source, items>>

Size == FoldLeft(LAMBDA n, slot : n + Len(items[slot]), 0, Slots)

(* The response carries one more item; there is one JSON-RPC call at most. *)
Carry ==
    /\ Size < MaxItems
    /\ \E x \in Items :
          /\ x.slot = "jsonrpc" => items["jsonrpc"] = <<>>
          /\ items' = [items EXCEPT ![x.slot] = Append(@, x)]
    /\ UNCHANGED <<custom, source>>

Init ==
    /\ custom = <<>>
    /\ source \in Sources
    /\ items = [slot \in {Slots[i] : i \in DOMAIN Slots} |-> <<>>]

Next == Configure \/ Carry

Spec == Init /\ [][Next]_vars

-----------------------------------------------------------------------------
(* Properties.                                                             *)

Protocols == Frameworks \cup {"openai", "content_block", "generic"}

(* A custom adapter takes over the tools it fits and outranks the others   *)
(* for, and leaves every other tool with the adapter it had: configuring   *)
(* one cannot switch off what a built-in one extracts elsewhere.           *)
AnAdapterTakesOnlyItsOwn ==
    [][custom' # custom => \A protocol \in Protocols, name \in ToolNames :
          LET before == Resolve(Registered(custom), protocol, name)
              after  == Resolve(Registered(custom'), protocol, name)
          IN  after # before =>
                 /\ after = Last(custom') /\ Fits(after, protocol, name)
                 /\ after.priority >= before.priority]_vars

(* One more item in a response adds what it stands for to the calls that   *)
(* are judged, and hides, changes or reorders none of the others.          *)
AnItemAddsItsCall ==
    [][items' # items =>
          LET before == ExtractToolCalls(Registered(custom), items)
              after  == ExtractToolCalls(Registered(custom), items')
              x == CHOOSE y \in Items : \E slot \in DOMAIN items :
                      items'[slot] = Append(items[slot], y)
          IN  IF Recognised(x)
              THEN \E i \in DOMAIN after :
                      /\ RemoveAt(after, i) = before
                      /\ after[i].protocol = Protocol(x)
              ELSE after = before]_vars

(* The gateway, which extracts a framework's call from a response, and the *)
(* framework's wrapper, which is about to make that call, judge the same   *)
(* invocation (middleware.py:151-175 and app.py:502), whatever else the    *)
(* response carries, unless the arguments are strings within strings.      *)
GuardsAgree ==
    LET adapters == Registered(custom)
        judged   == Range(ExtractToolCalls(adapters, items))
    IN  \A slot \in DOMAIN items : \A x \in Range(Candidates(items[slot])) :
           /\ Protocol(x) \in Frameworks
           /\ x.args.encoded = 0 \/ x.args = [encoded |-> 1, value |-> "object"]
           => Direct(adapters, Protocol(x), x) \in judged
=============================================================================
