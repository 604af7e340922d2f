--------------------------- MODULE MCToolRegistry ---------------------------
(***************************************************************************)
(* A small instance of ToolPolicy: the built-in adapters, and custom       *)
(* adapters that rank above, beside and below them and extract otherwise.  *)
(***************************************************************************)
EXTENDS ToolPolicy

Path(name, tokens) == [name |-> name, tokens |-> tokens]
Key(name) == [kind |-> "key", name |-> name]
Index(k) == [kind |-> "index", index |-> k]
Each == [kind |-> "wildcard"]
EachBelow == [kind |-> "recursive_wildcard"]
Below(name) == [kind |-> "recursive_key", name |-> name]

MCDefaultExtraction ==
    [command |-> <<Plain("command")>>, path |-> <<Plain("path")>>,
     path_sensitivity |-> <<Plain("sensitivity")>>, url |-> <<Plain("url")>>,
     db_operation |-> <<Plain("operation")>>, sql |-> <<Plain("sql")>>]

(* The file adapters also look into the arguments' parts.                  *)
MCFileExtraction ==
    [MCDefaultExtraction EXCEPT
        !.path = <<Plain("path"), Path("$.input.path", <<Key("input"), Key("path")>>),
                   Path("$.files[*].path", <<Key("files"), Each, Key("path")>>)>>]

(* A custom adapter may use every kind of expression.                      *)
MCCustomExtraction ==
    [MCDefaultExtraction EXCEPT
        !.path = <<Path("$.path", <<Key("path")>>), Path("$.files[-1]", <<Key("files"), Index(-1)>>)>>,
        !.command = <<Path("$..command", <<Below("command")>>)>>,
        !.url = <<Path("$..*", <<EachBelow, Key("url")>>), Path("$.files[0]", <<Key("files"), Index(0)>>)>>]

Adapter(name, protocols, tools, patterns, canonical, priority, extraction) ==
    [name |-> name, protocols |-> protocols, tools |-> tools, patterns |-> patterns,
     canonical |-> canonical, priority |-> priority, extraction |-> extraction]

MCToolNames == {"filesystem.open", "fs.write", "mcp.fetch.get", "mcp.shell.run", "notes"}
MCMcpNames == {"mcp.fetch.get", "mcp.shell.run"}

(* _default_adapter_configs: the globs as the names they fit and how many  *)
(* they are; no name here is one of the database adapter's.                *)
MCDefaults ==
    <<Adapter("filesystem-read", {"*"}, {"filesystem.open"}, 6, "filesystem.read", 95, MCFileExtraction),
      Adapter("filesystem-write", {"*"}, {"fs.write"}, 7, "filesystem.write", 95, MCFileExtraction),
      Adapter("network", {"*"}, {"mcp.fetch.get"}, 7, "network.request", 70, MCDefaultExtraction),
      Adapter("database", {"*"}, {}, 6, "database.query", 70, MCDefaultExtraction),
      Adapter("shell", {"*"}, {"mcp.shell.run"}, 6, "shell", 70, MCDefaultExtraction),
      Adapter("default", {"*"}, MCToolNames, 1, "", -100, MCDefaultExtraction)>>

(* One outranks every built-in adapter, one ties with the filesystem-write *)
(* adapter, and one is wider than the built-in ones and below them.        *)
MCAdapters ==
    {Adapter("strong", {"openai"}, {"fs.write"}, 1, "", 500, MCCustomExtraction),
     Adapter("equal", {"*"}, {"fs.write", "notes"}, 7, "notes.write", 95, MCCustomExtraction),
     Adapter("plain", {"mcp", "langchain"}, MCToolNames, 1, "custom", 0, MCDefaultExtraction)}

Object(n) == [encoded |-> n, value |-> "object"]
String(n) == [encoded |-> n, value |-> "text"]

Item(slot, type, name, protocol, args) ==
    [slot |-> slot, type |-> type, name |-> name, protocol |-> protocol, args |-> args]

MCItems ==
    {Item("openai", "function", "fs.write", "", Object(1)),
     Item("openai", "junk", "notes", "", Object(0)),
     Item("block", "tool_use", "mcp.shell.run", "", Object(0)),
     Item("block", "text", "notes", "", Object(0)),
     Item("block", "mcp_call", "fs.write", "", String(0)),
     Item("langchain", "tool_call", "notes", "", Object(2)),
     Item("top", "tool_call", "fs.write", "", Object(0)),
     Item("top", "tool_call", "filesystem.open", "llamaindex", String(0)),
     Item("jsonrpc", "tools/call", "mcp.fetch.get", "", Object(1)),
     Item("jsonrpc", "ping", "notes", "", Object(0)),
     Item("output", "function_call", "fs.write", "", Object(1)),
     Item("output", "message", "notes", "", Object(0))}

MCSources == {"", "mcp"}

-----------------------------------------------------------------------------

Means(features, starts, host, words, terms, ends) ==
    [features |-> features, starts |-> starts, host |-> host, words |-> words,
     terms |-> terms, ends |-> ends]

MCMeaning ==
    [secret |-> Means({"secret file", "relative"}, {}, "secret", {}, {"secret"}, {"secret"}),
     etc    |-> Means({"system directory"}, {"/etc"}, "etc", {}, {}, {}),
     drop   |-> Means({"relative"}, {}, "drop", {"drop", "table"}, {"drop"}, {"drop"}),
     tunnel |-> Means({"relative"}, {}, "ngrok.io", {}, {"tunnel"}, {}),
     public |-> Means({"relative"}, {}, "public", {}, {}, {})]

(* One of every kind of value under a name that matters, the path also     *)
(* capitalised; a list of files; paths in a part, spelled both ways.       *)
MCFields ==
    {Field("path", 1, Str("etc")), Field("path", 2, Str("secret")),
     Field("path", 2, List(<<Str("drop"), Str("etc")>>)),
     Field("sensitivity", 1, Str("public")), Field("url", 1, Str("tunnel")),
     Field("url", 2, Dict(<<Field("command", 1, Str("secret"))>>)),
     Field("command", 1, Str("drop")), Field("sql", 1, Str("drop")),
     Field("operation", 1, Str("drop")),
     Field("input", 1, Dict(<<Field("path", 1, Str("drop")), Field("path", 2, Str("etc"))>>)),
     Field("input", 2, Dict(<<Field("path", 2, Str("secret")),
                              Field("command", 1, List(<<Str("drop"),
                                  Dict(<<Field("command", 2, Str("tunnel"))>>)>>))>>)),
     Field("files", 1, List(<<Dict(<<Field("path", 1, Str("secret"))>>),
                              Dict(<<Field("url", 1, Str("tunnel"))>>)>>))}

Criteria ==
    [any_keywords |-> {}, all_keywords |-> {}, regex |-> {}, tool_name |-> "",
     command_contains |-> {}, path_starts_with |-> {}, path_regex |-> {},
     path_sensitivity_in |-> {}, domain_in |-> {}, domain_suffix_in |-> {},
     domain_regex |-> {}, db_operation_in |-> {}]

Pattern(has, lacks, ends) == [has |-> has, lacks |-> lacks, ends |-> ends]

Rule(id, action, match) ==
    [id |-> id, stage |-> "tool", action |-> action, priority |-> 0, severity |-> "high",
     match |-> match]

MCPolicy ==
    {Rule(1, "block", [Criteria EXCEPT !.path_starts_with = {"/etc"},
                                       !.tool_name = "filesystem.write"]),
     Rule(2, "require_human_review", [Criteria EXCEPT !.path_sensitivity_in = {"secrets", "user_data"}]),
     Rule(3, "warn", [Criteria EXCEPT !.path_sensitivity_in = {"system"}, !.any_keywords = {"secret", "drop"}]),
     Rule(4, "block", [Criteria EXCEPT !.domain_in = {"ngrok.io"}]),
     Rule(5, "redact", [Criteria EXCEPT !.command_contains = {"secret", "drop"}]),
     Rule(6, "block", [Criteria EXCEPT !.db_operation_in = {"drop", "truncate"},
                                       !.all_keywords = {"secret", "drop"}]),
     Rule(7, "require_human_review",
          [Criteria EXCEPT !.regex = {Pattern({"drop"}, {"secret"}, {}), Pattern({"tunnel"}, {}, {})}]),
     Rule(8, "block", [Criteria EXCEPT !.regex = {Pattern({}, {}, {"drop", "notes"})}]),
     Rule(9, "warn", [Criteria EXCEPT !.path_regex = {"secret", "drop"},
                                      !.any_keywords = {"input", "fs.write"}]),
     Rule(10, "block", [Criteria EXCEPT !.domain_suffix_in = {"secret", "etc"},
                                        !.domain_regex = {"secret"}])}
=============================================================================
