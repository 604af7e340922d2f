----------------------------- MODULE Deployment -----------------------------
(***************************************************************************)
(* The files of a project and the commands that work on them (cli.py):     *)
(* `init` writes a starter configuration and its rule files                *)
(* (init_project.py); `validate-config` and `gateway` read them, merge the *)
(* policy and wire a gateway (config.py, loader.py, runtime.py); `check-*` *)
(* reads policy files only.  Commands run as processes of their own, and   *)
(* an operator edits the files meanwhile.                                  *)
(*                                                                         *)
(* A file's content is a name; Settings and Documents tell what YAML of    *)
(* that name says.  A content that neither knows cannot be parsed.         *)
(*                                                                         *)
(* An operator whose name starts with Faulty is a mutant of the definition *)
(* that follows it.                                                        *)
(***************************************************************************)
EXTENDS Integers, Sequences, FiniteSets, PolicyLoader

CONSTANTS
    Commands,       \* runs of `init`, `validate-config`, `gateway` and `check-*`
    Project,        \* names of the starter rule files, in their order
    Starter,        \* content `init` gives to each file
    Partial,        \* contents that part of a starter file amounts to
    Written,        \* contents the operator may give to each file
    Settings,       \* what a configuration says
    Documents,      \* what a policy file says
    Envs,           \* what a command may find around it: variables, a database
    Disks,          \* what the files may hold to begin with
    MaxEdits        \* bound on the operator's edits

RuleFiles == {Project[k] : k \in DOMAIN Project}
Files == {"config"} \cup RuleFiles

(* RuntimeConfig(): what a configuration that says nothing stands for.     *)
Defaults ==
    [files |-> <<>>, provider |-> "openai-compatible", audit |-> TRUE,
     backend |-> "jsonl", dsn |-> "env", approvals |-> TRUE, secret |-> "env"]

ASSUME DeploymentAssumption ==
    /\ Settings["empty"] = Defaults /\ Settings[Starter["config"]].files = Project
    /\ {"absent", "empty"} \cap DOMAIN Documents = {} /\ "absent" \notin DOMAIN Settings
    /\ MaxEdits \in Nat
ASSUME FilesAssumption ==
    /\ Project \in Seq(STRING) /\ "config" \notin RuleFiles
    /\ \A j, k \in DOMAIN Project : Project[j] = Project[k] => j = k
    /\ Starter \in [Files -> STRING] /\ \A f \in Files : Starter[f] # "absent"
    /\ Partial \subseteq STRING \ {"absent"}
    /\ DOMAIN Written = Files /\ Disks \subseteq [Files -> STRING]
    /\ "operator" \notin Commands
(* str(path), the source of a document that names none, is never empty.    *)
ASSUME SettingsAssumption ==
    /\ \A name \in DOMAIN Settings :
          Settings[name].files \in Seq(STRING) /\ Blank \notin Range(Settings[name].files)
    /\ \A name \in DOMAIN Documents : Documents[name] \in [sources : Seq(STRING), rules : Seq(Nat)]
    /\ Blank \notin RuleFiles

VARIABLES
    disk,       \* the content of each file, or "absent"
    pc,         \* where each command is
    call,       \* each command's kind, options and environment
    at,         \* init: the rule file it is at; 0 is the configuration
    written,    \* init: the files it has opened for writing
    linked,     \* inits whose open file is still the one at its path
    config,     \* the others: the configuration they read ...
    documents,  \* ... the policy documents they have read so far ...
    result,     \* ... and what they came to
    edits,      \* number of the operator's edits
    since,      \* files that have existed ever since a command began
    disturbed   \* who else has changed the files since a command began

initVars == <<at, written, linked>>
readVars == <<config, documents, result>>
vars == <<disk, pc, call, initVars, readVars, edits, since, disturbed>>

Exists(f) == disk[f] # "absent"
Over == {"done", "refused", "interrupted", "ok", "error"}

Goto(p, place) == pc' = [pc EXCEPT ![p] = place]

(* f becomes content, by the hand of p, a command or the operator.         *)
Put(f, content, p, who) ==
    /\ disk' = [disk EXCEPT ![f] = content]
    /\ since' = [q \in Commands |-> IF content = "absent" THEN since[q] \ {f} ELSE since[q]]
    /\ disturbed' = [q \in Commands |-> IF q = p \/ pc[q] = "idle" THEN disturbed[q]
                                         ELSE disturbed[q] \cup {who}]
KeepFiles == UNCHANGED <<disk, since, disturbed>>

-----------------------------------------------------------------------------
Begin(p, kind, rules, force, env, place) ==
    /\ pc[p] = "idle"
    /\ call' = [call EXCEPT ![p] = [kind |-> kind, rules |-> rules, force |-> force,
                                    env |-> env]]
    /\ since' = [since EXCEPT ![p] = {f \in Files : Exists(f)}]
    /\ Goto(p, place)
    /\ UNCHANGED <<disk, initVars, readVars, edits, disturbed>>

-----------------------------------------------------------------------------
(* init: write_starter_project                                             *)

BeginInit(i) ==
    \E rules, force \in BOOLEAN : Begin(i, "init", rules, force, {}, "checking")

Target(k) == IF k = 0 THEN "config" ELSE Project[k]

FaultyChecks(i) == IF call[i].force THEN {} ELSE {0}    \* only the configuration
WrongChecks(i) == IF call[i].rules THEN DOMAIN Project ELSE {0}  \* only the rules
(* The files whose existence is checked before anything is written.        *)
Checks(i) ==
    IF call[i].force THEN {}
    ELSE {0} \cup (IF call[i].rules THEN DOMAIN Project ELSE {})

(* One file is not there: on to the next, or to the writing.               *)
CheckAhead(i) ==
    /\ pc[i] = "checking"
    /\ at[i] \in Checks(i) => ~Exists(Target(at[i]))
    /\ IF at[i] < Len(Project)
       THEN at' = [at EXCEPT ![i] = @ + 1] /\ UNCHANGED pc
       ELSE at' = [at EXCEPT ![i] = 0] /\ Goto(i, "opening")
    /\ UNCHANGED <<call, written, linked, readVars, edits>> /\ KeepFiles

RefuseAhead(i) ==
    /\ pc[i] = "checking" /\ at[i] \in Checks(i) /\ Exists(Target(at[i]))
    /\ Goto(i, "refused")
    /\ UNCHANGED <<call, initVars, readVars, edits>> /\ KeepFiles

(* write_text opens the file, which empties or creates it ...              *)
Open(i) ==
    /\ pc[i] = "opening"
    /\ Put(Target(at[i]), "empty", i, "init")
    /\ written' = [written EXCEPT ![i] = @ \cup {Target(at[i])}]
    /\ linked' = linked \cup {i}
    /\ Goto(i, "filling")
    /\ UNCHANGED <<call, at, readVars, edits>>

(* ... and its one write fills it, wherever its path has moved since.      *)
Fill(i) ==
    /\ pc[i] = "filling"
    /\ IF i \in linked THEN Put(Target(at[i]), Starter[Target(at[i])], i, "init")
                       ELSE KeepFiles
    /\ linked' = linked \ {i}
    /\ IF call[i].rules /\ at[i] < Len(Project)
       THEN at' = [at EXCEPT ![i] = @ + 1] /\ Goto(i, "rechecking")
       ELSE at' = [at EXCEPT ![i] = 0] /\ Goto(i, "done")
    /\ UNCHANGED <<call, written, readVars, edits>>

(* Each rule file is checked once more, right before it is written.        *)
Recheck(i) ==
    /\ pc[i] = "rechecking"
    /\ ~Exists(Target(at[i])) \/ call[i].force
    /\ Goto(i, "opening")
    /\ UNCHANGED <<call, initVars, readVars, edits>> /\ KeepFiles

FaultyRefuseLate(i) ==                                     \* removes what it wrote
    /\ pc[i] = "rechecking" /\ Exists(Target(at[i])) /\ ~call[i].force
    /\ disk' = [f \in Files |-> IF f \in written[i] THEN "absent" ELSE disk[f]]
    /\ since' = [p \in Commands |-> since[p] \ written[i]]
    /\ Goto(i, "refused")
    /\ UNCHANGED <<call, initVars, readVars, edits, disturbed>>
RefuseLate(i) ==
    /\ pc[i] = "rechecking" /\ Exists(Target(at[i])) /\ ~call[i].force
    /\ Goto(i, "refused")
    /\ UNCHANGED <<call, initVars, readVars, edits>> /\ KeepFiles

(* A directory cannot be made, a file cannot be opened or the command is   *)
(* killed ...                                                              *)
Interrupt(i) ==
    /\ pc[i] \in {"checking", "opening", "filling", "rechecking"}
    /\ linked' = linked \ {i}
    /\ Goto(i, "interrupted")
    /\ UNCHANGED <<call, at, written, readVars, edits>> /\ KeepFiles

(* ... or the disk is full, and the open file holds part of its content.   *)
CutShort(i) ==
    /\ pc[i] = "filling" /\ i \in linked
    /\ \E content \in Partial : Put(Target(at[i]), content, i, "init")
    /\ linked' = linked \ {i}
    /\ Goto(i, "interrupted")
    /\ UNCHANGED <<call, at, written, readVars, edits>>

-----------------------------------------------------------------------------
(* validate-config, gateway and check-*                                    *)

NoResult == [guarded |-> FALSE, policy |-> <<>>, provider |-> FALSE,
             approval |-> FALSE, audit |-> FALSE]

(* check-* is given its policy files, the others find them in the          *)
(* configuration.                                                          *)
BeginReader(p) ==
    \E kind \in {"validate", "gateway", "check"}, env \in Envs :
        Begin(p, kind, FALSE, FALSE, env, IF kind = "check" THEN "loading" ELSE "reading")

Fail(p) ==
    /\ Goto(p, "error")
    /\ config' = [config EXCEPT ![p] = "absent"]
    /\ documents' = [documents EXCEPT ![p] = <<>>]
    /\ result' = [result EXCEPT ![p] = NoResult]
    /\ UNCHANGED <<call, initVars, edits>> /\ KeepFiles

Listed(p) == IF call[p].kind = "check" THEN Project ELSE Settings[config[p]].files

(* load_runtime_config; what comes next is the command's own load of the   *)
(* policy, or the one of build_app_from_config, if any.                    *)
ReadConfig(p) ==
    /\ pc[p] = "reading" /\ disk["config"] \in DOMAIN Settings
    /\ config' = [config EXCEPT ![p] = disk["config"]]
    /\ Goto(p, IF call[p].kind = "validate" THEN "loading"
               ELSE IF Settings[disk["config"]].files = <<>> THEN "wiring" ELSE "building")
    /\ UNCHANGED <<call, initVars, documents, result, edits>> /\ KeepFiles

FailToReadConfig(p) ==
    pc[p] = "reading" /\ disk["config"] \notin DOMAIN Settings /\ Fail(p)

Loads(p) == pc[p] \in {"loading", "building"}
Loaded(p) == Len(documents[p]) = Len(Listed(p))
NextFile(p) == Listed(p)[Len(documents[p]) + 1]

LoadFile(p) ==
    /\ Loads(p) /\ ~Loaded(p) /\ disk[NextFile(p)] \in DOMAIN Documents
    /\ documents' = [documents EXCEPT ![p] =
                        Append(@, Sourced(NextFile(p), Documents[disk[NextFile(p)]]))]
    /\ UNCHANGED <<pc, call, initVars, config, result, edits>> /\ KeepFiles

FailToLoad(p) ==
    Loads(p) /\ ~Loaded(p) /\ disk[NextFile(p)] \notin DOMAIN Documents /\ Fail(p)

(* load_policy_files: the documents are merged, unless there are none or   *)
(* a rule id occurs twice.                                                 *)
Acceptable(docs) == docs # <<>> /\ ~Merge(docs).duplicate

FaultyAfterLoad(p) ==                                      \* validates no wiring
    IF call[p].kind = "gateway" THEN "wiring" ELSE "ok"
AfterLoad(p) ==
    IF pc[p] = "building" THEN "wiring"
    ELSE IF call[p].kind = "validate" THEN "building" ELSE "ok"

MergePolicy(p) ==
    /\ Loads(p) /\ Loaded(p) /\ Acceptable(documents[p])
    /\ result' = [result EXCEPT ![p].guarded = TRUE,
                               ![p].policy = Merge(documents[p]).rules]
    /\ documents' = [documents EXCEPT ![p] = <<>>]
    /\ Goto(p, AfterLoad(p))
    /\ UNCHANGED <<call, initVars, config, edits>> /\ KeepFiles

FailToMerge(p) == Loads(p) /\ Loaded(p) /\ ~Acceptable(documents[p]) /\ Fail(p)

(* A secret is the one in the file, else the variable the file names.      *)
Resolved(setting, variable, env) ==
    setting = "file" \/ (setting = "env" /\ variable \in env)

(* build_app_from_config raises: an unknown backend or provider, no dsn,   *)
(* or a database that does not answer when the table is ensured.           *)
Unwirable(s, env) ==
    \/ s.audit /\ s.backend \notin {"jsonl", "postgres"}
    \/ /\ s.audit /\ s.backend = "postgres"
       /\ ~(Resolved(s.dsn, "dsn", env) /\ "database" \in env)
    \/ s.provider \notin {"", "openai-compatible"}

Wire(p) ==
    LET s == Settings[config[p]]
    IN  /\ pc[p] = "wiring" /\ ~Unwirable(s, call[p].env)
        /\ result' = [result EXCEPT
              ![p] = [@ EXCEPT !.provider = s.provider # "", !.audit = s.audit,
                             !.approval = s.approvals /\ Resolved(s.secret, "secret", call[p].env)]]
        /\ config' = [config EXCEPT ![p] = "absent"]
        /\ Goto(p, "ok")
        /\ UNCHANGED <<call, initVars, documents, edits>> /\ KeepFiles

FailToWire(p) ==
    pc[p] = "wiring" /\ Unwirable(Settings[config[p]], call[p].env) /\ Fail(p)

-----------------------------------------------------------------------------

(* The operator saves a file, by renaming a new one over it, or removes it.*)
Edit(f) ==
    /\ edits < MaxEdits
    /\ \E content \in Written[f] \ {disk[f]} : Put(f, content, "operator", "operator")
    /\ linked' = {i \in linked : Target(at[i]) # f}
    /\ edits' = edits + 1
    /\ UNCHANGED <<pc, call, at, written, readVars>>

Init ==
    /\ disk \in Disks
    /\ pc = [p \in Commands |-> "idle"]
    /\ call = [p \in Commands |-> [kind |-> "none", rules |-> FALSE, force |-> FALSE,
                                   env |-> {}]]
    /\ at = [p \in Commands |-> 0]
    /\ written = [p \in Commands |-> {}]
    /\ linked = {} /\ edits = 0
    /\ config = [p \in Commands |-> "absent"]
    /\ documents = [p \in Commands |-> <<>>]
    /\ result = [p \in Commands |-> NoResult]
    /\ since = [p \in Commands |-> {}]
    /\ disturbed = [p \in Commands |-> {}]

InitStep(p) ==
    \/ BeginInit(p) \/ CheckAhead(p) \/ RefuseAhead(p) \/ Open(p) \/ Fill(p)
    \/ Recheck(p) \/ RefuseLate(p) \/ Interrupt(p) \/ CutShort(p)

ReaderStep(p) ==
    \/ BeginReader(p) \/ ReadConfig(p) \/ FailToReadConfig(p)
    \/ LoadFile(p) \/ FailToLoad(p) \/ MergePolicy(p) \/ FailToMerge(p)
    \/ Wire(p) \/ FailToWire(p)

Next ==
    \/ \E p \in Commands : InitStep(p) \/ ReaderStep(p)
    \/ \E f \in Files : Edit(f)

Spec == Init /\ [][Next]_vars

-----------------------------------------------------------------------------
(* Properties.                                                             *)

(* Without --force, init never opens for writing a file that has been      *)
(* there since it began, whatever else goes on (V0.2_RELEASE_PLAN.md:51).  *)
UnforcedInitKeepsFiles ==
    \A i \in Commands : ~call[i].force => written[i] \cap since[i] = {}

(* An init that is refused while nobody else touches the files has not     *)
(* touched them either: it does not stop half way.                         *)
RefusedInitLeavesNoTrace ==
    \A i \in Commands : pc[i] = "refused" /\ disturbed[i] = {} => written[i] = {}

(* The strengthening that makes the two invariants above inductive: what   *)
(* an init has written and found missing at each place, and whose files    *)
(* there are while nobody else touches them.                               *)
WrittenUpTo(n) == {Target(k) : k \in 0..n}

InitInv(i) ==
    /\ pc[i] \in {"idle", "checking"} => written[i] = {}
    /\ pc[i] = "idle" => disturbed[i] = {} /\ at[i] = 0
    /\ pc[i] \in {"opening", "rechecking"} => written[i] = WrittenUpTo(at[i] - 1)
    /\ pc[i] = "filling" => written[i] = WrittenUpTo(at[i])
    /\ pc[i] \in {"opening", "filling", "rechecking"} /\ at[i] > 0 => call[i].rules
    /\ pc[i] = "rechecking" => at[i] > 0
    /\ pc[i] = "refused" /\ disturbed[i] = {} => written[i] = {}
    /\ ~call[i].force => written[i] \cap since[i] = {}

FoundMissing(i) ==
    \A k \in Checks(i) :
        \/ pc[i] = "checking" /\ k < at[i]
        \/ pc[i] \in {"opening", "filling", "rechecking"}
        => Target(k) \notin since[i]

Ownership(p) ==
    /\ \A f \in since[p] : Exists(f)
    /\ pc[p] # "idle" /\ disturbed[p] = {} =>
          \A f \in Files : Exists(f) => f \in since[p] \cup written[p]

ProjectInv == \A p \in Commands : InitInv(p) /\ FoundMissing(p) /\ Ownership(p)

(* When inits of a whole project race in an empty directory, without       *)
(* --force, edits or failing writes, one of them reports success at least, *)
(* and what they leave is the complete starter project, whichever of them  *)
(* was refused half way.                                                   *)
RacingInitsAgree ==
    /\ edits = 0 /\ \E i \in Commands : since[i] = {}
    /\ \A i \in Commands : /\ pc[i] \in {"done", "refused"}
                           /\ call[i].rules /\ ~call[i].force
    => /\ \E i \in Commands : pc[i] = "done"
       /\ disk = Starter

(* `validate-config` accepts exactly the projects that `gateway` serves    *)
(* with a policy, as long as nobody changes the files and both see the     *)
(* same environment; and it tells the wiring the gateway will have.        *)
ValidationIsExact ==
    \A v, g \in Commands :
        /\ call[v].kind = "validate" /\ call[g].kind = "gateway"
        /\ pc[v] \in Over /\ pc[g] \in Over
        /\ disturbed[v] = {} /\ disturbed[g] = {} /\ call[v].env = call[g].env
        => /\ pc[v] = "ok" <=> pc[g] = "ok" /\ result[g].guarded
           /\ pc[v] = "ok" => result[v] = result[g]

(* No command gets through with a rule id that occurs twice                *)
(* (POLICY_SPEC.md:42), even if files change while it loads them; only a   *)
(* document whose first source is empty lets ids collide unseen.           *)
LoadedIdsAreUnique ==
    \A p \in Commands :
        pc[p] = "ok" =>
            \A j, k \in DOMAIN result[p].policy :
                j < k /\ result[p].policy[j] = result[p].policy[k]
                => \E name \in DOMAIN Documents :
                      /\ result[p].policy[j] \in Range(Documents[name].rules)
                      /\ Documents[name].sources # <<>> /\ Documents[name].sources[1] = Blank
=============================================================================
