--------------------------- MODULE DeploymentProofs ---------------------------
(***************************************************************************)
(* Proofs about Deployment, for every starter project, all settings and    *)
(* documents, any number of concurrent commands and edits: an unforced     *)
(* init overwrites nothing that was there before it, and a refused one     *)
(* leaves no trace; what validation accepts is exactly what a gateway      *)
(* starts with; a policy that loads has no rule id twice; and inits that   *)
(* race leave a complete project.                                          *)
(***************************************************************************)
EXTENDS Deployment, SequenceTheorems, TLAPS

-----------------------------------------------------------------------------
(* Types, as far as the two properties need them.                          *)

Places == {"idle", "checking", "opening", "filling", "rechecking", "reading",
           "loading", "building", "wiring"} \cup Over

FilesTypeOK ==
    /\ DOMAIN disk = Files
    /\ pc \in [Commands -> Places]
    /\ at \in [Commands -> 0..Len(Project)]
    /\ DOMAIN call = Commands /\ \A p \in Commands : call[p].rules \in BOOLEAN
    /\ written \in [Commands -> SUBSET Files]
    /\ since \in [Commands -> SUBSET Files]
    /\ disturbed \in [Commands -> SUBSET {"init", "operator"}]
    /\ linked \subseteq Commands

LEMMA TargetType == \A k \in 0..Len(Project) : Target(k) \in Files
BY FilesAssumption DEF Target, Files, RuleFiles

LEMMA ProjectLength == Len(Project) \in Nat /\ DOMAIN Project = 1..Len(Project)
BY FilesAssumption

LEMMA TargetsDiffer ==
    \A j, k \in 0..Len(Project) : Target(j) = Target(k) => j = k
<1>1. \A k \in 1..Len(Project) : Project[k] \in RuleFiles
  BY FilesAssumption DEF RuleFiles
<1>2. \A j, k \in 1..Len(Project) : Project[j] = Project[k] => j = k
  BY FilesAssumption
<1> QED BY <1>1, <1>2, FilesAssumption DEF Target

LEMMA PutType ==
    ASSUME FilesTypeOK, NEW f \in Files, NEW content, NEW p,
           NEW who \in {"init", "operator"}, Put(f, content, p, who)
    PROVE  /\ DOMAIN disk' = Files
           /\ since' \in [Commands -> SUBSET Files]
           /\ disturbed' \in [Commands -> SUBSET {"init", "operator"}]
BY DEF FilesTypeOK, Put

LEMMA InitFilesTypeOK == Init => FilesTypeOK
<1> SUFFICES ASSUME Init PROVE FilesTypeOK
  OBVIOUS
<1>1. DOMAIN disk = Files /\ pc \in [Commands -> Places]
  BY FilesAssumption DEF Init, Places
<1>2. at \in [Commands -> 0..Len(Project)]
  BY ProjectLength DEF Init
<1>3. DOMAIN call = Commands /\ \A p \in Commands : call[p].rules \in BOOLEAN
  BY DEF Init
<1>4. /\ written \in [Commands -> SUBSET Files] /\ since \in [Commands -> SUBSET Files]
      /\ disturbed \in [Commands -> SUBSET {"init", "operator"}] /\ linked \subseteq Commands
  BY DEF Init
<1> QED BY <1>1, <1>2, <1>3, <1>4 DEF FilesTypeOK

LEMMA BeginType ==
    ASSUME FilesTypeOK, NEW p \in Commands, NEW kind, NEW rules \in BOOLEAN,
           NEW force \in BOOLEAN, NEW env, NEW place \in Places,
           Begin(p, kind, rules, force, env, place)
    PROVE  FilesTypeOK'
<1>1. pc' \in [Commands -> Places]
  BY DEF Begin, Goto, FilesTypeOK
<1>2. since' \in [Commands -> SUBSET Files]
  BY DEF Begin, FilesTypeOK
<1>3. DOMAIN call' = Commands /\ \A q \in Commands : call'[q].rules \in BOOLEAN
  BY DEF Begin, FilesTypeOK
<1>4. UNCHANGED <<disk, at, written, linked, disturbed>>
  BY DEF Begin, initVars
<1> QED BY <1>1, <1>2, <1>3, <1>4 DEF FilesTypeOK

LEMMA InitStepType ==
    ASSUME FilesTypeOK, NEW i \in Commands, InitStep(i)
    PROVE  FilesTypeOK'
<1>1. CASE BeginInit(i)
  BY <1>1, BeginType DEF BeginInit, Places
<1>2. CASE CheckAhead(i)
  <2>1. pc' \in [Commands -> Places]
    BY <1>2 DEF CheckAhead, Goto, FilesTypeOK, Places
  <2>2. at' \in [Commands -> 0..Len(Project)]
    BY <1>2, ProjectLength DEF CheckAhead, FilesTypeOK
  <2>3. UNCHANGED <<disk, call, written, linked, since, disturbed>>
    BY <1>2 DEF CheckAhead, KeepFiles
  <2> QED BY <2>1, <2>2, <2>3 DEF FilesTypeOK
<1>3. CASE Open(i)
  <2>1. Target(at[i]) \in Files
    BY TargetType DEF FilesTypeOK
  <2>2. pc' \in [Commands -> Places] /\ written' \in [Commands -> SUBSET Files]
    BY <1>3, <2>1 DEF Open, Goto, FilesTypeOK, Places
  <2>3. linked' \subseteq Commands /\ UNCHANGED <<call, at>>
    BY <1>3 DEF Open, FilesTypeOK
  <2>4. Put(Target(at[i]), "empty", i, "init")
    BY <1>3 DEF Open
  <2>5. /\ DOMAIN disk' = Files /\ since' \in [Commands -> SUBSET Files]
        /\ disturbed' \in [Commands -> SUBSET {"init", "operator"}]
    BY <2>1, <2>4, PutType
  <2> QED BY <2>2, <2>3, <2>5 DEF FilesTypeOK
<1>4. CASE Fill(i)
  <2>1. Target(at[i]) \in Files
    BY TargetType DEF FilesTypeOK
  <2>2. pc' \in [Commands -> Places] /\ at' \in [Commands -> 0..Len(Project)]
    <3>1. CASE call[i].rules /\ at[i] < Len(Project)
      <4>1. pc' = [pc EXCEPT ![i] = "rechecking"] /\ at' = [at EXCEPT ![i] = at[i] + 1]
        BY <1>4, <3>1 DEF Fill, Goto
      <4>2. at[i] + 1 \in 0..Len(Project)
        BY <3>1, ProjectLength DEF FilesTypeOK
      <4> QED BY <4>1, <4>2 DEF FilesTypeOK, Places
    <3>2. CASE ~(call[i].rules /\ at[i] < Len(Project))
      <4>1. pc' = [pc EXCEPT ![i] = "done"] /\ at' = [at EXCEPT ![i] = 0]
        BY <1>4, <3>2 DEF Fill, Goto
      <4> QED BY <4>1, ProjectLength DEF FilesTypeOK, Places, Over
    <3> QED BY <3>1, <3>2
  <2>3. linked' \subseteq Commands /\ UNCHANGED <<call, written>>
    BY <1>4 DEF Fill, FilesTypeOK
  <2>4. CASE KeepFiles
    BY <2>2, <2>3, <2>4 DEF KeepFiles, FilesTypeOK
  <2>5. CASE Put(Target(at[i]), Starter[Target(at[i])], i, "init")
    BY <2>1, <2>2, <2>3, <2>5, PutType DEF FilesTypeOK
  <2> QED BY <1>4, <2>4, <2>5 DEF Fill
<1>5. CASE RefuseAhead(i) \/ Recheck(i) \/ RefuseLate(i) \/ Interrupt(i)
  <2>1. pc' \in [Commands -> Places]
    BY <1>5 DEF RefuseAhead, Recheck, RefuseLate, Interrupt, Goto, FilesTypeOK, Places, Over
  <2>2. linked' \subseteq linked /\ UNCHANGED <<disk, call, at, written, since, disturbed>>
    BY <1>5 DEF RefuseAhead, Recheck, RefuseLate, Interrupt, KeepFiles, initVars
  <2> QED BY <2>1, <2>2 DEF FilesTypeOK
<1>6. CASE CutShort(i)
  <2>1. PICK content : Put(Target(at[i]), content, i, "init")
    BY <1>6 DEF CutShort
  <2>2. Target(at[i]) \in Files
    BY TargetType DEF FilesTypeOK
  <2>3. pc' \in [Commands -> Places] /\ linked' \subseteq Commands /\ UNCHANGED <<call, at, written>>
    BY <1>6 DEF CutShort, Goto, FilesTypeOK, Places, Over
  <2>4. /\ DOMAIN disk' = Files /\ since' \in [Commands -> SUBSET Files]
        /\ disturbed' \in [Commands -> SUBSET {"init", "operator"}]
    BY <2>1, <2>2, PutType
  <2> QED BY <2>3, <2>4 DEF FilesTypeOK
<1> QED BY <1>1, <1>2, <1>3, <1>4, <1>5, <1>6 DEF InitStep

(* A command that only reads moves, and leaves files and inits alone.      *)
LEMMA ReaderMoves ==
    ASSUME FilesTypeOK, NEW p \in Commands, ReaderStep(p), ~BeginReader(p)
    PROVE  /\ pc[p] \in {"reading", "loading", "building", "wiring"}
           /\ pc'[p] \in {"loading", "building", "wiring", "ok", "error"} \cup {pc[p]}
           /\ \A q \in Commands \ {p} : pc'[q] = pc[q]
           /\ pc' \in [Commands -> Places]
           /\ UNCHANGED <<disk, call, at, written, linked, since, disturbed>>
<1>1. ASSUME Fail(p)
      PROVE  /\ pc' = [pc EXCEPT ![p] = "error"]
             /\ UNCHANGED <<disk, call, at, written, linked, since, disturbed>>
  BY <1>1 DEF Fail, Goto, KeepFiles, initVars
<1>2. CASE FailToReadConfig(p) \/ FailToLoad(p) \/ FailToMerge(p) \/ FailToWire(p)
  <2>1. Fail(p) /\ pc[p] \in {"reading", "loading", "building", "wiring"}
    BY <1>2 DEF FailToReadConfig, FailToLoad, FailToMerge, FailToWire, Loads
  <2> QED BY <1>1, <2>1 DEF FilesTypeOK, Places, Over
<1>3. CASE ReadConfig(p) \/ LoadFile(p) \/ MergePolicy(p) \/ Wire(p)
  <2>1. UNCHANGED <<disk, call, at, written, linked, since, disturbed>>
    BY <1>3 DEF ReadConfig, LoadFile, MergePolicy, Wire, KeepFiles, initVars
  <2>2. /\ pc[p] \in {"reading", "loading", "building", "wiring"}
        /\ pc' = pc \/ \E place \in {"loading", "building", "wiring", "ok"} :
                          pc' = [pc EXCEPT ![p] = place]
    BY <1>3 DEF ReadConfig, LoadFile, MergePolicy, Wire, Loads, AfterLoad, Goto
  <2> QED BY <2>1, <2>2 DEF FilesTypeOK, Places, Over
<1> QED BY <1>2, <1>3 DEF ReaderStep

LEMMA EditChanges ==
    ASSUME FilesTypeOK, NEW f \in Files, Edit(f)
    PROVE  /\ \E content : Put(f, content, "operator", "operator")
           /\ linked' \subseteq linked /\ UNCHANGED <<pc, call, at, written>>
BY DEF Edit

LEMMA NextFilesTypeOK == FilesTypeOK /\ [Next]_vars => FilesTypeOK'
<1> SUFFICES ASSUME FilesTypeOK, [Next]_vars PROVE FilesTypeOK'
  OBVIOUS
<1>1. ASSUME NEW p \in Commands, BeginReader(p) PROVE FilesTypeOK'
  BY <1>1, BeginType DEF BeginReader, Places
<1>2. ASSUME NEW p \in Commands, ReaderStep(p), ~BeginReader(p) PROVE FilesTypeOK'
  BY <1>2, ReaderMoves DEF FilesTypeOK
<1>3. ASSUME NEW f \in Files, Edit(f) PROVE FilesTypeOK'
  BY <1>3, EditChanges, PutType DEF FilesTypeOK
<1>4. CASE UNCHANGED vars
  BY <1>4 DEF vars, initVars, FilesTypeOK
<1> QED BY <1>1, <1>2, <1>3, <1>4, InitStepType DEF Next

-----------------------------------------------------------------------------
(* What a step leaves of the others' invariant.                            *)

CommandInv(p) == InitInv(p) /\ FoundMissing(p) /\ Ownership(p)

SameCommand(p) ==
    pc'[p] = pc[p] /\ call'[p] = call[p] /\ at'[p] = at[p] /\ written'[p] = written[p]

SameFiles(p) == disk' = disk /\ since'[p] = since[p] /\ disturbed'[p] = disturbed[p]

LEMMA NothingHappens ==
    ASSUME NEW p \in Commands, CommandInv(p), SameCommand(p), SameFiles(p)
    PROVE  CommandInv(p)'
BY DEF CommandInv, SameCommand, SameFiles, InitInv, FoundMissing, Ownership, Checks, Exists

LEMMA PutWrites ==
    ASSUME FilesTypeOK, NEW f \in Files, NEW content, NEW p, NEW who, Put(f, content, p, who)
    PROVE  disk'[f] = content /\ \A g \in Files \ {f} : disk'[g] = disk[g]
BY DEF Put, FilesTypeOK

LEMMA PutWitnesses ==
    ASSUME NEW f, NEW content, NEW p, NEW who, Put(f, content, p, who), NEW q \in Commands
    PROVE  /\ since'[q] \subseteq since[q]
           /\ content # "absent" => since'[q] = since[q]
           /\ content = "absent" => f \notin since'[q]
           /\ q = p \/ pc[q] = "idle" => disturbed'[q] = disturbed[q]
           /\ q # p /\ pc[q] # "idle" => disturbed'[q] # {}
<1>1. since'[q] = IF content = "absent" THEN since[q] \ {f} ELSE since[q]
  BY DEF Put
<1>2. disturbed'[q] = IF q = p \/ pc[q] = "idle" THEN disturbed[q]
                                               ELSE disturbed[q] \cup {who}
  BY DEF Put
<1> QED BY <1>1, <1>2

LEMMA OthersPut ==
    ASSUME FilesTypeOK, NEW q \in Commands, CommandInv(q), SameCommand(q),
           NEW f \in Files, NEW content, NEW p, p # q, NEW who, Put(f, content, p, who)
    PROVE  CommandInv(q)'
<1>1. /\ since'[q] \subseteq since[q]
      /\ content = "absent" => f \notin since'[q]
      /\ pc[q] # "idle" => disturbed'[q] # {}
      /\ pc[q] = "idle" => disturbed'[q] = disturbed[q]
  BY PutWitnesses
<1>2. InitInv(q)'
  BY <1>1 DEF CommandInv, InitInv, SameCommand
<1>3. FoundMissing(q)'
  BY <1>1 DEF CommandInv, FoundMissing, SameCommand, Checks
<1>4. \A g \in since'[q] : disk'[g] # "absent"
  <2> TAKE g \in since'[q]
  <2>1. g \in since[q] /\ g \in Files /\ disk[g] # "absent"
    BY <1>1 DEF CommandInv, Ownership, Exists, FilesTypeOK
  <2>2. disk'[f] = content /\ \A h \in Files \ {f} : disk'[h] = disk[h]
    BY PutWrites
  <2> QED BY <1>1, <2>1, <2>2
<1>5. Ownership(q)'
  BY <1>1, <1>4 DEF Ownership, SameCommand, Exists
<1> QED BY <1>2, <1>3, <1>5 DEF CommandInv

-----------------------------------------------------------------------------
(* The steps of a command.                                                 *)

LEMMA BeginKeepsInv ==
    ASSUME FilesTypeOK, NEW p \in Commands, CommandInv(p), NEW kind, NEW rules, NEW force,
           NEW env, NEW place \in {"checking", "loading", "reading"},
           Begin(p, kind, rules, force, env, place)
    PROVE  CommandInv(p)'
<1>1. /\ pc'[p] = place /\ at'[p] = 0 /\ written'[p] = {} /\ disturbed'[p] = {}
      /\ since'[p] = {f \in Files : Exists(f)} /\ disk' = disk
  BY DEF Begin, Goto, initVars, CommandInv, InitInv, FilesTypeOK
<1>2. Checks(p)' \subseteq 0..Len(Project)
  BY ProjectLength DEF Checks
<1> QED BY <1>1, <1>2, ProjectLength
        DEF CommandInv, InitInv, FoundMissing, Ownership, Exists

LEMMA CheckAheadKeepsInv ==
    ASSUME FilesTypeOK, NEW i \in Commands, CommandInv(i), CheckAhead(i)
    PROVE  CommandInv(i)'
<1>1. /\ pc[i] = "checking" /\ written[i] = {} /\ at[i] \in 0..Len(Project)
      /\ UNCHANGED <<call, written>> /\ SameFiles(i)
  BY DEF CheckAhead, KeepFiles, SameFiles, CommandInv, InitInv, FilesTypeOK
<1>2. Checks(i)' = Checks(i) /\ Checks(i) \subseteq 0..Len(Project)
  BY <1>1, ProjectLength DEF Checks
<1>3. \A k \in Checks(i) : k <= at[i] => Target(k) \notin since[i]
  BY <1>1, <1>2, ProjectLength DEF CheckAhead, CommandInv, FoundMissing, Ownership
<1>4. Ownership(i)'
  BY <1>1 DEF CheckAhead, Goto, CommandInv, Ownership, SameFiles, Exists, FilesTypeOK
<1>5. CASE at[i] < Len(Project)
  <2>1. at'[i] = at[i] + 1 /\ pc'[i] = "checking"
    BY <1>1, <1>5 DEF CheckAhead, FilesTypeOK
  <2>2. \A k \in Checks(i) : k < at'[i] => k <= at[i]
    BY <1>1, <1>2, <2>1, ProjectLength
  <2> QED BY <1>1, <1>2, <1>3, <1>4, <2>1, <2>2
          DEF CommandInv, InitInv, FoundMissing, SameFiles
<1>6. CASE ~(at[i] < Len(Project))
  <2>1. at'[i] = 0 /\ pc'[i] = "opening"
    BY <1>1, <1>6 DEF CheckAhead, Goto, FilesTypeOK
  <2>2. \A k \in Checks(i) : k <= at[i]
    BY <1>1, <1>2, <1>6, ProjectLength
  <2>3. WrittenUpTo(at[i] - 1)' = {}
    <3>1. at'[i] - 1 = -1 /\ 0..(at'[i] - 1) = {}
      BY <2>1
    <3> QED BY <3>1 DEF WrittenUpTo
  <2>4. FoundMissing(i)'
    BY <1>1, <1>2, <1>3, <2>1, <2>2 DEF FoundMissing, SameFiles
  <2>5. InitInv(i)'
    <3>1. /\ written'[i] = {} /\ at'[i] = 0 /\ pc'[i] = "opening"
          /\ WrittenUpTo(at[i] - 1)' = {}
      BY <1>1, <2>1, <2>3
    <3>2. PICK W : W = WrittenUpTo(at[i] - 1)'
      OBVIOUS
    <3>3. written'[i] = W
      BY <3>1, <3>2
    <3> QED BY <3>1, <3>2, <3>3 DEF InitInv
  <2> QED BY <1>4, <2>4, <2>5 DEF CommandInv
<1> QED BY <1>5, <1>6

LEMMA OpenKeepsInv ==
    ASSUME FilesTypeOK, NEW i \in Commands, CommandInv(i), Open(i)
    PROVE  CommandInv(i)'
<1> DEFINE f == Target(at[i])
<1>1. /\ pc[i] = "opening" /\ at[i] \in 0..Len(Project) /\ f \in Files
      /\ Put(f, "empty", i, "init")
  BY TargetType DEF Open, FilesTypeOK
<1>2. /\ pc'[i] = "filling" /\ written'[i] = written[i] \cup {f}
      /\ UNCHANGED <<call, at>>
  BY DEF Open, Goto, FilesTypeOK
<1>3. /\ disk'[f] # "absent" /\ \A g \in Files \ {f} : disk'[g] = disk[g]
      /\ since'[i] = since[i] /\ disturbed'[i] = disturbed[i]
  <2>1. PICK content : content = "empty"
    OBVIOUS
  <2>2. content # "absent" /\ Put(f, content, i, "init")
    BY <1>1, <2>1
  <2>3. f \in Files
    BY <1>1
  <2> HIDE DEF f
  <2>4. disk'[f] = content /\ \A g \in Files \ {f} : disk'[g] = disk[g]
    BY <2>2, <2>3, PutWrites
  <2>5. since'[i] = since[i] /\ disturbed'[i] = disturbed[i]
    BY <2>2, PutWitnesses
  <2> QED BY <2>2, <2>4, <2>5
<1>4. written'[i] = WrittenUpTo(at[i])
  BY <1>1, <1>2, ProjectLength DEF CommandInv, InitInv, WrittenUpTo
<1>5. ~call[i].force => f \notin since[i]
  <2>1. at[i] > 0 => call[i].rules
    BY <1>1 DEF CommandInv, InitInv
  <2>2. ~call[i].force => at[i] \in Checks(i)
    BY <1>1, <2>1, ProjectLength DEF Checks
  <2> QED BY <1>1, <2>2 DEF CommandInv, FoundMissing
<1> HIDE DEF f
<1>6. InitInv(i)'
  BY <1>1, <1>2, <1>3, <1>4, <1>5 DEF CommandInv, InitInv
<1>7. FoundMissing(i)'
  BY <1>1, <1>2, <1>3 DEF CommandInv, FoundMissing, Checks
<1>8. Ownership(i)'
  BY <1>1, <1>2, <1>3 DEF CommandInv, Ownership, Exists, FilesTypeOK
<1> QED BY <1>6, <1>7, <1>8 DEF CommandInv

LEMMA FillKeepsInv ==
    ASSUME FilesTypeOK, NEW i \in Commands, CommandInv(i), Fill(i)
    PROVE  CommandInv(i)'
<1> DEFINE f == Target(at[i])
<1>1. /\ pc[i] = "filling" /\ at[i] \in 0..Len(Project) /\ f \in Files
      /\ written[i] = WrittenUpTo(at[i]) /\ UNCHANGED <<call, written>>
  BY TargetType DEF Fill, FilesTypeOK, CommandInv, InitInv
<1>2. f \in written[i]
  BY <1>1, ProjectLength DEF WrittenUpTo
<1>3. /\ since'[i] = since[i] /\ disturbed'[i] = disturbed[i]
      /\ \A g \in Files \ {f} : disk'[g] = disk[g]
      /\ disk'[f] = disk[f] \/ disk'[f] # "absent"
  <2>1. CASE KeepFiles
    BY <2>1 DEF KeepFiles
  <2>2. CASE Put(f, Starter[f], i, "init")
    <3>1. PICK content : content = Starter[f]
      OBVIOUS
    <3>2. content # "absent" /\ Put(f, content, i, "init") /\ f \in Files
      BY <1>1, <2>2, <3>1, FilesAssumption
    <3> HIDE DEF f
    <3>3. disk'[f] = content /\ \A g \in Files \ {f} : disk'[g] = disk[g]
      BY <3>2, PutWrites
    <3>4. since'[i] = since[i] /\ disturbed'[i] = disturbed[i]
      BY <3>2, PutWitnesses
    <3> QED BY <3>2, <3>3, <3>4
  <2> QED BY <2>1, <2>2 DEF Fill
<1>4. \/ /\ pc'[i] = "rechecking" /\ at'[i] = at[i] + 1 /\ call[i].rules
      \/ pc'[i] = "done"
  BY DEF Fill, Goto, FilesTypeOK
<1> HIDE DEF f
<1>5. InitInv(i)'
  <2>1. CASE pc'[i] = "rechecking" /\ at'[i] = at[i] + 1 /\ call[i].rules
    <3>1. at'[i] > 0 /\ at'[i] - 1 = at[i]
      BY <1>1, <2>1, ProjectLength
    <3> QED BY <1>1, <1>3, <2>1, <3>1 DEF CommandInv, InitInv
  <2>2. CASE pc'[i] = "done"
    BY <1>1, <1>3, <2>2 DEF CommandInv, InitInv
  <2> QED BY <1>4, <2>1, <2>2
<1>6. FoundMissing(i)'
  BY <1>1, <1>3, <1>4 DEF CommandInv, FoundMissing, Checks
<1>7. Ownership(i)'
  BY <1>1, <1>2, <1>3, <1>4 DEF CommandInv, Ownership, Exists, FilesTypeOK
<1> QED BY <1>5, <1>6, <1>7 DEF CommandInv

(* A late refusal means somebody else made the file: it was not there at   *)
(* the start, and this init has not got to it.                             *)
LEMMA LateRefusalIsDisturbed ==
    ASSUME FilesTypeOK, NEW i \in Commands, CommandInv(i), RefuseLate(i)
    PROVE  disturbed[i] # {}
<1>1. /\ pc[i] = "rechecking" /\ Exists(Target(at[i])) /\ ~call[i].force
      /\ at[i] \in 1..Len(Project) /\ call[i].rules
      /\ written[i] = WrittenUpTo(at[i] - 1)
  BY ProjectLength DEF RefuseLate, CommandInv, InitInv, FilesTypeOK
<1>2. Target(at[i]) \notin since[i]
  BY <1>1, ProjectLength DEF CommandInv, FoundMissing, Checks
<1>3. Target(at[i]) \notin written[i]
  <2>1. \A k \in 0..(at[i] - 1) : k \in 0..Len(Project) /\ k # at[i]
    BY <1>1, ProjectLength
  <2>2. at[i] \in 0..Len(Project)
    BY <1>1, ProjectLength
  <2> QED BY <1>1, <2>1, <2>2, TargetsDiffer DEF WrittenUpTo
<1>4. Target(at[i]) \in Files
  BY TargetType DEF FilesTypeOK
<1> QED BY <1>1, <1>2, <1>3, <1>4 DEF CommandInv, Ownership

LEMMA StopKeepsInv ==
    ASSUME FilesTypeOK, NEW i \in Commands, CommandInv(i),
           RefuseAhead(i) \/ Recheck(i) \/ RefuseLate(i) \/ Interrupt(i)
    PROVE  CommandInv(i)'
<1>1. /\ SameFiles(i) /\ UNCHANGED <<call, at, written>>
      /\ pc[i] \in {"checking", "opening", "filling", "rechecking"}
  BY DEF RefuseAhead, Recheck, RefuseLate, Interrupt, KeepFiles, initVars, SameFiles
<1>2. Ownership(i)'
  BY <1>1 DEF CommandInv, Ownership, SameFiles, Exists
<1>3. CASE RefuseAhead(i)
  <2>1. pc'[i] = "refused" /\ written[i] = {}
    BY <1>3 DEF RefuseAhead, Goto, CommandInv, InitInv, FilesTypeOK
  <2> QED BY <1>1, <1>2, <2>1 DEF CommandInv, InitInv, FoundMissing, SameFiles
<1>4. CASE Recheck(i)
  <2>1. pc[i] = "rechecking" /\ pc'[i] = "opening"
    BY <1>4 DEF Recheck, Goto, FilesTypeOK
  <2>2. FoundMissing(i)'
    BY <1>1, <2>1 DEF CommandInv, FoundMissing, Checks, SameFiles
  <2> QED BY <1>1, <1>2, <2>1, <2>2 DEF CommandInv, InitInv, SameFiles
<1>5. CASE RefuseLate(i)
  <2>1. pc'[i] = "refused" /\ disturbed[i] # {}
    BY <1>5, LateRefusalIsDisturbed DEF RefuseLate, Goto, FilesTypeOK
  <2> QED BY <1>1, <1>2, <2>1 DEF CommandInv, InitInv, FoundMissing, SameFiles
<1>6. CASE Interrupt(i)
  <2>1. pc'[i] = "interrupted"
    BY <1>6 DEF Interrupt, Goto, FilesTypeOK
  <2> QED BY <1>1, <1>2, <2>1 DEF CommandInv, InitInv, FoundMissing, SameFiles
<1> QED BY <1>3, <1>4, <1>5, <1>6

(* A file that gets a part of its content was there before.                *)
LEMMA CutShortKeepsInv ==
    ASSUME FilesTypeOK, NEW i \in Commands, CommandInv(i), CutShort(i)
    PROVE  CommandInv(i)'
<1>1. PICK f : f = Target(at[i])
  OBVIOUS
<1>2. /\ pc[i] = "filling" /\ at[i] \in 0..Len(Project) /\ f \in Files
      /\ written[i] = WrittenUpTo(at[i]) /\ UNCHANGED <<call, written>>
  BY <1>1, TargetType DEF CutShort, FilesTypeOK, CommandInv, InitInv
<1>3. f \in written[i]
  BY <1>1, <1>2, ProjectLength DEF WrittenUpTo
<1>4. PICK content \in Partial : Put(f, content, i, "init")
  BY <1>1 DEF CutShort
<1>5. content # "absent"
  BY FilesAssumption
<1>6. /\ since'[i] = since[i] /\ disturbed'[i] = disturbed[i]
      /\ disk'[f] # "absent" /\ \A g \in Files \ {f} : disk'[g] = disk[g]
  BY <1>2, <1>4, <1>5, PutWrites, PutWitnesses
<1>7. pc'[i] = "interrupted"
  BY DEF CutShort, Goto, FilesTypeOK
<1>8. Ownership(i)'
  BY <1>2, <1>3, <1>6, <1>7 DEF CommandInv, Ownership, Exists, FilesTypeOK
<1> QED BY <1>2, <1>6, <1>7, <1>8 DEF CommandInv, InitInv, FoundMissing

LEMMA InitStepKeepsInv ==
    ASSUME FilesTypeOK, NEW i \in Commands, CommandInv(i), InitStep(i)
    PROVE  CommandInv(i)'
BY BeginKeepsInv, CheckAheadKeepsInv, OpenKeepsInv, FillKeepsInv, StopKeepsInv, CutShortKeepsInv
   DEF InitStep, BeginInit

LEMMA ReaderStepKeepsInv ==
    ASSUME FilesTypeOK, NEW p \in Commands, CommandInv(p), ReaderStep(p)
    PROVE  CommandInv(p)'
<1>1. CASE BeginReader(p)
  BY <1>1, BeginKeepsInv DEF BeginReader
<1>2. CASE ~BeginReader(p)
  <2>1. /\ pc[p] \in {"reading", "loading", "building", "wiring"}
        /\ pc'[p] \in {"reading", "loading", "building", "wiring", "ok", "error"}
        /\ UNCHANGED <<disk, call, at, written, since, disturbed>>
    BY <1>2, ReaderMoves
  <2> QED BY <2>1 DEF CommandInv, InitInv, FoundMissing, Ownership, Checks, Exists
<1> QED BY <1>1, <1>2

(* A step of one command leaves the others where they are, and the files   *)
(* too unless it writes one.                                               *)
LEMMA OthersStandStill ==
    ASSUME FilesTypeOK, NEW p \in Commands, InitStep(p) \/ ReaderStep(p),
           NEW q \in Commands, q # p
    PROVE  /\ SameCommand(q)
           /\ SameFiles(q) \/ \E f \in Files : \E content : Put(f, content, p, "init")
<1>1. ASSUME NEW kind, NEW rules, NEW force, NEW env, NEW place,
             Begin(p, kind, rules, force, env, place)
      PROVE  SameCommand(q) /\ SameFiles(q)
  BY <1>1 DEF Begin, Goto, initVars, SameCommand, SameFiles, FilesTypeOK
<1>2. CASE BeginInit(p) \/ BeginReader(p)
  BY <1>1, <1>2 DEF BeginInit, BeginReader
<1>3. CASE ReaderStep(p) /\ ~BeginReader(p)
  BY <1>3, ReaderMoves DEF SameCommand, SameFiles
<1>4. CASE CheckAhead(p) \/ RefuseAhead(p) \/ Recheck(p) \/ RefuseLate(p) \/ Interrupt(p)
  BY <1>4 DEF CheckAhead, RefuseAhead, Recheck, RefuseLate, Interrupt, Goto, KeepFiles,
              initVars, SameCommand, SameFiles, FilesTypeOK
<1>5. Target(at[p]) \in Files
  BY TargetType DEF FilesTypeOK
<1>6. CASE Open(p)
  <2>1. SameCommand(q)
    BY <1>6 DEF Open, Goto, SameCommand, FilesTypeOK
  <2> QED BY <1>5, <1>6, <2>1 DEF Open
<1>7. CASE Fill(p)
  <2>1. SameCommand(q)
    BY <1>7 DEF Fill, Goto, SameCommand, FilesTypeOK
  <2>2. CASE KeepFiles
    BY <2>1, <2>2 DEF KeepFiles, SameFiles
  <2>3. CASE Put(Target(at[p]), Starter[Target(at[p])], p, "init")
    BY <1>5, <2>1, <2>3
  <2> QED BY <1>7, <2>2, <2>3 DEF Fill
<1>8. CASE CutShort(p)
  <2>1. SameCommand(q)
    BY <1>8 DEF CutShort, Goto, SameCommand, FilesTypeOK
  <2> QED BY <1>5, <1>8, <2>1 DEF CutShort
<1> QED BY <1>2, <1>3, <1>4, <1>6, <1>7, <1>8 DEF InitStep

-----------------------------------------------------------------------------
(* The invariant, and the two properties it implies.                       *)

LEMMA InitProjectInv == Init => ProjectInv
<1> SUFFICES ASSUME Init, NEW p \in Commands PROVE CommandInv(p)
  BY DEF ProjectInv, CommandInv
<1>1. /\ pc[p] = "idle" /\ at[p] = 0 /\ written[p] = {} /\ since[p] = {}
      /\ disturbed[p] = {}
  BY DEF Init
<1> QED BY <1>1 DEF CommandInv, InitInv, FoundMissing, Ownership

LEMMA NextProjectInv == FilesTypeOK /\ ProjectInv /\ [Next]_vars => ProjectInv'
<1> SUFFICES ASSUME FilesTypeOK, ProjectInv, [Next]_vars, NEW q \in Commands
             PROVE  CommandInv(q)'
  BY DEF ProjectInv, CommandInv
<1>1. CommandInv(q)
  BY DEF ProjectInv, CommandInv
<1>2. ASSUME NEW p \in Commands, InitStep(p) \/ ReaderStep(p)
      PROVE  CommandInv(q)'
  <2>1. CASE p = q
    BY <1>1, <1>2, <2>1, InitStepKeepsInv, ReaderStepKeepsInv
  <2>2. CASE p # q
    <3>1. SameCommand(q)
      BY <1>2, <2>2, OthersStandStill
    <3>2. CASE SameFiles(q)
      BY <1>1, <3>1, <3>2, NothingHappens
    <3>3. ASSUME NEW f \in Files, NEW content, Put(f, content, p, "init")
          PROVE  CommandInv(q)'
      BY <1>1, <2>2, <3>1, <3>3, OthersPut
    <3> QED BY <1>2, <2>2, <3>2, <3>3, OthersStandStill
  <2> QED BY <2>1, <2>2
<1>3. ASSUME NEW f \in Files, Edit(f)
      PROVE  CommandInv(q)'
  <2>1. SameCommand(q)
    BY <1>3, EditChanges DEF SameCommand
  <2>2. PICK content : Put(f, content, "operator", "operator")
    BY <1>3, EditChanges
  <2>3. PICK p : p = "operator"
    OBVIOUS
  <2>4. Put(f, content, p, p) /\ p # q
    BY <2>2, <2>3, FilesAssumption
  <2> QED BY <1>1, <2>1, <2>4, OthersPut
<1>4. CASE UNCHANGED vars
  BY <1>1, <1>4, NothingHappens DEF vars, initVars, SameCommand, SameFiles
<1> QED BY <1>2, <1>3, <1>4 DEF Next

LEMMA ProjectInvHolds == Spec => [](FilesTypeOK /\ ProjectInv)
BY InitFilesTypeOK, NextFilesTypeOK, InitProjectInv, NextProjectInv, PTL DEF Spec

(* Without --force, an init never opens for writing a file that has been   *)
(* there since it began, however many commands and edits go on beside it:  *)
(* write_starter_project checks every file it is to write.                 *)
THEOREM UnforcedInitIsSafe == Spec => []UnforcedInitKeepsFiles
<1>1. ProjectInv => UnforcedInitKeepsFiles
  BY DEF ProjectInv, InitInv, UnforcedInitKeepsFiles
<1> QED BY <1>1, ProjectInvHolds, PTL

(* An init that is refused, while no other command and no operator has     *)
(* touched the files since it began, has written nothing: the checks come  *)
(* before the first write, and alone a check repeated later cannot fail.   *)
THEOREM RefusedInitIsClean == Spec => []RefusedInitLeavesNoTrace
<1>1. ProjectInv => RefusedInitLeavesNoTrace
  BY DEF ProjectInv, InitInv, RefusedInitLeavesNoTrace
<1> QED BY <1>1, ProjectInvHolds, PTL

-----------------------------------------------------------------------------
(* What a reader makes of the files, as long as they stay what they are.   *)

Configuration == Settings[disk["config"]]
Sources(n) ==
    [k \in 1..n |-> Sourced(Configuration.files[k], Documents[disk[Configuration.files[k]]])]
Readable(n) == \A k \in 1..n : disk[Configuration.files[k]] \in DOMAIN Documents

Policy == Sources(Len(Configuration.files))
PolicyLoads == Readable(Len(Configuration.files)) /\ Acceptable(Policy)

Guarded == [NoResult EXCEPT !.guarded = TRUE, !.policy = Merge(Policy).rules]
Wired(loaded, env) ==
    [loaded EXCEPT !.provider = Configuration.provider # "", !.audit = Configuration.audit,
                   !.approval = /\ Configuration.approvals
                                /\ Resolved(Configuration.secret, "secret", env)]

(* The files as a gateway takes them: rules are optional, if none is named.*)
Bare(kind) == kind = "gateway" /\ Configuration.files = <<>>
Accepted(kind, env) ==
    /\ disk["config"] \in DOMAIN Settings
    /\ Bare(kind) \/ PolicyLoads
    /\ ~Unwirable(Configuration, env)

ReaderPlaces == {"reading", "loading", "building", "wiring", "ok", "error"}
InitPlaces == {"checking", "opening", "filling", "rechecking", "done", "refused", "interrupted"}

(* The places of each kind of command.                                     *)
KindInv(p) ==
    /\ pc[p] = "idle" => call[p].kind = "none"
    /\ pc[p] \in InitPlaces => call[p].kind = "init"
    /\ pc[p] \in {"reading", "building", "wiring"} => call[p].kind \in {"validate", "gateway"}
    /\ pc[p] = "loading" => call[p].kind \in {"validate", "check"}

(* What a reader holds, at each place, follows from the files alone.       *)
HoldsInv(p) ==
    /\ pc[p] = "reading" => documents[p] = <<>> /\ result[p] = NoResult
    /\ pc[p] \in {"loading", "building", "wiring"} =>
          disk["config"] \in DOMAIN Settings /\ config[p] = disk["config"]
    /\ pc[p] \in {"loading", "building"} =>
          \E n \in 0..Len(Configuration.files) : Readable(n) /\ documents[p] = Sources(n)
    /\ pc[p] = "loading" => result[p] = NoResult
    /\ pc[p] = "building" => IF call[p].kind = "validate"
                             THEN PolicyLoads /\ result[p] = Guarded
                             ELSE Configuration.files # <<>> /\ result[p] = NoResult
    /\ pc[p] = "wiring" => \/ Bare(call[p].kind) /\ result[p] = NoResult
                           \/ PolicyLoads /\ result[p] = Guarded
    /\ pc[p] = "ok" =>
          /\ Accepted(call[p].kind, call[p].env)
          /\ result[p] = Wired(IF Bare(call[p].kind) THEN NoResult ELSE Guarded, call[p].env)
    /\ pc[p] = "error" => ~Accepted(call[p].kind, call[p].env)

Undisturbed(p) == call[p].kind \in {"validate", "gateway"} /\ disturbed[p] = {}

ReaderInv ==
    /\ DOMAIN config = Commands /\ DOMAIN documents = Commands /\ DOMAIN result = Commands
    /\ \A p \in Commands : KindInv(p) /\ (Undisturbed(p) => HoldsInv(p))
    /\ \A p \in Commands : pc[p] = "idle" => documents[p] = <<>> /\ result[p] = NoResult

LEMMA InitReaderInv == Init => ReaderInv
<1> SUFFICES ASSUME Init PROVE ReaderInv
  OBVIOUS
<1>1. /\ DOMAIN config = Commands /\ DOMAIN documents = Commands /\ DOMAIN result = Commands
      /\ \A p \in Commands : /\ pc[p] = "idle" /\ call[p].kind = "none"
                             /\ documents[p] = <<>> /\ result[p] = NoResult
  BY DEF Init
<1> QED BY <1>1 DEF ReaderInv, KindInv, InitPlaces, Undisturbed

(* What a reader holds stays right while it and the files stand still.     *)
SameReader(p) ==
    /\ pc'[p] = pc[p] /\ call'[p] = call[p]
    /\ config'[p] = config[p] /\ documents'[p] = documents[p] /\ result'[p] = result[p]

LEMMA ReaderAtRest ==
    ASSUME NEW p \in Commands, SameReader(p), HoldsInv(p), disk' = disk
    PROVE  HoldsInv(p)'
<1>1. Configuration' = Configuration
  BY DEF Configuration
<1>2. \A n : (Sources(n))' = Sources(n) /\ (Readable(n))' = Readable(n)
  BY <1>1 DEF Sources, Readable
<1>3. Policy' = Policy /\ PolicyLoads' = PolicyLoads
  BY <1>1, <1>2 DEF Policy, PolicyLoads
<1>4. Guarded' = Guarded
  BY <1>3 DEF Guarded
<1>5. \A kind, env : Accepted(kind, env)' = Accepted(kind, env) /\ Bare(kind)' = Bare(kind)
  BY <1>1, <1>3 DEF Accepted, Bare
<1>6. \A loaded, env : Wired(loaded, env)' = Wired(loaded, env)
  BY <1>1 DEF Wired
<1> QED BY <1>1, <1>2, <1>3, <1>4, <1>5, <1>6 DEF SameReader, HoldsInv

LEMMA OthersRead ==
    ASSUME FilesTypeOK, DOMAIN config = Commands, DOMAIN documents = Commands,
           DOMAIN result = Commands, NEW p \in Commands, InitStep(p) \/ ReaderStep(p)
    PROVE  /\ DOMAIN config' = Commands /\ DOMAIN documents' = Commands
           /\ DOMAIN result' = Commands
           /\ \A q \in Commands \ {p} : /\ config'[q] = config[q] /\ result'[q] = result[q]
                                        /\ documents'[q] = documents[q]
<1>1. CASE InitStep(p) \/ BeginReader(p)
  <2>1. UNCHANGED <<config, documents, result>>
    BY <1>1 DEF InitStep, BeginInit, BeginReader, Begin, CheckAhead, RefuseAhead, Open, Fill,
                Recheck, RefuseLate, Interrupt, CutShort, readVars
  <2> QED BY <2>1
<1>2. CASE Fail(p)
  BY <1>2 DEF Fail
<1>3. CASE ReadConfig(p) \/ LoadFile(p) \/ MergePolicy(p) \/ Wire(p)
  BY <1>3 DEF ReadConfig, LoadFile, MergePolicy, Wire
<1> QED BY <1>1, <1>2, <1>3
        DEF ReaderStep, FailToReadConfig, FailToLoad, FailToMerge, FailToWire

LEMMA KindStep ==
    ASSUME FilesTypeOK, NEW p \in Commands, KindInv(p), InitStep(p) \/ ReaderStep(p)
    PROVE  KindInv(p)'
<1>1. CASE BeginInit(p) \/ BeginReader(p)
  BY <1>1 DEF BeginInit, BeginReader, Begin, Goto, KindInv, InitPlaces, FilesTypeOK
<1>2. CASE InitStep(p) /\ ~BeginInit(p)
  <2>1. /\ pc[p] \in InitPlaces /\ pc'[p] \in InitPlaces /\ call' = call
    BY <1>2 DEF InitStep, CheckAhead, RefuseAhead, Open, Fill, Recheck, RefuseLate, Interrupt,
                CutShort, Goto, InitPlaces, FilesTypeOK
  <2> QED BY <2>1 DEF KindInv, InitPlaces
<1>3. CASE ReaderStep(p) /\ ~BeginReader(p)
  <2>1. call' = call
    BY <1>3, ReaderMoves
  <2>2. CASE Fail(p)
    BY <2>1, <2>2 DEF Fail, Goto, KindInv, InitPlaces, FilesTypeOK
  <2>3. CASE ReadConfig(p) \/ LoadFile(p) \/ MergePolicy(p) \/ Wire(p)
    BY <2>1, <2>3 DEF ReadConfig, LoadFile, MergePolicy, Wire, Loads, AfterLoad, Goto, KindInv,
                      InitPlaces, FilesTypeOK
  <2> QED BY <1>3, <2>2, <2>3
          DEF ReaderStep, FailToReadConfig, FailToLoad, FailToMerge, FailToWire
<1> QED BY <1>1, <1>2, <1>3
-----------------------------------------------------------------------------
(* The reader's own steps.                                                 *)

LEMMA SourcesFacts ==
    ASSUME disk["config"] \in DOMAIN Settings
    PROVE  /\ Len(Configuration.files) \in Nat
           /\ DOMAIN Configuration.files = 1..Len(Configuration.files)
           /\ Configuration.files = <<>> <=> Len(Configuration.files) = 0
           /\ Sources(0) = <<>> /\ Readable(0)
           /\ \A n \in Nat : Len(Sources(n)) = n
<1>1. Configuration.files \in Seq(STRING)
  BY SettingsAssumption DEF Configuration
<1>2. ASSUME NEW n \in Nat PROVE Len(Sources(n)) = n
  <2>1. PICK S : S = {Sources(n)[k] : k \in 1..n}
    OBVIOUS
  <2>2. Sources(n) \in [1..n -> S]
    BY <2>1 DEF Sources
  <2> QED BY <2>2
<1>3. Sources(0) = <<>>
  BY <1>2 DEF Sources
<1> QED BY <1>1, <1>2, <1>3 DEF Readable

LEMMA OneMoreSource ==
    ASSUME NEW n \in Nat
    PROVE  Append(Sources(n), Sourced(Configuration.files[n + 1],
                                      Documents[disk[Configuration.files[n + 1]]]))
           = Sources(n + 1)
<1> DEFINE next == Sourced(Configuration.files[n + 1],
                           Documents[disk[Configuration.files[n + 1]]])
           S == {Sources(n + 1)[k] : k \in 1..(n + 1)}
<1>1. /\ Sources(n) \in [1..n -> S] /\ Sources(n + 1) \in [1..(n + 1) -> S]
      /\ next \in S /\ Sources(n + 1)[n + 1] = next
  BY DEF Sources
<1>2. \A k \in 1..n : Sources(n + 1)[k] = Sources(n)[k]
  BY DEF Sources
<1> HIDE DEF next, S
<1>3. /\ Sources(n) \in Seq(S) /\ Len(Sources(n)) = n
      /\ Sources(n + 1) \in Seq(S) /\ Len(Sources(n + 1)) = n + 1
  BY <1>1
<1>4. /\ Append(Sources(n), next) \in Seq(S) /\ Len(Append(Sources(n), next)) = n + 1
      /\ \A k \in 1..(n + 1) : Append(Sources(n), next)[k] = Sources(n + 1)[k]
  BY <1>1, <1>2, <1>3, AppendProperties
<1>5. Append(Sources(n), next) = Sources(n + 1)
  BY <1>3, <1>4, SeqEqual
<1> QED BY <1>5 DEF next

LEMMA ReadConfigHolds ==
    ASSUME FilesTypeOK, ReaderInv, NEW p \in Commands, ReadConfig(p), Undisturbed(p)
    PROVE  HoldsInv(p)'
<1>1. /\ pc[p] = "reading" /\ disk["config"] \in DOMAIN Settings
      /\ call[p].kind \in {"validate", "gateway"}
      /\ documents[p] = <<>> /\ result[p] = NoResult
  BY DEF ReadConfig, ReaderInv, KindInv, HoldsInv
<1>2. /\ config'[p] = disk["config"] /\ UNCHANGED <<disk, call, documents, result>>
      /\ pc'[p] = IF call[p].kind = "validate" THEN "loading"
                  ELSE IF Configuration.files = <<>> THEN "wiring" ELSE "building"
  BY <1>1 DEF ReadConfig, KeepFiles, Goto, Configuration, ReaderInv, FilesTypeOK
<1>3. /\ Sources(0)' = <<>> /\ Readable(0)' /\ 0 \in 0..Len(Configuration.files)
  BY <1>1, <1>2, SourcesFacts DEF Sources, Readable, Configuration
<1>4. Configuration' = Configuration
  BY <1>2 DEF Configuration
<1>5. Bare(call[p].kind)' = Bare(call[p].kind)
  BY <1>2, <1>4 DEF Bare
<1> QED BY <1>1, <1>2, <1>3, <1>4, <1>5 DEF HoldsInv, Bare

LEMMA LoadFileHolds ==
    ASSUME FilesTypeOK, ReaderInv, NEW p \in Commands, LoadFile(p), Undisturbed(p)
    PROVE  HoldsInv(p)'
<1>1. /\ pc[p] \in {"loading", "building"} /\ disk["config"] \in DOMAIN Settings
      /\ call[p].kind \in {"validate", "gateway"} /\ HoldsInv(p)
      /\ config[p] = disk["config"]
  BY DEF LoadFile, Loads, ReaderInv, HoldsInv, Undisturbed
<1>2. PICK n \in 0..Len(Configuration.files) : Readable(n) /\ documents[p] = Sources(n)
  BY <1>1 DEF HoldsInv
<1>3. Listed(p) = Configuration.files /\ Len(documents[p]) = n /\ n \in Nat
  BY <1>1, <1>2, SourcesFacts DEF Listed, Configuration
<1>4. n + 1 \in 0..Len(Configuration.files) /\ Readable(n + 1)
  <2>1. n # Len(Configuration.files) /\ disk[Configuration.files[n + 1]] \in DOMAIN Documents
    BY <1>3 DEF LoadFile, Loaded, NextFile
  <2> QED BY <1>1, <1>2, <1>3, <2>1, SourcesFacts DEF Readable
<1>5. documents'[p] = Sources(n + 1)
  BY <1>2, <1>3, OneMoreSource DEF LoadFile, NextFile, ReaderInv
<1>6. UNCHANGED <<disk, pc, call, config, result>>
  BY DEF LoadFile, KeepFiles
<1>7. Configuration' = Configuration
  BY <1>6 DEF Configuration
<1>8. Sources(n + 1)' = Sources(n + 1) /\ Readable(n + 1)' = Readable(n + 1)
  BY <1>6, <1>7 DEF Sources, Readable
<1>9. PolicyLoads' = PolicyLoads /\ Guarded' = Guarded
  BY <1>6, <1>7 DEF PolicyLoads, Guarded, Policy, Sources, Readable
<1>10. \E m \in 0..Len(Configuration.files') : Readable(m)' /\ documents'[p] = Sources(m)'
  <2>1. n + 1 \in 0..Len(Configuration.files')
    BY <1>4, <1>7
  <2> QED BY <1>4, <1>5, <1>8, <2>1
<1> QED BY <1>1, <1>6, <1>7, <1>9, <1>10 DEF HoldsInv

(* When the last file has been read, the documents are the policy.         *)
LEMMA AllSources ==
    ASSUME ReaderInv, NEW p \in Commands, Undisturbed(p), Loads(p), Loaded(p)
    PROVE  /\ disk["config"] \in DOMAIN Settings /\ documents[p] = Policy
           /\ Readable(Len(Configuration.files))
<1>1. /\ disk["config"] \in DOMAIN Settings /\ call[p].kind \in {"validate", "gateway"}
      /\ config[p] = disk["config"] /\ HoldsInv(p)
  BY DEF Loads, ReaderInv, HoldsInv, Undisturbed
<1>2. PICK n \in 0..Len(Configuration.files) : Readable(n) /\ documents[p] = Sources(n)
  BY <1>1 DEF HoldsInv, Loads
<1>3. Listed(p) = Configuration.files /\ Len(documents[p]) = n
  BY <1>1, <1>2, SourcesFacts DEF Listed, Configuration
<1> QED BY <1>1, <1>2, <1>3 DEF Loaded, Policy

LEMMA FailHolds ==
    ASSUME FilesTypeOK, ReaderInv, NEW p \in Commands, Undisturbed(p),
           \/ FailToReadConfig(p) \/ FailToLoad(p) \/ FailToMerge(p) \/ FailToWire(p)
    PROVE  HoldsInv(p)'
<1>1. Fail(p) /\ HoldsInv(p) /\ call[p].kind \in {"validate", "gateway"}
  BY DEF FailToReadConfig, FailToLoad, FailToMerge, FailToWire, ReaderInv, Undisturbed
<1>2. pc'[p] = "error" /\ UNCHANGED <<disk, call>>
  BY <1>1 DEF Fail, Goto, KeepFiles, FilesTypeOK
<1>3. ~Accepted(call[p].kind, call[p].env)
  <2>1. CASE FailToReadConfig(p)
    BY <2>1 DEF FailToReadConfig, Accepted
  <2>2. CASE FailToLoad(p)
    <3>1. PICK n \in 0..Len(Configuration.files) : Readable(n) /\ documents[p] = Sources(n)
      BY <1>1, <2>2 DEF HoldsInv, FailToLoad, Loads
    <3>2. disk["config"] \in DOMAIN Settings /\ config[p] = disk["config"]
      BY <1>1, <2>2 DEF HoldsInv, FailToLoad, Loads
    <3>3. Listed(p) = Configuration.files /\ Len(documents[p]) = n
      BY <1>1, <3>1, <3>2, SourcesFacts DEF Listed, Configuration
    <3>4. /\ n + 1 \in 1..Len(Configuration.files)
          /\ disk[Configuration.files[n + 1]] \notin DOMAIN Documents
      BY <2>2, <3>2, <3>3, SourcesFacts DEF FailToLoad, Loaded, NextFile
    <3>5. ~PolicyLoads /\ ~Bare(call[p].kind)
      BY <3>2, <3>4, SourcesFacts DEF PolicyLoads, Readable, Bare
    <3> QED BY <3>5 DEF Accepted
  <2>3. CASE FailToMerge(p)
    <3>1. Loads(p) /\ Loaded(p) /\ ~Acceptable(documents[p])
      BY <2>3 DEF FailToMerge
    <3>2. ~PolicyLoads
      BY <3>1, AllSources DEF PolicyLoads
    <3>3. ~Bare(call[p].kind)
      <4>1. CASE pc[p] = "loading"
        BY <4>1 DEF ReaderInv, KindInv, Undisturbed, Bare
      <4>2. CASE pc[p] = "building"
        BY <1>1, <4>2 DEF HoldsInv, Bare
      <4> QED BY <3>1, <4>1, <4>2 DEF Loads
    <3> QED BY <3>2, <3>3 DEF Accepted
  <2>4. CASE FailToWire(p)
    <3>1. config[p] = disk["config"]
      BY <1>1, <2>4 DEF HoldsInv, FailToWire
    <3> QED BY <2>4, <3>1 DEF FailToWire, Accepted, Configuration
  <2> QED BY <2>1, <2>2, <2>3, <2>4
<1>4. Accepted(call[p].kind, call[p].env)' = Accepted(call[p].kind, call[p].env)
  BY <1>2 DEF Accepted, Bare, PolicyLoads, Policy, Sources, Readable, Configuration
<1> QED BY <1>2, <1>3, <1>4 DEF HoldsInv

LEMMA MergePolicyHolds ==
    ASSUME FilesTypeOK, ReaderInv, NEW p \in Commands, Undisturbed(p), MergePolicy(p)
    PROVE  HoldsInv(p)'
<1>1. /\ Loads(p) /\ Loaded(p) /\ HoldsInv(p) /\ call[p].kind \in {"validate", "gateway"}
      /\ disk["config"] \in DOMAIN Settings /\ documents[p] = Policy /\ PolicyLoads
      /\ config[p] = disk["config"]
  BY AllSources DEF MergePolicy, ReaderInv, Undisturbed, PolicyLoads, HoldsInv, Loads
<1>2. UNCHANGED <<disk, call, config>> /\ documents'[p] = <<>> /\ pc'[p] = AfterLoad(p)
  BY DEF MergePolicy, KeepFiles, Goto, ReaderInv, FilesTypeOK
<1>3. result'[p] = Guarded
  <2>1. result[p] = NoResult \/ result[p] = Guarded
    BY <1>1 DEF HoldsInv, Loads
  <2>2. result'[p] = [result[p] EXCEPT !.guarded = TRUE, !.policy = Merge(Policy).rules]
    BY <1>1 DEF MergePolicy, ReaderInv
  <2>3. PICK rules : rules = Merge(Policy).rules
    OBVIOUS
  <2> QED BY <2>1, <2>2, <2>3 DEF NoResult, Guarded
<1>4. Configuration' = Configuration
  BY <1>2 DEF Configuration
<1>5. /\ Sources(0)' = Sources(0) /\ Readable(0)' = Readable(0)
      /\ PolicyLoads' = PolicyLoads /\ Policy' = Policy
  BY <1>2, <1>4 DEF PolicyLoads, Policy, Sources, Readable
<1>6. Guarded' = Guarded
  BY <1>5 DEF Guarded
<1>7. (pc'[p] = "building" /\ call[p].kind = "validate") \/ pc'[p] = "wiring"
  BY <1>1, <1>2 DEF AfterLoad, Loads, ReaderInv, KindInv
<1>8. 0 \in 0..Len(Configuration.files') /\ documents'[p] = Sources(0)' /\ Readable(0)'
  BY <1>1, <1>2, <1>4, <1>5, SourcesFacts
<1> QED BY <1>1, <1>2, <1>3, <1>4, <1>5, <1>6, <1>7, <1>8 DEF HoldsInv

LEMMA WireHolds ==
    ASSUME FilesTypeOK, ReaderInv, NEW p \in Commands, Undisturbed(p), Wire(p)
    PROVE  HoldsInv(p)'
<1>1. /\ HoldsInv(p) /\ pc[p] = "wiring" /\ disk["config"] \in DOMAIN Settings
      /\ Settings[config[p]] = Configuration /\ ~Unwirable(Configuration, call[p].env)
  BY DEF Wire, ReaderInv, HoldsInv, Configuration
<1>2. UNCHANGED <<disk, call>> /\ pc'[p] = "ok"
  BY DEF Wire, KeepFiles, Goto, FilesTypeOK
<1>3. result'[p] = Wired(result[p], call[p].env)
  BY <1>1 DEF Wire, ReaderInv, Wired
<1>4. ~(PolicyLoads /\ Bare(call[p].kind))
  <2>1. Configuration.files = <<>> => Policy = <<>>
    BY <1>1, SourcesFacts DEF Policy
  <2> QED BY <2>1 DEF PolicyLoads, Acceptable, Bare
<1>5. /\ Accepted(call[p].kind, call[p].env)
      /\ result'[p] = Wired(IF Bare(call[p].kind) THEN NoResult ELSE Guarded, call[p].env)
  BY <1>1, <1>3, <1>4 DEF HoldsInv, Accepted
<1>6. Configuration' = Configuration
  BY <1>2 DEF Configuration
<1>7. Policy' = Policy /\ PolicyLoads' = PolicyLoads
  BY <1>2, <1>6 DEF PolicyLoads, Policy, Sources, Readable
<1>8. /\ Guarded' = Guarded /\ \A kind : Bare(kind)' = Bare(kind)
      /\ \A loaded, env : Wired(loaded, env)' = Wired(loaded, env)
  BY <1>6, <1>7 DEF Guarded, Bare, Wired
<1>9. Accepted(call[p].kind, call[p].env)'
  BY <1>2, <1>5, <1>6, <1>7, <1>8 DEF Accepted
<1> QED BY <1>2, <1>5, <1>8, <1>9 DEF HoldsInv

LEMMA ReaderStepHolds ==
    ASSUME FilesTypeOK, ReaderInv, NEW p \in Commands, InitStep(p) \/ ReaderStep(p),
           Undisturbed(p)'
    PROVE  HoldsInv(p)'
<1>1. CASE BeginInit(p) \/ BeginReader(p)
  <2>1. /\ pc[p] = "idle" /\ result'[p] = NoResult /\ documents'[p] = <<>>
    BY <1>1 DEF BeginInit, BeginReader, Begin, ReaderInv, readVars
  <2>2. call'[p].kind = "init" \/ pc'[p] \in {"loading", "reading"}
    BY <1>1 DEF BeginInit, BeginReader, Begin, Goto, FilesTypeOK
  <2>3. call'[p].kind \in {"validate", "gateway"} => pc'[p] = "reading"
    BY <1>1 DEF BeginInit, BeginReader, Begin, Goto, FilesTypeOK
  <2> QED BY <2>1, <2>3 DEF Undisturbed, HoldsInv
<1>2. CASE InitStep(p) /\ ~BeginInit(p)
  <2>1. pc[p] \in InitPlaces /\ call' = call
    BY <1>2 DEF InitStep, CheckAhead, RefuseAhead, Open, Fill, Recheck, RefuseLate, Interrupt,
                CutShort, InitPlaces
  <2> QED BY <2>1 DEF ReaderInv, KindInv, Undisturbed
<1>3. CASE ReaderStep(p) /\ ~BeginReader(p)
  <2>1. Undisturbed(p)
    BY <1>3, ReaderMoves DEF Undisturbed
  <2> QED BY <1>3, <2>1, ReadConfigHolds, LoadFileHolds, MergePolicyHolds, WireHolds, FailHolds
          DEF ReaderStep
<1> QED BY <1>1, <1>2, <1>3

LEMMA NextReaderInv == FilesTypeOK /\ ReaderInv /\ [Next]_vars => ReaderInv'
<1> SUFFICES ASSUME FilesTypeOK, ReaderInv, [Next]_vars PROVE ReaderInv'
  OBVIOUS
<1>1. /\ DOMAIN config = Commands /\ DOMAIN documents = Commands /\ DOMAIN result = Commands
  BY DEF ReaderInv
<1>2. ASSUME NEW q \in Commands, SameReader(q), Undisturbed(q)' => Undisturbed(q) /\ disk' = disk
      PROVE  /\ KindInv(q)' /\ (Undisturbed(q) => HoldsInv(q))'
             /\ (pc[q] = "idle" => documents[q] = <<>> /\ result[q] = NoResult)'
  <2>1. /\ KindInv(q) /\ (Undisturbed(q) => HoldsInv(q))
        /\ pc[q] = "idle" => documents[q] = <<>> /\ result[q] = NoResult
    BY DEF ReaderInv
  <2>2. KindInv(q)'
    BY <1>2, <2>1 DEF KindInv, SameReader
  <2> QED BY <1>2, <2>1, <2>2, ReaderAtRest DEF SameReader
<1>3. ASSUME NEW f \in Files, NEW content, NEW p, NEW who, Put(f, content, p, who),
             NEW q \in Commands, q # p, SameReader(q), Undisturbed(q)'
      PROVE  FALSE
  <2>1. disturbed'[q] = {} /\ call[q].kind # "none"
    BY <1>3 DEF Undisturbed, SameReader
  <2>2. pc[q] # "idle"
    BY <2>1 DEF ReaderInv, KindInv
  <2> QED BY <1>3, <2>1, <2>2, PutWitnesses
<1>4. ASSUME NEW p \in Commands, InitStep(p) \/ ReaderStep(p) PROVE ReaderInv'
  <2>1. /\ DOMAIN config' = Commands /\ DOMAIN documents' = Commands /\ DOMAIN result' = Commands
        /\ \A q \in Commands \ {p} : /\ config'[q] = config[q] /\ result'[q] = result[q]
                                     /\ documents'[q] = documents[q]
    BY <1>1, <1>4, OthersRead
  <2>2. ASSUME NEW q \in Commands, q # p
        PROVE  SameReader(q) /\ (Undisturbed(q)' => Undisturbed(q) /\ disk' = disk)
    <3>1. SameReader(q)
      BY <1>4, <2>1, <2>2, OthersStandStill DEF SameCommand, SameReader
    <3>2. CASE SameFiles(q)
      BY <3>1, <3>2 DEF SameFiles, SameReader, Undisturbed
    <3>3. CASE \E f \in Files : \E content : Put(f, content, p, "init")
      BY <1>3, <2>2, <3>1, <3>3
    <3> QED BY <1>4, <2>2, <3>2, <3>3, OthersStandStill
  <2>3. KindInv(p)' /\ (Undisturbed(p) => HoldsInv(p))'
    BY <1>4, KindStep, ReaderStepHolds DEF ReaderInv
  <2>4. pc'[p] # "idle"
    BY <1>4, ReaderMoves
       DEF InitStep, BeginInit, BeginReader, Begin, CheckAhead, RefuseAhead, Open, Fill, Recheck,
           RefuseLate, Interrupt, CutShort, Goto, FilesTypeOK
  <2>5. ASSUME NEW q \in Commands
        PROVE  /\ KindInv(q)' /\ (Undisturbed(q) => HoldsInv(q))'
               /\ (pc[q] = "idle" => documents[q] = <<>> /\ result[q] = NoResult)'
    BY <1>2, <2>2, <2>3, <2>4, <2>5
  <2> QED BY <2>1, <2>5 DEF ReaderInv
<1>5. ASSUME NEW f \in Files, Edit(f) PROVE ReaderInv'
  <2>1. UNCHANGED <<pc, call, config, documents, result>>
    BY <1>5 DEF Edit, readVars
  <2>2. PICK content : Put(f, content, "operator", "operator")
    BY <1>5, EditChanges
  <2>3. PICK p : p = "operator"
    OBVIOUS
  <2>4. Put(f, content, p, p) /\ p \notin Commands
    BY <2>2, <2>3, FilesAssumption
  <2>5. ASSUME NEW q \in Commands PROVE SameReader(q) /\ ~Undisturbed(q)'
    <3>1. SameReader(q)
      BY <2>1 DEF SameReader
    <3> QED BY <1>3, <2>4, <3>1
  <2> QED BY <1>1, <1>2, <2>1, <2>5 DEF ReaderInv
<1>6. CASE UNCHANGED vars
  <2>1. \A q \in Commands : SameReader(q) /\ (Undisturbed(q)' => Undisturbed(q) /\ disk' = disk)
    BY <1>6 DEF vars, initVars, readVars, SameReader, Undisturbed
  <2> QED BY <1>1, <1>2, <1>6, <2>1 DEF ReaderInv, vars, readVars
<1> QED BY <1>4, <1>5, <1>6 DEF Next

LEMMA ReaderInvHolds == Spec => []ReaderInv
BY InitReaderInv, NextReaderInv, ProjectInvHolds, PTL DEF Spec
LEMMA ReadersAgree == FilesTypeOK /\ ReaderInv => ValidationIsExact
<1> SUFFICES ASSUME FilesTypeOK, ReaderInv, NEW v \in Commands, NEW g \in Commands,
                    call[v].kind = "validate", call[g].kind = "gateway",
                    pc[v] \in Over, pc[g] \in Over,
                    disturbed[v] = {}, disturbed[g] = {}, call[v].env = call[g].env
             PROVE  /\ pc[v] = "ok" <=> pc[g] = "ok" /\ result[g].guarded
                    /\ pc[v] = "ok" => result[v] = result[g]
  BY DEF ValidationIsExact
<1>1. HoldsInv(v) /\ HoldsInv(g) /\ pc[v] \in {"ok", "error"} /\ pc[g] \in {"ok", "error"}
  BY DEF ReaderInv, KindInv, Undisturbed, Over, InitPlaces
<1>2. ~Bare("validate")
  BY DEF Bare
<1>3. disk["config"] \in DOMAIN Settings /\ Bare("gateway") => ~PolicyLoads
  BY SourcesFacts DEF PolicyLoads, Policy, Acceptable, Bare
<1>4. /\ pc[v] = "ok" <=> Accepted("validate", call[v].env)
      /\ pc[g] = "ok" <=> Accepted("gateway", call[v].env)
  BY <1>1 DEF HoldsInv
<1>5. /\ pc[v] = "ok" => result[v] = Wired(Guarded, call[v].env)
      /\ pc[g] = "ok" => result[g] = Wired(IF Bare("gateway") THEN NoResult ELSE Guarded,
                                            call[v].env)
  BY <1>1, <1>2 DEF HoldsInv
<1>6. ~Wired(NoResult, call[v].env).guarded /\ Wired(Guarded, call[v].env).guarded
  BY DEF Wired, NoResult, Guarded
<1> QED BY <1>2, <1>3, <1>4, <1>5, <1>6 DEF Accepted

(* `validate-config` says yes to exactly the projects that `gateway` serves*)
(* with a policy, and tells the wiring the gateway will have: both load    *)
(* the configuration, the policy and the wiring through the same           *)
(* functions, and what either holds at any time follows from the files.    *)
THEOREM ValidationTellsTheGateway == Spec => []ValidationIsExact
BY ReadersAgree, ReaderInvHolds, ProjectInvHolds, PTL

-----------------------------------------------------------------------------
(* A document that lets ids collide unseen holds this one.                 *)
Collides(id) ==
    \E name \in DOMAIN Documents :
        /\ id \in Range(Documents[name].rules)
        /\ Documents[name].sources # <<>> /\ Documents[name].sources[1] = Blank

UniqueOrBlank(policy) ==
    \A j, k \in DOMAIN policy : j < k /\ policy[j] = policy[k] => Collides(policy[j])

(* What holds of the documents merged so far.                              *)
MergedInv(source, merged) ==
    /\ merged = [seen |-> merged.seen, rules |-> merged.rules, duplicate |-> merged.duplicate]
    /\ merged.rules \in Seq(Nat)
    /\ \A k \in DOMAIN merged.rules : merged.rules[k] \in DOMAIN merged.seen
    /\ \A id \in DOMAIN merged.seen : merged.seen[id] = Blank => Collides(id)
    /\ UniqueOrBlank(merged.rules)

AddDocument(source, merged, document) ==
    FoldLeft(LAMBDA m, id : AddRule(document.sources[1], m, id), merged, document.rules)

InDocument == INSTANCE FoldLemmas WITH Step <- AddRule, Holds <- MergedInv
OfDocuments == INSTANCE FoldLemmas WITH Step <- AddDocument, Holds <- MergedInv

LEMMA AddingARule ==
    ASSUME NEW source, NEW merged, MergedInv(source, merged), NEW id \in Nat,
           source = Blank => Collides(id)
    PROVE  MergedInv(source, AddRule(source, merged, id))
<1>1. CASE merged.duplicate \/ (id \in DOMAIN merged.seen /\ merged.seen[id] # Blank)
  <2>1. AddRule(source, merged, id) = [merged EXCEPT !.duplicate = TRUE]
    BY <1>1 DEF AddRule
  <2>2. PICK m : m = [merged EXCEPT !.duplicate = TRUE]
    OBVIOUS
  <2>3. /\ m = [seen |-> merged.seen, rules |-> merged.rules, duplicate |-> TRUE]
        /\ m.rules = merged.rules /\ m.seen = merged.seen
    BY <2>2 DEF MergedInv
  <2> QED BY <2>1, <2>2, <2>3 DEF MergedInv
<1>2. CASE ~(merged.duplicate \/ (id \in DOMAIN merged.seen /\ merged.seen[id] # Blank))
  <2>1. PICK sources : sources = Learn(merged.seen, id, source)
    OBVIOUS
  <2>2. PICK list : list = Append(merged.rules, id)
    OBVIOUS
  <2>3. PICK m : m = [merged EXCEPT !.seen = sources, !.rules = list]
    OBVIOUS
  <2>4. AddRule(source, merged, id) = m
    BY <1>2, <2>1, <2>2, <2>3 DEF AddRule
  <2>5. /\ m = [seen |-> sources, rules |-> list, duplicate |-> merged.duplicate]
        /\ m.rules = list /\ m.seen = sources
    BY <2>3 DEF MergedInv
  <2>6. /\ DOMAIN sources = DOMAIN merged.seen \cup {id} /\ sources[id] = source
        /\ \A k \in DOMAIN merged.seen : k # id => sources[k] = merged.seen[k]
    BY <2>1 DEF Learn
  <2>0. /\ merged.rules \in Seq(Nat)
        /\ \A k \in DOMAIN merged.rules : merged.rules[k] \in DOMAIN merged.seen
    BY Zenon DEF MergedInv
  <2>7. PICK n \in Nat : n = Len(merged.rules) /\ DOMAIN merged.rules = 1..n
    BY <2>0
  <2>8. /\ list \in Seq(Nat) /\ DOMAIN list = 1..(n + 1) /\ list[n + 1] = id
        /\ \A k \in 1..n : list[k] = merged.rules[k]
    BY <2>2, <2>7, AppendProperties DEF MergedInv
  <2>9. \A k \in DOMAIN list : list[k] \in DOMAIN sources
    BY <2>6, <2>7, <2>8 DEF MergedInv
  <2>10. \A k \in DOMAIN sources : sources[k] = Blank => Collides(k)
    BY <2>6 DEF MergedInv
  <2>11. id \in DOMAIN merged.seen => Collides(id)
    BY <1>2 DEF MergedInv
  <2>12. \A j, k \in DOMAIN list : j < k /\ list[j] = list[k] => Collides(list[j])
    <3> TAKE j, k \in DOMAIN list
    <3> HAVE j < k /\ list[j] = list[k]
    <3>1. CASE k = n + 1
      <4>1. j \in 1..n /\ list[j] = id
        BY <2>8, <3>1
      <4>2. id \in DOMAIN merged.seen
        BY <2>7, <2>8, <4>1 DEF MergedInv
      <4> QED BY <2>11, <4>1, <4>2
    <3>2. CASE k # n + 1
      <4>1. j \in 1..n /\ k \in 1..n
        BY <2>8, <3>2
      <4> QED BY <2>7, <2>8, <4>1 DEF MergedInv, UniqueOrBlank
    <3> QED BY <3>1, <3>2
  <2>13. UniqueOrBlank(list)
    BY <2>12 DEF UniqueOrBlank
  <2> QED BY <2>4, <2>5, <2>8, <2>9, <2>10, <2>13 DEF MergedInv
<1> QED BY <1>1, <1>2

(* Documents as a command has read them.                                   *)
Read == {Sourced(path, Documents[name]) : path \in STRING \ {Blank}, name \in DOMAIN Documents}

LEMMA ReadDocument ==
    ASSUME NEW document \in Read
    PROVE  /\ document.rules \in Seq(Nat)
           /\ \A k \in 1..Len(document.rules) :
                 document.sources[1] = Blank => Collides(document.rules[k])
<1>1. PICK path \in STRING \ {Blank}, name \in DOMAIN Documents :
         document = Sourced(path, Documents[name])
  BY DEF Read
<1>2. Documents[name] \in [sources : Seq(STRING), rules : Seq(Nat)]
  BY SettingsAssumption
<1>3. PICK known : known = Documents[name]
  OBVIOUS
<1>4. /\ document.rules = known.rules
      /\ document.sources = IF known.sources = <<>> THEN <<path>> ELSE known.sources
  BY <1>1, <1>2, <1>3 DEF Sourced
<1>5. document.rules \in Seq(Nat)
  BY <1>2, <1>3, <1>4
<1>6. ASSUME NEW k \in 1..Len(document.rules), document.sources[1] = Blank
      PROVE  Collides(document.rules[k])
  <2>1. known.sources # <<>> /\ known.sources[1] = Blank
    BY <1>1, <1>4, <1>6
  <2>2. document.rules[k] \in Range(known.rules)
    BY <1>4, <1>5 DEF Range
  <2> QED BY <1>3, <2>1, <2>2 DEF Collides
<1> QED BY <1>5, <1>6

LEMMA AddingADocument ==
    ASSUME NEW c, NEW merged, MergedInv(c, merged), NEW document \in Read
    PROVE  MergedInv(c, AddDocument(c, merged, document))
<1>1. AddDocument(c, merged, document) =
         InDocument!Folded(document.sources[1], merged, document.rules)
  BY DEF AddDocument, InDocument!Folded, FoldLeft, MapThenFoldSet, Max,
         InDocument!FoldLeft, InDocument!MapThenFoldSet, InDocument!Max
<1>2. PICK source, ids : source = document.sources[1] /\ ids = document.rules
  OBVIOUS
<1>3. ids \in Seq(Nat) /\ \A k \in 1..Len(ids) : ids[k] \in Nat /\ (source = Blank => Collides(ids[k]))
  BY <1>2, ReadDocument
<1>4. MergedInv(source, merged)
  BY DEF MergedInv
<1>5. \A k \in 1..Len(ids) : \A m : MergedInv(source, m) => MergedInv(source, AddRule(source, m, ids[k]))
  BY <1>3, AddingARule
<1>6. ids \in Seq(Nat)
  BY <1>3
<1>7. MergedInv(source, InDocument!Folded(source, merged, ids))
  BY ONLY <1>4, <1>5, <1>6, InDocument!FoldHolds
<1> QED BY <1>1, <1>2, <1>7 DEF MergedInv

LEMMA MergeIsUnique ==
    ASSUME NEW docs \in Seq(Read)
    PROVE  UniqueOrBlank(Merge(docs).rules)
<1>1. PICK c : TRUE
  OBVIOUS
<1>2. Merge(docs) = OfDocuments!Folded(c, Nothing, docs)
  BY DEF Merge, AddDocument, OfDocuments!Folded, FoldLeft, MapThenFoldSet, Max,
         OfDocuments!FoldLeft, OfDocuments!MapThenFoldSet, OfDocuments!Max
<1>3. MergedInv(c, Nothing)
  BY DEF MergedInv, Nothing, UniqueOrBlank
<1>4. \A k \in 1..Len(docs) : docs[k] \in Read
  OBVIOUS
<1>5. \A k \in 1..Len(docs) : \A m : MergedInv(c, m) => MergedInv(c, AddDocument(c, m, docs[k]))
  BY <1>4, AddingADocument
<1>6. MergedInv(c, OfDocuments!Folded(c, Nothing, docs))
  BY <1>3, <1>5, OfDocuments!FoldHolds
<1> QED BY <1>2, <1>6 DEF MergedInv

-----------------------------------------------------------------------------
(* The documents and policies that the commands hold.                      *)

IsResult(r) ==
    r = [guarded |-> r.guarded, policy |-> r.policy, provider |-> r.provider,
         approval |-> r.approval, audit |-> r.audit]

PolicyInv(p) ==
    /\ documents[p] \in Seq(Read)
    /\ IsResult(result[p]) /\ UniqueOrBlank(result[p].policy)
    /\ pc[p] \in {"idle", "reading"} => documents[p] = <<>>
    /\ pc[p] \in {"loading", "building", "wiring"} =>
          /\ call[p].kind # "check" => config[p] \in DOMAIN Settings
          /\ Len(documents[p]) <= Len(Listed(p))

LEMMA ListedPaths ==
    ASSUME NEW p \in Commands, call[p].kind # "check" => config[p] \in DOMAIN Settings
    PROVE  /\ Listed(p) \in Seq(STRING) /\ Len(Listed(p)) \in Nat
           /\ \A k \in 1..Len(Listed(p)) : Listed(p)[k] \in STRING \ {Blank}
<1>1. Listed(p) \in Seq(STRING) /\ Blank \notin Range(Listed(p))
  <2>1. CASE call[p].kind = "check"
    <3>1. Blank \notin Range(Project)
      BY SettingsAssumption, FilesAssumption DEF RuleFiles, Range
    <3> QED BY <2>1, <3>1, FilesAssumption DEF Listed
  <2>2. CASE call[p].kind # "check"
    BY <2>2, SettingsAssumption DEF Listed
  <2> QED BY <2>1, <2>2
<1> QED BY <1>1 DEF Range

LEMMA NoResultFacts == IsResult(NoResult) /\ UniqueOrBlank(NoResult.policy)
<1>1. NoResult.policy = <<>>
  BY DEF NoResult
<1>2. UniqueOrBlank(<<>>)
  BY DEF UniqueOrBlank
<1> QED BY <1>1, <1>2 DEF NoResult, IsResult

LEMMA InitPolicyInv == Init => \A p \in Commands : PolicyInv(p)
<1> SUFFICES ASSUME Init, NEW p \in Commands PROVE PolicyInv(p)
  OBVIOUS
<1>1. documents[p] = <<>> /\ result[p] = NoResult /\ pc[p] = "idle"
  BY DEF Init
<1> QED BY <1>1, NoResultFacts DEF PolicyInv

LEMMA PolicyAtRest ==
    ASSUME NEW p \in Commands, PolicyInv(p), SameReader(p)
    PROVE  PolicyInv(p)'
<1>1. Listed(p)' = Listed(p)
  BY DEF SameReader, Listed
<1> QED BY <1>1 DEF PolicyInv, SameReader

LEMMA LoadFileKeepsPolicy ==
    ASSUME FilesTypeOK, ReaderInv, NEW p \in Commands, PolicyInv(p), LoadFile(p)
    PROVE  PolicyInv(p)'
<1>1. /\ pc[p] \in {"loading", "building"} /\ documents[p] \in Seq(Read)
      /\ Len(documents[p]) # Len(Listed(p)) /\ disk[NextFile(p)] \in DOMAIN Documents
      /\ Len(documents[p]) <= Len(Listed(p))
  BY DEF LoadFile, Loads, Loaded, PolicyInv
<1>2. Len(Listed(p)) \in Nat /\ \A k \in 1..Len(Listed(p)) : Listed(p)[k] \in STRING \ {Blank}
  BY <1>1, ListedPaths DEF PolicyInv
<1>3. Len(documents[p]) + 1 \in 1..Len(Listed(p))
  BY <1>1, <1>2
<1>4. PICK document : document = Sourced(NextFile(p), Documents[disk[NextFile(p)]])
  OBVIOUS
<1>5. document \in Read
  BY <1>1, <1>2, <1>3, <1>4 DEF NextFile, Read
<1>6. documents'[p] = Append(documents[p], document)
  BY <1>4 DEF LoadFile, ReaderInv
<1>7. documents'[p] \in Seq(Read) /\ Len(documents'[p]) = Len(documents[p]) + 1
  BY <1>1, <1>5, <1>6, AppendProperties
<1>8. UNCHANGED <<pc, call, config, result>>
  BY DEF LoadFile
<1>9. Listed(p)' = Listed(p)
  BY <1>8 DEF Listed
<1> QED BY <1>1, <1>2, <1>3, <1>7, <1>8, <1>9 DEF PolicyInv

LEMMA MergeKeepsPolicy ==
    ASSUME FilesTypeOK, ReaderInv, NEW p \in Commands, PolicyInv(p), MergePolicy(p)
    PROVE  PolicyInv(p)'
<1>1. PICK merged : merged = Merge(documents[p]).rules /\ UniqueOrBlank(merged)
  BY MergeIsUnique DEF PolicyInv
<1>2. PICK r : r = result[p] /\ IsResult(r)
  BY DEF PolicyInv
<1>3. PICK s : s = [r EXCEPT !.guarded = TRUE, !.policy = merged]
  OBVIOUS
<1>4. result'[p] = s
  BY <1>1, <1>2, <1>3 DEF MergePolicy, ReaderInv
<1>5. s = [guarded |-> TRUE, policy |-> merged, provider |-> r.provider,
           approval |-> r.approval, audit |-> r.audit]
  BY <1>2, <1>3 DEF IsResult
<1>6. IsResult(result'[p]) /\ UniqueOrBlank(result'[p].policy)
  <2>1. IsResult(s) /\ s.policy = merged
    BY <1>5 DEF IsResult
  <2> QED BY <1>1, <1>4, <2>1
<1>7. UNCHANGED <<call, config>> /\ documents'[p] = <<>> /\ pc[p] \in {"loading", "building"}
      /\ pc'[p] \in {"building", "wiring", "ok"}
  BY DEF MergePolicy, Goto, AfterLoad, Loads, ReaderInv, FilesTypeOK
<1>8. Listed(p)' = Listed(p)
  BY <1>7 DEF Listed
<1>9. Len(Listed(p)) \in Nat
  BY <1>7, ListedPaths DEF PolicyInv
<1> QED BY <1>6, <1>7, <1>8, <1>9 DEF PolicyInv

LEMMA WireKeepsPolicy ==
    ASSUME FilesTypeOK, ReaderInv, NEW p \in Commands, PolicyInv(p), Wire(p)
    PROVE  PolicyInv(p)'
<1>1. PICK r : r = result[p] /\ IsResult(r) /\ UniqueOrBlank(r.policy)
  BY DEF PolicyInv
<1>2. PICK a, b, c : result'[p] = [r EXCEPT !.provider = a, !.audit = b, !.approval = c]
  BY <1>1 DEF Wire, ReaderInv
<1>3. PICK s : s = [r EXCEPT !.provider = a, !.audit = b, !.approval = c]
  OBVIOUS
<1>4. s = [guarded |-> r.guarded, policy |-> r.policy, provider |-> a, approval |-> c,
           audit |-> b]
  BY <1>1, <1>3 DEF IsResult
<1>5. IsResult(result'[p]) /\ UniqueOrBlank(result'[p].policy)
  <2>1. IsResult(s) /\ s.policy = r.policy
    BY <1>4 DEF IsResult
  <2> QED BY <1>1, <1>2, <1>3, <2>1
<1>6. documents' = documents /\ pc'[p] = "ok"
  BY DEF Wire, Goto, FilesTypeOK
<1> QED BY <1>5, <1>6 DEF PolicyInv

LEMMA FailKeepsPolicy ==
    ASSUME FilesTypeOK, ReaderInv, NEW p \in Commands, PolicyInv(p), Fail(p)
    PROVE  PolicyInv(p)'
<1>1. documents'[p] = <<>> /\ result'[p] = NoResult /\ pc'[p] = "error"
  BY DEF Fail, Goto, ReaderInv, FilesTypeOK
<1> QED BY <1>1, NoResultFacts DEF PolicyInv

LEMMA QuietKeepsPolicy ==
    ASSUME FilesTypeOK, ReaderInv, NEW p \in Commands, PolicyInv(p),
           InitStep(p) \/ BeginReader(p) \/ ReadConfig(p)
    PROVE  PolicyInv(p)'
<1>1. CASE InitStep(p)
  <2>1. /\ UNCHANGED <<documents, result>>
        /\ pc'[p] \notin {"idle", "reading", "loading", "building", "wiring"}
    BY <1>1 DEF InitStep, BeginInit, Begin, CheckAhead, RefuseAhead, Open, Fill, Recheck,
                RefuseLate, Interrupt, CutShort, readVars, Goto, FilesTypeOK
  <2> QED BY <2>1 DEF PolicyInv
<1>2. CASE BeginReader(p)
  <2>1. /\ UNCHANGED <<documents, result>> /\ documents[p] = <<>>
        /\ pc'[p] = "reading" \/ (pc'[p] = "loading" /\ call'[p].kind = "check")
    BY <1>2 DEF BeginReader, Begin, readVars, Goto, FilesTypeOK, PolicyInv
  <2>2. call'[p].kind = "check" => Len(Listed(p)') \in Nat
    BY ProjectLength DEF Listed
  <2> QED BY <2>1, <2>2 DEF PolicyInv
<1>3. CASE ReadConfig(p)
  <2>1. /\ UNCHANGED <<documents, result, call>> /\ documents[p] = <<>>
        /\ config'[p] \in DOMAIN Settings /\ pc'[p] \in {"loading", "building", "wiring"}
        /\ call[p].kind # "check"
    BY <1>3 DEF ReadConfig, Goto, FilesTypeOK, PolicyInv, ReaderInv, KindInv
  <2>2. Len(Listed(p)') \in Nat
    BY <2>1, SettingsAssumption DEF Listed
  <2> QED BY <2>1, <2>2 DEF PolicyInv
<1> QED BY <1>1, <1>2, <1>3

LEMMA NextPolicyInv ==
    ASSUME FilesTypeOK, ReaderInv, \A p \in Commands : PolicyInv(p), [Next]_vars,
           NEW q \in Commands
    PROVE  PolicyInv(q)'
<1>1. ASSUME NEW p \in Commands, InitStep(p) \/ ReaderStep(p)
      PROVE  PolicyInv(q)'
  <2>1. CASE p = q
    BY <1>1, <2>1, LoadFileKeepsPolicy, MergeKeepsPolicy, WireKeepsPolicy, FailKeepsPolicy,
       QuietKeepsPolicy
       DEF ReaderStep, FailToReadConfig, FailToLoad, FailToMerge, FailToWire
  <2>2. CASE p # q
    <3>1. SameReader(q)
      BY <1>1, <2>2, OthersStandStill, OthersRead DEF SameCommand, SameReader, ReaderInv
    <3> QED BY <3>1, PolicyAtRest
  <2> QED BY <2>1, <2>2
<1>2. CASE UNCHANGED vars \/ \E f \in Files : Edit(f)
  <2>1. SameReader(q)
    BY <1>2 DEF vars, Edit, readVars, SameReader
  <2> QED BY <2>1, PolicyAtRest
<1> QED BY <1>1, <1>2 DEF Next

(* No command gets through with a rule id that occurs twice, whoever edits *)
(* the files meanwhile: load_policy_files looks at every rule of every     *)
(* document it merges, and only a document whose first source is empty     *)
(* hides the ids it brings.                                                *)
THEOREM LoadedPolicyIsUnique == Spec => []LoadedIdsAreUnique
<1> DEFINE PoliciesInv == \A p \in Commands : PolicyInv(p)
<1>1. Init => PoliciesInv
  BY InitPolicyInv
<1>2. FilesTypeOK /\ ReaderInv /\ PoliciesInv /\ [Next]_vars => PoliciesInv'
  BY NextPolicyInv
<1>3. PoliciesInv => LoadedIdsAreUnique
  BY DEF PolicyInv, LoadedIdsAreUnique, UniqueOrBlank, Collides
<1> HIDE DEF PoliciesInv
<1> QED BY <1>1, <1>2, <1>3, ProjectInvHolds, ReaderInvHolds, PTL DEF Spec

-----------------------------------------------------------------------------
(* What racing inits leave, while nobody else touches the files.           *)

(* A command has begun in an empty directory.                              *)
FromScratch == \E i \in Commands : pc[i] # "idle" /\ since[i] = {}

Made(f) == \E i \in Commands : f \in written[i]

(* A file that an init is about to fill.                                   *)
HalfMade(f) == \E i \in Commands : pc[i] = "filling" /\ Target(at[i]) = f

WrittenInv(i) ==
    /\ pc[i] = "refused" => written[i] \subseteq WrittenUpTo(at[i] - 1)
    /\ pc[i] = "done" /\ call[i].rules => written[i] = Files

UneditedInv(i) ==
    /\ \A f \in written[i] : Exists(f)
    /\ pc[i] = "filling" => i \in linked
    /\ pc[i] = "refused" => Exists(Target(at[i]))

Complete(f) ==
    Exists(f) => /\ Made(f)
                 /\ \/ disk[f] = Starter[f]
                    \/ HalfMade(f)
                    \/ \E i \in Commands : pc[i] = "interrupted"

RaceInv ==
    /\ disk = [f \in Files |-> disk[f]]
    /\ \A i \in Commands : WrittenInv(i) /\ (edits = 0 => UneditedInv(i))
    /\ edits \in Nat
    /\ edits = 0 /\ FromScratch => \A f \in Files : Complete(f)

LEMMA InitRaceInv == Init => RaceInv
<1> SUFFICES ASSUME Init PROVE RaceInv
  OBVIOUS
<1>1. disk \in [Files -> STRING] /\ edits = 0
  BY FilesAssumption DEF Init
<1>2. \A i \in Commands : pc[i] = "idle" /\ written[i] = {}
  BY DEF Init
<1> QED BY <1>1, <1>2 DEF RaceInv, WrittenInv, UneditedInv, FromScratch

(* What a step of a command leaves to the rest: the files that are there   *)
(* stay there, and the others stay linked.                                 *)
Onwards(p) ==
    /\ \A f \in Files : Exists(f) => Exists(f)'
    /\ \A q \in Commands \ {p} : SameCommand(q) /\ (q \in linked => q \in linked')
    /\ edits' = edits
    /\ disk' = [f \in Files |-> disk'[f]]

LEMMA PutKeeps ==
    ASSUME FilesTypeOK, NEW f \in Files, NEW content, content # "absent", NEW p, NEW who,
           Put(f, content, p, who), disk = [g \in Files |-> disk[g]]
    PROVE  /\ \A g \in Files : Exists(g) => Exists(g)'
           /\ disk' = [g \in Files |-> disk'[g]]
           /\ since' = since
<1>1. disk'[f] = content /\ \A g \in Files \ {f} : disk'[g] = disk[g]
  BY PutWrites
<1>2. disk' = [g \in Files |-> disk'[g]]
  BY DEF Put
<1>3. since' = since
  <2>1. since' = [q \in Commands |-> since[q]]
    BY DEF Put
  <2> QED BY <2>1 DEF FilesTypeOK
<1> QED BY <1>1, <1>2, <1>3 DEF Exists

LEMMA CommandGoesOn ==
    ASSUME FilesTypeOK, RaceInv, NEW p \in Commands, InitStep(p) \/ ReaderStep(p)
    PROVE  Onwards(p)
<1>1. \A q \in Commands \ {p} : SameCommand(q)
  BY OthersStandStill
<1>2. edits' = edits
  BY DEF InitStep, ReaderStep, BeginInit, CheckAhead, RefuseAhead, Open, Fill, Recheck,
         RefuseLate, Interrupt, CutShort, BeginReader, Begin, ReadConfig, FailToReadConfig, LoadFile,
         FailToLoad, MergePolicy, FailToMerge, Wire, FailToWire, Fail
<1>3. \A q \in Commands \ {p} : q \in linked => q \in linked'
  BY ReaderMoves
     DEF InitStep, ReaderStep, BeginInit, CheckAhead, RefuseAhead, Open, Fill, Recheck,
         RefuseLate, Interrupt, CutShort, BeginReader, Begin, initVars
<1>4. Target(at[p]) \in Files
  BY TargetType DEF FilesTypeOK
<1>5. disk = [f \in Files |-> disk[f]]
  BY DEF RaceInv
<1>6. CASE Open(p)
  <2>1. PICK content : content = "empty"
    OBVIOUS
  <2>2. Put(Target(at[p]), content, p, "init") /\ content # "absent"
    BY <1>6, <2>1 DEF Open
  <2> QED BY <1>1, <1>2, <1>3, <1>4, <1>5, <2>2, PutKeeps DEF Onwards
<1>7. CASE Fill(p) /\ p \in linked
  <2>1. PICK content : content = Starter[Target(at[p])]
    OBVIOUS
  <2>2. Put(Target(at[p]), content, p, "init") /\ content # "absent"
    BY <1>4, <1>7, <2>1, FilesAssumption DEF Fill
  <2> QED BY <1>1, <1>2, <1>3, <1>4, <1>5, <2>2, PutKeeps DEF Onwards
<1>8. CASE CutShort(p)
  <2>1. PICK content \in Partial : Put(Target(at[p]), content, p, "init")
    BY <1>8 DEF CutShort
  <2>2. content # "absent"
    BY FilesAssumption
  <2> QED BY <1>1, <1>2, <1>3, <1>4, <1>5, <2>1, <2>2, PutKeeps DEF Onwards
<1>9. CASE ~Open(p) /\ ~CutShort(p) /\ ~(Fill(p) /\ p \in linked)
  <2>1. disk' = disk
    BY <1>9, ReaderMoves
       DEF InitStep, BeginInit, CheckAhead, RefuseAhead, Fill, Recheck, RefuseLate, Interrupt,
           BeginReader, Begin, KeepFiles
  <2> QED BY <1>1, <1>2, <1>3, <1>5, <2>1 DEF Onwards, Exists
<1> QED BY <1>6, <1>7, <1>8, <1>9

LEMMA OthersRaceOn ==
    ASSUME FilesTypeOK, RaceInv, NEW p \in Commands, Onwards(p), NEW q \in Commands, q # p
    PROVE  WrittenInv(q)' /\ (edits = 0 => UneditedInv(q))'
<1>1. SameCommand(q) /\ (q \in linked => q \in linked') /\ edits' = edits
  BY DEF Onwards
<1>2. WrittenInv(q) /\ (edits = 0 => UneditedInv(q))
  BY DEF RaceInv
<1>3. WrittenInv(q)'
  BY <1>1, <1>2 DEF WrittenInv, SameCommand, WrittenUpTo
<1>4. ASSUME edits = 0 PROVE UneditedInv(q)'
  <2>1. Target(at[q]) \in Files /\ written[q] \subseteq Files
    BY TargetType DEF FilesTypeOK
  <2>2. \A f \in Files : Exists(f) => Exists(f)'
    BY DEF Onwards
  <2>3. \A f \in written[q] : Exists(f)'
    BY <1>2, <1>4, <2>1, <2>2 DEF UneditedInv
  <2>4. pc[q] = "refused" => Exists(Target(at[q]))'
    <3>1. Target(at[q])' = Target(at[q])
      BY <1>1 DEF SameCommand, Target
    <3> QED BY <1>2, <1>4, <2>1, <2>2, <3>1 DEF UneditedInv, Exists
  <2> QED BY <1>1, <1>2, <1>4, <2>3, <2>4 DEF UneditedInv, SameCommand
<1> QED BY <1>1, <1>3, <1>4

(* The init's own part of the invariant.                                   *)
LEMMA AllIsFiles == WrittenUpTo(Len(Project)) = Files
BY ProjectLength DEF WrittenUpTo, Target, Files, RuleFiles

LEMMA OwnWrittenInv ==
    ASSUME FilesTypeOK, RaceInv, NEW p \in Commands, CommandInv(p), InitStep(p) \/ ReaderStep(p)
    PROVE  WrittenInv(p)'
<1>1. CASE BeginInit(p) \/ BeginReader(p)
  BY <1>1 DEF BeginInit, BeginReader, Begin, Goto, WrittenInv, FilesTypeOK
<1>2. CASE ReaderStep(p) /\ ~BeginReader(p)
  BY <1>2, ReaderMoves DEF WrittenInv
<1>3. CASE Fill(p)
  <2>1. CASE call[p].rules /\ at[p] < Len(Project)
    BY <1>3, <2>1 DEF Fill, Goto, WrittenInv, FilesTypeOK
  <2>2. CASE call[p].rules /\ at[p] = Len(Project)
    <3>1. written'[p] = Files
      BY <1>3, <2>2, AllIsFiles DEF Fill, CommandInv, InitInv
    <3>2. pc'[p] = "done"
      BY <1>3, <2>2, ProjectLength DEF Fill, Goto, FilesTypeOK
    <3> QED BY <3>1, <3>2 DEF WrittenInv
  <2>3. CASE ~call[p].rules
    BY <1>3, <2>3 DEF Fill, Goto, WrittenInv, FilesTypeOK
  <2> QED BY <2>1, <2>2, <2>3, ProjectLength DEF FilesTypeOK
<1>4. CASE RefuseAhead(p) \/ RefuseLate(p)
  <2>1. written[p] \subseteq WrittenUpTo(at[p] - 1) /\ UNCHANGED <<written, at>>
    BY <1>4 DEF RefuseAhead, RefuseLate, initVars, CommandInv, InitInv
  <2>2. pc'[p] = "refused"
    BY <1>4 DEF RefuseAhead, RefuseLate, Goto, FilesTypeOK
  <2> QED BY <2>1, <2>2 DEF WrittenInv, WrittenUpTo
<1>5. CASE CheckAhead(p) \/ Open(p) \/ Recheck(p) \/ Interrupt(p) \/ CutShort(p)
  BY <1>5 DEF CheckAhead, Open, Recheck, Interrupt, CutShort, Goto, WrittenInv, FilesTypeOK
<1> QED BY <1>1, <1>2, <1>3, <1>4, <1>5 DEF InitStep

LEMMA OwnUneditedInv ==
    ASSUME FilesTypeOK, RaceInv, NEW p \in Commands, CommandInv(p), edits = 0,
           InitStep(p) \/ ReaderStep(p)
    PROVE  UneditedInv(p)'
<1>1. UneditedInv(p) /\ Onwards(p) /\ written[p] \subseteq Files /\ Target(at[p]) \in Files
  BY CommandGoesOn, TargetType DEF RaceInv, FilesTypeOK
<1>2. \A f \in written[p] : Exists(f)'
  BY <1>1 DEF UneditedInv, Onwards
<1>3. CASE BeginInit(p) \/ BeginReader(p)
  <2>1. written' = written /\ pc'[p] \notin {"filling", "refused"}
    BY <1>3 DEF BeginInit, BeginReader, Begin, Goto, initVars, FilesTypeOK
  <2> QED BY <1>2, <2>1 DEF UneditedInv
<1>4. CASE ReaderStep(p) /\ ~BeginReader(p)
  <2>1. written' = written /\ pc'[p] \notin {"filling", "refused"}
    BY <1>4, ReaderMoves
  <2> QED BY <1>2, <2>1 DEF UneditedInv
<1>5. CASE Open(p)
  <2>1. /\ pc'[p] = "filling" /\ p \in linked' /\ written'[p] = written[p] \cup {Target(at[p])}
    BY <1>5 DEF Open, Goto, FilesTypeOK
  <2>2. Exists(Target(at[p]))'
    <3>1. Put(Target(at[p]), "empty", p, "init")
      BY <1>5 DEF Open
    <3>2. disk'[Target(at[p])] = "empty" /\ UNCHANGED at
      BY <1>1, <1>5, <3>1, PutWrites DEF Open
    <3>3. Target(at[p])' = Target(at[p])
      BY <3>2 DEF Target
    <3> QED BY <3>2, <3>3 DEF Exists
  <2>3. Target(at[p])' = Target(at[p])
    BY <1>5 DEF Open, Target
  <2>4. \A f \in written'[p] : Exists(f)'
    BY <1>2, <2>1, <2>2, <2>3 DEF Exists
  <2> QED BY <2>1, <2>4 DEF UneditedInv
<1>6. CASE RefuseAhead(p) \/ RefuseLate(p)
  <2>1. Exists(Target(at[p]))' /\ written' = written /\ pc'[p] = "refused"
    BY <1>6 DEF RefuseAhead, RefuseLate, KeepFiles, initVars, Goto, FilesTypeOK, Exists, Target
  <2> QED BY <1>2, <2>1 DEF UneditedInv
<1>7. CASE CheckAhead(p) \/ Fill(p) \/ Recheck(p) \/ Interrupt(p) \/ CutShort(p)
  <2>1. written' = written /\ pc'[p] \notin {"filling", "refused"}
    BY <1>7 DEF CheckAhead, Fill, Recheck, Interrupt, CutShort, Goto, initVars, FilesTypeOK
  <2> QED BY <1>2, <2>1 DEF UneditedInv
<1> QED BY <1>3, <1>4, <1>5, <1>6, <1>7 DEF InitStep

(* A file stays complete: whoever opens it anew is going to fill it.       *)
LEMMA HalfMadeStays ==
    ASSUME NEW p \in Commands, Onwards(p), NEW f, HalfMade(f),
           pc[p] # "filling" \/ Target(at[p]) # f
    PROVE  HalfMade(f)'
<1>1. PICK j \in Commands : pc[j] = "filling" /\ Target(at[j]) = f
  BY DEF HalfMade
<1>2. pc'[j] = "filling" /\ at'[j] = at[j]
  BY <1>1 DEF Onwards, SameCommand
<1>3. Target(at[j])' = Target(at[j])
  BY <1>2 DEF Target
<1> QED BY <1>1, <1>2, <1>3 DEF HalfMade

LEMMA CutOffStays ==
    ASSUME FilesTypeOK, NEW p \in Commands, Onwards(p), InitStep(p) \/ ReaderStep(p),
           \E j \in Commands : pc[j] = "interrupted"
    PROVE  \E j \in Commands : pc'[j] = "interrupted"
<1>1. PICK j \in Commands : pc[j] = "interrupted"
  OBVIOUS
<1>2. pc[p] # "interrupted"
  BY ReaderMoves
     DEF InitStep, BeginInit, BeginReader, Begin, CheckAhead, RefuseAhead, Open, Fill, Recheck,
         RefuseLate, Interrupt, CutShort
<1> QED BY <1>1, <1>2 DEF Onwards, SameCommand

LEMMA MadeStays ==
    ASSUME NEW p \in Commands, Onwards(p), written[p] \subseteq written'[p], NEW f, Made(f)
    PROVE  Made(f)'
BY DEF Made, Onwards, SameCommand

LEMMA FillCompletes ==
    ASSUME FilesTypeOK, RaceInv, NEW p \in Commands, CommandInv(p), Onwards(p), edits = 0,
           Fill(p), NEW f \in Files, Complete(f)
    PROVE  Complete(f)'
<1>1. PICK content : content = Starter[Target(at[p])]
  OBVIOUS
<1>2. /\ Put(Target(at[p]), content, p, "init") /\ UNCHANGED written
      /\ pc[p] = "filling" /\ Target(at[p]) \in Files
  BY <1>1, TargetType DEF Fill, RaceInv, UneditedInv, FilesTypeOK
<1>3. /\ disk'[Target(at[p])] = content
      /\ \A g \in Files \ {Target(at[p])} : disk'[g] = disk[g]
  BY <1>2, PutWrites
<1>4. CASE f = Target(at[p])
  <2>1. f \in written'[p] /\ disk'[f] = Starter[f]
    <3>1. at[p] \in 0..at[p]
      BY ProjectLength DEF FilesTypeOK
    <3> QED BY <1>1, <1>2, <1>3, <1>4, <3>1 DEF CommandInv, InitInv, WrittenUpTo
  <2> QED BY <2>1 DEF Complete, Made
<1>5. CASE f # Target(at[p])
  <2>1. disk'[f] = disk[f]
    BY <1>3, <1>5
  <2>2. HalfMade(f) => HalfMade(f)'
    BY <1>5, HalfMadeStays
  <2>3. Made(f) => Made(f)'
    BY <1>2, MadeStays
  <2>4. (\E j \in Commands : pc[j] = "interrupted") => \E j \in Commands : pc'[j] = "interrupted"
    BY CutOffStays DEF InitStep
  <2> QED BY <2>1, <2>2, <2>3, <2>4 DEF Complete, Exists
<1> QED BY <1>4, <1>5

LEMMA OpenCompletes ==
    ASSUME FilesTypeOK, RaceInv, NEW p \in Commands, Onwards(p), Open(p),
           NEW f \in Files, Complete(f)
    PROVE  Complete(f)'
<1>1. /\ Put(Target(at[p]), "empty", p, "init") /\ pc'[p] = "filling" /\ at' = at
      /\ written'[p] = written[p] \cup {Target(at[p])} /\ Target(at[p]) \in Files
  BY TargetType DEF Open, Goto, FilesTypeOK
<1>2. CASE f = Target(at[p])
  <2>1. Target(at[p])' = Target(at[p])
    BY <1>1 DEF Target
  <2>2. Made(f)' /\ HalfMade(f)'
    BY <1>1, <1>2, <2>1 DEF Made, HalfMade
  <2> QED BY <2>2 DEF Complete
<1>3. CASE f # Target(at[p])
  <2>1. disk'[f] = disk[f]
    BY <1>1, <1>3, PutWrites
  <2>2. HalfMade(f) => HalfMade(f)'
    BY HalfMadeStays DEF Open
  <2>3. Made(f) => Made(f)'
    BY <1>1, MadeStays
  <2>4. (\E j \in Commands : pc[j] = "interrupted") => \E j \in Commands : pc'[j] = "interrupted"
    BY CutOffStays DEF InitStep
  <2> QED BY <2>1, <2>2, <2>3, <2>4 DEF Complete, Exists
<1> QED BY <1>2, <1>3

LEMMA CutShortCompletes ==
    ASSUME FilesTypeOK, RaceInv, NEW p \in Commands, CommandInv(p), Onwards(p), CutShort(p),
           NEW f \in Files, Complete(f)
    PROVE  Complete(f)'
<1>1. PICK g : g = Target(at[p])
  OBVIOUS
<1>2. PICK content : Put(g, content, p, "init") /\ g \in Files
  BY <1>1, TargetType DEF CutShort, FilesTypeOK
<1>3. g \in written[p] /\ written' = written
  BY <1>1, ProjectLength DEF CutShort, CommandInv, InitInv, WrittenUpTo, FilesTypeOK
<1>4. pc'[p] = "interrupted"
  BY DEF CutShort, Goto, FilesTypeOK
<1>5. f # g => disk'[f] = disk[f]
  BY <1>2, PutWrites
<1>6. Made(f) => Made(f)'
  BY <1>3, MadeStays
<1>7. Made(g)'
  BY <1>3 DEF Made
<1> QED BY <1>4, <1>5, <1>6, <1>7 DEF Complete, Exists

LEMMA QuietCompletes ==
    ASSUME FilesTypeOK, RaceInv, NEW p \in Commands, Onwards(p), NEW f \in Files, Complete(f),
           InitStep(p) \/ ReaderStep(p), ~Open(p), ~Fill(p), ~CutShort(p)
    PROVE  Complete(f)'
<1>1. disk' = disk /\ written' = written
  BY ReaderMoves
     DEF InitStep, BeginInit, BeginReader, Begin, CheckAhead, RefuseAhead, Recheck, RefuseLate,
         Interrupt, KeepFiles, initVars
<1>2. pc[p] = "filling" => pc'[p] = "interrupted"
  BY ReaderMoves
     DEF InitStep, BeginInit, BeginReader, Begin, CheckAhead, RefuseAhead, Recheck, RefuseLate,
         Interrupt, Goto, FilesTypeOK
<1>3. HalfMade(f) => HalfMade(f)' \/ \E j \in Commands : pc'[j] = "interrupted"
  BY <1>2, HalfMadeStays
<1>4. (\E j \in Commands : pc[j] = "interrupted") => \E j \in Commands : pc'[j] = "interrupted"
  BY CutOffStays
<1>5. Made(f)' = Made(f)
  BY <1>1 DEF Made
<1> QED BY <1>1, <1>3, <1>4, <1>5 DEF Complete, Exists

LEMMA CommandCompletes ==
    ASSUME FilesTypeOK, RaceInv, ProjectInv, NEW p \in Commands, Onwards(p), edits = 0,
           InitStep(p) \/ ReaderStep(p), FromScratch', NEW f \in Files
    PROVE  Complete(f)'
<1>1. CommandInv(p)
  BY DEF ProjectInv, CommandInv
<1>2. CASE FromScratch
  <2>1. Complete(f)
    BY <1>2 DEF RaceInv
  <2> QED BY <1>1, <2>1, FillCompletes, OpenCompletes, CutShortCompletes, QuietCompletes
<1>3. CASE ~FromScratch
  <2>1. PICK i \in Commands : pc'[i] # "idle" /\ since'[i] = {}
    BY DEF FromScratch
  <2>2. CASE BeginInit(p) \/ BeginReader(p)
    <3>1. PICK kind, rules, force, env, place : Begin(p, kind, rules, force, env, place)
      BY <2>2 DEF BeginInit, BeginReader
    <3>2. disk' = disk /\ since' = [since EXCEPT ![p] = {g \in Files : Exists(g)}]
      BY <3>1 DEF Begin
    <3>3. i = p
      <4>1. i # p => pc'[i] = pc[i] /\ since'[i] = since[i]
        BY <3>1, <3>2 DEF Begin, Goto, FilesTypeOK
      <4> QED BY <1>3, <2>1, <4>1 DEF FromScratch
    <3>4. {g \in Files : Exists(g)} = {}
      BY <2>1, <3>2, <3>3 DEF FilesTypeOK
    <3> QED BY <3>2, <3>4 DEF Complete, Exists
  <2>3. CASE ~BeginInit(p) /\ ~BeginReader(p)
    <3>1. pc[p] # "idle"
      BY <2>3, ReaderMoves
         DEF InitStep, CheckAhead, RefuseAhead, Open, Fill, Recheck, RefuseLate, Interrupt,
             CutShort
    <3>2. pc[i] # "idle"
      BY <2>1, <3>1 DEF Onwards, SameCommand
    <3>3. since' = since
      <4>1. CASE Open(p)
        <5>1. PICK content : content = "empty"
          OBVIOUS
        <5>2. Put(Target(at[p]), content, p, "init") /\ Target(at[p]) \in Files
              /\ content # "absent"
          BY <4>1, <5>1, TargetType DEF Open, FilesTypeOK
        <5> QED BY <5>2, PutKeeps DEF RaceInv
      <4>2. CASE Fill(p) /\ p \in linked
        <5>1. PICK content : content = Starter[Target(at[p])]
          OBVIOUS
        <5>2. Target(at[p]) \in Files
          BY TargetType DEF FilesTypeOK
        <5>3. Put(Target(at[p]), content, p, "init") /\ content # "absent"
          BY <4>2, <5>1, <5>2, FilesAssumption DEF Fill
        <5> QED BY <5>2, <5>3, PutKeeps DEF RaceInv
      <4>3. CASE CutShort(p)
        <5>1. PICK content \in Partial : Put(Target(at[p]), content, p, "init")
          BY <4>3 DEF CutShort
        <5>2. Target(at[p]) \in Files /\ content # "absent"
          BY FilesAssumption, TargetType DEF FilesTypeOK
        <5> QED BY <5>1, <5>2, PutKeeps DEF RaceInv
      <4>4. CASE ~Open(p) /\ ~CutShort(p) /\ ~(Fill(p) /\ p \in linked)
        BY <2>3, <4>4, ReaderMoves
           DEF InitStep, CheckAhead, RefuseAhead, Fill, Recheck, RefuseLate, Interrupt, KeepFiles
      <4> QED BY <4>1, <4>2, <4>3, <4>4
    <3> QED BY <1>3, <2>1, <3>2, <3>3 DEF FromScratch
  <2> QED BY <2>2, <2>3
<1> QED BY <1>2, <1>3

LEMMA NextRaceInv == FilesTypeOK /\ ProjectInv /\ RaceInv /\ [Next]_vars => RaceInv'
<1> SUFFICES ASSUME FilesTypeOK, ProjectInv, RaceInv, [Next]_vars PROVE RaceInv'
  OBVIOUS
<1>1. ASSUME NEW p \in Commands, InitStep(p) \/ ReaderStep(p) PROVE RaceInv'
  <2>1. Onwards(p) /\ CommandInv(p)
    BY <1>1, CommandGoesOn DEF ProjectInv, CommandInv
  <2>2. ASSUME NEW q \in Commands PROVE WrittenInv(q)' /\ (edits = 0 => UneditedInv(q))'
    <3>1. CASE q # p
      BY <2>1, <3>1, OthersRaceOn
    <3>2. CASE q = p
      BY <1>1, <2>1, <3>2, OwnWrittenInv, OwnUneditedInv DEF Onwards
    <3> QED BY <3>1, <3>2
  <2>3. (edits = 0 /\ FromScratch)' => \A f \in Files : Complete(f)'
    BY <1>1, <2>1, CommandCompletes DEF Onwards
  <2> QED BY <2>1, <2>2, <2>3 DEF RaceInv, Onwards
<1>2. ASSUME NEW f \in Files, Edit(f) PROVE RaceInv'
  <2>1. UNCHANGED <<pc, call, at, written>> /\ edits' = edits + 1
    BY <1>2 DEF Edit
  <2>2. edits' \in Nat /\ edits' # 0
    BY <2>1 DEF RaceInv
  <2>3. disk' = [g \in Files |-> disk'[g]]
    <3>1. PICK content : Put(f, content, "operator", "operator")
      BY <1>2, EditChanges
    <3>2. disk = [g \in Files |-> disk[g]]
      BY DEF RaceInv
    <3> QED BY <3>1, <3>2 DEF Put
  <2>4. \A q \in Commands : WrittenInv(q)'
    BY <2>1 DEF RaceInv, WrittenInv, WrittenUpTo, Target
  <2> QED BY <2>2, <2>3, <2>4 DEF RaceInv
<1>3. CASE UNCHANGED vars
  <2>1. UNCHANGED <<disk, pc, call, at, written, linked, edits, since>>
    BY <1>3 DEF vars, initVars
  <2>2. \A f \in Files : Complete(f)' = Complete(f)
    BY <2>1 DEF Complete, Made, HalfMade, Exists, Target
  <2>3. \A q \in Commands : WrittenInv(q)' = WrittenInv(q) /\ UneditedInv(q)' = UneditedInv(q)
    BY <2>1 DEF WrittenInv, UneditedInv, WrittenUpTo, Exists, Target
  <2> QED BY <2>1, <2>2, <2>3 DEF RaceInv, FromScratch
<1> QED BY <1>1, <1>2, <1>3 DEF Next

LEMMA RaceInvHolds == Spec => []RaceInv
BY InitRaceInv, NextRaceInv, ProjectInvHolds, PTL DEF Spec

-----------------------------------------------------------------------------
(* The end of a race.                                                      *)

LEMMA Furthest ==
    ASSUME NEW n \in Nat, NEW S, S # {}, NEW place \in [S -> 0..n]
    PROVE  \E s \in S : \A t \in S : place[t] <= place[s]
<1> DEFINE Behind == {n - place[s] : s \in S}
<1>1. Behind \in SUBSET Nat /\ Behind # {}
  <2>1. \A s \in S : n - place[s] \in Nat
    OBVIOUS
  <2> QED BY <2>1
<1>2. PICK m \in Behind : \A k \in Behind : m <= k
  BY ONLY <1>1, InDocument!Least
<1>3. PICK s \in S : m = n - place[s]
  BY <1>2
<1>4. ASSUME NEW t \in S PROVE place[t] <= place[s]
  <2>1. m <= n - place[t]
    BY <1>2
  <2>2. place[s] \in Nat /\ place[t] \in Nat
    OBVIOUS
  <2> QED BY <1>3, <2>1, <2>2
<1> QED BY <1>4

(* Not all are refused: the one refused at the furthest place found a file *)
(* there that none of them has got to.                                     *)
LEMMA OneGetsThrough ==
    ASSUME FilesTypeOK, RaceInv, edits = 0, FromScratch,
           \A i \in Commands : pc[i] \in {"done", "refused"}
    PROVE  \E i \in Commands : pc[i] = "done"
<1> SUFFICES ASSUME \A i \in Commands : pc[i] = "refused" PROVE FALSE
  OBVIOUS
<1>1. Commands # {}
  BY DEF FromScratch
<1>2. at \in [Commands -> 0..Len(Project)] /\ Len(Project) \in Nat
  BY ProjectLength DEF FilesTypeOK
<1>3. PICK i \in Commands : \A j \in Commands : at[j] <= at[i]
  BY ONLY <1>1, <1>2, Furthest
<1>4. Target(at[i]) \in Files /\ Exists(Target(at[i]))
  BY TargetType DEF RaceInv, UneditedInv, FilesTypeOK
<1>5. PICK j \in Commands : Target(at[i]) \in written[j]
  BY <1>4 DEF RaceInv, Complete, Made
<1>6. Target(at[i]) \in WrittenUpTo(at[j] - 1)
  BY <1>5 DEF RaceInv, WrittenInv
<1>7. PICK k \in 0..(at[j] - 1) : Target(at[i]) = Target(k)
  BY <1>6 DEF WrittenUpTo
<1>8. at[i] \in 0..Len(Project) /\ k \in 0..Len(Project)
  BY <1>2, <1>7
<1>9. at[i] = k
  BY <1>7, <1>8, TargetsDiffer
<1> QED BY <1>2, <1>3, <1>7, <1>9

LEMMA RaceIsWon == FilesTypeOK /\ RaceInv => RacingInitsAgree
<1> SUFFICES ASSUME FilesTypeOK, RaceInv, edits = 0, \E i \in Commands : since[i] = {},
                    \A i \in Commands : pc[i] \in {"done", "refused"} /\ call[i].rules
             PROVE  (\E i \in Commands : pc[i] = "done") /\ disk = Starter
  BY DEF RacingInitsAgree
<1>1. FromScratch
  BY DEF FromScratch
<1>2. PICK i \in Commands : pc[i] = "done"
  BY <1>1, OneGetsThrough
<1>3. written[i] = Files
  BY <1>2 DEF RaceInv, WrittenInv
<1>4. \A f \in Files : disk[f] = Starter[f]
  <2> TAKE f \in Files
  <2>1. Exists(f) /\ Complete(f)
    BY <1>1, <1>3 DEF RaceInv, UneditedInv
  <2> QED BY <2>1 DEF Complete, HalfMade
<1>5. disk = [f \in Files |-> disk[f]] /\ Starter = [f \in Files |-> Starter[f]]
  BY FilesAssumption DEF RaceInv
<1> QED BY <1>2, <1>4, <1>5

(* When inits of a whole project race in an empty directory, unforced and  *)
(* undisturbed, at least one reports success and they leave the complete   *)
(* starter project.                                                        *)
THEOREM RacingInitsSucceed == Spec => []RacingInitsAgree
BY RaceIsWon, RaceInvHolds, ProjectInvHolds, PTL
=============================================================================
