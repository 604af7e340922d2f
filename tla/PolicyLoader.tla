---------------------------- MODULE PolicyLoader ----------------------------
(***************************************************************************)
(* load_policy_files (policy/loader.py): several policy documents become   *)
(* one.  A document is the list of its sources and the list of the ids of  *)
(* its rules; what else a rule or a document holds decides nothing here.   *)
(*                                                                         *)
(* An operator whose name starts with Faulty is a mutant of the definition *)
(* that follows it.                                                        *)
(***************************************************************************)
EXTENDS Integers, Sequences, SequencesExt

(* load_policy_file: a document that names no source gets its path.        *)
Sourced(path, document) ==
    [document EXCEPT !.sources = IF @ = <<>> THEN <<path>> ELSE @]

Blank == ""                      \* the one source that Python takes as false

Nothing == [seen |-> <<>>, rules |-> <<>>, duplicate |-> FALSE]

(* The sources the ids are first known from, once id is added.             *)
Learn(seen, id, source) ==
    [known \in DOMAIN seen \cup {id} |-> IF known = id THEN source ELSE seen[known]]

FaultyAddRule(source, merged, id) ==              \* looks at the latest source only
    IF merged.duplicate \/ (id \in DOMAIN merged.seen /\ merged.seen[id] = source)
    THEN [merged EXCEPT !.duplicate = TRUE]
    ELSE [merged EXCEPT !.seen = Learn(@, id, source), !.rules = Append(@, id)]

(* An id that is known already is an error, if the first source it was     *)
(* known from is true, as Python takes it: not "".                         *)
AddRule(source, merged, id) ==
    IF merged.duplicate \/ (id \in DOMAIN merged.seen /\ merged.seen[id] # Blank)
    THEN [merged EXCEPT !.duplicate = TRUE]
    ELSE [merged EXCEPT !.seen = Learn(@, id, source), !.rules = Append(@, id)]

(* load_policy_files, of documents that have been read and sourced.        *)
Merge(documents) ==
    FoldLeft(LAMBDA merged, document :
                FoldLeft(LAMBDA m, id : AddRule(document.sources[1], m, id),
                         merged, document.rules),
             Nothing, documents)
=============================================================================
