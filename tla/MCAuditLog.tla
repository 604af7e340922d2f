----------------------------- MODULE MCAuditLog -----------------------------
(***************************************************************************)
(* Small instances of AuditLog: two writers, three events.                 *)
(***************************************************************************)
EXTENDS AuditLog, TLC

CONSTANTS p1, p2, w1, w2, w3

MCEvent(rid, stage, decision, rules, long, separator) ==
    [rid |-> rid, stage |-> stage, decision |-> decision, rules |-> rules,
     long |-> long, separator |-> separator]

MCEvents ==
    {MCEvent("r1", "input", "allow", {}, FALSE, FALSE),
     MCEvent("r1", "output", "block", {"a", "b"}, FALSE, FALSE),
     MCEvent("r2", "input", "block", {"b"}, TRUE, FALSE),
     MCEvent("r2", "output", "allow", {}, FALSE, TRUE)}

MCFilters ==
    [rid : {"", "r1"}, stage : {"", "input"}, decision : {"", "block"}, rule : {"", "b"}]

Symmetry == Permutations(Processes) \cup Permutations(Writes)
=============================================================================
