----------------------------- MODULE AuditStore -----------------------------
(***************************************************************************)
(* What a reader of the audit log is promised: a log that grows by one     *)
(* whole event at a time and is never rewritten, until, if ever, it can no *)
(* longer be read, and then for good.  The file of AuditLog implements it. *)
(***************************************************************************)
EXTENDS Sequences

CONSTANT Writes     \* calls of JsonlAuditLogger.write

VARIABLES
    log,    \* the writes whose events can be read, in order
    ok      \* whether the log can be read

Init == log = <<>> /\ ok = TRUE

Append1(w) == ok /\ log' = Append(log, w) /\ UNCHANGED ok

Break == ok /\ ok' = FALSE /\ log' = <<>>

Next == Break \/ \E w \in Writes : w \notin {log[i] : i \in DOMAIN log} /\ Append1(w)

Spec == Init /\ [][Next]_<<log, ok>>
=============================================================================
