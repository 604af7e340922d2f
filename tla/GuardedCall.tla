------------------------------ MODULE GuardedCall ------------------------------
(***************************************************************************)
(* What a policy enforcement point promises, whether it stands before a    *)
(* model provider (Gateway) or before a tool (ToolFirewall).               *)
(*                                                                         *)
(* A call arrives and is open until it is released to the resource behind  *)
(* the guard, refused, or ended without either.  It is released at most    *)
(* once, while it is admitted and, where decisions are recorded, after     *)
(* its own decision was recorded.  A refusal is recorded too, and final.   *)
(***************************************************************************)
CONSTANT Calls

VARIABLES
    phase,      \* where each call stands
    admitted,   \* the calls that may be released: by policy, or by a grant
    recorded,   \* the calls whose current decision is on record
    recording   \* decisions are recorded

vars == <<phase, admitted, recorded, recording>>

Phases == {"idle", "open", "released", "refused", "ended"}

TypeOK ==
    /\ phase \in [Calls -> Phases]
    /\ admitted \subseteq Calls /\ recorded \subseteq Calls
    /\ recording \in BOOLEAN

-----------------------------------------------------------------------------

OnRecord(c) == recording => c \in recorded

Arrive(c) ==
    /\ phase[c] = "idle" /\ phase' = [phase EXCEPT ![c] = "open"]
    /\ admitted' \in {admitted \cup {c}, admitted \ {c}}
    /\ UNCHANGED <<recorded, recording>>

Record(c) ==
    /\ phase[c] = "open"
    /\ recorded' = recorded \cup {c}
    /\ UNCHANGED <<phase, admitted, recording>>

(* The guard starts over: what was recorded and granted does not count.    *)
Reconsider(c) ==
    /\ phase[c] = "open"
    /\ recorded' = recorded \ {c}
    /\ admitted' \in {admitted, admitted \ {c}}
    /\ UNCHANGED <<phase, recording>>

Release(c) ==
    /\ phase[c] = "open" /\ c \in admitted /\ OnRecord(c)
    /\ phase' = [phase EXCEPT ![c] = "released"]
    /\ UNCHANGED <<admitted, recorded, recording>>

Refuse(c) ==
    /\ phase[c] = "open" /\ OnRecord(c)
    /\ phase' = [phase EXCEPT ![c] = "refused"]
    /\ UNCHANGED <<admitted, recorded, recording>>

(* The call fails, or what it was released to has ended; a decision may    *)
(* get on record although recording it failed.                             *)
End(c) ==
    /\ phase[c] \in {"open", "released"}
    /\ phase' = [phase EXCEPT ![c] = "ended"]
    /\ recorded' \in {recorded, recorded \cup {c}}
    /\ UNCHANGED <<admitted, recording>>

(* The process dies.                                                       *)
Lose ==
    /\ phase' = [c \in Calls |-> IF phase[c] \in {"open", "released"} THEN "ended"
                                 ELSE phase[c]]
    /\ UNCHANGED <<admitted, recorded, recording>>

-----------------------------------------------------------------------------

Init ==
    /\ phase = [c \in Calls |-> "idle"]
    /\ admitted \in SUBSET Calls /\ recorded = {}
    /\ recording \in BOOLEAN

Next ==
    \/ \E c \in Calls : \/ Arrive(c) \/ Record(c) \/ Reconsider(c)
                        \/ Release(c) \/ Refuse(c) \/ End(c)
    \/ Lose

Spec == Init /\ [][Next]_vars
=============================================================================
