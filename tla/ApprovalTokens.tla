--------------------------- MODULE ApprovalTokens ---------------------------
(***************************************************************************)
(* ApprovalTokenManager (approvals/tokens.py).  A token is its claims plus *)
(* what comparing its HMAC signature with the manager's own tells: it is   *)
(* genuine; or forged, which stands for everything `decode` refuses with a *)
(* ValueError, a text that does not parse included; or it cannot be        *)
(* compared.  The encoding and the digest itself are abstracted.           *)
(* approval_id, approver and reason decide nothing and are left out.       *)
(* FaultyDecodes, CarelessDecodes and HastyDecodes are mutants of Decodes. *)
(***************************************************************************)
EXTENDS Integers

CONSTANT Wildcard   \* the "*" a claim may hold in place of a request id or a stage

Signatures == {"genuine", "forged", "incomparable"}

Token(rid, stage, rules, exp, signature) ==
    [rid |-> rid, stage |-> stage, rules |-> rules, exp |-> exp, signature |-> signature]

Issue(rid, stage, rules, now, ttl) == Token(rid, stage, rules, now + ttl, "genuine")

(* compare_digest raises TypeError for a signature that is not ASCII; the  *)
(* callers of `allows` expect ValueError only.                             *)
Raises(t) == t.signature = "incomparable"

FaultyDecodes(t, now) == t.signature = "genuine"           \* expiry not checked
CarelessDecodes(t, now) == ~(t.exp < now)                  \* signature not checked
HastyDecodes(t, now) == t.signature = "genuine" /\ now < t.exp \* expired at expires_at

(* decode: genuine, and not expired (a token is still good at expires_at). *)
Decodes(t, now) == t.signature = "genuine" /\ ~(t.exp < now)

(* allows, after decode: the claims cover this decision.  No approved rule *)
(* ids means any rule.                                                     *)
Covers(t, rid, stage, rules) ==
    /\ t.rid \in {rid, Wildcard}
    /\ t.stage \in {stage, Wildcard}
    /\ t.rules # {} => rules \subseteq t.rules

Allows(t, rid, stage, rules, now) ==
    Decodes(t, now) /\ Covers(t, rid, stage, rules)
=============================================================================
