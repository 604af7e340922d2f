---------------------------- MODULE MCDeployment ----------------------------
(***************************************************************************)
(* A small instance of Deployment: a starter project of a configuration    *)
(* and two rule files, two commands of any kind and an operator.           *)
(***************************************************************************)
EXTENDS Deployment, TLC

CONSTANTS p1, p2

MCProject == <<"baseline", "tool_use">>

MCStarter == [config |-> "starter", baseline |-> "baseline", tool_use |-> "tool_use"]

(* The operator's rule files repeat an id of the other starter file, with  *)
(* a source of their own, or with an empty one, or hold no rule at all.    *)
MCWritten ==
    [config   |-> {"absent", "postgres", "plain", "unsupported", "broken"},
     baseline |-> {"absent", "unsourced"},
     tool_use |-> {"shared", "blank"}]

MCSettings ==
    [empty    |-> Defaults,
     starter  |-> [Defaults EXCEPT !.files = MCProject],
     postgres |-> [Defaults EXCEPT !.files = MCProject, !.backend = "postgres",
                                   !.secret = "file"],
     plain    |-> [Defaults EXCEPT !.files = <<"baseline">>, !.provider = "",
                                   !.audit = FALSE, !.approvals = FALSE],
     unsupported |-> [Defaults EXCEPT !.files = <<"baseline">>, !.backend = "syslog"]]

MCDocuments ==
    [baseline  |-> [sources |-> <<>>, rules |-> <<1>>],
     tool_use  |-> [sources |-> <<>>, rules |-> <<2, 3>>],
     shared    |-> [sources |-> <<"corp">>, rules |-> <<1, 4>>],
     blank     |-> [sources |-> <<>>, rules |-> <<>>],
     unsourced |-> [sources |-> <<"">>, rules |-> <<2>>]]

MCEnvs == {{}, {"dsn", "secret", "database"}}

(* Nothing, a complete project, one whose init was cut off as it wrote the *)
(* configuration, and rule files without one.                              *)
MCDisks ==
    {[f \in Files |-> "absent"], MCStarter, [MCStarter EXCEPT !.config = "empty"],
     [MCStarter EXCEPT !.config = "absent", !.baseline = "unsourced"]}

Symmetry == Permutations(Commands)
=============================================================================
