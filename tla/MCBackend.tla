----------------------------- MODULE MCBackend ------------------------------
(* Two rows; the capture of the first may be replaced by another of its name. *)
EXTENDS Backend, TLC

MCKeys == {1, 2}
MCNodes == {"mic", "mic again", "line"}
MCBindings == {new \in [MCKeys -> MCNodes \cup {"none"}] :
            /\ new[1] \in {"mic", "mic again", "none"}
            /\ new[2] \in {"line", "none"}}

None == [what \in {"target", "panic", "spawn", "child", "cleanup", "crash"} |-> 0]
MCPlans == {
    [target |-> 2, spawn |-> 1] @@ None,
    [target |-> 1, panic |-> 1, cleanup |-> 1] @@ None,
    [target |-> 1, child |-> 1, crash |-> 1] @@ None}
=============================================================================
