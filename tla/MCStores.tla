------------------------------ MODULE MCStores ------------------------------
(* Small instances of Stores: three rows in two groups with nothing that      *)
(* fails, and rows of a capture whose files fail, break and are left half     *)
(* written.                                                                   *)
EXTENDS Stores, TLC

CONSTANTS a, b, c, d, e, m1, m2, n, NoNode

MCNodeOf == [id \in Ids |-> IF id \in {d, e} THEN n ELSE NoNode]

Plan(rows, groups, patches, mixes) ==
    [rows |-> rows, groups |-> groups, patches |-> patches, mixes |-> mixes,
     broken |-> "none", legacy |-> <<>>, faults |-> 0, crashes |-> 0, plugs |-> 0]

\* The decisions on rows, at length.
RowPlans == {Plan({a, b, c}, Groups, MaxPatches, {})}

\* A scene that cannot be saved, or is cut short.
ScenePlans == {[Plan({a, b}, Groups, 2, {}) EXCEPT !.faults = 1, !.crashes = 1]}

\* A capture comes and goes; its row, another bound to it, and their sends.
Upset(faults, crashes, broken, legacy) ==
    [Plan({d, e}, {}, 0, {m1, m2}) EXCEPT !.broken = broken, !.legacy = legacy,
        !.faults = faults, !.crashes = crashes, !.plugs = 2]

Old == [key \in {<<Legacy, m1>>} |-> 1]

FilePlans ==
    {Upset(2, 0, "none", <<>>), Upset(1, 1, "none", Old)}
    \cup {Upset(0, 0, name, <<>>) : name \in Files}

AllPlans == RowPlans \cup ScenePlans \cup FilePlans

Symmetry == Permutations({a, b, c}) \cup Permutations(Groups)
=============================================================================
