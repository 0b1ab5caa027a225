----------------------------- MODULE GroupRules -----------------------------
(***************************************************************************)
(* The pure decisions of crates/openwave-core/src/routing.rs on the source *)
(* rows of the matrix.  `rows` is a function from source identities to     *)
(* records with at least the fields group and muted.                       *)
(***************************************************************************)
EXTENDS Naturals, Sequences

CONSTANT NoGroup     \* the empty group name

InGroup(rows, g) == {id \in DOMAIN rows : rows[id].group = g}

SetMuted_TargetOnly(rows, target, muted) ==
    [rows EXCEPT ![target].muted = muted]

\* set_source_muted: opening a grouped row mutes its open peers.
SetMuted(rows, target, muted) ==
    [id \in DOMAIN rows |->
        IF id = target THEN [rows[id] EXCEPT !.muted = muted]
        ELSE IF /\ ~muted
                /\ rows[target].group # NoGroup
                /\ rows[id].group = rows[target].group
             THEN [rows[id] EXCEPT !.muted = TRUE]
             ELSE rows[id]]

\* `above` holds the pairs of rows of which the first comes before the second.
First(S, above) == CHOOSE a \in S : \A b \in S \ {a} : <<a, b>> \in above

\* switch_group: the row after the open member, the first when none is open.
SwitchTarget_Restarts(rows, above, g) ==
    LET muted == {id \in InGroup(rows, g) : rows[id].muted}
    IN  First(IF muted = {} THEN InGroup(rows, g) ELSE muted, above)

SwitchTarget(rows, above, g) ==
    LET open  == {id \in InGroup(rows, g) : ~rows[id].muted}
        later == {id \in InGroup(rows, g) : <<First(open, above), id>> \in above}
    IN  First(IF open # {} /\ later # {} THEN later ELSE InGroup(rows, g), above)

\* A group that can be switched has two members.
Switchable(rows, g) ==
    \E a, b \in InGroup(rows, g) : a # b

Normalized_AsGiven(rows, above) == rows

\* normalize_sources: of the open rows of a group the first stays open.
Outranked(rows, above, id) ==
    \E peer \in InGroup(rows, rows[id].group) : <<peer, id>> \in above /\ ~rows[peer].muted

Normalized(rows, above) ==
    [id \in DOMAIN rows |->
        IF rows[id].group # NoGroup /\ Outranked(rows, above, id)
        THEN [rows[id] EXCEPT !.muted = TRUE]
        ELSE rows[id]]

\* No two open rows share a group.
Exclusive(rows) ==
    \A a, b \in DOMAIN rows :
        a # b /\ rows[a].group = rows[b].group /\ rows[a].group # NoGroup
            => rows[a].muted \/ rows[b].muted
=============================================================================
