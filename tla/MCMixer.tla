------------------------------ MODULE MCMixer ------------------------------
(* Small systems for Mixer: two capture rows of one group, an application     *)
(* with a stream, two mixes, two outputs.                                     *)
EXTENDS Mixer

CONSTANTS d1, d2, app, mixa, mixb, song, out1, out2, dim, loud, G

MCClaimOf == (song :> app)
MCSettings == {dim, loud}

RowOf(on, muted, fx) ==
    [on |-> on, group |-> NoGroup, muted |-> muted, level |-> 2, fx |-> fx]

Grouped(row) == [row EXCEPT !.group = G]
Off == RowOf(FALSE, TRUE, FALSE)

Want(rows, mixes, saved) ==
    [rows |-> [s \in Sources |-> IF s \in DOMAIN rows THEN rows[s] ELSE Off],
     mixes |-> mixes, saved |-> [mx \in Mixes |-> IF mx \in mixes THEN saved ELSE None],
     cells |-> {s \in DOMAIN rows : rows[s].on} \X mixes]

Plan(want, config, playing, menu, edits, hands, upset, upsets, faults, stop) ==
    [want |-> want, config |-> config, plugged |-> {s \in Devices : want.rows[s].on},
     playing |-> playing, menu |-> menu, edits |-> edits, hands |-> hands,
     upset |-> upset, upsets |-> upsets, faults |-> faults, stop |-> stop]

Pair == (d1 :> Grouped(RowOf(TRUE, FALSE, FALSE))) @@ (d2 :> Grouped(RowOf(TRUE, TRUE, FALSE)))
Solo(fx) == (d1 :> RowOf(TRUE, FALSE, fx))
Player(on) == (app :> RowOf(on, FALSE, FALSE))

Quiet(want, menu, edits) == Plan(want, {mixa}, <<>>, menu, edits, 0, {}, 0, 0, FALSE)
Upsetting(want, menu, upset) == Plan(want, {mixa}, <<>>, menu, 1, 0, upset, 1, 0, FALSE)
Failing(want, menu) == Plan(want, {mixa}, <<>>, menu, 1, 0, {}, 0, 1, FALSE)

\* Two rows of a group are switched: alone, with accidents, with a failed call.
GroupPlans ==
    LET pair == Want(Pair, {mixa}, dim) IN
    {Quiet(pair, {"mute"}, 2), Quiet(pair, {"mute", "level"}, 1), Upsetting(pair, {"mute"}, {"exit", "unmute"}),
     Failing(pair, {"mute"})}

\* A master is set, turned by hand, and its sink lost or the server restarted.
MasterPlans ==
    LET solo == Want(Solo(FALSE), {mixa}, dim) IN
    {Plan(solo, cfgs, <<>>, {"master"}, 1, 0, {"sink", "restart"}, 1, 0, FALSE) : cfgs \in {{}, {mixa}}}
    \cup {Plan(solo, {mixa}, <<>>, {"master"}, 0, 1, {"sink", "restart"}, 1, 0, FALSE),
          Plan(solo, {mixa}, <<>>, {"master"}, 1, 0, {}, 0, 1, FALSE)}
    \cup {Plan(Want(Solo(FALSE), {mixa}, saved), {mixa}, <<>>, {"master"}, 1, 1, {}, 0, 0, FALSE) : saved \in {None, dim}}

\* Effects are switched, and the filter or its capture vanishes.
FilterPlans ==
    {Upsetting(Want(Solo(fx), {mixa}, dim), {"fx"}, {"exit", "plug"}) : fx \in BOOLEAN}
    \cup {Failing(Want(Solo(TRUE), {mixa}, dim), {"fx"}), Failing(Want(Solo(FALSE), {mixa}, dim), {"level"})}

\* An application row comes and goes, its stream moves, and the mixer stops.
StreamPlans ==
    {Plan(Want(Player(on), {mixa}, dim), {mixa}, song :> out1, {"row"}, 1, 0, {"stream"}, 1, 0, ~on) : on \in BOOLEAN}
    \cup {Plan(Want(Player(TRUE), {mixa}, dim), {mixa}, song :> out1, {"row"}, 0, 0, {"stream", "output"}, 1, 0, TRUE),
          Plan(Want(Player(TRUE), {mixa}, dim), {mixa}, song :> out2, {"row"}, 1, 0, {}, 0, 1, TRUE),
          Plan(Want(Player(TRUE), {mixa}, dim), {}, song :> out2, {"row"}, 0, 0,
               {"squat", "sink", "restart"}, 1, 0, TRUE)}

\* A mix is removed and added, and its sends.
MixPlans ==
    {Plan(Want(<<>>, {mixa, mixb}, dim), cfgs, song :> out1, {"mix"}, 2, 0, {"stream"}, 1, 0, FALSE)
       : cfgs \in {{mixa}, {mixa, mixb}}}
    \cup {Plan(Want(Solo(FALSE), {mixa, mixb}, dim), {mixa}, <<>>, {"mix", "send"}, 1, 0, {}, 0, 0, FALSE)}

AllPlans == GroupPlans \cup MasterPlans \cup FilterPlans \cup StreamPlans \cup MixPlans
=============================================================================
