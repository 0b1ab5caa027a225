--------------------------- MODULE MCMuteHandover ---------------------------
(* Small systems for MuteHandover: two units, the second of them shared by   *)
(* two rows, a capture without a unit, and an application.                   *)
EXTENDS MuteHandover

CONSTANTS app1, mic1, mic2, twin2, usb, ua, ub, n1, G, H

MCOrder == <<app1, mic1, mic2, twin2, usb>>
MCNodes == {ua, ub, n1}
MCUnitNodes == {ua, ub}
MCNodeOf == (app1 :> NoNode) @@ (mic1 :> ua) @@ (mic2 :> ub) @@ (twin2 :> ub)
            @@ (usb :> n1)
MCGroups == {G, H}

Row(group, muted) == [group |-> group, muted |-> muted]

\* The second row is open and in no group.
Apart == (mic1 :> Row(G, FALSE)) @@ (mic2 :> Row(NoGroup, FALSE))

\* A unit and a plain capture in one group, either of them open.
Mixed == {(mic1 :> Row(G, ~first)) @@ (usb :> Row(G, first)) : first \in BOOLEAN}

\* A row of another group owns the second unit too.
Shared ==
    {(mic1 :> Row(G, FALSE)) @@ (mic2 :> Row(G, TRUE)) @@ (twin2 :> Row(H, FALSE)),
     (mic1 :> Row(G, TRUE)) @@ (mic2 :> Row(G, FALSE)) @@ (twin2 :> Row(H, TRUE))}

Plan(rows, calm, menu, commands, presses, replugs, faults) ==
    [rows |-> rows, nodes |-> {NodeOf[id] : id \in DOMAIN rows} \ {NoNode},
     calm |-> calm, born |-> 1, menu |-> menu, command |-> commands,
     press |-> presses, replug |-> replugs, fault |-> faults]

Switches == {"switch"}
Regroup == {"switch", "join", "leave", "remove", "device"}
Edits == {"mute", "switch", "leave"}

\* Every way to regroup rows: before the hardware is known, and after.
Commands == {Plan(Apart, FALSE, Regroup, 1, 0, 0, 0), Plan(Apart, TRUE, Regroup, 2, 0, 0, 0)}
\* Mutes pressed by hand during a switch.
Hands    == {Plan(rows, FALSE, Switches, 1, 1, 0, 0) : rows \in Mixed}
\* A capture that vanishes and comes back, or a failed sample, write or device.
Failures == {Plan(rows, FALSE, Switches, 1, 0, 1, 0) : rows \in {r \in Mixed : r[usb].muted}} \cup
            {Plan(rows, FALSE, Switches, 1, 0, 0, 1) : rows \in Mixed}
\* One input owned by rows of two groups.
Sharing  == {Plan(rows, FALSE, Switches, 1, 0, 0, 0) : rows \in {r \in Shared : r[mic1].muted}} \cup
            {Plan(rows, TRUE, Switches, 2, 0, 0, 0) : rows \in Shared}

\* A mute, a switch or a leave in calm.
Settling == {Plan(rows, TRUE, Edits, 1, 0, 0, 0) : rows \in Mixed}

AllPlans == Commands \cup Hands \cup Failures \cup Sharing \cup Settling

\* Two switches in a row, between a unit and a plain capture.
QuickPlans == {Plan(rows, TRUE, Switches, 2, 0, 0, 0) : rows \in Mixed}
=============================================================================
