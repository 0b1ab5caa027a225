---------------------------- MODULE MCAlsaMirror ----------------------------
(***************************************************************************)
(* AlsaMirror for TLC: a Wave:3, which mirrors all three fields.  A step   *)
(* of the card is two of the firmware, and its lowest value is not the     *)
(* lowest of the firmware.                                                 *)
(***************************************************************************)
EXTENDS AlsaMirror

MCJobs ==
    {[f \in {"Mute"} |-> 1], [f \in {"Headphone"} |-> 5],
     [f \in {"Mute", "Gain"} |-> IF f = "Gain" THEN 1 ELSE 0]}

Plan(there, hands, clients, jobs, faults, replugs) ==
    [shown |-> there, hands |-> hands, clients |-> clients, jobs |-> jobs,
     faults |-> faults, replugs |-> replugs]

MCPlans ==
    {Plan(Synced, 2, 1, 1, 1, 0), Plan(Synced, 1, 2, 1, 1, 0), Plan(Synced, 1, 1, 2, 1, 0),
     Plan({"Mute"}, 1, 1, 1, 2, 0), Plan({}, 1, 1, 0, 3, 0), Plan(Synced, 1, 0, 1, 1, 1)}
=============================================================================
