------------------------------ MODULE MCHealth ------------------------------
(* One card under scripts of what its samples show.                          *)
EXTENDS Health, TLC

Few == Capture("few", "fresh")
Script(cs, ss, fail, unplug) == [captures |-> cs, sinks |-> ss, fail |-> fail, unplug |-> unplug]
MCScripts == {
    Script({Few, Capture("many", "fresh"), Capture("few", "stale"), Unclear}, {"unclear"}, 0, 1),
    Script({Few, Capture("back", "fresh"), Capture("many", "unknown"), Capture("unknown", "fresh")}, {"unclear"}, 0, 0),
    Script({Unclear}, {"moving", "stuck", "xrun", "back", "unclear"}, 1, 1),
    Script({Capture("few", "stale"), Few}, {"stuck", "moving"}, 2, 0),
    Script({Capture("few", "stale"), Few}, {"stuck"}, 2, 1)}
MCIds == 1..14
=============================================================================
