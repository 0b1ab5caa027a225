----------------------------- MODULE Exclusion -----------------------------
(* What the leases of an installation promise: programs use it together, one *)
(* holder has it alone, and only the holder takes anything away.            *)
CONSTANTS Programs, Holders, Nobody
VARIABLES using, holder, things

vars == <<using, holder, things>>

Init == using \subseteq Programs /\ holder = Nobody

Enter == /\ holder = Nobody
         /\ \E p \in Programs \ using : using' = using \cup {p}
         /\ UNCHANGED <<holder, things>>
Leave == /\ using' \subseteq using
         /\ UNCHANGED <<holder, things>>
Take  == /\ using = {} /\ holder = Nobody /\ holder' \in Holders
         /\ UNCHANGED <<using, things>>
\* The last thing may go, and the programs be ended, in the step that lets go.
Drop  == /\ holder' = Nobody
         /\ UNCHANGED <<using, things>>
Add   == things \subseteq things' /\ UNCHANGED <<using, holder>>
Remove == /\ holder # Nobody /\ using = {}
          /\ things' \subseteq things
          /\ UNCHANGED <<using, holder>>

Next == Enter \/ Leave \/ Take \/ Drop \/ Add \/ Remove
Spec == Init /\ [][Next]_vars
=============================================================================
