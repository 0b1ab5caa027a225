------------------------------- MODULE MCHost -------------------------------
(* Small hosts for Host: three files and the receipt.                        *)
EXTENDS Host, TLC

MCOrder == <<"openwave", "maintenance", "dropin", "receipt">>
MCSame  == {"dropin"}

Installed == [s \in Slots |-> 1]
Old       == [s \in Slots |-> IF s = Receipt THEN 0 ELSE 1]
Nothing   == [s \in Slots |-> 0]
Ours      == [item \in Items |-> IF item = "usb" THEN "none" ELSE "own"]
Mixed     == [item \in Items |-> IF item = "audio" THEN "foreign" ELSE "own"]
Strange   == [item \in Items |-> IF item = "usb" THEN "foreign" ELSE "own"]

None == [install |-> 0, start |-> 0, work |-> 0, window |-> 0, cli |-> 0, files |-> 0, retire |-> 0,
         bootstrap |-> 0, fault |-> 0, admin |-> 0, edit |-> 0]
Host0(d, sys, g, dm, items, l) ==
    [disk |-> d, system |-> sys, gui |-> g, daemon |-> dm, integ |-> items, left |-> l @@ None]

\* An upgrade beside a removal of the version before, in either order.
Upgrades ==
    {Host0(Installed, FALSE, "off", "off", Ours, [install |-> 2, cli |-> 1, fault |-> 1]),
     Host0(Installed, TRUE, "off", "off", Ours, [install |-> 2, cli |-> 1])}
    \cup {Host0(Installed, FALSE, "off", "off", Ours, [install |-> 2, files |-> 1, fault |-> 1]),
          Host0(Nothing, FALSE, "off", "off", Ours, [install |-> 2, files |-> 1, fault |-> 1, edit |-> 1])}
\* Programs that start, work and end while a job removes them.
Busy ==
    {Host0(Installed, sys, "running", "running", Ours, [window |-> 1, start |-> 1, work |-> 1]) : sys \in BOOLEAN}
    \cup {Host0(Installed, sys, "running", "off", Mixed, [cli |-> 1, start |-> 2, work |-> 1]) : sys \in BOOLEAN}
\* Deaths, timeouts and retries.
Deaths ==
    {Host0(Installed, sys, "off", "running", Ours, [cli |-> 1, fault |-> 2]) : sys \in BOOLEAN}
    \cup {Host0(Installed, sys, "off", "running", Ours, [cli |-> 1, fault |-> 1, start |-> 1]) : sys \in BOOLEAN}
    \cup {Host0(Installed, TRUE, "off", "running", Ours, [cli |-> 1, fault |-> 1, admin |-> 1]),
          Host0(Installed, TRUE, "off", "off", Ours, [cli |-> 1, files |-> 1, fault |-> 1]),
          Host0(Installed, FALSE, "off", "off", Ours, [cli |-> 1, files |-> 1, fault |-> 1])}
    \cup {Host0(Installed, sys, "off", "off", Strange, [cli |-> 1, fault |-> 1]) : sys \in BOOLEAN}
\* Installations of before.
Legacies ==
    {Host0(Old, FALSE, "off", "running", Ours, [retire |-> 1, fault |-> 2, install |-> 1]),
     Host0(Old, TRUE, "off", "running", Ours, [bootstrap |-> 1, fault |-> 1, admin |-> 1, install |-> 1])}

AllPlans == Upgrades \cup Busy \cup Deaths \cup Legacies
=============================================================================
