------------------------------- MODULE Owners -------------------------------
(* The processes of one installation that use it while they run, the lease  *)
(* they share, and what they leave on the host: the capture service and its *)
(* unit, desktop entries, audio drop-ins, USB rules and settings (paths.rs,  *)
(* service.rs, setup.rs, bin/openwave-daemon.rs).  A process that has been   *)
(* started can be seen in /proc before it holds the lease.                  *)
EXTENDS Inventory

Items == {"unit", "desktop", "audio", "usb"}

VARIABLES
    gui,        \* the window: off, starting, running, or drained for a removal it runs itself
    daemon,     \* the capture daemon: off, starting or running
    active,     \* the service manager runs the daemon
    integ,      \* item -> none, own (ours, unchanged), managed or foreign (of another, changed)
    settings,   \* the settings directory exists
    exclusive   \* the process that holds the installation exclusively, or "nobody"

ownerVars == <<gui, daemon, active, integ, settings, exclusive>>

SharedHeld == gui = "running" \/ daemon = "running"

\* Lease::acquire.
SharedFree == exclusive = "nobody"
ExclusiveFree == exclusive = "nobody" /\ ~SharedHeld

\* process_owners, with the process that is exempt.
Seen(exempt) == ((IF gui = "off" THEN {} ELSE {"gui"}) \cup
                 (IF daemon = "off" THEN {} ELSE {"daemon"})) \ exempt

\* A program can be started while its file is there.
Present == disk[Launcher] \in Versions

GuiStart == gui = "off" /\ Present /\ gui' = "starting"
            /\ UNCHANGED <<disk, packaged, daemon, active, integ, settings, exclusive>>
\* The lease, or an exit because the installation is busy.
GuiLease == gui = "starting" /\ gui' = (IF SharedFree THEN "running" ELSE "off")
            /\ UNCHANGED <<disk, packaged, daemon, active, integ, settings, exclusive>>
GuiExit == gui \in {"running", "starting"} /\ gui' = "off"
           /\ UNCHANGED <<disk, packaged, daemon, active, integ, settings, exclusive>>
GuiSave == gui = "running" /\ ~settings /\ settings' = TRUE
           /\ UNCHANGED <<disk, packaged, gui, daemon, active, integ, exclusive>>

\* Start-at-login, drop-ins and rules, as far as the host has none of its own.
GuiSetUp(item) ==
    /\ gui = "running" /\ item # "unit" /\ integ[item] = "none"
    /\ integ' = [integ EXCEPT ![item] = "own"]
    /\ UNCHANGED <<disk, packaged, gui, daemon, active, settings, exclusive>>

\* install_with: the unit is written, loaded, compared again, enabled, started.
InstallService ==
    /\ gui = "running" /\ integ["unit"] \in {"none", "own"} /\ ~active
    /\ integ' = [integ EXCEPT !["unit"] = "own"]
    /\ active' = TRUE
    /\ daemon' = (IF daemon = "off" THEN "starting" ELSE daemon)
    /\ UNCHANGED <<disk, packaged, gui, settings, exclusive>>

\* At login, or by hand.
UnitStart ==
    /\ integ["unit"] # "none" /\ ~active /\ daemon = "off" /\ Present
    /\ active' = TRUE /\ daemon' = "starting"
    /\ UNCHANGED <<disk, packaged, gui, integ, settings, exclusive>>
DaemonByHand ==
    /\ daemon = "off" /\ Present /\ daemon' = "starting"
    /\ UNCHANGED <<disk, packaged, gui, active, integ, settings, exclusive>>
DaemonLease ==
    /\ daemon = "starting"
    /\ daemon' = (IF SharedFree THEN "running" ELSE "off")
    /\ active' = (active /\ SharedFree)
    /\ UNCHANGED <<disk, packaged, gui, integ, settings, exclusive>>
\* It ends after restoration and its captures, and the lease with it.
DaemonExit ==
    /\ daemon # "off" /\ daemon' = "off" /\ active' = FALSE
    /\ UNCHANGED <<disk, packaged, gui, integ, settings, exclusive>>

OwnersProgress == GuiLease \/ DaemonLease
OwnersStart == GuiStart \/ UnitStart \/ DaemonByHand
OwnersWork == GuiSave \/ InstallService \/ \E item \in Items : GuiSetUp(item)
OwnersExit == GuiExit \/ DaemonExit

-----------------------------------------------------------------------------
(* What a removal does to them. *)

\* observe_systemd, observe_runit: a unit of another installation, or one that
\* cannot be read, stops everything; none is no service.
ServiceKnown == integ["unit"] # "foreign"

\* stop_owned_with: the manager's stop ends the daemon it runs, or fails.
StopOwned == IF active THEN daemon' = "off" /\ active' = FALSE ELSE UNCHANGED <<daemon, active>>

\* remove_owned_with, remove_desktop, remove_user_audio, remove_usb_rules: what
\* is ours and unchanged goes, the rest stays.
Without(item) == [integ EXCEPT ![item] = IF @ = "own" THEN "none" ELSE @]
=============================================================================
