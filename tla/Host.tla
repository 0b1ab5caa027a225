-------------------------------- MODULE Host --------------------------------
(* One installation and everybody who acts on it: the programs that use it,  *)
(* the installer of the next version, the removal jobs and their root        *)
(* helpers, and a host that changes files under all of them.  What may       *)
(* happen, and how often, is the plan of the behaviour.                      *)
EXTENDS Installer, Removal

CONSTANT Plans      \* what the host is at first, and what may happen

\* Version 2 is what the installer brings: the host has at most version 1, and
\* nobody is in the middle of anything.
ASSUME PlansAssumption == \A p \in Plans :
    /\ p.disk \in [Slots -> {Absent, 1, Alien}]
    /\ p.gui \in {"off", "running"} /\ p.daemon \in {"off", "running"}
    /\ p.integ \in [Items -> {"none", "own", "managed", "foreign"}]

VARIABLES
    left,           \* how often each of it may still happen
    beside,         \* an installer ran while files of its own version were removed
    stripped        \* files_only took the audio asset while a removal was unfinished

vars == <<disk, packaged, installerVars, ownerVars, removalVars, left, beside, stripped>>

Init ==
    \E p \in Plans :
        /\ disk = p.disk /\ packaged = FALSE
        /\ InstInit
        /\ gui = p.gui /\ daemon = p.daemon /\ active = (p.daemon = "running")
        /\ integ = p.integ /\ settings = TRUE /\ exclusive = "nobody"
        /\ system = p.system /\ user = NoUser /\ plan = NoPlan
        /\ root = [r \in Roots |-> NoRoot] /\ tx = Gone
        /\ worked = FALSE /\ begun = {}
        /\ left = p.left /\ beside = FALSE /\ stripped = FALSE

Spend(what) == left[what] > 0 /\ left' = [left EXCEPT ![what] = @ - 1]
Free == UNCHANGED left

Install == /\ (InstStart /\ Spend("install")) \/ (InstallerStep /\ Free)
           /\ UNCHANGED <<ownerVars, removalVars>>

\* A program in use, and what it does to the host.
Own == /\ \/ OwnersProgress /\ Free /\ UNCHANGED worked
          \/ OwnersStart /\ Spend("start") /\ UNCHANGED worked
          \/ OwnersWork /\ Spend("work") /\ worked' = TRUE
          \/ OwnersExit /\ (user.kind = "window" => gui' = gui) /\ Free /\ UNCHANGED worked
       /\ UNCHANGED <<installerVars, system, user, plan, root, tx, begun>>

Remove == /\ \/ UserStep /\ Free
             \/ \E kind \in Kinds \ {"resume", "again"} : UserStart(kind) /\ Spend(kind)
             \/ \E kind \in {"resume", "again"} : UserStart(kind) /\ Free
             \/ (GiveUp \/ AuthorizeLost) /\ Spend("fault")
             \/ DrainedExit /\ Free
          /\ UNCHANGED installerVars
RemoveAsRoot(r) == /\ \/ (RootStep(r) \/ RootCancelled(r)) /\ Free
                      \/ RootFails(r) /\ Spend("fault")
                      \/ AdminResume(r) /\ Spend("admin")
                   /\ UNCHANGED installerVars

\* Somebody replaces a file, or a package manager takes the files over.
Edit == /\ \/ packaged' = TRUE /\ UNCHANGED disk
           \/ \E s \in Payload : disk' = [disk EXCEPT ![s] = Alien] /\ UNCHANGED packaged
        /\ Spend("edit")
        /\ UNCHANGED <<ownerVars, removalVars, installerVars>>

\* Nothing keeps the installer and the removal of its version apart.
Removing(v) == \/ user.pos > 0 /\ Sn[Receipt] = v
               \/ \E r \in Roots : root[r].pos > 0 /\ root[r].snap[Receipt] = v
\* Nor does a removal that is to be finished keep files_only from the prefix.
Strips == user.kind = "files" /\ disk'[Asset] # disk[Asset]
Watch == /\ beside' = (beside \/ (~At("idle") /\ Removing(2)))
         /\ stripped' = (plan' # NoPlan /\ (stripped \/ Strips))
Next == (Install \/ Own \/ Remove \/ (\E r \in Roots : RemoveAsRoot(r)) \/ Edit) /\ Watch

Spec == Init /\ [][Next]_vars

\* Processes that run, run on; the login user repeats the printed command.
Alone == Free /\ Watch /\ UNCHANGED installerVars
Resumes == UserStart("resume") \/ UserStart("again")
Fairness == /\ WF_vars(UserStep /\ Alone)
            /\ WF_vars(Resumes /\ Alone)
            /\ WF_vars(DrainedExit /\ Alone)
            /\ \A r \in Roots : WF_vars(RootStep(r) /\ Alone)
FairSpec == Spec /\ Fairness

-----------------------------------------------------------------------------

\* The leases do what they are for (Lease::acquire, the handover of the
\* exclusion to the root helper): nothing of the installation, of its
\* integration or of the settings is taken away while a program uses it or by
\* a process that does not hold it alone.
Things == {s \in Slots : disk[s] # Absent}
          \cup {item \in Items : integ[item] = "own"}
          \cup (IF settings THEN {"settings"} ELSE {})
Exclusive == INSTANCE Exclusion WITH
    Programs <- {"gui", "daemon"}, Holders <- {"user"} \cup Roots, Nobody <- "nobody",
    using <- {p \in {"gui", "daemon"} : (p = "gui" /\ gui = "running") \/ (p = "daemon" /\ daemon = "running")},
    holder <- exclusive, things <- Things
TakenAloneOnly == Exclusive!Spec

\* verify_payload after the receipt, and the comparison with the receipt
\* before every unlink: when an upgrade has ended, no file of the version
\* before is left under the new receipt, and a removal that was accepted for
\* the version before has taken nothing of the new one.
NoMixedInstall ==
    disk[Receipt] = 2 /\ authority = NoRecord /\ ~packaged =>
        \A s \in Payload : \/ disk[s] \in {Accepted[s], Alien}
                           \/ disk[s] = Absent /\ 2 \in begun

\* The receipt is published last and removed last, and what has no receipt
\* has a record: whatever fails or dies, every file of OpenWave in the prefix
\* is in an inventory that somebody can finish.
Explained ==
    (\E s \in Payload : disk[s] \in Versions) =>
        \/ disk[Receipt] # Absent \/ LegacyInstalled
        \/ authority # NoRecord \/ beside
        \/ plan # NoPlan \/ tx.state = "ready" \/ \E r \in Roots : root[r].at = "remove"
        \/ In("remove")

\* A removal that reports success has left none of the files, none of the
\* integration that is ours, and no settings that were to go.  One thing is
\* excepted, against README.md:225: the audio drop-in, when files_only took the
\* files of a removal that had failed and is tried again.  The retry has no asset
\* left to know the drop-in by, passes over it (uninstall.rs:489) and succeeds.
Cleaned == /\ AppGone(Sn)
           /\ \A item \in Items : integ[item] # "own" \/ (item = "audio" /\ stripped)
           /\ user.consent => ~settings
Succeeds == user.kind \in {"window", "cli", "resume"} /\ In("gone") /\ user'.at = user.at + 1
\* As far as no program of the installation changed the host after the job had
\* it to itself.
UninstallComplete == [][Succeeds /\ ~worked => Cleaned]_vars

\* With the printed command repeated, a removal that began ends with the files
\* gone, unless something stands in its way that the user has to settle.
Blocked == \/ ~Valid(plan.snap) \/ integ["unit"] = "foreign"
           \/ gui # "off" \/ daemon # "off"
           \/ integ["usb"] \in {"own", "foreign"} /\ ~system
           \/ plan.tx /\ tx.state # "ready"     \* carried out, and installed again since
           \/ system /\ ~plan.tx /\ ~(disk[Helper] \in Versions)
Settles == <>[](plan # NoPlan => AppGone(plan.snap) \/ Blocked)
=============================================================================
