------------------------------ MODULE Removal ------------------------------
(* Removal of an installation (uninstall.rs, uninstall/recovery.rs,          *)
(* uninstall/quiesce.rs): a job of the login user that walks its phases, the *)
(* recovery record it keeps, and the root helpers that remove files of a    *)
(* system prefix.  Every job may fail, be cancelled or die at every phase;   *)
(* a root helper outlives the job that started it.                          *)
EXTENDS Owners

VARIABLES
    system,     \* the prefix can only be written by root
    user,       \* the job of the login user
    plan,       \* its durable recovery record, or NoPlan
    root,       \* root helper -> what it does
    tx,         \* the root-owned bundle of the newest transaction, and whether
                \* its retry command was printed
    worked,     \* an owner changed the host since the job had it to itself
    begun       \* receipts of the snapshots whose files began to be unlinked

removalVars == <<system, user, plan, root, tx, worked, begun>>

Roots == {"root1", "root2"}
NoSnap == [s \in Slots |-> Absent]
NoPlan == [snap |-> NoSnap, consent |-> FALSE, tx |-> FALSE]
Gone   == [state |-> "gone", snap |-> NoSnap, told |-> FALSE]
NoUser == [kind |-> "none", at |-> 1, snap |-> NoSnap, consent |-> FALSE, waits |-> "none", pos |-> 0, result |-> "none"]
NoRoot == [at |-> "idle", snap |-> NoSnap, own |-> FALSE, pos |-> 0]

\* execute_inner without what the caller has done already.
Body_FilesFirst == <<"stopService", "assert", "lease", "assert", "unit", "desktop", "validate",
                     "remove", "audio", "usb", "settings", "gone", "cleanup">>
Body == <<"stopService", "assert", "lease", "assert", "unit", "desktop", "audio",
          "usb", "settings", "validate", "remove", "gone", "cleanup">>
Quiesce == <<"stopApp", "stopService", "lease", "assert", "release">>
Retirement == <<"lease", "remove", "cleanup", "gone">>

Phases(kind) ==
    CASE kind = "window"  -> <<"prepare", "authorize", "freeze", "validate">> \o Body
      [] kind = "cli"     -> <<"validate", "prepare", "authorize", "stopApp">> \o Body
      [] kind = "resume"  -> <<"load", "validate", "authorize", "stopApp">> \o Body
      [] kind = "files"   -> <<"validate", "assert", "lease", "remove">>
      [] kind = "retire"  -> <<"validate", "prepare">> \o Quiesce \o Retirement
      [] kind = "again"   -> <<"load", "stopApp", "stopService", "assert", "lease", "remove", "cleanup">>
      [] kind = "bootstrap" -> <<"bootstrap">> \o Quiesce \o <<"remove", "gone">>

Kinds == {"window", "cli", "resume", "files", "retire", "again", "bootstrap"}

-----------------------------------------------------------------------------
In(phase) == user.kind # "none" /\ Phases(user.kind)[user.at] = phase
Sn == user.snap
Kept == <<disk, packaged>>
HostVars == <<gui, daemon, active, integ, settings, exclusive>>
Rest == <<system, root, worked, begun>>

Last == user.at = Len(Phases(user.kind))
Ended(result) == [NoUser EXCEPT !.result = result, !.snap = Sn, !.consent = user.consent]
Pass == user' = (IF Last THEN Ended("success") ELSE [user EXCEPT !.at = @ + 1])
Released == IF exclusive = "user" THEN "nobody" ELSE exclusive

\* An error return, a cancellation or the death of the job: its lease goes.
GiveUp ==
    /\ user.kind # "none"
    /\ user' = Ended("failed")
    /\ exclusive' = Released
    /\ UNCHANGED <<Kept, gui, daemon, active, integ, settings, plan, tx, Rest>>

NeedsRoot == system /\ ~AppGone(Sn)

\* Guard of each phase; where it does not hold the job returns an error.
Exempt == IF user.kind = "window" THEN {"gui"} ELSE {}
LoadUser == plan # NoPlan /\ Valid(plan.snap) /\ (plan.tx => tx.state # "gone")
TrustedHelper == system /\ disk[Helper] \in Versions
MayAuthorize == (~plan.tx /\ NeedsRoot) => /\ TrustedHelper /\ ~Legacy(Sn)
                                           /\ disk[Receipt] = Sn[Receipt] /\ Valid(Sn)
\* Any rules file of the name needs a helper that root may run; the helper then
\* takes away only a file that is ours.
UsbHelper == integ["usb"] \in {"own", "foreign"} => IF plan.tx THEN tx.state # "gone" ELSE TrustedHelper
HandsOver == (plan.tx /\ user.kind # "files") \/ user.kind = "bootstrap"
ByRoot == HandsOver \/ (NeedsRoot /\ user.kind # "files")
MayHandOff == IF HandsOver THEN tx.state # "gone" ELSE MayAuthorize

Fits(phase) ==
    CASE phase = "load" -> LoadUser
      [] phase = "validate" -> Valid(Sn)
      [] phase = "prepare" -> Valid(Sn) /\ (~Legacy(Sn) => SharedFree)
      [] phase = "authorize" -> MayAuthorize
      [] phase = "freeze" -> gui = "running"
      [] phase \in {"stopService", "unit"} -> ServiceKnown
      [] phase = "assert" -> Seen(Exempt) = {}
      [] phase = "lease" -> ExclusiveFree
      [] phase = "usb" -> UsbHelper
      [] phase = "gone" -> AppGone(Sn)
      [] phase = "bootstrap" -> Valid(Sn)
      [] OTHER -> TRUE

Simple(phase) == In(phase) /\ Fits(phase) /\ Pass

Load == /\ In("load") /\ LoadUser
        /\ user' = [user EXCEPT !.at = @ + 1, !.snap = plan.snap, !.consent = plan.consent]
        /\ UNCHANGED <<Kept, HostVars, plan, tx, Rest>>

Check == /\ \E phase \in {"validate", "assert"} : Simple(phase)
         /\ UNCHANGED <<Kept, HostVars, plan, tx, Rest>>

\* The record and its copy of the helper are durable before anything changes.
Prepare == /\ Simple("prepare")
           /\ plan' = [snap |-> Sn, consent |-> user.consent, tx |-> FALSE]
           /\ UNCHANGED <<Kept, HostVars, tx, Rest>>

\* prepare_root behind pkexec, and its path in the record.
NewBundle == [state |-> "ready", snap |-> Sn, told |-> Legacy(Sn)]
Bundle == /\ tx' = NewBundle
          /\ root' = [r \in Roots |-> [root[r] EXCEPT !.own = FALSE]]
Authorize ==
    /\ Simple("authorize")
    /\ IF plan.tx \/ ~NeedsRoot
       THEN UNCHANGED <<plan, tx, root>>
       ELSE Bundle /\ plan' = [plan EXCEPT !.tx = TRUE]
    /\ UNCHANGED <<Kept, HostVars, system, worked, begun>>
\* The answer is lost: the bundle is there and nobody knows of it.
AuthorizeLost ==
    /\ In("authorize") /\ MayAuthorize /\ ~plan.tx /\ NeedsRoot
    /\ Bundle /\ user' = Ended("failed")
    /\ UNCHANGED <<Kept, HostVars, plan, system, worked, begun>>
Bootstrap == /\ Simple("bootstrap") /\ Bundle
             /\ UNCHANGED <<Kept, HostVars, plan, system, worked, begun>>

\* The window drains and gives its lease up; another is asked to, and is gone
\* when its name is, unless there is no session to ask in.
Freeze == /\ Simple("freeze") /\ gui' = "drained"
          /\ UNCHANGED <<Kept, daemon, active, integ, settings, exclusive, plan, tx, Rest>>
StopApp == /\ Simple("stopApp")
           /\ gui' \in {gui} \cup (IF gui = "running" THEN {"off"} ELSE {})
           /\ UNCHANGED <<Kept, daemon, active, integ, settings, exclusive, plan, tx, Rest>>

StopService == /\ Simple("stopService") /\ StopOwned
               /\ UNCHANGED <<Kept, gui, integ, settings, exclusive, plan, tx, Rest>>
TakeLease == /\ Simple("lease") /\ exclusive' = "user" /\ worked' = FALSE
             /\ UNCHANGED <<Kept, gui, daemon, active, integ, settings, plan, tx, system, root, begun>>
Release == /\ Simple("release") /\ exclusive' = Released
           /\ UNCHANGED <<Kept, gui, daemon, active, integ, settings, plan, tx, Rest>>

RemoveUnit == /\ Simple("unit") /\ StopOwned /\ integ' = Without("unit")
              /\ UNCHANGED <<Kept, gui, settings, exclusive, plan, tx, Rest>>
\* A drop-in is only ours while the asset it was made from is there to compare.
Comparable(item) == item = "audio" => disk[Asset] # Absent
RemoveItem == /\ \E item \in {"desktop", "audio", "usb"} :
                    /\ Simple(item)
                    /\ integ' = (IF Comparable(item) THEN Without(item) ELSE integ)
              /\ UNCHANGED <<Kept, gui, daemon, active, settings, exclusive, plan, tx, Rest>>
RemoveSettings == /\ Simple("settings")
                  /\ settings' = (settings /\ ~user.consent)
                  /\ UNCHANGED <<Kept, gui, daemon, active, integ, exclusive, plan, tx, Rest>>

\* remove_application: the exclusion is dropped for the root helper to take,
\* or the files are unlinked by the job itself.
HandOff ==
    /\ In("remove") /\ user.waits = "none" /\ user.pos = 0 /\ ByRoot /\ MayHandOff
    /\ IF HandsOver THEN UNCHANGED <<plan, tx>>
       ELSE tx' = NewBundle /\ plan' = [plan EXCEPT !.tx = TRUE]
    /\ \E r \in Roots : /\ root[r].at = "idle"
                        /\ root' = [q \in Roots |->
                              IF q = r THEN [NoRoot EXCEPT !.at = "admit", !.own = TRUE]
                              ELSE [root[q] EXCEPT !.own = @ /\ HandsOver]]
                        /\ user' = [user EXCEPT !.waits = r]
    /\ exclusive' = Released
    /\ UNCHANGED <<Kept, gui, daemon, active, integ, settings, system, worked, begun>>
\* remove_inventory: everything is validated, then each slot has its turn.
Begins ==
    /\ In("remove") /\ ~ByRoot /\ user.pos = 0 /\ Valid(Sn)
    /\ user' = [user EXCEPT !.pos = 1]
    /\ begun' = begun \cup {Sn[Receipt]}
    /\ UNCHANGED <<Kept, HostVars, plan, tx, system, root, worked>>
Unlinks ==
    /\ In("remove") /\ user.pos \in DOMAIN Order /\ Turn(Sn, user.pos)
    /\ system => PassedOver(Sn, user.pos)
    /\ user' = [user EXCEPT !.pos = @ + 1]
    /\ UNCHANGED <<packaged, HostVars, plan, tx, Rest>>
Removed ==
    /\ In("remove") /\ user.pos > Len(Order)
    /\ Pass
    /\ exclusive' = Released
    /\ UNCHANGED <<Kept, gui, daemon, active, integ, settings, plan, tx, Rest>>
Answered ==
    /\ In("remove") /\ user.waits # "none" /\ root[user.waits].at \in {"done", "failed"}
    /\ user' = (IF root[user.waits].at = "done" THEN [user EXCEPT !.at = @ + 1, !.waits = "none"]
                ELSE Ended("failed"))
    /\ root' = [root EXCEPT ![user.waits] = NoRoot]
    /\ UNCHANGED <<Kept, HostVars, plan, tx, system, worked, begun>>

CheckGone == /\ Simple("gone") /\ UNCHANGED <<Kept, HostVars, plan, tx, Rest>>
Cleanup == /\ Simple("cleanup") /\ plan' = NoPlan
           /\ UNCHANGED <<Kept, HostVars, tx, Rest>>

\* The guard of the phase does not hold.
Stuck == \/ \E phase \in {Phases(user.kind)[user.at]} : ~Fits(phase)
         \/ /\ In("remove") /\ user.waits = "none"
            /\ IF user.pos = 0 THEN IF ByRoot THEN ~MayHandOff ELSE ~Valid(Sn)
               ELSE user.pos \in DOMAIN Order /\ ~(TurnFits(Sn, user.pos) /\ (system => PassedOver(Sn, user.pos)))
Refused == user.kind # "none" /\ Stuck /\ GiveUp

UserStep ==
    \/ Load \/ Check \/ Prepare \/ Authorize \/ Bootstrap \/ Freeze \/ StopApp \/ StopService
    \/ TakeLease \/ Release \/ RemoveUnit \/ RemoveItem \/ RemoveSettings \/ HandOff \/ Begins \/ Unlinks
    \/ Removed \/ Answered \/ CheckGone \/ Cleanup \/ Refused

\* A job begins with the inventory it inspected, or with the record: then it
\* is the command that was printed with the record.
Accepts(kind, sn) ==
    CASE kind \in {"resume", "again"} -> sn = plan.snap
      [] kind = "window" -> gui = "running" /\ Present /\ sn \in InspectPrefix /\ ~Legacy(sn)
      [] kind = "cli" -> Present /\ sn \in InspectPrefix /\ ~Legacy(sn)
      [] kind = "files" -> sn \in InspectPrefix
      [] kind \in {"retire", "bootstrap"} -> sn \in InspectPrefix /\ Legacy(sn) /\ system = (kind = "bootstrap")
UserStart(kind) ==
    /\ user.kind = "none"
    /\ kind \in {"resume", "again"} => plan # NoPlan
    /\ kind \in {"resume", "again"} => (kind = "again") = Legacy(plan.snap)
    /\ \E sn \in InspectPrefix \cup {plan.snap}, consent \in BOOLEAN :
          /\ Accepts(kind, sn)
          /\ consent => kind \in {"window", "cli"}
          /\ user' = [NoUser EXCEPT !.kind = kind, !.snap = sn, !.consent = consent]
    /\ UNCHANGED <<Kept, HostVars, plan, tx, Rest>>

\* The window that removed its own installation closes.
DrainedExit == /\ gui = "drained" /\ user.kind # "window" /\ gui' = "off"
               /\ UNCHANGED <<Kept, daemon, active, integ, settings, exclusive, user, plan, tx, Rest>>

-----------------------------------------------------------------------------
(* resume_root: the helper that pkexec runs, or the administrator by hand.  *)

RootGo(r, at) == root' = [root EXCEPT ![r].at = at]
ExemptCaller(r) == IF user.kind = "window" /\ user.waits = r THEN {"gui"} ELSE {}
RootHold_None(r) == exclusive' = exclusive
RootHold(r) == exclusive' = r
RootReleases(r) == exclusive' = (IF exclusive = r THEN "nobody" ELSE exclusive)

RootAdmit(r) ==
    /\ root[r].at = "admit" /\ tx.state = "ready" /\ Valid(tx.snap)
    /\ root' = [root EXCEPT ![r].at = "lease", ![r].snap = tx.snap]
    /\ UNCHANGED <<Kept, HostVars, user, plan, tx, system, worked, begun>>
RootLease(r) ==
    /\ root[r].at = "lease" /\ ExclusiveFree /\ RootHold(r) /\ RootGo(r, "assert")
    /\ UNCHANGED <<Kept, gui, daemon, active, integ, settings, user, plan, tx, system, worked, begun>>
RootAssert(r) ==
    /\ root[r].at = "assert" /\ Seen(ExemptCaller(r)) = {} /\ RootGo(r, "remove")
    /\ UNCHANGED <<Kept, HostVars, user, plan, tx, system, worked, begun>>
RootBegins(r) ==
    /\ root[r].at = "remove" /\ root[r].pos = 0 /\ Valid(root[r].snap)
    /\ root' = [root EXCEPT ![r].pos = 1]
    /\ begun' = begun \cup {root[r].snap[Receipt]}
    /\ UNCHANGED <<Kept, HostVars, user, plan, tx, system, worked>>
RootUnlinks(r) ==
    /\ root[r].at = "remove" /\ root[r].pos \in DOMAIN Order /\ Turn(root[r].snap, root[r].pos)
    /\ root' = [root EXCEPT ![r].pos = @ + 1]
    /\ UNCHANGED <<packaged, HostVars, user, plan, tx, system, worked, begun>>
RootRemoved(r) ==
    /\ root[r].at = "remove" /\ root[r].pos > Len(Order) /\ RootGo(r, "authority")
    /\ UNCHANGED <<Kept, HostVars, user, plan, tx, system, worked, begun>>
RootClears(r) ==
    /\ \/ /\ root[r].at = "authority" /\ RootGo(r, "helper") /\ UNCHANGED exclusive
          /\ tx' = (IF root[r].own THEN [tx EXCEPT !.state = "helper"] ELSE tx)
       \/ /\ root[r].at = "helper" /\ RootGo(r, "done") /\ RootReleases(r)
          /\ tx' = (IF root[r].own THEN Gone ELSE tx)
    /\ UNCHANGED <<Kept, gui, daemon, active, integ, settings, user, plan, system, worked, begun>>
RootFits(r) ==
    CASE root[r].at = "admit" -> tx.state = "ready" /\ Valid(tx.snap)
      [] root[r].at = "lease" -> ExclusiveFree
      [] root[r].at = "assert" -> Seen(ExemptCaller(r)) = {}
      [] root[r].at = "remove" -> \/ root[r].pos = 0 /\ Valid(root[r].snap)
                                  \/ root[r].pos > Len(Order)
                                  \/ root[r].pos \in DOMAIN Order /\ TurnFits(root[r].snap, root[r].pos)
      [] OTHER -> TRUE
RootFails(r) ==
    /\ root[r].at \in {"admit", "lease", "assert", "remove", "authority", "helper"}
    /\ RootGo(r, "failed") /\ RootReleases(r)
    /\ tx' = (IF root[r].own THEN [tx EXCEPT !.told = tx.state # "gone"] ELSE tx)
    /\ UNCHANGED <<Kept, gui, daemon, active, integ, settings, user, plan, system, worked, begun>>
\* The pipe of a job that is gone tells the supervisor to kill its worker.
RootCancelled(r) == user.waits # r /\ RootFails(r)
RootRefused(r) == ~RootFits(r) /\ RootFails(r)
\* Nobody waits for its answer any more.
RootForgotten(r) ==
    /\ root[r].at \in {"done", "failed"} /\ user.waits # r
    /\ root' = [root EXCEPT ![r] = NoRoot]
    /\ UNCHANGED <<Kept, HostVars, user, plan, tx, system, worked, begun>>
\* "Retry: pkexec ... resume-privileged", as a failed helper prints it.
AdminResume(r) ==
    /\ root[r].at = "idle" /\ tx.state = "ready" /\ tx.told
    /\ root' = [root EXCEPT ![r] = [NoRoot EXCEPT !.at = "admit", !.own = TRUE]]
    /\ UNCHANGED <<Kept, HostVars, user, plan, tx, system, worked, begun>>

RootStep(r) == \/ RootAdmit(r) \/ RootLease(r) \/ RootAssert(r) \/ RootBegins(r) \/ RootUnlinks(r) \/ RootRemoved(r)
               \/ RootClears(r) \/ RootRefused(r) \/ RootForgotten(r)
=============================================================================
