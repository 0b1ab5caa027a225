----------------------------- MODULE Host_proof -----------------------------
(* What holds of every installation: the leases are what Exclusion promises, *)
(* and an upgrade is never mixed with what a removal leaves.                 *)
EXTENDS Host, SequenceTheorems, TLAPS

-----------------------------------------------------------------------------
(* The invariant *)

Snaps   == [Slots -> {Absent, 1, 2, Alien}]
\* What may be accepted for a removal: a receipt lists every file.
Inventories == {sn \in Snaps : sn[Receipt] # Absent => \A s \in Slots : sn[s] # Absent}
Users   == [kind : Kinds \cup {"none"}, at : Nat, snap : Inventories, consent : BOOLEAN,
            waits : Roots \cup {"none"}, pos : Nat, result : {"none", "success", "failed"}]
Records == [snap : Inventories, consent : BOOLEAN, tx : BOOLEAN]
Helpers == [at : {"idle", "admit", "lease", "assert", "remove", "authority", "helper", "done", "failed"},
            snap : Inventories, own : BOOLEAN, pos : Nat]
Installers == [at : {"idle", "record", "expect", "publish", "verify", "receipt", "reverify", "finish"},
               expected : Snaps]
Bundles == [state : {"gone", "ready", "helper"}, snap : Inventories, told : BOOLEAN]

HostType ==
    /\ disk \in Snaps
    /\ integ \in [Items -> {"none", "own", "managed", "foreign"}]
    /\ gui \in {"off", "starting", "running", "drained"}
    /\ daemon \in {"off", "starting", "running"}
    /\ exclusive \in {"nobody", "user"} \cup Roots
    /\ user \in Users
    /\ user.kind # "none" => user.at \in DOMAIN Phases(user.kind)
    /\ plan \in Records
    /\ root \in [Roots -> Helpers]
    /\ tx \in Bundles

\* Who holds the installation alone holds it against every program.
HeldAlone == exclusive # "nobody" => ~SharedHeld

\* The phases between the lease of a job and its end.
Held(kind) ==
    CASE kind \in {"window", "cli", "resume"} -> 8 .. 15
      [] kind = "files" -> {4}
      [] kind = "retire" -> {6, 7, 9}
      [] kind = "again" -> {6}
      [] kind = "bootstrap" -> {5, 6}
      [] OTHER -> {}

\* A job in these phases holds the installation, until it hands it to a helper;
\* while it waits for one it removes nothing, and only one that keeps the lease
\* unlinks.
JobHolds ==
    /\ user.kind # "none" /\ user.waits = "none" /\ user.at \in Held(user.kind) => exclusive = "user"
    /\ user.waits # "none" => In("remove") /\ user.pos = 0 /\ HandsOver
    /\ user.pos > 0 => /\ user.kind \notin {"none", "bootstrap"} /\ user.waits = "none"
                       /\ \E phase \in {"remove", "gone", "cleanup"} : In(phase)

\* A helper holds it from its lease to its end.
HelperHolds ==
    \A r \in Roots : /\ root[r].at \in {"assert", "remove", "authority", "helper"} => exclusive = r
                     /\ root[r].at \in {"admit", "lease"} => root[r].pos = 0

\* What was unlinked was unlinked for a receipt in begun.
BegunKnown ==
    /\ user.pos > 0 => Sn[Receipt] \in begun
    /\ \A r \in Roots : root[r].pos > 0 => root[r].snap[Receipt] \in begun

\* The helper that installs has its record from the first slot to the last.
Recorded ==
    /\ inst \in Installers
    /\ inst.at \in {"expect", "publish", "verify", "receipt", "reverify", "finish"} => authority # NoRecord
    /\ inst.at \in {"reverify", "finish"} => inst.expected[Receipt] = Accepted[Receipt]

\* The files under the new receipt, once the record is about to be dropped.
Unmixed ==
    disk[Receipt] = 2 /\ ~packaged /\ (authority = NoRecord \/ inst.at = "finish") =>
        \A s \in Payload : \/ disk[s] \in {Accepted[s], Alien}
                           \/ disk[s] = Absent /\ 2 \in begun

\* Behind the slot of a removal no file is left, as long as its receipt is there
\* and no installer was at work; so it goes last.
Calm == authority = NoRecord /\ ~beside
Behind(files, sn, p) ==
    p > 0 /\ sn[Receipt] # Absent /\ files[Receipt] = sn[Receipt] =>
        \A i \in DOMAIN Order : i < p => files[Order[i]] \notin Versions
SweptBehind ==
    Calm => /\ Behind(disk, user.snap, user.pos)
            /\ \A r \in Roots : Behind(disk, root[r].snap, root[r].pos)
ReceiptGoesLast ==
    Calm /\ disk[Receipt] = Absent => \A s \in Payload : disk[s] \notin Versions

LeaseInv == HostType /\ HeldAlone /\ JobHolds /\ HelperHolds
FilesInv == BegunKnown /\ Recorded /\ Unmixed
SweepInv == SweptBehind /\ ReceiptGoesLast
IInv     == LeaseInv /\ FilesInv

-----------------------------------------------------------------------------
(* The phases of every kind of job *)

Names == {"prepare", "authorize", "freeze", "validate", "stopService", "assert", "lease", "unit",
          "desktop", "audio", "usb", "settings", "remove", "gone", "cleanup", "load", "stopApp",
          "release", "bootstrap"}

\* Two sequences in a row are the one that has the items of both.
LEMMA InARow ==
    ASSUME NEW p \in Seq(Names), NEW b \in Seq(Names), NEW w \in Seq(Names),
           Len(w) = Len(p) + Len(b),
           \A i \in 1 .. Len(p) : p[i] = w[i],
           \A i \in 1 .. Len(b) : b[i] = w[Len(p) + i]
    PROVE  p \o b = w
<1>1. /\ p \o b \in Seq(Names) /\ Len(p \o b) = Len(p) + Len(b)
      /\ \A i \in 1 .. Len(p) + Len(b) : (p \o b)[i] = IF i <= Len(p) THEN p[i] ELSE b[i - Len(p)]
  BY ConcatProperties
<1>2. ASSUME NEW i \in 1 .. Len(w)
      PROVE  (p \o b)[i] = w[i]
  <2>1. CASE i <= Len(p)
    BY <1>1, <2>1, LenProperties
  <2>2. CASE i > Len(p)
    <3>1. i - Len(p) \in 1 .. Len(b) /\ Len(p) + (i - Len(p)) = i
      BY <2>2, LenProperties
    <3>2. (p \o b)[i] = b[i - Len(p)]
      BY <1>1, <2>2, LenProperties
    <3>3. b[i - Len(p)] = w[Len(p) + (i - Len(p))]
      BY <3>1
    <3> QED
      BY <3>1, <3>2, <3>3
  <2> QED
    BY <2>1, <2>2, LenProperties
<1> QED
  BY <1>1, <1>2, SeqEqual

LEMMA BodySeq == Body \in Seq(Names) /\ Len(Body) = 13
<1>1. Len(Body) = 13
  BY DEF Body
<1>2. Body \in Seq(Names)
  BY DEF Body, Names
<1> QED
  BY <1>1, <1>2

LEMMA QuiesceSeq == Quiesce \in Seq(Names) /\ Len(Quiesce) = 5
<1>1. Len(Quiesce) = 5
  BY DEF Quiesce
<1>2. Quiesce \in Seq(Names)
  BY DEF Quiesce, Names
<1> QED
  BY <1>1, <1>2

LEMMA RetirementSeq == Retirement \in Seq(Names) /\ Len(Retirement) = 4
<1>1. Len(Retirement) = 4
  BY DEF Retirement
<1>2. Retirement \in Seq(Names)
  BY DEF Retirement, Names
<1> QED
  BY <1>1, <1>2

Window_Is == <<"prepare", "authorize", "freeze", "validate", "stopService", "assert", "lease",
               "assert", "unit", "desktop", "audio", "usb", "settings", "validate", "remove", "gone",
               "cleanup">>
LEMMA WindowPhases == Phases("window") = Window_Is
<1> DEFINE p == <<"prepare", "authorize", "freeze", "validate">>
<1>1. p \in Seq(Names) /\ Len(p) = 4
  BY DEF Names
<1>2. Phases("window") = p \o Body
  BY DEF Phases
<1>3. Window_Is \in Seq(Names) /\ Len(Window_Is) = 17
  BY DEF Window_Is, Names
<1>4. \A i \in 1 .. 4 : p[i] = Window_Is[i]
  BY DEF Window_Is
<1>5. \A i \in 1 .. 13 : Body[i] = Window_Is[4 + i]
  BY DEF Window_Is, Body
<1> HIDE DEF p
<1>6. /\ Len(Window_Is) = Len(p) + Len(Body)
      /\ \A i \in 1 .. Len(p) : p[i] = Window_Is[i]
      /\ \A i \in 1 .. Len(Body) : Body[i] = Window_Is[Len(p) + i]
  BY <1>1, <1>3, <1>4, <1>5, BodySeq
<1>7. p \o Body = Window_Is
  BY <1>1, <1>3, <1>6, BodySeq, InARow
<1> QED
  BY <1>2, <1>7

Cli_Is == <<"validate", "prepare", "authorize", "stopApp", "stopService", "assert", "lease",
            "assert", "unit", "desktop", "audio", "usb", "settings", "validate", "remove", "gone",
            "cleanup">>
LEMMA CliPhases == Phases("cli") = Cli_Is
<1> DEFINE p == <<"validate", "prepare", "authorize", "stopApp">>
<1>1. p \in Seq(Names) /\ Len(p) = 4
  BY DEF Names
<1>2. Phases("cli") = p \o Body
  BY DEF Phases
<1>3. Cli_Is \in Seq(Names) /\ Len(Cli_Is) = 17
  BY DEF Cli_Is, Names
<1>4. \A i \in 1 .. 4 : p[i] = Cli_Is[i]
  BY DEF Cli_Is
<1>5. \A i \in 1 .. 13 : Body[i] = Cli_Is[4 + i]
  BY DEF Cli_Is, Body
<1> HIDE DEF p
<1>6. /\ Len(Cli_Is) = Len(p) + Len(Body)
      /\ \A i \in 1 .. Len(p) : p[i] = Cli_Is[i]
      /\ \A i \in 1 .. Len(Body) : Body[i] = Cli_Is[Len(p) + i]
  BY <1>1, <1>3, <1>4, <1>5, BodySeq
<1>7. p \o Body = Cli_Is
  BY <1>1, <1>3, <1>6, BodySeq, InARow
<1> QED
  BY <1>2, <1>7

Resume_Is == <<"load", "validate", "authorize", "stopApp", "stopService", "assert", "lease",
               "assert", "unit", "desktop", "audio", "usb", "settings", "validate", "remove", "gone",
               "cleanup">>
LEMMA ResumePhases == Phases("resume") = Resume_Is
<1> DEFINE p == <<"load", "validate", "authorize", "stopApp">>
<1>1. p \in Seq(Names) /\ Len(p) = 4
  BY DEF Names
<1>2. Phases("resume") = p \o Body
  BY DEF Phases
<1>3. Resume_Is \in Seq(Names) /\ Len(Resume_Is) = 17
  BY DEF Resume_Is, Names
<1>4. \A i \in 1 .. 4 : p[i] = Resume_Is[i]
  BY DEF Resume_Is
<1>5. \A i \in 1 .. 13 : Body[i] = Resume_Is[4 + i]
  BY DEF Resume_Is, Body
<1> HIDE DEF p
<1>6. /\ Len(Resume_Is) = Len(p) + Len(Body)
      /\ \A i \in 1 .. Len(p) : p[i] = Resume_Is[i]
      /\ \A i \in 1 .. Len(Body) : Body[i] = Resume_Is[Len(p) + i]
  BY <1>1, <1>3, <1>4, <1>5, BodySeq
<1>7. p \o Body = Resume_Is
  BY <1>1, <1>3, <1>6, BodySeq, InARow
<1> QED
  BY <1>2, <1>7

Again_Is == <<"load", "stopApp", "stopService", "assert", "lease", "remove", "cleanup">>
LEMMA AgainPhases == Phases("again") = Again_Is
  BY DEF Phases, Again_Is

Retire_Head == <<"validate", "prepare", "stopApp", "stopService", "lease", "assert", "release">>
Retire_Is == <<"validate", "prepare", "stopApp", "stopService", "lease", "assert", "release",
               "lease", "remove", "cleanup", "gone">>
LEMMA RetirePhases == Phases("retire") = Retire_Is
<1> DEFINE p == <<"validate", "prepare">>
           q == Retirement
<1>1. /\ p \in Seq(Names) /\ Len(p) = 2 /\ q \in Seq(Names) /\ Len(q) = 4
  BY RetirementSeq DEF Names
<1>2. Phases("retire") = (p \o Quiesce) \o q
  BY DEF Phases
<1>3. /\ Retire_Head \in Seq(Names) /\ Len(Retire_Head) = 7
      /\ Retire_Is \in Seq(Names) /\ Len(Retire_Is) = 11
  BY DEF Retire_Head, Retire_Is, Names
<1>4. /\ \A i \in 1 .. 2 : p[i] = Retire_Head[i]
      /\ \A i \in 1 .. 5 : Quiesce[i] = Retire_Head[2 + i]
  BY DEF Retire_Head, Quiesce
<1>5. /\ \A i \in 1 .. 7 : Retire_Head[i] = Retire_Is[i]
      /\ \A i \in 1 .. 4 : q[i] = Retire_Is[7 + i]
  BY DEF Retire_Head, Retire_Is, Retirement
<1> HIDE DEF p, q
<1>6. /\ Len(Retire_Head) = Len(p) + Len(Quiesce)
      /\ \A i \in 1 .. Len(p) : p[i] = Retire_Head[i]
      /\ \A i \in 1 .. Len(Quiesce) : Quiesce[i] = Retire_Head[Len(p) + i]
  BY <1>1, <1>3, <1>4, QuiesceSeq
<1>7. /\ Len(Retire_Is) = Len(Retire_Head) + Len(q)
      /\ \A i \in 1 .. Len(Retire_Head) : Retire_Head[i] = Retire_Is[i]
      /\ \A i \in 1 .. Len(q) : q[i] = Retire_Is[Len(Retire_Head) + i]
  BY <1>1, <1>3, <1>5
<1>8. p \o Quiesce = Retire_Head
  BY <1>1, <1>3, <1>6, QuiesceSeq, InARow
<1>9. Retire_Head \o q = Retire_Is
  BY <1>1, <1>3, <1>7, InARow
<1> QED
  BY <1>2, <1>8, <1>9

Bootstrap_Head == <<"bootstrap", "stopApp", "stopService", "lease", "assert", "release">>
Bootstrap_Is == <<"bootstrap", "stopApp", "stopService", "lease", "assert", "release", "remove",
                  "gone">>
LEMMA BootstrapPhases == Phases("bootstrap") = Bootstrap_Is
<1> DEFINE p == <<"bootstrap">>
           q == <<"remove", "gone">>
<1>1. /\ p \in Seq(Names) /\ Len(p) = 1 /\ q \in Seq(Names) /\ Len(q) = 2
  BY DEF Names
<1>2. Phases("bootstrap") = (p \o Quiesce) \o q
  BY DEF Phases
<1>3. /\ Bootstrap_Head \in Seq(Names) /\ Len(Bootstrap_Head) = 6
      /\ Bootstrap_Is \in Seq(Names) /\ Len(Bootstrap_Is) = 8
  BY DEF Bootstrap_Head, Bootstrap_Is, Names
<1>4. /\ \A i \in 1 .. 1 : p[i] = Bootstrap_Head[i]
      /\ \A i \in 1 .. 5 : Quiesce[i] = Bootstrap_Head[1 + i]
  BY DEF Bootstrap_Head, Quiesce
<1>5. /\ \A i \in 1 .. 6 : Bootstrap_Head[i] = Bootstrap_Is[i]
      /\ \A i \in 1 .. 2 : q[i] = Bootstrap_Is[6 + i]
  BY DEF Bootstrap_Head, Bootstrap_Is
<1> HIDE DEF p, q
<1>6. /\ Len(Bootstrap_Head) = Len(p) + Len(Quiesce)
      /\ \A i \in 1 .. Len(p) : p[i] = Bootstrap_Head[i]
      /\ \A i \in 1 .. Len(Quiesce) : Quiesce[i] = Bootstrap_Head[Len(p) + i]
  BY <1>1, <1>3, <1>4, QuiesceSeq
<1>7. /\ Len(Bootstrap_Is) = Len(Bootstrap_Head) + Len(q)
      /\ \A i \in 1 .. Len(Bootstrap_Head) : Bootstrap_Head[i] = Bootstrap_Is[i]
      /\ \A i \in 1 .. Len(q) : q[i] = Bootstrap_Is[Len(Bootstrap_Head) + i]
  BY <1>1, <1>3, <1>5
<1>8. p \o Quiesce = Bootstrap_Head
  BY <1>1, <1>3, <1>6, QuiesceSeq, InARow
<1>9. Bootstrap_Head \o q = Bootstrap_Is
  BY <1>1, <1>3, <1>7, InARow
<1> QED
  BY <1>2, <1>8, <1>9

Files_Is == <<"validate", "assert", "lease", "remove">>
LEMMA FilesPhases == Phases("files") = Files_Is
  BY DEF Phases, Files_Is

\* What the places of the phases come to: whatever is taken away is taken away
\* in a held phase, a held phase follows the lease or a held phase, and files
\* are the last thing that goes.
Walks(kind, w) ==
    /\ DOMAIN w = 1 .. Len(w) /\ Len(w) \in Nat /\ Len(w) > 1 /\ 1 \notin Held(kind)
    /\ \A i \in DOMAIN w :
          /\ w[i] \in {"unit", "desktop", "audio", "usb", "settings"} => i \in Held(kind)
          /\ w[i] = "remove" /\ kind # "bootstrap" => i \in Held(kind)
          /\ i + 1 \in Held(kind) =>
                w[i] = "lease" \/ (i \in Held(kind) /\ w[i] \notin {"release", "remove"})
          /\ w[i] = "remove" /\ kind # "files" => i < Len(w)
          /\ w[i] \in {"remove", "gone", "cleanup"} /\ i < Len(w) => w[i + 1] \in {"gone", "cleanup"}
          /\ w[i] = "load" => i = 1

LEMMA PhasesWalk ==
    ASSUME NEW kind \in Kinds
    PROVE  Walks(kind, Phases(kind))
<1>1. Walks("window", Window_Is)
  BY DEF Walks, Held, Window_Is
<1>2. Walks("cli", Cli_Is)
  BY DEF Walks, Held, Cli_Is
<1>3. Walks("resume", Resume_Is)
  BY DEF Walks, Held, Resume_Is
<1>4. Walks("files", Files_Is)
  BY DEF Walks, Held, Files_Is
<1>5. Walks("retire", Retire_Is)
  BY DEF Walks, Held, Retire_Is
<1>6. Walks("again", Again_Is)
  BY DEF Walks, Held, Again_Is
<1>7. Walks("bootstrap", Bootstrap_Is)
  BY DEF Walks, Held, Bootstrap_Is
<1> QED
  BY <1>1, <1>2, <1>3, <1>4, <1>5, <1>6, <1>7,
     WindowPhases, CliPhases, ResumePhases, FilesPhases, RetirePhases, AgainPhases,
     BootstrapPhases DEF Kinds

-----------------------------------------------------------------------------
(* Slots, snapshots and what a step leaves alone *)

LEMMA SlotsAre ==
    /\ Receipt \in Slots /\ DOMAIN Order = 1 .. Len(Order) /\ Len(Order) \in Nat
    /\ \A i \in DOMAIN Order : Visited(i) \in Slots
    /\ Payload \subseteq Slots
<1>1. DOMAIN Order = 1 .. Len(Order) /\ Len(Order) \in Nat /\ Len(Order) > 2
  BY OrderAssumption, LenProperties
<1> QED
  BY <1>1 DEF Receipt, Slots, Visited, Payload

LEMMA ContentIs ==
    \A v \in Versions : SnapshotOf(v) \in Inventories /\ \A s \in Slots : SnapshotOf(v)[s] \in Versions
  BY DEF SnapshotOf, Content, Versions, Snaps, Inventories, Absent

LEMMA InspectedAre ==
    ASSUME disk \in Snaps
    PROVE  InspectPrefix \subseteq Inventories
<1>1. LegacySnapshot \in Inventories
  BY SlotsAre DEF LegacySnapshot, Snaps, Absent, Inventories
<1> QED
  BY <1>1, ContentIs DEF InspectPrefix

LEMMA NothingKnown == NoSnap \in Inventories /\ NoUser \in Users /\ NoRoot \in Helpers
<1>1. NoSnap \in Inventories
  BY SlotsAre DEF NoSnap, Snaps, Inventories
<1> QED
  BY <1>1 DEF NoUser, NoRoot, Users, Helpers

\* Where a job is, by its place.
LEMMA PlaceOf ==
    ASSUME HostType, user.kind # "none"
    PROVE  /\ user.kind \in Kinds /\ Walks(user.kind, Phases(user.kind))
           /\ user.at \in 1 .. Len(Phases(user.kind))
<1>1. user.kind \in Kinds
  BY DEF HostType, Users
<1> QED
  BY <1>1, PhasesWalk DEF HostType, Walks

\* The job, its record and what it holds are as before.
JobKept == UNCHANGED <<user, plan>> /\ (exclusive = "user" => exclusive' = "user")
LEMMA JobRests ==
    ASSUME LeaseInv, JobKept
    PROVE  JobHolds' /\ user' \in Users /\ (user'.kind # "none" => user'.at \in DOMAIN Phases(user'.kind))
<1>1. JobHolds'
  BY DEF LeaseInv, JobHolds, JobKept, In, HandsOver
<1> QED
  BY <1>1 DEF LeaseInv, HostType, JobKept

HelpersKept == /\ root' \in [Roots -> Helpers] /\ \A r \in Roots : exclusive = r => exclusive' = r
               /\ \A r \in Roots : root'[r].at = root[r].at /\ root'[r].pos = root[r].pos
LEMMA HelpersRest ==
    ASSUME LeaseInv, HelpersKept
    PROVE  HelperHolds'
  BY DEF LeaseInv, HelperHolds, HelpersKept

LEMMA HelpersSame ==
    ASSUME LeaseInv, UNCHANGED root, \A r \in Roots : exclusive = r => exclusive' = r
    PROVE  HelpersKept
  BY DEF LeaseInv, HostType, HelpersKept

\* A phase of a job ends: the job goes to the next, or is over.
LEMMA PhaseEnds ==
    ASSUME LeaseInv, NEW phase, In(phase), Pass, user.waits = "none",
           phase = "lease" => exclusive' = "user",
           phase \notin {"lease", "release", "remove"} => exclusive' = exclusive
    PROVE  /\ JobHolds' /\ user' \in Users
           /\ user'.kind # "none" => user'.at \in DOMAIN Phases(user'.kind)
<1> DEFINE w == Phases(user.kind)
<1>0. HostType /\ JobHolds /\ user.kind # "none" /\ w[user.at] = phase
  BY DEF LeaseInv, In
<1>1. user.kind \in Kinds /\ Walks(user.kind, w) /\ user.at \in 1 .. Len(w)
  BY <1>0, PlaceOf
<1> HIDE DEF w
<1>2. user \in Users
  BY <1>0 DEF HostType
<1>3. CASE Last
  <2>1. user' = Ended("success")
    BY <1>3 DEF Pass
  <2>2. user' \in Users /\ user'.kind = "none" /\ user'.waits = "none" /\ user'.pos = 0
    BY <2>1, <1>2 DEF Ended, NoUser, Users, Sn
  <2> QED
    BY <2>2 DEF JobHolds
<1>4. CASE ~Last
  <2>1. user' = [user EXCEPT !.at = @ + 1]
    BY <1>4 DEF Pass
  <2>2. /\ user' \in Users /\ user'.at = user.at + 1
        /\ user'.kind = user.kind /\ user'.waits = "none" /\ user'.pos = user.pos
    BY <2>1, <1>2 DEF Users
  <2>3. Len(w) \in Nat /\ DOMAIN w = 1 .. Len(w) /\ user.at # Len(w)
    BY <1>1, <1>4 DEF Walks, Last, w
  <2>4. user.at + 1 \in DOMAIN w
    BY <1>1, <2>3
  <2>5. user'.at \in DOMAIN Phases(user'.kind)
    BY <2>2, <2>4 DEF w
  <2>6. ASSUME user.at + 1 \in Held(user.kind)
        PROVE  exclusive' = "user"
    <3>1. phase = "lease" \/ (user.at \in Held(user.kind) /\ phase \notin {"release", "remove"})
      BY <1>0, <1>1, <2>3, <2>6 DEF Walks
    <3> QED
      BY <1>0, <3>1 DEF JobHolds
  <2>7. ASSUME user.pos > 0
        PROVE  /\ user.kind # "bootstrap"
               /\ \E next \in {"remove", "gone", "cleanup"} : w[user.at + 1] = next
    <3>1. user.kind # "bootstrap" /\ phase \in {"remove", "gone", "cleanup"}
      BY <1>0, <2>7 DEF JobHolds, In, w
    <3>2. user.at < Len(w)
      BY <1>1, <2>3
    <3> QED
      BY <1>0, <1>1, <2>3, <3>1, <3>2 DEF Walks
  <2>8. JobHolds'
    BY <1>0, <2>2, <2>6, <2>7 DEF JobHolds, In, w
  <2> QED
    BY <2>2, <2>5, <2>8
<1> QED
  BY <1>3, <1>4

\* A job is over, whatever it waited for.
LEMMA JobEnds ==
    ASSUME LeaseInv, NEW result \in {"success", "failed"}, user' = Ended(result)
    PROVE  JobHolds' /\ user' \in Users /\ user'.kind = "none"
<1>1. user \in Users
  BY DEF LeaseInv, HostType
<1>2. user' \in Users /\ user'.kind = "none" /\ user'.waits = "none" /\ user'.pos = 0
  BY <1>1 DEF Ended, NoUser, Users, Sn
<1> QED
  BY <1>2 DEF JobHolds

\* Only who waits for a helper is in a phase and does not walk on.
LEMMA WaitsInRemove ==
    ASSUME LeaseInv, NEW phase, In(phase), phase # "remove"
    PROVE  user.waits = "none"
  BY DEF LeaseInv, JobHolds, In

LEMMA ReleasedIs ==
    ASSUME exclusive' = Released
    PROVE  /\ \A r \in Roots : exclusive = r => exclusive' = r
           /\ exclusive' \in {exclusive, "nobody"} /\ exclusive' # "user"
  BY DEF Released, Roots

-----------------------------------------------------------------------------
(* Steps of the promise *)

Using == {p \in {"gui", "daemon"} : (p = "gui" /\ gui = "running") \/ (p = "daemon" /\ daemon = "running")}
Promise == [Exclusive!Next]_(Exclusive!vars)

LEMMA PromiseLeave ==
    ASSUME Using' \subseteq Using, UNCHANGED <<exclusive, Things>>
    PROVE  Promise
  BY DEF Promise, Using, Exclusive!Next, Exclusive!Leave

LEMMA PromiseEnter ==
    ASSUME NEW p \in {"gui", "daemon"} \ Using, Using' = Using \cup {p},
           exclusive = "nobody", UNCHANGED <<exclusive, Things>>
    PROVE  Promise
  BY DEF Promise, Using, Exclusive!Next, Exclusive!Enter

LEMMA PromiseTake ==
    ASSUME Using = {}, exclusive = "nobody", exclusive' \in {"user"} \cup Roots,
           UNCHANGED <<Using, Things>>
    PROVE  Promise
  BY DEF Promise, Using, Exclusive!Next, Exclusive!Take

LEMMA PromiseDrop ==
    ASSUME exclusive' \in {exclusive, "nobody"}, UNCHANGED <<Using, Things>>
    PROVE  Promise
<1>1. CASE exclusive' = "nobody"
  BY <1>1 DEF Promise, Using, Exclusive!Next, Exclusive!Drop
<1>2. CASE exclusive' = exclusive
  BY <1>2 DEF Promise, Using, Exclusive!vars
<1> QED
  BY <1>1, <1>2

LEMMA PromiseAdd ==
    ASSUME Things \subseteq Things', UNCHANGED <<Using, exclusive>>
    PROVE  Promise
  BY DEF Promise, Using, Exclusive!Next, Exclusive!Add

LEMMA PromiseRemove ==
    ASSUME Things' \subseteq Things, exclusive # "nobody", Using = {},
           UNCHANGED <<Using, exclusive>>
    PROVE  Promise
  BY DEF Promise, Using, Exclusive!Next, Exclusive!Remove

LEMMA UsingIs ==
    /\ UNCHANGED <<gui, daemon>> => Using' = Using
    /\ Using = {} <=> ~SharedHeld
  BY DEF Using, SharedHeld

LEMMA ThingsStay == UNCHANGED <<disk, integ, settings>> => Things' = Things
  BY DEF Things

-----------------------------------------------------------------------------
(* The installer, and who replaces files *)

LEMMA InstallAdds ==
    ASSUME disk \in Snaps, Install
    PROVE  /\ disk' \in Snaps /\ \A s \in Slots : disk[s] # Absent => disk'[s] # Absent
           /\ UNCHANGED <<ownerVars, removalVars, packaged>>
<1>1. UNCHANGED <<ownerVars, removalVars, packaged>>
  BY DEF Install, InstStart, InstallerStep, RecordAuthority, Expect, PublishSource, SourcesPublished,
         VerifyPayload, PublishReceipt, Finish, InstAbort, Publish
<1>2. \A s \in Slots : Accepted[s] \in {1, 2}
  BY ContentIs DEF Accepted, Versions
<1>3. UNCHANGED disk \/ \E s : Publish(s)
  BY DEF Install, InstStart, InstallerStep, RecordAuthority, Expect, PublishSource, SourcesPublished,
         VerifyPayload, PublishReceipt, Finish, InstAbort
<1>4. ASSUME NEW s, disk' = [disk EXCEPT ![s] = Accepted[s]]
      PROVE  disk' \in Snaps /\ \A t \in Slots : disk[t] # Absent => disk'[t] # Absent
  <2>1. CASE s \in Slots
    BY <1>2, <1>4, <2>1 DEF Snaps, Absent
  <2>2. CASE s \notin Slots
    <3>1. disk' = disk
      BY <1>4, <2>2 DEF Snaps
    <3> QED
      BY <3>1
  <2> QED
    BY <2>1, <2>2
<1> QED
  BY <1>1, <1>3, <1>4 DEF Publish

LEMMA EditAdds ==
    ASSUME disk \in Snaps, Edit
    PROVE  /\ disk' \in Snaps /\ \A s \in Slots : disk[s] # Absent => disk'[s] # Absent
           /\ UNCHANGED <<ownerVars, removalVars, installerVars>>
  BY SlotsAre DEF Edit, Snaps, Absent, Alien

LEMMA OutsideKeeps ==
    ASSUME LeaseInv, Install \/ Edit
    PROVE  LeaseInv' /\ Promise
<1>0. HostType
  BY DEF LeaseInv
<1>1. /\ disk' \in Snaps /\ \A s \in Slots : disk[s] # Absent => disk'[s] # Absent
      /\ UNCHANGED <<ownerVars, removalVars>>
  BY <1>0, InstallAdds, EditAdds DEF HostType
<1>2. UNCHANGED <<gui, daemon, integ, settings, exclusive, user, plan, root, tx>>
  BY <1>1 DEF ownerVars, removalVars
<1>3. JobHolds' /\ HelperHolds' /\ HeldAlone'
  BY <1>2, JobRests, HelpersSame, HelpersRest DEF JobKept, LeaseInv, HeldAlone, SharedHeld
<1>4. HostType'
  BY <1>0, <1>1, <1>2 DEF HostType
<1>5. Things \subseteq Things'
  BY <1>1, <1>2 DEF Things
<1> QED
  BY <1>2, <1>3, <1>4, <1>5, PromiseAdd, UsingIs DEF LeaseInv

-----------------------------------------------------------------------------
(* The programs *)

LEMMA OwnKeeps ==
    ASSUME LeaseInv, Own
    PROVE  LeaseInv' /\ Promise
<1>0. HostType
  BY DEF LeaseInv
<1>1. UNCHANGED <<disk, exclusive, user, plan, root, tx>>
  BY DEF Own, OwnersProgress, OwnersStart, OwnersWork, OwnersExit, GuiLease, DaemonLease, GuiStart,
         UnitStart, DaemonByHand, GuiSave, InstallService, GuiSetUp, GuiExit, DaemonExit
<1>2. JobHolds' /\ HelperHolds'
  BY <1>1, JobRests, HelpersSame, HelpersRest DEF JobKept
<1> SUFFICES /\ gui' \in {"off", "starting", "running", "drained"} /\ daemon' \in {"off", "starting", "running"}
             /\ integ' \in [Items -> {"none", "own", "managed", "foreign"}]
             /\ exclusive # "nobody" => ~SharedHeld'
             /\ Promise
  <2>1. HostType'
    BY <1>0, <1>1 DEF HostType
  <2>2. HeldAlone'
    BY <1>1 DEF HeldAlone
  <2> QED
    BY <1>2, <2>1, <2>2 DEF LeaseInv
<1>3. HeldAlone
  BY DEF LeaseInv
<1>4. CASE GuiLease \/ DaemonLease
  <2>1. UNCHANGED <<disk, integ, settings, exclusive>>
    BY <1>4 DEF GuiLease, DaemonLease
  <2>2. CASE exclusive = "nobody"
    <3>1. CASE GuiLease
      <4>1. gui' = "running" /\ gui = "starting" /\ daemon' = daemon
        BY <2>2, <3>1 DEF GuiLease, SharedFree
      <4>2. "gui" \in {"gui", "daemon"} \ Using /\ Using' = Using \cup {"gui"}
        BY <4>1 DEF Using
      <4> QED
        BY <1>0, <2>1, <2>2, <4>1, <4>2, PromiseEnter, ThingsStay DEF HostType
    <3>2. CASE DaemonLease
      <4>1. daemon' = "running" /\ daemon = "starting" /\ gui' = gui
        BY <2>2, <3>2 DEF DaemonLease, SharedFree
      <4>2. "daemon" \in {"gui", "daemon"} \ Using /\ Using' = Using \cup {"daemon"}
        BY <4>1 DEF Using
      <4> QED
        BY <1>0, <2>1, <2>2, <4>1, <4>2, PromiseEnter, ThingsStay DEF HostType
    <3> QED
      BY <1>4, <3>1, <3>2
  <2>3. CASE exclusive # "nobody"
    <3>1. (gui' = "off" /\ daemon' = daemon) \/ (daemon' = "off" /\ gui' = gui)
      BY <1>4, <2>3 DEF GuiLease, DaemonLease, SharedFree
    <3>2. Using' \subseteq Using
      BY <3>1 DEF Using
    <3>3. ~SharedHeld'
      BY <1>3, <2>3, <3>1 DEF HeldAlone, SharedHeld
    <3> QED
      BY <1>0, <2>1, <3>1, <3>2, <3>3, PromiseLeave, ThingsStay DEF HostType
  <2> QED
    BY <2>2, <2>3
<1>5. CASE OwnersStart
  <2>1. /\ UNCHANGED <<disk, integ, settings, exclusive>>
        /\ (gui = "off" /\ gui' = "starting" /\ daemon' = daemon) \/
           (daemon = "off" /\ daemon' = "starting" /\ gui' = gui)
    BY <1>5 DEF OwnersStart, GuiStart, UnitStart, DaemonByHand
  <2>2. Using' \subseteq Using /\ (SharedHeld' => SharedHeld)
    BY <2>1 DEF Using, SharedHeld
  <2> QED
    BY <1>0, <1>3, <2>1, <2>2, PromiseLeave, ThingsStay DEF HostType, HeldAlone
<1>6. CASE OwnersWork
  <2>1. /\ UNCHANGED <<disk, gui, exclusive>> /\ (settings => settings')
        /\ daemon' = daemon \/ (daemon = "off" /\ daemon' = "starting")
        /\ integ' = integ \/ \E item \in Items : integ' = [integ EXCEPT ![item] = "own"]
    BY <1>6 DEF OwnersWork, GuiSave, InstallService, GuiSetUp, Items
  <2>2. integ' \in [Items -> {"none", "own", "managed", "foreign"}]
    BY <1>0, <2>1 DEF HostType
  <2>3. \A item \in Items : integ[item] = "own" => integ'[item] = "own"
    BY <1>0, <2>1 DEF HostType
  <2>4. Things \subseteq Things'
    BY <2>1, <2>3 DEF Things
  <2>5. Using' = Using /\ (SharedHeld' => SharedHeld)
    BY <2>1 DEF Using, SharedHeld
  <2> QED
    BY <1>0, <1>3, <2>1, <2>2, <2>4, <2>5, PromiseAdd DEF HostType, HeldAlone
<1>7. CASE OwnersExit
  <2>1. /\ UNCHANGED <<disk, integ, settings, exclusive>>
        /\ (gui' = "off" /\ daemon' = daemon) \/ (daemon' = "off" /\ gui' = gui)
    BY <1>7 DEF OwnersExit, GuiExit, DaemonExit
  <2>2. Using' \subseteq Using /\ (SharedHeld' => SharedHeld)
    BY <2>1 DEF Using, SharedHeld
  <2> QED
    BY <1>0, <1>3, <2>1, <2>2, PromiseLeave, ThingsStay DEF HostType, HeldAlone
<1> QED
  BY <1>4, <1>5, <1>6, <1>7 DEF Own, OwnersProgress

-----------------------------------------------------------------------------
(* The job of the user *)

\* Steps that change no file, nothing on the host and no helper.
LEMMA JobAlone ==
    ASSUME LeaseInv, UNCHANGED <<disk, gui, daemon, integ, settings, exclusive, tx, root>>,
           JobHolds', user' \in Users, plan' \in Records,
           user'.kind # "none" => user'.at \in DOMAIN Phases(user'.kind)
    PROVE  LeaseInv' /\ Promise
<1>1. HelperHolds'
  BY HelpersSame, HelpersRest
<1>2. HeldAlone' /\ HostType'
  BY DEF LeaseInv, HeldAlone, SharedHeld, HostType
<1>3. Using' \subseteq Using /\ Things' = Things
  BY UsingIs, ThingsStay
<1> QED
  BY <1>1, <1>2, <1>3, PromiseLeave DEF LeaseInv

LEMMA LoadKeeps ==
    ASSUME LeaseInv, Load
    PROVE  LeaseInv' /\ Promise
<1>0. HostType /\ JobHolds
  BY DEF LeaseInv
<1>1. /\ UNCHANGED <<disk, gui, daemon, integ, settings, exclusive, tx, root, plan>>
      /\ In("load") /\ user' = [user EXCEPT !.at = @ + 1, !.snap = plan.snap, !.consent = plan.consent]
  BY DEF Load, Kept, HostVars, Rest
<1>2. user \in Users /\ plan \in Records
  BY <1>0 DEF HostType
<1>3. plan.snap \in Inventories /\ plan.consent \in BOOLEAN /\ user.at \in Nat
  BY <1>2 DEF Records, Users
<1>s. PICK sn \in Inventories, b \in BOOLEAN : user' = [user EXCEPT !.at = @ + 1, !.snap = sn, !.consent = b]
  BY <1>1, <1>3
<1>4. /\ user' \in Users /\ user'.at = user.at + 1 /\ user'.kind = user.kind
      /\ user'.waits = user.waits /\ user'.pos = user.pos
  <2>1. user' = [kind |-> user.kind, at |-> user.at + 1, snap |-> sn, consent |-> b,
                 waits |-> user.waits, pos |-> user.pos, result |-> user.result]
    BY <1>2, <1>s DEF Users
  <2>2. /\ user.kind \in Kinds \cup {"none"} /\ user.waits \in Roots \cup {"none"}
        /\ user.pos \in Nat /\ user.result \in {"none", "success", "failed"} /\ user.at + 1 \in Nat
    BY <1>2 DEF Users
  <2> QED
    BY <2>1, <2>2 DEF Users
<1>5. user.kind # "none" /\ Phases(user.kind)[user.at] = "load"
  BY <1>1 DEF In
<1>6. Walks(user.kind, Phases(user.kind)) /\ user.at \in 1 .. Len(Phases(user.kind))
  BY <1>0, <1>5, PlaceOf
<1>7. /\ user.at = 1 /\ 2 \in DOMAIN Phases(user.kind)
      /\ 2 \notin Held(user.kind)
  BY <1>5, <1>6 DEF Walks
<1>8. user.waits = "none" /\ ~(user.pos > 0)
  BY <1>0, <1>5 DEF JobHolds, In
<1>9. JobHolds'
  BY <1>4, <1>7, <1>8 DEF JobHolds
<1> QED
  BY <1>1, <1>2, <1>4, <1>7, <1>9, JobAlone

LEMMA CheckKeeps ==
    ASSUME LeaseInv, Check \/ CheckGone
    PROVE  LeaseInv' /\ Promise
<1>1. PICK phase \in {"validate", "assert", "gone"} :
          /\ In(phase) /\ Pass
          /\ UNCHANGED <<disk, gui, daemon, integ, settings, exclusive, tx, root, plan>>
  BY DEF Check, CheckGone, Simple, Kept, HostVars, Rest
<1>2. user.waits = "none"
  BY <1>1, WaitsInRemove
<1> QED
  BY <1>1, <1>2, PhaseEnds, JobAlone DEF LeaseInv, HostType

LEMMA RecordKeeps ==
    ASSUME LeaseInv, Prepare \/ Cleanup
    PROVE  LeaseInv' /\ Promise
<1>1. PICK phase \in {"prepare", "cleanup"} :
          /\ In(phase) /\ Pass
          /\ UNCHANGED <<disk, gui, daemon, integ, settings, exclusive, tx, root>>
          /\ plan' \in {[snap |-> Sn, consent |-> user.consent, tx |-> FALSE], NoPlan}
  BY DEF Prepare, Cleanup, Simple, Kept, HostVars, Rest
<1>2. user.waits = "none"
  BY <1>1, WaitsInRemove
<1>3. user \in Users
  BY DEF LeaseInv, HostType
<1>4. Sn \in Inventories /\ user.consent \in BOOLEAN
  BY <1>3 DEF Users, Sn
<1>5. plan' \in Records
  <2>1. [snap |-> Sn, consent |-> user.consent, tx |-> FALSE] \in Records
    BY <1>4 DEF Records
  <2>2. NoPlan \in Records
    BY NothingKnown DEF Records, NoPlan
  <2> QED
    BY <1>1, <2>1, <2>2
<1> QED
  BY <1>1, <1>2, <1>5, PhaseEnds, JobAlone

LEMMA StartKeeps ==
    ASSUME LeaseInv, NEW kind \in Kinds, UserStart(kind)
    PROVE  LeaseInv' /\ Promise
<1>0. HostType
  BY DEF LeaseInv
<1>1. /\ UNCHANGED <<disk, gui, daemon, integ, settings, exclusive, tx, root, plan>>
      /\ \E sn \in InspectPrefix \cup {plan.snap}, consent \in BOOLEAN :
            user' = [NoUser EXCEPT !.kind = kind, !.snap = sn, !.consent = consent]
  BY DEF UserStart, Kept, HostVars, Rest
<1>2. plan \in Records /\ disk \in Snaps
  BY <1>0 DEF HostType
<1>3. InspectPrefix \cup {plan.snap} \subseteq Inventories
  BY <1>2, InspectedAre DEF Records
<1>4. PICK sn \in Inventories, consent \in BOOLEAN :
         user' = [NoUser EXCEPT !.kind = kind, !.snap = sn, !.consent = consent]
  BY <1>1, <1>3
<1>5. /\ user' \in Users /\ user'.kind = kind /\ user'.at = 1 /\ user'.waits = "none" /\ user'.pos = 0
  BY <1>4, NothingKnown DEF NoUser, Users
<1>6. 1 \in DOMAIN Phases(kind) /\ 1 \notin Held(kind)
  BY PhasesWalk DEF Walks
<1>7. JobHolds'
  BY <1>5, <1>6 DEF JobHolds
<1> QED
  BY <1>1, <1>2, <1>5, <1>6, <1>7, JobAlone

LEMMA BeginsKeeps ==
    ASSUME LeaseInv, Begins
    PROVE  LeaseInv' /\ Promise
<1>0. HostType /\ JobHolds
  BY DEF LeaseInv
<1>1. /\ UNCHANGED <<disk, gui, daemon, integ, settings, exclusive, tx, root, plan>>
      /\ In("remove") /\ ~ByRoot /\ user' = [user EXCEPT !.pos = 1]
  BY DEF Begins, Kept, HostVars
<1>2. user \in Users
  BY <1>0 DEF HostType
<1>3. /\ user' \in Users /\ user'.kind = user.kind /\ user'.at = user.at /\ user'.waits = user.waits
  BY <1>1, <1>2 DEF Users
<1>4. user.waits = "none" /\ user.kind \notin {"none", "bootstrap"}
  BY <1>0, <1>1 DEF JobHolds, ByRoot, HandsOver, In
<1>5. JobHolds'
  BY <1>0, <1>1, <1>3, <1>4 DEF JobHolds, In
<1> QED
  BY <1>0, <1>1, <1>3, <1>5, JobAlone DEF HostType

\* A new bundle: the helpers of the transaction before no longer own it.
LEMMA BundleIs ==
    ASSUME LeaseInv, Bundle, exclusive' = exclusive
    PROVE  tx' \in Bundles /\ HelpersKept
<1>0. user \in Users /\ root \in [Roots -> Helpers]
  BY DEF LeaseInv, HostType
<1>1. Sn \in Inventories
  BY <1>0 DEF Users, Sn
<1>2. tx' \in Bundles
  <2>1. Legacy(Sn) \in BOOLEAN
    BY DEF Legacy
  <2>2. tx' = [state |-> "ready", snap |-> Sn, told |-> Legacy(Sn)]
    BY DEF Bundle, NewBundle
  <2> QED
    BY <1>1, <2>1, <2>2 DEF Bundles
<1>3. ASSUME NEW r \in Roots
      PROVE  root'[r] \in Helpers /\ root'[r].at = root[r].at /\ root'[r].pos = root[r].pos
  <2>1. root'[r] = [root[r] EXCEPT !.own = FALSE] /\ root[r] \in Helpers
    BY <1>0 DEF Bundle
  <2> QED
    BY <2>1 DEF Helpers
<1>4. root' \in [Roots -> Helpers]
  BY <1>3 DEF Bundle
<1> QED
  BY <1>2, <1>3, <1>4 DEF HelpersKept

LEMMA AuthorizeKeeps ==
    ASSUME LeaseInv, Authorize \/ AuthorizeLost \/ Bootstrap
    PROVE  LeaseInv' /\ Promise
<1>0. HostType
  BY DEF LeaseInv
<1>1. /\ UNCHANGED <<disk, gui, daemon, integ, settings, exclusive>>
      /\ Bundle \/ UNCHANGED <<tx, root>>
      /\ plan' = plan \/ plan' = [plan EXCEPT !.tx = TRUE]
  BY DEF Authorize, AuthorizeLost, Bootstrap, Kept, HostVars
<1>2. plan' \in Records
  BY <1>0, <1>1 DEF HostType, Records
<1>3. tx' \in Bundles /\ HelpersKept
  BY <1>0, <1>1, BundleIs, HelpersSame DEF HostType
<1>4. /\ JobHolds' /\ user' \in Users
      /\ user'.kind # "none" => user'.at \in DOMAIN Phases(user'.kind)
  <2>1. CASE Authorize \/ Bootstrap
    <3>1. PICK phase \in {"authorize", "bootstrap"} : In(phase) /\ Pass
      BY <2>1 DEF Authorize, Bootstrap, Simple
    <3>2. user.waits = "none"
      BY <3>1, WaitsInRemove
    <3> QED
      BY <1>1, <3>1, <3>2, PhaseEnds
  <2>2. CASE AuthorizeLost
    <3>1. user' = Ended("failed")
      BY <2>2 DEF AuthorizeLost
    <3> QED
      BY <3>1, JobEnds
  <2> QED
    BY <2>1, <2>2
<1>5. HelperHolds' /\ root' \in [Roots -> Helpers]
  BY <1>3, HelpersRest DEF HelpersKept
<1>6. HostType' /\ HeldAlone'
  BY <1>0, <1>1, <1>2, <1>3, <1>4, <1>5 DEF LeaseInv, HeldAlone, SharedHeld, HostType
<1>7. Using' = Using /\ Things' = Things
  BY <1>1, UsingIs, ThingsStay
<1> QED
  BY <1>1, <1>4, <1>5, <1>6, <1>7, PromiseLeave DEF LeaseInv

\* Steps of the job that leave the helpers, the files and the records alone.
LEMMA HostSteps ==
    ASSUME LeaseInv, UNCHANGED <<plan, root, tx>>, disk' \in Snaps,
           gui' \in {"off", "starting", "running", "drained"}, daemon' \in {"off", "starting", "running"},
           integ' \in [Items -> {"none", "own", "managed", "foreign"}],
           exclusive' \in {"nobody", "user"} \cup Roots,
           JobHolds', user' \in Users,
           user'.kind # "none" => user'.at \in DOMAIN Phases(user'.kind),
           \A r \in Roots : exclusive = r => exclusive' = r,
           exclusive' # "nobody" => ~SharedHeld'
    PROVE  LeaseInv'
<1>1. HelperHolds'
  BY HelpersSame, HelpersRest
<1> QED
  BY <1>1 DEF LeaseInv, HostType, HeldAlone

LEMMA StopKeeps ==
    ASSUME LeaseInv, Freeze \/ StopApp \/ StopService
    PROVE  LeaseInv' /\ Promise
<1>0. HostType /\ HeldAlone
  BY DEF LeaseInv
<1>1. /\ UNCHANGED <<disk, integ, settings, exclusive, plan, tx, root>>
      /\ gui' \in {gui, "off", "drained"} /\ daemon' \in {daemon, "off"}
  BY DEF Freeze, StopApp, StopService, StopOwned, Kept, Rest
<1>2. PICK phase \in {"freeze", "stopApp", "stopService"} : In(phase) /\ Pass
  BY DEF Freeze, StopApp, StopService, Simple
<1>3. user.waits = "none"
  BY <1>2, WaitsInRemove
<1>4. /\ JobHolds' /\ user' \in Users
      /\ user'.kind # "none" => user'.at \in DOMAIN Phases(user'.kind)
  BY <1>1, <1>2, <1>3, PhaseEnds
<1>5. Using' \subseteq Using /\ (SharedHeld' => SharedHeld)
  BY <1>1 DEF Using, SharedHeld
<1>6. LeaseInv'
  BY <1>0, <1>1, <1>4, <1>5, HostSteps DEF HostType, HeldAlone
<1> QED
  BY <1>1, <1>5, <1>6, PromiseLeave, ThingsStay

LEMMA LeaseKeeps ==
    ASSUME LeaseInv, TakeLease \/ Release \/ Removed
    PROVE  LeaseInv' /\ Promise
<1>0. HostType /\ HeldAlone /\ JobHolds
  BY DEF LeaseInv
<1>1. UNCHANGED <<disk, gui, daemon, integ, settings, plan, tx, root>>
  BY DEF TakeLease, Release, Removed, Kept, Rest
<1>2. PICK phase \in {"lease", "release", "remove"} :
         /\ In(phase) /\ Pass /\ user.waits = "none"
         /\ phase = "lease" => ExclusiveFree /\ exclusive' = "user"
         /\ phase # "lease" => exclusive' = Released
  <2>1. CASE TakeLease
    <3>1. In("lease") /\ Pass /\ ExclusiveFree /\ exclusive' = "user"
      BY <2>1 DEF TakeLease, Simple, Fits
    <3> QED
      BY <3>1, WaitsInRemove
  <2>2. CASE Release
    <3>1. In("release") /\ Pass /\ exclusive' = Released
      BY <2>2 DEF Release, Simple
    <3> QED
      BY <3>1, WaitsInRemove
  <2>3. CASE Removed
    <3>1. In("remove") /\ Pass /\ exclusive' = Released /\ user.pos > Len(Order)
      BY <2>3 DEF Removed
    <3>2. user.pos > 0
      <4>1. user.pos \in Nat
        BY <1>0 DEF HostType, Users
      <4> QED
        BY <3>1, <4>1, SlotsAre
    <3> QED
      BY <1>0, <3>1, <3>2 DEF JobHolds
  <2> QED
    BY <2>1, <2>2, <2>3
<1>3. /\ JobHolds' /\ user' \in Users
      /\ user'.kind # "none" => user'.at \in DOMAIN Phases(user'.kind)
  BY <1>2, PhaseEnds
<1>4. Using' = Using /\ Things' = Things /\ (SharedHeld' = SharedHeld)
  BY <1>1, UsingIs, ThingsStay DEF SharedHeld
<1>5. CASE phase = "lease"
  <2>1. exclusive = "nobody" /\ ~SharedHeld /\ exclusive' = "user"
    BY <1>2, <1>5 DEF ExclusiveFree
  <2>2. LeaseInv'
    BY <1>0, <1>1, <1>3, <1>4, <2>1, HostSteps DEF HostType, Roots
  <2> QED
    BY <1>4, <2>1, <2>2, PromiseTake, UsingIs
<1>6. CASE phase # "lease"
  <2>1. /\ \A r \in Roots : exclusive = r => exclusive' = r
        /\ exclusive' \in {exclusive, "nobody"}
    BY <1>2, <1>6, ReleasedIs
  <2>2. LeaseInv'
    BY <1>0, <1>1, <1>3, <1>4, <2>1, HostSteps DEF HostType, HeldAlone
  <2> QED
    BY <1>4, <2>1, <2>2, PromiseDrop
<1> QED
  BY <1>5, <1>6

\* What is taken away on the host is taken away by who holds the installation.
LEMMA RemoveKeeps ==
    ASSUME LeaseInv, RemoveUnit \/ RemoveItem \/ RemoveSettings
    PROVE  LeaseInv' /\ Promise
<1>0. HostType /\ HeldAlone /\ JobHolds
  BY DEF LeaseInv
<1>1. /\ UNCHANGED <<disk, gui, exclusive, plan, tx, root>> /\ daemon' \in {daemon, "off"}
      /\ settings' => settings
      /\ integ' = integ \/ \E item \in Items : integ' = Without(item)
  <2>1. CASE RemoveUnit
    BY <2>1 DEF RemoveUnit, StopOwned, Kept, Rest, Items
  <2>2. CASE RemoveItem
    BY <2>2 DEF RemoveItem, Kept, Rest, Items
  <2>3. CASE RemoveSettings
    <3>1. settings' = (settings /\ ~user.consent)
      BY <2>3 DEF RemoveSettings
    <3>2. settings' => settings
      BY <3>1, Zenon
    <3>3. UNCHANGED <<disk, gui, daemon, integ, exclusive, plan, tx, root>>
      BY <2>3 DEF RemoveSettings, Kept, Rest
    <3> QED
      BY <3>2, <3>3
  <2> QED
    BY <2>1, <2>2, <2>3
<1>2. PICK phase \in {"unit", "desktop", "audio", "usb", "settings"} : In(phase) /\ Pass
  BY DEF RemoveUnit, RemoveItem, RemoveSettings, Simple
<1>3. user.waits = "none"
  BY <1>2, WaitsInRemove
<1>4. exclusive = "user"
  <2>1. user.kind # "none" /\ Phases(user.kind)[user.at] = phase
    BY <1>2 DEF In
  <2>2. Walks(user.kind, Phases(user.kind)) /\ user.at \in 1 .. Len(Phases(user.kind))
    BY <1>0, <2>1, PlaceOf
  <2>3. user.at \in Held(user.kind)
    BY <2>1, <2>2 DEF Walks
  <2> QED
    BY <1>0, <1>3, <2>1, <2>3 DEF JobHolds
<1>5. /\ JobHolds' /\ user' \in Users
      /\ user'.kind # "none" => user'.at \in DOMAIN Phases(user'.kind)
  BY <1>1, <1>2, <1>3, PhaseEnds
<1>6. /\ integ' \in [Items -> {"none", "own", "managed", "foreign"}]
      /\ \A item \in Items : integ'[item] = "own" => integ[item] = "own"
  BY <1>0, <1>1 DEF HostType, Without
<1>7. Things' \subseteq Things
  BY <1>1, <1>6 DEF Things
<1>8. ~SharedHeld /\ ~SharedHeld'
  BY <1>0, <1>1, <1>4 DEF HeldAlone, SharedHeld
<1>9. Using = {} /\ Using' = {}
  BY <1>8 DEF Using, SharedHeld
<1>10. LeaseInv'
  BY <1>0, <1>1, <1>5, <1>6, <1>8, HostSteps DEF HostType
<1> QED
  BY <1>1, <1>4, <1>7, <1>9, <1>10, PromiseRemove

LEMMA UnlinksKeep ==
    ASSUME LeaseInv, Unlinks
    PROVE  LeaseInv' /\ Promise
<1>0. HostType /\ HeldAlone /\ JobHolds
  BY DEF LeaseInv
<1>1. /\ UNCHANGED <<gui, daemon, integ, settings, exclusive, plan, tx, root>>
      /\ In("remove") /\ user.pos \in DOMAIN Order /\ Turn(Sn, user.pos)
      /\ user' = [user EXCEPT !.pos = @ + 1]
  BY DEF Unlinks, HostVars, Rest
<1>2. user \in Users
  BY <1>0 DEF HostType
<1>3. user.pos > 0 /\ user.pos \in Nat
  BY <1>1, <1>2, SlotsAre DEF Users
<1>4. user.waits = "none" /\ user.kind \notin {"none", "bootstrap"}
  BY <1>0, <1>3 DEF JobHolds
<1>5. /\ user' \in Users /\ user'.kind = user.kind /\ user'.at = user.at
      /\ user'.waits = user.waits /\ user'.pos = user.pos + 1
  BY <1>1, <1>2 DEF Users
<1>6. exclusive = "user"
  <2>1. Phases(user.kind)[user.at] = "remove"
    BY <1>1 DEF In
  <2>2. Walks(user.kind, Phases(user.kind)) /\ user.at \in 1 .. Len(Phases(user.kind))
    BY <1>0, <1>4, PlaceOf
  <2>3. user.at \in Held(user.kind)
    BY <1>4, <2>1, <2>2 DEF Walks
  <2> QED
    BY <1>0, <1>4, <2>3 DEF JobHolds
<1>7. JobHolds'
  BY <1>0, <1>1, <1>3, <1>4, <1>5, <1>6 DEF JobHolds, In
<1>8. user'.kind # "none" => user'.at \in DOMAIN Phases(user'.kind)
  BY <1>0, <1>5 DEF HostType
<1>9. disk' \in Snaps /\ \A s \in Slots : disk'[s] # Absent => disk[s] # Absent
  <2>1. disk' = disk \/ disk' = [disk EXCEPT ![Visited(user.pos)] = Absent]
    BY <1>1 DEF Turn, Unlink
  <2> QED
    BY <1>0, <2>1 DEF HostType, Snaps
<1>10. Things' \subseteq Things
  BY <1>1, <1>9 DEF Things
<1>11. Using = {} /\ Using' = Using /\ ~SharedHeld'
  BY <1>0, <1>1, <1>6, UsingIs DEF HeldAlone, SharedHeld
<1>12. LeaseInv'
  BY <1>0, <1>1, <1>5, <1>7, <1>8, <1>9, <1>11, HostSteps DEF HostType
<1> QED
  BY <1>1, <1>6, <1>10, <1>11, <1>12, PromiseRemove

LEMMA GiveUpKeeps ==
    ASSUME LeaseInv, GiveUp
    PROVE  LeaseInv' /\ Promise
<1>0. HostType /\ HeldAlone
  BY DEF LeaseInv
<1>1. /\ UNCHANGED <<disk, gui, daemon, integ, settings, plan, tx, root>>
      /\ user' = Ended("failed") /\ exclusive' = Released
  BY DEF GiveUp, Kept, Rest
<1>2. JobHolds' /\ user' \in Users /\ user'.kind = "none"
  BY <1>1, JobEnds
<1>3. Using' = Using /\ Things' = Things /\ (SharedHeld' = SharedHeld)
  BY <1>1, UsingIs, ThingsStay DEF SharedHeld
<1>4. /\ \A r \in Roots : exclusive = r => exclusive' = r
      /\ exclusive' \in {exclusive, "nobody"}
  BY <1>1, ReleasedIs
<1>5. LeaseInv'
  BY <1>0, <1>1, <1>2, <1>3, <1>4, HostSteps DEF HostType, HeldAlone
<1> QED
  BY <1>3, <1>4, <1>5, PromiseDrop

LEMMA DrainedExitKeeps ==
    ASSUME LeaseInv, DrainedExit
    PROVE  LeaseInv' /\ Promise
<1>0. HostType /\ HeldAlone
  BY DEF LeaseInv
<1>1. UNCHANGED <<disk, daemon, integ, settings, exclusive, plan, tx, root, user>> /\ gui' = "off"
  BY DEF DrainedExit, Kept, Rest
<1>2. /\ JobHolds' /\ user' \in Users
      /\ user'.kind # "none" => user'.at \in DOMAIN Phases(user'.kind)
  BY <1>1, JobRests DEF JobKept
<1>3. Using' \subseteq Using /\ Things' = Things /\ (SharedHeld' => SharedHeld)
  BY <1>1, ThingsStay DEF SharedHeld, Using
<1>4. LeaseInv'
  BY <1>0, <1>1, <1>2, <1>3, HostSteps DEF HostType, HeldAlone
<1> QED
  BY <1>1, <1>3, <1>4, PromiseLeave

\* The exclusion is dropped for a helper to take.
LEMMA HandOffKeeps ==
    ASSUME LeaseInv, HandOff
    PROVE  LeaseInv' /\ Promise
<1>0. HostType /\ HeldAlone /\ JobHolds /\ HelperHolds
  BY DEF LeaseInv
<1>1. /\ UNCHANGED <<disk, gui, daemon, integ, settings>> /\ exclusive' = Released
      /\ In("remove") /\ user.waits = "none" /\ user.pos = 0 /\ ByRoot
      /\ IF HandsOver THEN UNCHANGED <<plan, tx>>
         ELSE tx' = NewBundle /\ plan' = [plan EXCEPT !.tx = TRUE]
  BY DEF HandOff, Kept
<1>2. PICK r \in Roots :
         /\ root[r].at = "idle" /\ user' = [user EXCEPT !.waits = r]
         /\ root' = [q \in Roots |->
                        IF q = r THEN [NoRoot EXCEPT !.at = "admit", !.own = TRUE]
                        ELSE [root[q] EXCEPT !.own = @ /\ HandsOver]]
  BY DEF HandOff
<1>3. user \in Users /\ plan \in Records /\ tx \in Bundles /\ root \in [Roots -> Helpers]
  BY <1>0 DEF HostType
<1>4. /\ user' \in Users /\ user'.kind = user.kind /\ user'.at = user.at
      /\ user'.waits = r /\ user'.pos = user.pos /\ r # "none"
  BY <1>2, <1>3 DEF Users, Roots
<1>5. plan' \in Records /\ (HandsOver \/ plan'.tx = TRUE)
  BY <1>1, <1>3 DEF Records
<1>6. tx' \in Bundles
  <2>1. Sn \in Inventories /\ Legacy(Sn) \in BOOLEAN
    BY <1>3 DEF Users, Sn, Legacy
  <2>2. NewBundle \in Bundles
    BY <2>1 DEF NewBundle, Bundles
  <2> QED
    BY <1>1, <1>3, <2>2
<1>7. HandsOver'
  BY <1>1, <1>4, <1>5 DEF HandsOver, ByRoot
<1>8. JobHolds'
  BY <1>0, <1>1, <1>4, <1>7 DEF JobHolds, In
<1>9. ASSUME NEW q \in Roots
      PROVE  /\ root'[q] \in Helpers
             /\ q # r => root'[q].at = root[q].at /\ root'[q].pos = root[q].pos
             /\ q = r => root'[q].at = "admit" /\ root'[q].pos = 0
  <2>1. CASE q = r
    BY <1>2, <2>1, NothingKnown DEF NoRoot, Helpers
  <2>2. CASE q # r
    <3>1. root'[q] = [root[q] EXCEPT !.own = @ /\ HandsOver] /\ root[q] \in Helpers
      BY <1>2, <1>3, <2>2
    <3>2. root[q].own \in BOOLEAN
      BY <3>1 DEF Helpers
    <3>3. (root[q].own /\ HandsOver) \in BOOLEAN
      OBVIOUS
    <3>4. PICK b \in BOOLEAN : root'[q] = [root[q] EXCEPT !.own = b]
      BY <3>1, <3>3
    <3> QED
      BY <3>1, <3>4, <2>2 DEF Helpers
  <2> QED
    BY <2>1, <2>2
<1>10. root' \in [Roots -> Helpers]
  BY <1>2, <1>9
<1>11. /\ \A q \in Roots : exclusive = q => exclusive' = q
       /\ exclusive' \in {exclusive, "nobody"}
  BY <1>1, ReleasedIs
<1>12. HelperHolds'
  BY <1>0, <1>9, <1>11 DEF HelperHolds
<1>13. HostType'
  BY <1>0, <1>1, <1>4, <1>5, <1>6, <1>10, <1>11 DEF HostType
<1>14. HeldAlone'
  BY <1>0, <1>1, <1>11 DEF HeldAlone, SharedHeld
<1>15. Using' = Using /\ Things' = Things
  BY <1>1, UsingIs, ThingsStay
<1> QED
  BY <1>8, <1>11, <1>12, <1>13, <1>14, <1>15, PromiseDrop DEF LeaseInv

\* The helper has answered: the job goes on behind the files, or fails.
LEMMA AnsweredKeeps ==
    ASSUME LeaseInv, Answered
    PROVE  LeaseInv' /\ Promise
<1>0. HostType /\ HeldAlone /\ JobHolds /\ HelperHolds
  BY DEF LeaseInv
<1> DEFINE r == user.waits
<1>1. /\ UNCHANGED <<disk, gui, daemon, integ, settings, exclusive, plan, tx>>
      /\ In("remove") /\ r # "none" /\ root[r].at \in {"done", "failed"}
      /\ user' = (IF root[r].at = "done" THEN [user EXCEPT !.at = @ + 1, !.waits = "none"]
                  ELSE Ended("failed"))
      /\ root' = [root EXCEPT ![r] = NoRoot]
  BY DEF Answered, Kept, HostVars
<1>2. user \in Users /\ root \in [Roots -> Helpers]
  BY <1>0 DEF HostType
<1>3. r \in Roots
  BY <1>1, <1>2 DEF Users
<1>4. /\ JobHolds' /\ user' \in Users
      /\ user'.kind # "none" => user'.at \in DOMAIN Phases(user'.kind)
  <2>1. CASE root[r].at = "done"
    <3>1. user' = [user EXCEPT !.at = @ + 1, !.waits = "none"]
      BY <1>1, <2>1
    <3>2. /\ user' \in Users /\ user'.at = user.at + 1 /\ user'.waits = "none"
          /\ user'.kind = user.kind /\ user'.pos = user.pos
      <4>1. user' = [kind |-> user.kind, at |-> user.at + 1, snap |-> user.snap, consent |-> user.consent,
                     waits |-> "none", pos |-> user.pos, result |-> user.result]
        BY <3>1, <1>2 DEF Users
      <4>2. /\ user.kind \in Kinds \cup {"none"} /\ user.snap \in Inventories /\ user.consent \in BOOLEAN
            /\ user.pos \in Nat /\ user.result \in {"none", "success", "failed"} /\ user.at + 1 \in Nat
        BY <1>2 DEF Users
      <4> QED
        BY <4>1, <4>2 DEF Users
    <3>0. user.pos = 0 /\ HandsOver
      BY <1>0, <1>1 DEF JobHolds
    <3>3. /\ user.pos = 0 /\ HandsOver /\ user.kind # "none"
          /\ Phases(user.kind)[user.at] = "remove"
      BY <3>0, <1>1 DEF In
    <3>4. user.kind # "files"
      BY <3>3 DEF HandsOver
    <3>5. Walks(user.kind, Phases(user.kind)) /\ user.at \in 1 .. Len(Phases(user.kind))
      BY <1>0, <3>3, PlaceOf
    <3>6. user.at + 1 \in DOMAIN Phases(user.kind) /\ user.at + 1 \notin Held(user.kind)
      BY <3>3, <3>4, <3>5 DEF Walks
    <3>7. JobHolds'
      BY <3>2, <3>3, <3>6 DEF JobHolds
    <3> QED
      BY <3>2, <3>6, <3>7
  <2>2. CASE root[r].at # "done"
    BY <1>1, <2>2, JobEnds
  <2> QED
    BY <2>1, <2>2
<1>5. root' \in [Roots -> Helpers] /\ HelperHolds'
  BY <1>0, <1>1, <1>2, <1>3, NothingKnown DEF HelperHolds, NoRoot
<1>6. HostType' /\ HeldAlone'
  BY <1>0, <1>1, <1>4, <1>5 DEF HostType, HeldAlone, SharedHeld
<1>7. Using' = Using /\ Things' = Things
  BY <1>1, UsingIs, ThingsStay
<1> QED
  BY <1>1, <1>4, <1>5, <1>6, <1>7, PromiseLeave DEF LeaseInv

LEMMA UserKeeps ==
    ASSUME LeaseInv, Remove
    PROVE  LeaseInv' /\ Promise
<1>1. UserStep \/ (\E kind \in Kinds : UserStart(kind)) \/ GiveUp \/ AuthorizeLost \/ DrainedExit
  BY DEF Remove, Kinds
<1>2. CASE UserStep
  BY <1>2, LoadKeeps, CheckKeeps, RecordKeeps, AuthorizeKeeps, StopKeeps, LeaseKeeps, RemoveKeeps,
     HandOffKeeps, BeginsKeeps, UnlinksKeep, AnsweredKeeps, GiveUpKeeps DEF UserStep, Refused
<1> QED
  BY <1>1, <1>2, StartKeeps, GiveUpKeeps, AuthorizeKeeps, DrainedExitKeeps

-----------------------------------------------------------------------------
(* The helpers of root *)

\* A helper moves without a lease changing hands, and without touching a file.
LEMMA HelperMoves ==
    ASSUME LeaseInv, UNCHANGED <<disk, gui, daemon, integ, settings, exclusive, user, plan>>,
           tx' \in Bundles, root' \in [Roots -> Helpers], HelperHolds'
    PROVE  LeaseInv' /\ Promise
<1>1. /\ JobHolds' /\ user' \in Users
      /\ user'.kind # "none" => user'.at \in DOMAIN Phases(user'.kind)
  BY JobRests DEF JobKept
<1>2. HostType' /\ HeldAlone'
  BY <1>1 DEF LeaseInv, HostType, HeldAlone, SharedHeld
<1>3. Using' = Using /\ Things' = Things
  BY UsingIs, ThingsStay
<1> QED
  BY <1>1, <1>2, <1>3, PromiseLeave DEF LeaseInv

\* The record of a helper after its step.
LEMMA HelperAt ==
    ASSUME LeaseInv, NEW r \in Roots, NEW at \in {"idle", "admit", "lease", "assert", "remove",
                                "authority", "helper", "done", "failed"}, RootGo(r, at)
    PROVE  /\ root' \in [Roots -> Helpers] /\ root'[r].at = at /\ root'[r].pos = root[r].pos
           /\ root'[r].snap = root[r].snap
           /\ \A q \in Roots \ {r} : root'[q] = root[q]
<1>1. root \in [Roots -> Helpers] /\ root' = [root EXCEPT ![r].at = at]
  BY DEF LeaseInv, HostType, RootGo
<1>2. root[r] \in Helpers /\ [root[r] EXCEPT !.at = at] \in Helpers
  BY <1>1 DEF Helpers
<1>3. root'[r] = [root[r] EXCEPT !.at = at] /\ \A q \in Roots \ {r} : root'[q] = root[q]
  BY <1>1
<1>4. root'[r].at = at /\ root'[r].pos = root[r].pos /\ root'[r].snap = root[r].snap
  BY <1>2, <1>3 DEF Helpers
<1>5. root' \in [Roots -> Helpers]
  BY <1>1, <1>2
<1> QED
  BY <1>3, <1>4, <1>5

LEMMA AdmitKeeps ==
    ASSUME LeaseInv, NEW r \in Roots, RootAdmit(r)
    PROVE  LeaseInv' /\ Promise
<1>0. HostType /\ HelperHolds
  BY DEF LeaseInv
<1>1. /\ UNCHANGED <<disk, gui, daemon, integ, settings, exclusive, user, plan, tx>>
      /\ root[r].at = "admit" /\ root' = [root EXCEPT ![r].at = "lease", ![r].snap = tx.snap]
  BY DEF RootAdmit, Kept, HostVars
<1>2. tx \in Bundles /\ root \in [Roots -> Helpers]
  BY <1>0 DEF HostType
<1>3. tx.snap \in Inventories /\ root[r] \in Helpers
  BY <1>2 DEF Bundles
<1> DEFINE next == [at |-> "lease", snap |-> tx.snap, own |-> root[r].own, pos |-> root[r].pos]
<1>4. root'[r] = next /\ \A q \in Roots \ {r} : root'[q] = root[q]
  BY <1>1, <1>2, <1>3 DEF Helpers
<1>5. next \in Helpers /\ next.at = "lease" /\ next.pos = root[r].pos
  BY <1>3 DEF Helpers
<1> HIDE DEF next
<1>6. root' \in [Roots -> Helpers]
  BY <1>1, <1>2, <1>4, <1>5
<1>7. HelperHolds'
  BY <1>0, <1>1, <1>4, <1>5 DEF HelperHolds
<1> QED
  BY <1>1, <1>2, <1>6, <1>7, HelperMoves

LEMMA RootLeaseKeeps ==
    ASSUME LeaseInv, NEW r \in Roots, RootLease(r)
    PROVE  LeaseInv' /\ Promise
<1>0. HostType /\ HelperHolds
  BY DEF LeaseInv
<1>1. /\ UNCHANGED <<disk, gui, daemon, integ, settings, user, plan, tx>>
      /\ exclusive = "nobody" /\ ~SharedHeld /\ exclusive' = r /\ RootGo(r, "assert")
  BY DEF RootLease, ExclusiveFree, RootHold, Kept
<1>2. /\ root' \in [Roots -> Helpers] /\ root'[r].at = "assert"
      /\ \A q \in Roots \ {r} : root'[q] = root[q]
  BY <1>1, HelperAt
<1>3. HelperHolds'
  BY <1>0, <1>1, <1>2 DEF HelperHolds, Roots
<1>4. /\ JobHolds' /\ user' \in Users
      /\ user'.kind # "none" => user'.at \in DOMAIN Phases(user'.kind)
  BY <1>1, JobRests DEF JobKept
<1>5. HostType' /\ HeldAlone'
  BY <1>0, <1>1, <1>2, <1>4 DEF HostType, HeldAlone, SharedHeld
<1>6. Using' = Using /\ Things' = Things /\ Using = {}
  BY <1>1, UsingIs, ThingsStay
<1> QED
  BY <1>1, <1>3, <1>4, <1>5, <1>6, PromiseTake DEF LeaseInv

LEMMA HelperWalks ==
    ASSUME LeaseInv, NEW r \in Roots, RootAssert(r) \/ RootRemoved(r)
    PROVE  LeaseInv' /\ Promise
<1>0. HostType /\ HelperHolds
  BY DEF LeaseInv
<1>1. PICK at \in {"remove", "authority"} :
         /\ UNCHANGED <<disk, gui, daemon, integ, settings, exclusive, user, plan, tx>>
         /\ root[r].at \in {"assert", "remove"} /\ RootGo(r, at)
  BY DEF RootAssert, RootRemoved, Kept, HostVars
<1>2. /\ root' \in [Roots -> Helpers] /\ root'[r].at = at
      /\ \A q \in Roots \ {r} : root'[q] = root[q]
  BY <1>1, HelperAt
<1>3. HelperHolds'
  BY <1>0, <1>1, <1>2 DEF HelperHolds
<1> QED
  BY <1>0, <1>1, <1>2, <1>3, HelperMoves DEF HostType

LEMMA RootBeginsKeeps ==
    ASSUME LeaseInv, NEW r \in Roots, RootBegins(r)
    PROVE  LeaseInv' /\ Promise
<1>0. HostType /\ HelperHolds
  BY DEF LeaseInv
<1>1. /\ UNCHANGED <<disk, gui, daemon, integ, settings, exclusive, user, plan, tx>>
      /\ root[r].at = "remove" /\ root' = [root EXCEPT ![r].pos = 1]
  BY DEF RootBegins, Kept, HostVars
<1>2. tx \in Bundles /\ root \in [Roots -> Helpers]
  BY <1>0 DEF HostType
<1>3. /\ root'[r] = [root[r] EXCEPT !.pos = 1] /\ root[r] \in Helpers
      /\ \A q \in Roots \ {r} : root'[q] = root[q]
  BY <1>1, <1>2
<1>4. root'[r] \in Helpers /\ root'[r].at = "remove"
  BY <1>1, <1>3 DEF Helpers
<1>5. root' \in [Roots -> Helpers]
  BY <1>1, <1>2, <1>3, <1>4
<1>6. HelperHolds'
  BY <1>0, <1>1, <1>3, <1>4 DEF HelperHolds
<1> QED
  BY <1>1, <1>2, <1>5, <1>6, HelperMoves

LEMMA RootUnlinksKeep ==
    ASSUME LeaseInv, NEW r \in Roots, RootUnlinks(r)
    PROVE  LeaseInv' /\ Promise
<1>0. HostType /\ HelperHolds /\ HeldAlone
  BY DEF LeaseInv
<1>1. /\ UNCHANGED <<gui, daemon, integ, settings, exclusive, user, plan, tx>>
      /\ root[r].at = "remove" /\ Turn(root[r].snap, root[r].pos)
      /\ root' = [root EXCEPT ![r].pos = @ + 1]
  BY DEF RootUnlinks, HostVars
<1>2. tx \in Bundles /\ root \in [Roots -> Helpers] /\ disk \in Snaps
  BY <1>0 DEF HostType
<1>3. /\ root'[r] = [root[r] EXCEPT !.pos = @ + 1] /\ root[r] \in Helpers
      /\ \A q \in Roots \ {r} : root'[q] = root[q]
  BY <1>1, <1>2
<1>4. root'[r] \in Helpers /\ root'[r].at = "remove"
  BY <1>1, <1>3 DEF Helpers
<1>5. root' \in [Roots -> Helpers]
  BY <1>1, <1>2, <1>3, <1>4
<1>6. HelperHolds' /\ exclusive = r
  BY <1>0, <1>1, <1>3, <1>4 DEF HelperHolds
<1>7. disk' \in Snaps /\ \A s \in Slots : disk'[s] # Absent => disk[s] # Absent
  <2>1. disk' = disk \/ disk' = [disk EXCEPT ![Visited(root[r].pos)] = Absent]
    BY <1>1 DEF Turn, Unlink
  <2> QED
    BY <1>2, <2>1 DEF Snaps
<1>8. /\ JobHolds' /\ user' \in Users
      /\ user'.kind # "none" => user'.at \in DOMAIN Phases(user'.kind)
  BY <1>1, JobRests DEF JobKept
<1>9. HostType' /\ HeldAlone'
  BY <1>0, <1>1, <1>2, <1>5, <1>7, <1>8 DEF HostType, HeldAlone, SharedHeld
<1>10. Things' \subseteq Things
  BY <1>1, <1>7 DEF Things
<1>11. exclusive # "nobody" /\ Using = {} /\ Using' = Using
  BY <1>0, <1>1, <1>6, UsingIs DEF HeldAlone, Roots
<1> QED
  BY <1>1, <1>6, <1>8, <1>9, <1>10, <1>11, PromiseRemove DEF LeaseInv

\* The end of a helper, with its answer or without one.
LEMMA HelperEnds ==
    ASSUME LeaseInv, NEW r \in Roots, RootClears(r) \/ RootFails(r)
    PROVE  LeaseInv' /\ Promise
<1>0. HostType /\ HelperHolds /\ HeldAlone
  BY DEF LeaseInv
<1>1. UNCHANGED <<disk, gui, daemon, integ, settings, user, plan>>
  BY DEF RootClears, RootFails, Kept
<1>2. tx \in Bundles
  BY <1>0 DEF HostType
<1>3. PICK at \in {"helper", "done", "failed"} :
         /\ RootGo(r, at)
         /\ at = "helper" => root[r].at = "authority" /\ exclusive' = exclusive
         /\ at # "helper" => RootReleases(r)
  BY DEF RootClears, RootFails
<1>4. tx' \in Bundles
  <2>1. CASE RootFails(r)
    <3>1. (tx.state # "gone") \in BOOLEAN
      OBVIOUS
    <3>2. PICK b \in BOOLEAN : tx' = [tx EXCEPT !.told = b] \/ tx' = tx
      BY <2>1, <3>1 DEF RootFails
    <3> QED
      BY <1>2, <3>2 DEF Bundles
  <2>2. CASE RootClears(r)
    <3>1. tx' = [tx EXCEPT !.state = "helper"] \/ tx' = tx \/ tx' = Gone
      BY <2>2 DEF RootClears
    <3>2. Gone \in Bundles
      BY NothingKnown DEF Gone, Bundles
    <3> QED
      BY <1>2, <3>1, <3>2 DEF Bundles
  <2> QED
    BY <2>1, <2>2
<1>5. /\ root' \in [Roots -> Helpers] /\ root'[r].at = at
      /\ \A q \in Roots \ {r} : root'[q] = root[q]
  BY <1>3, HelperAt
<1>6. /\ exclusive' \in {exclusive, "nobody"}
      /\ \A q \in Roots \ {r} : exclusive = q => exclusive' = q
      /\ exclusive = "user" => exclusive' = "user"
      /\ at = "helper" => exclusive' = r
  BY <1>0, <1>3 DEF RootReleases, HelperHolds, Roots
<1>7. HelperHolds'
  BY <1>0, <1>5, <1>6 DEF HelperHolds
<1>8. /\ JobHolds' /\ user' \in Users
      /\ user'.kind # "none" => user'.at \in DOMAIN Phases(user'.kind)
  BY <1>1, <1>6, JobRests DEF JobKept
<1>9. HostType' /\ HeldAlone'
  BY <1>0, <1>1, <1>4, <1>5, <1>6, <1>8 DEF HostType, HeldAlone, SharedHeld
<1>10. Using' = Using /\ Things' = Things
  BY <1>1, UsingIs, ThingsStay
<1> QED
  BY <1>6, <1>7, <1>8, <1>9, <1>10, PromiseDrop DEF LeaseInv

LEMMA HelperBeginsAgain ==
    ASSUME LeaseInv, NEW r \in Roots, RootForgotten(r) \/ AdminResume(r)
    PROVE  LeaseInv' /\ Promise
<1>0. HostType /\ HelperHolds
  BY DEF LeaseInv
<1>1. PICK next \in {NoRoot, [NoRoot EXCEPT !.at = "admit", !.own = TRUE]} :
         /\ UNCHANGED <<disk, gui, daemon, integ, settings, exclusive, user, plan, tx>>
         /\ root' = [root EXCEPT ![r] = next]
  BY DEF RootForgotten, AdminResume, Kept, HostVars
<1>2. next \in Helpers /\ next.at \in {"idle", "admit"} /\ next.pos = 0
  <2>1. CASE next = NoRoot
    BY <2>1, NothingKnown DEF NoRoot
  <2>2. CASE next = [NoRoot EXCEPT !.at = "admit", !.own = TRUE]
    BY <2>2, NothingKnown DEF NoRoot, Helpers
  <2> QED
    BY <2>1, <2>2
<1>3. tx \in Bundles /\ root \in [Roots -> Helpers]
  BY <1>0 DEF HostType
<1>4. root' \in [Roots -> Helpers] /\ root'[r] = next /\ \A q \in Roots \ {r} : root'[q] = root[q]
  BY <1>1, <1>2, <1>3
<1>5. HelperHolds'
  BY <1>0, <1>1, <1>2, <1>4 DEF HelperHolds
<1> QED
  BY <1>1, <1>3, <1>4, <1>5, HelperMoves

LEMMA RootKeeps ==
    ASSUME LeaseInv, NEW r \in Roots, RemoveAsRoot(r)
    PROVE  LeaseInv' /\ Promise
<1>1. CASE RootStep(r)
  BY <1>1, AdmitKeeps, RootLeaseKeeps, HelperWalks, RootBeginsKeeps, RootUnlinksKeep, HelperEnds,
     HelperBeginsAgain DEF RootStep, RootRefused
<1>2. CASE RootCancelled(r) \/ RootFails(r) \/ AdminResume(r)
  BY <1>2, HelperEnds, HelperBeginsAgain DEF RootCancelled
<1> QED
  BY <1>1, <1>2 DEF RemoveAsRoot

-----------------------------------------------------------------------------

LEMMA LeasesBegin == Init => LeaseInv /\ Exclusive!Init
<1> SUFFICES ASSUME Init
             PROVE  LeaseInv /\ Exclusive!Init
  OBVIOUS
<1>1. PICK p \in Plans :
         /\ disk = p.disk /\ gui = p.gui /\ daemon = p.daemon /\ integ = p.integ
         /\ exclusive = "nobody" /\ user = NoUser /\ plan = NoPlan
         /\ root = [r \in Roots |-> NoRoot] /\ tx = Gone
  BY DEF Init
<1>2. /\ disk \in Snaps /\ gui \in {"off", "running"} /\ daemon \in {"off", "running"}
      /\ integ \in [Items -> {"none", "own", "managed", "foreign"}]
  BY <1>1, PlansAssumption DEF Snaps
<1>3. user \in Users /\ root \in [Roots -> Helpers] /\ plan \in Records /\ tx \in Bundles
  BY <1>1, NothingKnown DEF NoPlan, Gone, Records, Bundles
<1>4. HostType
  BY <1>1, <1>2, <1>3 DEF HostType, NoUser
<1>5. HeldAlone /\ JobHolds /\ HelperHolds
  BY <1>1 DEF HeldAlone, JobHolds, HelperHolds, NoUser, NoRoot
<1>6. Exclusive!Init
  BY <1>1 DEF Exclusive!Init
<1> QED
  BY <1>4, <1>5, <1>6 DEF LeaseInv

LEMMA LeaseStep ==
    ASSUME LeaseInv, [Next]_vars
    PROVE  LeaseInv' /\ Promise
<1>1. CASE Next
  BY <1>1, OutsideKeeps, OwnKeeps, UserKeeps, RootKeeps DEF Next
<1>2. CASE UNCHANGED vars
  <2>1. /\ UNCHANGED <<disk, gui, daemon, integ, settings, exclusive, user, plan, tx, root>>
    BY <1>2 DEF vars, ownerVars, removalVars
  <2>2. HelperHolds'
    BY <2>1 DEF LeaseInv, HelperHolds
  <2> QED
    BY <2>1, <2>2, HelperMoves DEF LeaseInv, HostType
<1> QED
  BY <1>1, <1>2

LEMMA LeaseInvariant == Spec => []LeaseInv
<1>1. Init => LeaseInv
  BY LeasesBegin
<1>2. LeaseInv /\ [Next]_vars => LeaseInv'
  BY LeaseStep
<1> QED
  BY <1>1, <1>2, PTL DEF Spec

\* The leases keep their promise for every prefix, plan, failure and death:
\* nothing of the installation, of its integration or of the settings goes while
\* a program uses it, or by a process that does not hold it alone.
THEOREM TheLeasesHold == Spec => TakenAloneOnly
<1>1. Init => Exclusive!Init
  BY LeasesBegin
<1>2. LeaseInv /\ [Next]_vars => [Exclusive!Next]_(Exclusive!vars)
  BY LeaseStep DEF Promise
<1> QED
  BY <1>1, <1>2, LeaseInvariant, PTL DEF Spec, TakenAloneOnly, Exclusive!Spec

-----------------------------------------------------------------------------
(* The installer: its record, and what is under the receipt it publishes *)

LEMMA RecordIs ==
    ASSUME disk \in Snaps
    PROVE  disk # NoRecord
<1>1. DOMAIN disk = Slots /\ DOMAIN NoRecord = {}
  BY DEF Snaps, NoRecord
<1> QED
  BY <1>1, SlotsAre

\* A phase of the installer that publishes nothing.
LEMMA InstallerGoes ==
    ASSUME Recorded, NEW at \in {"idle", "record", "expect", "verify", "receipt", "finish"}, Go(at)
    PROVE  inst' \in Installers /\ inst'.at = at /\ inst'.expected = inst.expected
<1>1. inst \in Installers
  BY DEF Recorded
<1> QED
  BY <1>1 DEF Go, Installers

LEMMA InstallerRecords ==
    ASSUME disk \in Snaps, Recorded, Unmixed, InstStart \/ InstallerStep, begun' = begun
    PROVE  /\ Recorded' /\ Unmixed'
           /\ authority' = NoRecord => UNCHANGED <<disk, authority>> \/ Finish
<1>1. CASE InstStart \/ InstAbort
  <2>1. UNCHANGED <<disk, packaged, authority>>
    BY <1>1 DEF InstStart, InstAbort
  <2>2. PICK at \in {"idle", "record", "expect"} : Go(at) /\ (at = "expect" => authority # NoRecord)
    BY <1>1 DEF InstStart, InstAbort
  <2>3. inst' \in Installers /\ inst'.at = at
    BY <2>2, InstallerGoes
  <2>4. Recorded'
    BY <2>1, <2>2, <2>3 DEF Recorded
  <2>5. Unmixed'
    BY <2>1, <2>2, <2>3 DEF Unmixed
  <2> QED
    BY <2>1, <2>4, <2>5
<1>2. CASE RecordAuthority
  <2>1. authority' = disk /\ Go("expect")
    BY <1>2 DEF RecordAuthority
  <2>2. authority' # NoRecord
    BY <2>1, RecordIs
  <2>3. inst' \in Installers /\ inst'.at = "expect"
    BY <2>1, InstallerGoes
  <2> QED
    BY <2>2, <2>3 DEF Recorded, Unmixed, NoRecord
<1>3. CASE Expect \/ PublishSource \/ PublishReceipt
  <2>1. authority' = authority /\ authority # NoRecord
    BY <1>3 DEF Expect, PublishSource, PublishReceipt, Recorded, At
  <2>2. /\ inst' \in Installers /\ inst'.at \in {"publish", "reverify"}
        /\ inst'.at = "reverify" => inst'.expected[Receipt] = Accepted[Receipt]
    <3>1. inst \in Installers /\ Accepted \in Snaps
      BY ContentIs DEF Recorded, Accepted, Versions, Inventories
    <3>2. CASE Expect
      BY <3>2 DEF Expect, Installers
    <3>3. CASE PublishSource
      <4>1. PICK s : inst.at = "publish" /\ inst' = [inst EXCEPT !.expected[s] = Accepted[s]]
        BY <3>3 DEF PublishSource, At
      <4>2. inst' = [at |-> inst.at, expected |-> [inst.expected EXCEPT ![s] = Accepted[s]]]
        BY <3>1, <4>1 DEF Installers
      <4>3. [inst.expected EXCEPT ![s] = Accepted[s]] \in Snaps
        BY <3>1 DEF Snaps, Installers
      <4> QED
        BY <4>1, <4>2, <4>3 DEF Installers
    <3>4. CASE PublishReceipt
      <4> DEFINE next == [inst.expected EXCEPT ![Receipt] = Accepted[Receipt]]
      <4>1. inst' = [at |-> "reverify", expected |-> next]
        BY <3>4 DEF PublishReceipt
      <4>2. next \in Snaps /\ next[Receipt] = Accepted[Receipt]
        BY <3>1, SlotsAre DEF Snaps, Installers
      <4> HIDE DEF next
      <4> QED
        BY <4>1, <4>2 DEF Installers
    <3> QED
      BY <1>3, <3>2, <3>3, <3>4
  <2> QED
    BY <2>1, <2>2 DEF Recorded, Unmixed, NoRecord, Accepted, SnapshotOf, Content
<1>4. CASE SourcesPublished \/ VerifyPayload
  <2>1. UNCHANGED <<disk, packaged, authority>> /\ authority # NoRecord
    BY <1>4 DEF SourcesPublished, VerifyPayload, Recorded, At
  <2>2. PICK at \in {"verify", "receipt", "finish"} :
           Go(at) /\ (at = "finish" => Verified /\ inst.at = "reverify")
    BY <1>4 DEF SourcesPublished, VerifyPayload, AfterReceipt, At
  <2>3. inst' \in Installers /\ inst'.at = at /\ inst'.expected = inst.expected
    BY <2>2, InstallerGoes
  <2>4. at = "finish" => inst'.expected[Receipt] = Accepted[Receipt]
    BY <2>2, <2>3 DEF Recorded
  <2>5. Recorded'
    BY <2>1, <2>3, <2>4 DEF Recorded, NoRecord, Accepted, SnapshotOf, Content
  <2>6. Unmixed'
    BY <2>1, <2>2, <2>3 DEF Unmixed, Verified, NoRecord
  <2> QED
    BY <2>1, <2>5, <2>6
<1>5. CASE Finish
  <2>1. UNCHANGED <<disk, packaged>> /\ inst.at = "finish" /\ Go("idle")
    BY <1>5 DEF Finish, At, Go
  <2>2. inst' \in Installers /\ inst'.at = "idle"
    BY <2>1, InstallerGoes
  <2>3. Recorded'
    BY <2>2 DEF Recorded
  <2>4. Unmixed'
    BY <2>1, <2>2 DEF Unmixed
  <2> QED
    BY <1>5, <2>3, <2>4
<1> QED
  BY <1>1, <1>2, <1>3, <1>4, <1>5 DEF InstallerStep

-----------------------------------------------------------------------------
(* What a step of a removal does to its place, and to files *)

\* A job or a helper stays at its slot, forgets it, or begins at the first for
\* a receipt that is noted.
Goes(sn2, p2, sn, p) == \/ p2 = 0
                        \/ p2 = p /\ sn2 = sn
                        \/ p2 = 1 /\ sn2[Receipt] \in begun'
JobGoes     == Goes(user'.snap, user'.pos, user.snap, user.pos)
HelpersGo   == \A r \in Roots : Goes(root'[r].snap, root'[r].pos, root[r].snap, root[r].pos)
Untouched   == UNCHANGED <<disk, packaged, inst, authority>> /\ begun \subseteq begun'
Quiet       == Untouched /\ JobGoes /\ HelpersGo

\* A slot has its turn, and the next one is up.
Turns(sn2, p2, sn, p) == p \in DOMAIN Order /\ Turn(sn, p) /\ sn2 = sn /\ p2 = p + 1
JobTurns     == /\ Turns(user'.snap, user'.pos, user.snap, user.pos)
                /\ UNCHANGED <<packaged, inst, authority, begun, root>>
HelperTurns(r) == /\ Turns(root'[r].snap, root'[r].pos, root[r].snap, root[r].pos)
                  /\ \A q \in Roots \ {r} : root'[q] = root[q]
                  /\ UNCHANGED <<packaged, inst, authority, begun, user>>

LEMMA GoesOn ==
    ASSUME UNCHANGED user
    PROVE  JobGoes
  BY DEF JobGoes, Goes

LEMMA HelpersStay ==
    ASSUME UNCHANGED root
    PROVE  HelpersGo
  BY DEF HelpersGo, Goes

LEMMA GoesToTheEnd ==
    ASSUME NEW result, user' = Ended(result)
    PROVE  JobGoes
<1>1. user'.pos = 0
  BY DEF Ended, NoUser
<1> QED
  BY <1>1 DEF JobGoes, Goes

LEMMA GoesToThePhase ==
    ASSUME user \in Users, Pass
    PROVE  JobGoes
<1>1. CASE Last
  BY <1>1, GoesToTheEnd DEF Pass
<1>2. CASE ~Last
  <2>1. user' = [user EXCEPT !.at = @ + 1]
    BY <1>2 DEF Pass
  <2>2. user'.pos = user.pos /\ user'.snap = user.snap
    BY <2>1 DEF Users
  <2> QED
    BY <2>2 DEF JobGoes, Goes
<1> QED
  BY <1>1, <1>2

LEMMA BundleGoes ==
    ASSUME HostType, Bundle
    PROVE  HelpersGo
<1>1. root \in [Roots -> Helpers] /\ root' = [r \in Roots |-> [root[r] EXCEPT !.own = FALSE]]
  BY DEF HostType, Bundle
<1>2. ASSUME NEW r \in Roots
      PROVE  root'[r].pos = root[r].pos /\ root'[r].snap = root[r].snap
  BY <1>1 DEF Helpers
<1> QED
  BY <1>2 DEF HelpersGo, Goes

\* The phases of a job that take no file away.
Passing == \/ Check \/ Prepare \/ Authorize \/ Bootstrap \/ Freeze \/ StopApp \/ StopService
           \/ TakeLease \/ Release \/ RemoveUnit \/ RemoveItem \/ RemoveSettings \/ Removed
           \/ CheckGone \/ Cleanup

LEMMA PassingGoes ==
    ASSUME HostType, UNCHANGED installerVars, Passing
    PROVE  Quiet
<1>1. user \in Users
  BY DEF HostType
<1>2. Pass /\ UNCHANGED <<disk, packaged, begun>> /\ (Bundle \/ UNCHANGED root)
  <2>1. CASE Check \/ Prepare \/ CheckGone \/ Cleanup
    BY <2>1 DEF Check, Prepare, CheckGone, Cleanup, Simple, Kept, Rest
  <2>2. CASE Authorize \/ Bootstrap
    BY <2>2 DEF Authorize, Bootstrap, Simple, Kept
  <2>3. CASE Freeze \/ StopApp \/ StopService \/ TakeLease \/ Release
    BY <2>3 DEF Freeze, StopApp, StopService, TakeLease, Release, Simple, Kept, Rest
  <2>4. CASE RemoveUnit \/ RemoveItem \/ RemoveSettings \/ Removed
    BY <2>4 DEF RemoveUnit, RemoveItem, RemoveSettings, Removed, Simple, Kept, Rest
  <2> QED
    BY <2>1, <2>2, <2>3, <2>4 DEF Passing
<1>3. JobGoes /\ HelpersGo
  BY <1>1, <1>2, GoesToThePhase, HelpersStay, BundleGoes
<1> QED
  BY <1>2, <1>3 DEF Quiet, Untouched, installerVars

\* The ends of a job, and the beginning of another.
LEMMA EndGoes ==
    ASSUME HostType, UNCHANGED installerVars,
           GiveUp \/ AuthorizeLost \/ DrainedExit \/ \E kind \in Kinds : UserStart(kind)
    PROVE  Quiet
<1>1. UNCHANGED <<disk, packaged, begun>> /\ (Bundle \/ UNCHANGED root)
  BY DEF GiveUp, AuthorizeLost, DrainedExit, UserStart, Kept, Rest
<1>2. JobGoes
  <2>1. CASE GiveUp \/ AuthorizeLost
    BY <2>1, GoesToTheEnd DEF GiveUp, AuthorizeLost
  <2>2. CASE DrainedExit
    BY <2>2, GoesOn DEF DrainedExit
  <2>3. CASE \E kind \in Kinds : UserStart(kind)
    <3>1. PICK kind \in Kinds : UserStart(kind)
      BY <2>3
    <3>2. PICK sn \in InspectPrefix \cup {plan.snap}, consent \in BOOLEAN :
             user' = [NoUser EXCEPT !.kind = kind, !.snap = sn, !.consent = consent]
      BY <3>1 DEF UserStart
    <3>3. user'.pos = 0
      BY <3>2 DEF NoUser
    <3> QED
      BY <3>3 DEF JobGoes, Goes
  <2> QED
    BY <2>1, <2>2, <2>3
<1>3. HelpersGo
  BY <1>1, HelpersStay, BundleGoes
<1> QED
  BY <1>1, <1>2, <1>3 DEF Quiet, Untouched, installerVars

LEMMA LoadGoes ==
    ASSUME LeaseInv, UNCHANGED installerVars, Load
    PROVE  Quiet
<1>1. /\ UNCHANGED <<disk, packaged, begun, root>> /\ In("load")
      /\ user' = [user EXCEPT !.at = @ + 1, !.snap = plan.snap, !.consent = plan.consent]
  BY DEF Load, Kept, Rest
<1>2. user \in Users /\ JobHolds
  BY DEF LeaseInv, HostType
<1>3. user.pos \in Nat /\ ~(user.pos > 0)
  BY <1>1, <1>2 DEF JobHolds, In, Users
<1>4. user'.pos = user.pos
  BY <1>1, <1>2 DEF Users
<1>5. JobGoes
  BY <1>3, <1>4 DEF JobGoes, Goes
<1> QED
  BY <1>1, <1>5, HelpersStay DEF Quiet, Untouched, installerVars

LEMMA BeginsGoes ==
    ASSUME HostType, UNCHANGED installerVars, Begins
    PROVE  Quiet
<1>1. /\ UNCHANGED <<disk, packaged, root>> /\ begun' = begun \cup {Sn[Receipt]}
      /\ user' = [user EXCEPT !.pos = 1]
  BY DEF Begins, Kept
<1>2. user \in Users
  BY DEF HostType
<1>3. user'.snap = user.snap /\ user'.pos = 1
  BY <1>1, <1>2 DEF Users
<1>4. JobGoes
  BY <1>1, <1>3 DEF JobGoes, Goes, Sn
<1> QED
  BY <1>1, <1>4, HelpersStay DEF Quiet, Untouched, installerVars

LEMMA UnlinksTurns ==
    ASSUME HostType, UNCHANGED installerVars, Unlinks
    PROVE  JobTurns
<1>1. /\ UNCHANGED <<packaged, root, begun>> /\ user.pos \in DOMAIN Order /\ Turn(Sn, user.pos)
      /\ user' = [user EXCEPT !.pos = @ + 1]
  BY DEF Unlinks, Rest
<1>2. user \in Users
  BY DEF HostType
<1>3. user'.snap = user.snap /\ user'.pos = user.pos + 1
  BY <1>1, <1>2 DEF Users
<1> QED
  BY <1>1, <1>3 DEF JobTurns, Turns, Sn, installerVars

LEMMA HandOffGoes ==
    ASSUME HostType, UNCHANGED installerVars, HandOff
    PROVE  Quiet
<1>1. UNCHANGED <<disk, packaged, begun>>
  BY DEF HandOff, Kept
<1>2. PICK r \in Roots :
         /\ user' = [user EXCEPT !.waits = r]
         /\ root' = [q \in Roots |->
                        IF q = r THEN [NoRoot EXCEPT !.at = "admit", !.own = TRUE]
                        ELSE [root[q] EXCEPT !.own = @ /\ HandsOver]]
  BY DEF HandOff
<1>3. user \in Users /\ root \in [Roots -> Helpers]
  BY DEF HostType
<1>4. user'.pos = user.pos /\ user'.snap = user.snap
  BY <1>2, <1>3 DEF Users
<1>5. ASSUME NEW q \in Roots
      PROVE  root'[q].pos = 0 \/ (root'[q].pos = root[q].pos /\ root'[q].snap = root[q].snap)
  <2>1. CASE q = r
    BY <1>2, <2>1 DEF NoRoot
  <2>2. CASE q # r
    <3>1. root'[q] = [root[q] EXCEPT !.own = @ /\ HandsOver] /\ root[q] \in Helpers
      BY <1>2, <1>3, <2>2
    <3> QED
      BY <3>1 DEF Helpers
  <2> QED
    BY <2>1, <2>2
<1>6. JobGoes /\ HelpersGo
  BY <1>4, <1>5 DEF JobGoes, HelpersGo, Goes
<1> QED
  BY <1>1, <1>6 DEF Quiet, Untouched, installerVars

LEMMA AnsweredGoes ==
    ASSUME HostType, UNCHANGED installerVars, Answered
    PROVE  Quiet
<1>1. /\ UNCHANGED <<disk, packaged, begun>> /\ root' = [root EXCEPT ![user.waits] = NoRoot]
      /\ user' = [user EXCEPT !.at = @ + 1, !.waits = "none"] \/ user' = Ended("failed")
  BY DEF Answered, Kept
<1>2. user \in Users /\ root \in [Roots -> Helpers]
  BY DEF HostType
<1>3. JobGoes
  <2>1. CASE user' = Ended("failed")
    BY <2>1, GoesToTheEnd
  <2>2. CASE user' = [user EXCEPT !.at = @ + 1, !.waits = "none"]
    <3>1. user'.pos = user.pos /\ user'.snap = user.snap
      BY <1>2, <2>2 DEF Users
    <3> QED
      BY <3>1 DEF JobGoes, Goes
  <2> QED
    BY <1>1, <2>1, <2>2
<1>4. ASSUME NEW q \in Roots
      PROVE  root'[q].pos = 0 \/ root'[q] = root[q]
  <2>1. root'[q] = NoRoot \/ root'[q] = root[q]
    BY <1>1, <1>2
  <2> QED
    BY <2>1 DEF NoRoot
<1>5. HelpersGo
  BY <1>4 DEF HelpersGo, Goes
<1> QED
  BY <1>1, <1>3, <1>5 DEF Quiet, Untouched, installerVars

LEMMA RemoveGoes ==
    ASSUME LeaseInv, Remove
    PROVE  Quiet \/ JobTurns
<1>1. UNCHANGED installerVars /\ HostType
  BY DEF Remove, LeaseInv
<1>2. CASE UserStep
  BY <1>1, <1>2, LoadGoes, PassingGoes, BeginsGoes, UnlinksTurns, HandOffGoes, AnsweredGoes,
     EndGoes DEF UserStep, Passing, Refused
<1>3. CASE GiveUp \/ AuthorizeLost \/ DrainedExit \/ \E kind \in Kinds : UserStart(kind)
  BY <1>1, <1>3, EndGoes
<1> QED
  BY <1>2, <1>3 DEF Remove, Kinds

\* The helpers: only RootBegins begins, with the receipt of its bundle.
LEMMA HelperGoes ==
    ASSUME NEW r \in Roots, Goes(root'[r].snap, root'[r].pos, root[r].snap, root[r].pos),
           \A q \in Roots \ {r} : root'[q] = root[q]
    PROVE  HelpersGo
<1>1. ASSUME NEW q \in Roots
      PROVE  Goes(root'[q].snap, root'[q].pos, root[q].snap, root[q].pos)
  <2>1. CASE q = r
    BY <2>1
  <2>2. CASE q # r
    BY <2>2 DEF Goes
  <2> QED
    BY <2>1, <2>2
<1> QED
  BY <1>1 DEF HelpersGo

LEMMA AdmitGoes ==
    ASSUME LeaseInv, NEW r \in Roots, RootAdmit(r)
    PROVE  HelpersGo
<1>1. root \in [Roots -> Helpers] /\ root[r].pos = 0
  BY DEF RootAdmit, LeaseInv, HostType, HelperHolds
<1>2. root' = [root EXCEPT ![r].at = "lease", ![r].snap = tx.snap]
  BY DEF RootAdmit
<1> DEFINE next == [at |-> "lease", snap |-> tx.snap, own |-> root[r].own, pos |-> root[r].pos]
<1>3. root'[r] = next /\ \A q \in Roots \ {r} : root'[q] = root[q]
  BY <1>1, <1>2 DEF Helpers
<1>4. next.pos = 0
  BY <1>1
<1> HIDE DEF next
<1>5. Goes(root'[r].snap, root'[r].pos, root[r].snap, root[r].pos)
  BY <1>3, <1>4 DEF Goes
<1> QED
  BY <1>3, <1>5, HelperGoes

LEMMA HelperStepGoes ==
    ASSUME HostType, NEW r \in Roots,
           RootLease(r) \/ RootAssert(r) \/ RootRemoved(r) \/ RootClears(r) \/ RootFails(r)
    PROVE  HelpersGo
<1>1. PICK at : root' = [root EXCEPT ![r].at = at]
  BY DEF RootLease, RootAssert, RootRemoved, RootClears, RootFails, RootGo
<1>2. root \in [Roots -> Helpers]
  BY DEF HostType
<1>3. ASSUME NEW q \in Roots
      PROVE  root'[q].pos = root[q].pos /\ root'[q].snap = root[q].snap
  BY <1>1, <1>2 DEF Helpers
<1> QED
  BY <1>3 DEF HelpersGo, Goes

LEMMA ForgottenGoes ==
    ASSUME HostType, NEW r \in Roots, RootForgotten(r) \/ AdminResume(r)
    PROVE  HelpersGo
<1>1. PICK next \in {NoRoot, [NoRoot EXCEPT !.at = "admit", !.own = TRUE]} : root' = [root EXCEPT ![r] = next]
  BY DEF RootForgotten, AdminResume
<1>2. next.pos = 0
  <2>1. CASE next = NoRoot
    BY <2>1 DEF NoRoot
  <2>2. CASE next = [NoRoot EXCEPT !.at = "admit", !.own = TRUE]
    BY <2>2 DEF NoRoot
  <2> QED
    BY <1>1, <2>1, <2>2
<1>3. root'[r] = next /\ \A q \in Roots \ {r} : root'[q] = root[q]
  BY <1>1 DEF HostType
<1>4. Goes(root'[r].snap, root'[r].pos, root[r].snap, root[r].pos)
  BY <1>2, <1>3 DEF Goes
<1> QED
  BY <1>3, <1>4, HelperGoes

LEMMA RootBeginsGoes ==
    ASSUME HostType, NEW r \in Roots, RootBegins(r)
    PROVE  HelpersGo /\ begun \subseteq begun'
<1>1. /\ begun' = begun \cup {root[r].snap[Receipt]}
      /\ root' = [root EXCEPT ![r].pos = 1]
  BY DEF RootBegins
<1>2. root \in [Roots -> Helpers]
  BY DEF HostType
<1>3. /\ root'[r].snap = root[r].snap /\ root'[r].pos = 1
      /\ \A q \in Roots \ {r} : root'[q] = root[q]
  BY <1>1, <1>2 DEF Helpers
<1>4. Goes(root'[r].snap, root'[r].pos, root[r].snap, root[r].pos)
  BY <1>1, <1>3 DEF Goes
<1> QED
  BY <1>1, <1>3, <1>4, HelperGoes

LEMMA RootUnlinksTurns ==
    ASSUME HostType, UNCHANGED installerVars, NEW r \in Roots, RootUnlinks(r)
    PROVE  HelperTurns(r)
<1>1. /\ UNCHANGED <<packaged, user, begun>> /\ root[r].pos \in DOMAIN Order
      /\ Turn(root[r].snap, root[r].pos) /\ root' = [root EXCEPT ![r].pos = @ + 1]
  BY DEF RootUnlinks
<1>2. root \in [Roots -> Helpers]
  BY DEF HostType
<1>3. /\ root'[r].snap = root[r].snap /\ root'[r].pos = root[r].pos + 1
      /\ \A q \in Roots \ {r} : root'[q] = root[q]
  BY <1>1, <1>2 DEF Helpers
<1> QED
  BY <1>1, <1>3 DEF HelperTurns, Turns, installerVars

LEMMA RootGoes ==
    ASSUME LeaseInv, NEW r \in Roots, RemoveAsRoot(r)
    PROVE  Quiet \/ HelperTurns(r)
<1>1. UNCHANGED installerVars /\ HostType
  BY DEF RemoveAsRoot, LeaseInv
<1>2. CASE RootUnlinks(r)
  BY <1>1, <1>2, RootUnlinksTurns
<1>3. CASE ~RootUnlinks(r)
  <2>1. \/ RootAdmit(r) \/ RootBegins(r) \/ RootForgotten(r) \/ AdminResume(r)
        \/ RootLease(r) \/ RootAssert(r) \/ RootRemoved(r) \/ RootClears(r) \/ RootFails(r)
    BY <1>3 DEF RemoveAsRoot, RootStep, RootRefused, RootCancelled
  <2>2. UNCHANGED <<disk, packaged, user>> /\ (begun' = begun \/ RootBegins(r))
    BY <2>1 DEF RootAdmit, RootBegins, RootForgotten, AdminResume, RootLease, RootAssert, RootRemoved,
       RootClears, RootFails, Kept
  <2>3. HelpersGo /\ begun \subseteq begun'
    BY <1>1, <2>1, <2>2, AdmitGoes, RootBeginsGoes, ForgottenGoes, HelperStepGoes
  <2> QED
    BY <1>1, <2>2, <2>3, GoesOn DEF Quiet, Untouched, installerVars
<1> QED
  BY <1>2, <1>3

\* The programs touch no file.
LEMMA OwnGoes ==
    ASSUME Own \/ UNCHANGED vars
    PROVE  Quiet
<1>1. CASE Own
  <2>1. UNCHANGED <<disk, packaged>>
    BY <1>1 DEF Own, OwnersProgress, OwnersStart, OwnersWork, OwnersExit, GuiLease, DaemonLease,
       GuiStart, UnitStart, DaemonByHand, GuiSave, InstallService, GuiSetUp, GuiExit, DaemonExit
  <2>2. UNCHANGED <<inst, authority, user, root, begun>>
    BY <1>1 DEF Own, installerVars
  <2> QED
    BY <2>1, <2>2, GoesOn, HelpersStay DEF Quiet, Untouched
<1>2. CASE UNCHANGED vars
  BY <1>2, GoesOn, HelpersStay DEF vars, installerVars, removalVars, Quiet, Untouched
<1> QED
  BY <1>1, <1>2

-----------------------------------------------------------------------------
(* An upgrade is whole                                                       *)

LEMMA QuietFiles ==
    ASSUME FilesInv, Quiet
    PROVE  FilesInv'
<1>1. Recorded' /\ Unmixed'
  BY DEF FilesInv, Recorded, Unmixed, Quiet, Untouched
<1>2. BegunKnown'
  <2>1. user'.pos > 0 => user'.snap[Receipt] \in begun'
    BY DEF FilesInv, BegunKnown, Sn, Quiet, Untouched, JobGoes, Goes
  <2>2. ASSUME NEW r \in Roots
        PROVE  root'[r].pos > 0 => root'[r].snap[Receipt] \in begun'
    <3>1. Goes(root'[r].snap, root'[r].pos, root[r].snap, root[r].pos) /\ begun \subseteq begun'
      BY DEF Quiet, Untouched, HelpersGo
    <3>2. root[r].pos > 0 => root[r].snap[Receipt] \in begun
      BY DEF FilesInv, BegunKnown
    <3> QED
      BY <3>1, <3>2 DEF Goes
  <2> QED
    BY <2>1, <2>2 DEF BegunKnown, Sn
<1> QED
  BY <1>1, <1>2 DEF FilesInv

\* One turn of a removal: below the receipt of the new version it only unlinks
\* when it was accepted for that version.
LEMMA TurnKeeps ==
    ASSUME Recorded, Unmixed, disk \in Snaps, NEW sn, NEW i \in DOMAIN Order, Turn(sn, i),
           sn[Receipt] \in begun, UNCHANGED <<packaged, inst, authority, begun>>
    PROVE  Recorded' /\ Unmixed'
<1>1. Recorded'
  BY DEF Recorded, Accepted, SnapshotOf, Content
<1>2. CASE UNCHANGED disk
  BY <1>1, <1>2 DEF Unmixed
<1>3. CASE MayUnlink(sn, i) /\ Unlink(i)
  <2> DEFINE u == Visited(i)
  <2>1. u \in Slots /\ Receipt \in Slots /\ Payload \subseteq Slots
    BY SlotsAre
  <2>2. disk' = [disk EXCEPT ![u] = Absent] /\ disk[Receipt] \in {Absent, sn[Receipt]}
    BY <1>3 DEF Unlink, MayUnlink, ReceiptUnchanged
  <2> HIDE DEF u
  <2>3. CASE u = Receipt
    BY <1>1, <2>1, <2>2, <2>3 DEF Unmixed, Snaps, Absent
  <2>4. CASE u # Receipt
    <3>1. disk'[Receipt] = disk[Receipt] /\ disk'[u] = Absent
          /\ \A s \in Payload \ {u} : disk'[s] = disk[s]
      BY <2>1, <2>2, <2>4 DEF Snaps
    <3>2. disk[Receipt] = 2 => 2 \in begun
      BY <2>2 DEF Absent
    <3> QED
      BY <1>1, <3>1, <3>2 DEF Unmixed
  <2> QED
    BY <2>3, <2>4
<1> QED
  BY <1>1, <1>2, <1>3 DEF Turn

LEMMA TurnFiles ==
    ASSUME HostType, FilesInv, JobTurns \/ \E r \in Roots : HelperTurns(r)
    PROVE  FilesInv'
<1>0. BegunKnown /\ Recorded /\ Unmixed /\ disk \in Snaps
  BY DEF HostType, FilesInv
<1>1. CASE JobTurns
  <2>1. /\ user'.snap = user.snap /\ user.pos \in DOMAIN Order /\ Turn(user.snap, user.pos)
        /\ UNCHANGED <<packaged, inst, authority, begun, root>>
    BY <1>1 DEF JobTurns, Turns
  <2>2. user.snap[Receipt] \in begun
    BY <1>0, <2>1, SlotsAre DEF BegunKnown, Sn
  <2>3. Recorded' /\ Unmixed'
    BY <1>0, <2>1, <2>2, TurnKeeps
  <2>4. BegunKnown'
    BY <1>0, <2>1, <2>2 DEF BegunKnown, Sn
  <2> QED
    BY <2>3, <2>4 DEF FilesInv
<1>2. CASE \E r \in Roots : HelperTurns(r)
  <2>1. PICK r \in Roots : HelperTurns(r)
    BY <1>2
  <2>2. /\ root'[r].snap = root[r].snap /\ root[r].pos \in DOMAIN Order
        /\ Turn(root[r].snap, root[r].pos) /\ \A q \in Roots \ {r} : root'[q] = root[q]
        /\ UNCHANGED <<packaged, inst, authority, begun, user>>
    BY <2>1 DEF HelperTurns, Turns
  <2>3. root[r].snap[Receipt] \in begun
    BY <1>0, <2>2, SlotsAre DEF BegunKnown
  <2>4. Recorded' /\ Unmixed'
    BY <1>0, <2>2, <2>3, TurnKeeps
  <2>5. BegunKnown'
    BY <1>0, <2>2, <2>3 DEF BegunKnown, Sn
  <2> QED
    BY <2>4, <2>5 DEF FilesInv
<1> QED
  BY <1>1, <1>2

LEMMA EditFiles ==
    ASSUME HostType, FilesInv, Edit
    PROVE  FilesInv'
<1>0. disk \in Snaps /\ BegunKnown /\ Recorded /\ Unmixed
  BY DEF HostType, FilesInv
<1>1. UNCHANGED <<inst, authority, user, root, begun>>
  BY DEF Edit, installerVars, removalVars
<1>2. BegunKnown' /\ Recorded'
  BY <1>0, <1>1 DEF BegunKnown, Sn, Recorded, Accepted, SnapshotOf, Content
<1>3. CASE packaged' = TRUE
  BY <1>2, <1>3 DEF FilesInv, Unmixed
<1>4. CASE UNCHANGED packaged /\ \E s \in Payload : disk' = [disk EXCEPT ![s] = Alien]
  <2>1. PICK s \in Payload : disk' = [disk EXCEPT ![s] = Alien]
    BY <1>4
  <2>2. s \in Slots /\ s # Receipt /\ Receipt \in Slots /\ Payload \subseteq Slots
    BY SlotsAre DEF Payload
  <2>3. /\ disk'[Receipt] = disk[Receipt] /\ disk'[s] = Alien
        /\ \A q \in Payload \ {s} : disk'[q] = disk[q]
    BY <1>0, <2>1, <2>2 DEF Snaps
  <2>4. Unmixed'
    BY <1>0, <1>1, <1>4, <2>3 DEF Unmixed
  <2> QED
    BY <1>2, <2>4 DEF FilesInv
<1> QED
  BY <1>3, <1>4 DEF Edit

LEMMA InstallFiles ==
    ASSUME HostType, FilesInv, Install
    PROVE  FilesInv'
<1>1. UNCHANGED <<user, root, begun>> /\ (InstStart \/ InstallerStep)
  BY DEF Install, removalVars
<1>2. disk \in Snaps /\ BegunKnown /\ Recorded /\ Unmixed
  BY DEF HostType, FilesInv
<1>3. Recorded' /\ Unmixed'
  BY <1>1, <1>2, InstallerRecords
<1>4. BegunKnown'
  BY <1>1, <1>2 DEF BegunKnown, Sn
<1> QED
  BY <1>3, <1>4 DEF FilesInv

\* What the steps of the host are to the files.
LEMMA StepIs ==
    ASSUME LeaseInv, [Next]_vars
    PROVE  \/ Quiet \/ JobTurns \/ (\E r \in Roots : HelperTurns(r)) \/ Install \/ Edit
  BY RemoveGoes, RootGoes, OwnGoes DEF Next

LEMMA HostInvariant == Spec => []IInv
<1>1. Init => IInv
  <2> SUFFICES ASSUME Init
               PROVE  IInv
    OBVIOUS
  <2>1. LeaseInv
    BY LeasesBegin
  <2>2. PICK p \in Plans :
           /\ disk = p.disk /\ InstInit /\ user = NoUser /\ root = [r \in Roots |-> NoRoot]
    BY DEF Init
  <2>3. disk \in [Slots -> {Absent, 1, Alien}]
    BY <2>2, PlansAssumption
  <2>4. BegunKnown
    BY <2>2 DEF BegunKnown, NoUser, NoRoot
  <2>5. Recorded
    BY <2>2 DEF Recorded, InstInit, Snaps, Installers
  <2>6. disk[Receipt] # 2
    BY <2>3, SlotsAre DEF Absent, Alien
  <2> QED
    BY <2>1, <2>4, <2>5, <2>6 DEF IInv, FilesInv, Unmixed
<1>2. IInv /\ [Next]_vars => IInv'
  <2> SUFFICES ASSUME IInv, [Next]_vars
               PROVE  IInv'
    OBVIOUS
  <2>1. LeaseInv /\ FilesInv /\ HostType
    BY DEF IInv, LeaseInv
  <2>2. LeaseInv'
    BY <2>1, LeaseStep
  <2>3. FilesInv'
    BY <2>1, StepIs, QuietFiles, TurnFiles, InstallFiles, EditFiles
  <2> QED
    BY <2>2, <2>3 DEF IInv
<1> QED
  BY <1>1, <1>2, PTL DEF Spec

\* Whatever fails, dies or runs beside it: when an upgrade has ended no file of
\* the version before is under its receipt, and a removal that was accepted for
\* the version before has taken nothing of the new one.
THEOREM UpgradesAreWhole == Spec => []NoMixedInstall
<1>1. IInv => NoMixedInstall
  BY DEF IInv, FilesInv, Unmixed, NoMixedInstall
<1> QED
  BY <1>1, HostInvariant, PTL

-----------------------------------------------------------------------------
(* Every file is explained                                                   *)

\* A prefix in which files of OpenWave have a receipt when it is first looked at.
Receipted == \A p \in Plans : p.disk[Receipt] = Absent => \A s \in Payload : p.disk[s] \notin Versions

LEMMA PlacesAre ==
    /\ \A i \in DOMAIN Order : Visited(i) = Receipt => i = Len(Order)
    /\ \A s \in Payload : \E i \in DOMAIN Order : i < Len(Order) /\ s = Order[i]
<1>1. /\ DOMAIN Order = 1 .. Len(Order) /\ Len(Order) \in Nat
      /\ Len(Order) \in DOMAIN Order
  BY SlotsAre, OrderAssumption
<1>2. \A i \in DOMAIN Order : Visited(i) = Receipt => i = Len(Order)
  BY <1>1, OrderAssumption DEF Visited, Receipt
<1>3. ASSUME NEW s \in Payload
      PROVE  \E i \in DOMAIN Order : i < Len(Order) /\ s = Order[i]
  <2>1. PICK i \in DOMAIN Order : s = Order[i]
    BY DEF Payload, Slots
  <2>2. i # Len(Order)
    BY <2>1 DEF Payload, Receipt
  <2> QED
    BY <1>1, <2>1, <2>2
<1> QED
  BY <1>2, <1>3

\* Fewer files of ours, and the same receipt or none: what was swept stays swept.
LEMMA StaysBehind ==
    ASSUME NEW sn, NEW p, Behind(disk, sn, p), disk'[Receipt] \in {disk[Receipt], Absent},
           \A s \in Slots : disk'[s] \in Versions => disk[s] \in Versions
    PROVE  Behind(disk', sn, p)
<1> SUFFICES ASSUME p > 0, sn[Receipt] # Absent, disk'[Receipt] = sn[Receipt],
                    NEW i \in DOMAIN Order, i < p
             PROVE  disk'[Order[i]] \notin Versions
  BY DEF Behind
<1>1. disk[Receipt] = sn[Receipt]
  OBVIOUS
<1>2. disk[Order[i]] \notin Versions
  BY <1>1 DEF Behind
<1>3. Order[i] \in Slots
  BY DEF Slots
<1> QED
  BY <1>2, <1>3

LEMMA TurnSweeps ==
    ASSUME disk \in Snaps, NEW sn \in Inventories, NEW p \in DOMAIN Order, Turn(sn, p),
           Behind(disk, sn, p)
    PROVE  /\ \A s \in Slots : disk'[s] \in {disk[s], Absent}
           /\ Behind(disk', sn, p + 1)
           /\ disk[Receipt] # Absent /\ disk'[Receipt] = Absent => \A s \in Payload : disk'[s] \notin Versions
<1> DEFINE u == Visited(p)
<1>1. u \in Slots /\ Receipt \in Slots /\ Payload \subseteq Slots /\ p \in Nat /\ p > 0
      /\ Len(Order) \in Nat /\ DOMAIN Order = 1 .. Len(Order)
  BY SlotsAre
<1>2. \/ PassedOver(sn, p) /\ disk' = disk
      \/ ~PassedOver(sn, p) /\ MayUnlink(sn, p) /\ disk' = [disk EXCEPT ![u] = Absent]
  BY DEF Turn, Unlink
<1> HIDE DEF u
<1>3. \A s \in Slots : disk'[s] \in {disk[s], Absent}
  BY <1>1, <1>2 DEF Snaps
<1>4. Behind(disk', sn, p + 1)
  <2> SUFFICES ASSUME sn[Receipt] # Absent, disk'[Receipt] = sn[Receipt],
                      NEW i \in DOMAIN Order, i < p + 1
               PROVE  disk'[Order[i]] \notin Versions
    BY DEF Behind
  <2>1. Behind(disk', sn, p)
    BY <1>1, <1>3, StaysBehind DEF Versions, Absent
  <2>2. CASE i < p
    BY <1>1, <2>1, <2>2 DEF Behind
  <2>3. CASE i = p
    <3>1. disk'[u] = Absent
      <4>1. CASE PassedOver(sn, p)
        <5>1. sn[u] # Absent
          BY <1>1 DEF Inventories
        <5> QED
          BY <1>1, <1>2, <4>1, <5>1 DEF PassedOver, Listed, u
      <4>2. CASE ~PassedOver(sn, p)
        BY <1>1, <1>2, <4>2 DEF Snaps
      <4> QED
        BY <4>1, <4>2
    <3> QED
      BY <2>3, <3>1 DEF u, Visited, Versions, Absent
  <2> QED
    BY <1>1, <2>2, <2>3
<1>5. ASSUME disk[Receipt] # Absent, disk'[Receipt] = Absent, NEW s \in Payload
      PROVE  disk'[s] \notin Versions
  <2>1. ~PassedOver(sn, p) /\ MayUnlink(sn, p) /\ u = Receipt
    BY <1>1, <1>2, <1>5 DEF Snaps
  <2>2. p = Len(Order)
    BY <2>1, PlacesAre DEF u
  <2>3. sn[Receipt] # Absent /\ disk[Receipt] = sn[Receipt]
    BY <1>5, <2>1 DEF MayUnlink, u
  <2>4. PICK i \in DOMAIN Order : i < Len(Order) /\ s = Order[i]
    BY PlacesAre
  <2>5. disk[s] \notin Versions
    BY <1>1, <2>2, <2>3, <2>4 DEF Behind
  <2> QED
    BY <1>1, <1>3, <2>5 DEF Versions, Absent
<1> QED
  BY <1>3, <1>4, <1>5

\* A step that lets no file of ours appear.
LEMMA SweptOver ==
    ASSUME SweepInv, Quiet, beside => beside'
    PROVE  SweepInv'
<1>1. Calm' => Calm /\ disk' = disk
  BY DEF Calm, Quiet, Untouched
<1>2. ASSUME Calm'
      PROVE  Behind(disk', user'.snap, user'.pos)
  BY <1>1, <1>2, SlotsAre DEF SweepInv, SweptBehind, Behind, Quiet, JobGoes, Goes
<1>3. ASSUME Calm', NEW r \in Roots
      PROVE  Behind(disk', root'[r].snap, root'[r].pos)
  <2>1. Goes(root'[r].snap, root'[r].pos, root[r].snap, root[r].pos)
    BY DEF Quiet, HelpersGo
  <2>2. Behind(disk, root[r].snap, root[r].pos)
    BY <1>1, <1>3 DEF SweepInv, SweptBehind
  <2> QED
    BY <1>1, <1>3, <2>1, <2>2, SlotsAre DEF Behind, Goes
<1> QED
  BY <1>1, <1>2, <1>3 DEF SweepInv, SweptBehind, ReceiptGoesLast

LEMMA SweptByTurns ==
    ASSUME HostType, SweepInv, beside => beside', JobTurns \/ \E r \in Roots : HelperTurns(r)
    PROVE  SweepInv'
<1>0. disk \in Snaps /\ user \in Users /\ root \in [Roots -> Helpers]
  BY DEF HostType
<1>1. Calm' => Calm
  BY DEF Calm, JobTurns, HelperTurns
<1> SUFFICES ASSUME Calm'
             PROVE  SweepInv'
  BY DEF SweepInv, SweptBehind, ReceiptGoesLast
<1>2. /\ Behind(disk, user.snap, user.pos) /\ \A r \in Roots : Behind(disk, root[r].snap, root[r].pos)
      /\ disk[Receipt] = Absent => \A s \in Payload : disk[s] \notin Versions
  BY <1>1 DEF SweepInv, SweptBehind, ReceiptGoesLast
<1>3. ASSUME NEW sn \in Inventories, NEW p \in DOMAIN Order, Turn(sn, p), Behind(disk, sn, p)
      PROVE  /\ Behind(disk', sn, p + 1)
             /\ Behind(disk', user.snap, user.pos)
             /\ \A q \in Roots : Behind(disk', root[q].snap, root[q].pos)
             /\ ReceiptGoesLast'
  <2>1. /\ \A s \in Slots : disk'[s] \in {disk[s], Absent}
        /\ Behind(disk', sn, p + 1)
        /\ disk[Receipt] # Absent /\ disk'[Receipt] = Absent => \A s \in Payload : disk'[s] \notin Versions
    BY <1>0, <1>3, TurnSweeps
  <2>2. /\ disk'[Receipt] \in {disk[Receipt], Absent}
        /\ \A s \in Slots : disk'[s] \in Versions => disk[s] \in Versions
    BY <2>1, SlotsAre DEF Versions, Absent
  <2>3. /\ Behind(disk', user.snap, user.pos)
        /\ \A q \in Roots : Behind(disk', root[q].snap, root[q].pos)
    BY <1>2, <2>2, StaysBehind
  <2>4. ReceiptGoesLast'
    BY <1>2, <2>1, <2>2, SlotsAre DEF ReceiptGoesLast
  <2> QED
    BY <2>1, <2>3, <2>4
<1>4. CASE JobTurns
  <2>1. /\ user'.snap = user.snap /\ user'.pos = user.pos + 1 /\ root' = root
        /\ user.pos \in DOMAIN Order /\ Turn(user.snap, user.pos)
    BY <1>4 DEF JobTurns, Turns
  <2>2. user.snap \in Inventories
    BY <1>0 DEF Users
  <2>3. /\ Behind(disk', user'.snap, user'.pos) /\ ReceiptGoesLast'
        /\ \A q \in Roots : Behind(disk', root[q].snap, root[q].pos)
    BY <1>2, <1>3, <2>1, <2>2
  <2> QED
    BY <2>1, <2>3 DEF SweepInv, SweptBehind
<1>5. CASE \E r \in Roots : HelperTurns(r)
  <2>1. PICK r \in Roots : HelperTurns(r)
    BY <1>5
  <2>2. /\ root'[r].snap = root[r].snap /\ root'[r].pos = root[r].pos + 1 /\ user' = user
        /\ root[r].pos \in DOMAIN Order /\ Turn(root[r].snap, root[r].pos)
        /\ \A q \in Roots \ {r} : root'[q] = root[q]
    BY <2>1 DEF HelperTurns, Turns
  <2>3. root[r].snap \in Inventories
    BY <1>0 DEF Helpers
  <2>4. /\ Behind(disk', root'[r].snap, root'[r].pos) /\ ReceiptGoesLast'
        /\ Behind(disk', user.snap, user.pos)
        /\ \A q \in Roots : Behind(disk', root[q].snap, root[q].pos)
    BY <1>2, <1>3, <2>2, <2>3
  <2>5. \A q \in Roots : Behind(disk', root'[q].snap, root'[q].pos)
    BY <2>2, <2>4
  <2> QED
    BY <2>2, <2>4, <2>5 DEF SweepInv, SweptBehind
<1> QED
  BY <1>4, <1>5

\* The record is dropped under the receipt it was for; a removal for that
\* receipt, if there is one, was beside the installer.
LEMMA SweptByInstaller ==
    ASSUME IInv, SweepInv, Install, Watch
    PROVE  SweepInv'
<1>1. UNCHANGED <<user, root, begun>> /\ (InstStart \/ InstallerStep)
  BY DEF Install, removalVars
<1>2. disk \in Snaps /\ Recorded /\ Unmixed
  BY DEF IInv, LeaseInv, HostType, FilesInv
<1>3. authority' = NoRecord => UNCHANGED <<disk, authority>> \/ Finish
  BY <1>1, <1>2, InstallerRecords
<1>4. beside => beside'
  BY DEF Watch
<1> SUFFICES ASSUME Calm'
             PROVE  SweepInv'
  BY DEF SweepInv, SweptBehind, ReceiptGoesLast
<1>5. CASE UNCHANGED <<disk, authority>>
  <2>1. Calm
    BY <1>4, <1>5 DEF Calm
  <2> QED
    BY <1>1, <1>5, <2>1 DEF SweepInv, SweptBehind, ReceiptGoesLast, Behind
<1>6. CASE Finish
  <2>1. disk' = disk /\ inst.at = "finish" /\ disk[Receipt] = inst.expected[Receipt]
    BY <1>6 DEF Finish, At, AsExpected
  <2>2. disk[Receipt] = 2
    BY <1>2, <2>1, SlotsAre, SameAssumption DEF Recorded, Accepted, SnapshotOf, Content
  <2>3. ~Removing(2)
    BY <2>1 DEF Watch, At, Calm
  <2>4. Behind(disk', user'.snap, user'.pos)
    BY <1>1, <2>1, <2>2, <2>3 DEF Removing, Sn, Behind
  <2>5. ASSUME NEW r \in Roots
        PROVE  Behind(disk', root'[r].snap, root'[r].pos)
    BY <1>1, <2>1, <2>2, <2>3 DEF Removing, Behind
  <2>6. ReceiptGoesLast'
    BY <2>1, <2>2 DEF ReceiptGoesLast, Absent
  <2> QED
    BY <2>4, <2>5, <2>6 DEF SweepInv, SweptBehind
<1> QED
  BY <1>3, <1>5, <1>6 DEF Calm

\* What somebody puts in the place of a file is none of ours.
LEMMA SweptUnderEdits ==
    ASSUME HostType, SweepInv, beside => beside', Edit
    PROVE  SweepInv'
<1>1. UNCHANGED <<authority, user, root>>
  BY DEF Edit, installerVars, removalVars
<1>2. disk'[Receipt] = disk[Receipt] /\ \A s \in Slots : disk'[s] \in Versions => disk[s] \in Versions
  <2>1. CASE UNCHANGED disk
    BY <2>1
  <2>2. CASE \E s \in Payload : disk' = [disk EXCEPT ![s] = Alien]
    BY <2>2, SlotsAre DEF HostType, Snaps, Payload, Versions, Alien
  <2> QED
    BY <2>1, <2>2 DEF Edit
<1> SUFFICES ASSUME Calm'
             PROVE  SweepInv'
  BY DEF SweepInv, SweptBehind, ReceiptGoesLast
<1>3. Calm
  BY <1>1 DEF Calm
<1>4. Behind(disk', user'.snap, user'.pos)
  BY <1>1, <1>2, <1>3, StaysBehind DEF SweepInv, SweptBehind
<1>5. ASSUME NEW r \in Roots
      PROVE  Behind(disk', root'[r].snap, root'[r].pos)
  BY <1>1, <1>2, <1>3, StaysBehind DEF SweepInv, SweptBehind
<1>6. ReceiptGoesLast'
  BY <1>2, <1>3, SlotsAre DEF SweepInv, ReceiptGoesLast
<1> QED
  BY <1>4, <1>5, <1>6 DEF SweepInv, SweptBehind

LEMMA SweepStep ==
    ASSUME IInv, SweepInv, [Next]_vars
    PROVE  SweepInv'
<1>1. LeaseInv /\ HostType
  BY DEF IInv, LeaseInv
<1>2. beside => beside'
  BY DEF Next, Watch, vars
<1>3. CASE UNCHANGED vars
  BY <1>2, <1>3, OwnGoes, SweptOver
<1>4. CASE Next /\ Install
  BY <1>4, SweptByInstaller DEF Next
<1>5. CASE Next /\ ~Install
  BY <1>1, <1>2, <1>5, StepIs, SweptOver, SweptByTurns, SweptUnderEdits
<1> QED
  BY <1>3, <1>4, <1>5

\* The receipt is published last and removed last: whatever fails or dies, the
\* files of an installation that has a receipt are in an inventory that somebody
\* can finish, unless an installer ran while files of its version were removed.
THEOREM FilesAreExplained ==
    ASSUME Receipted
    PROVE  Spec => []Explained
<1>1. Init => SweepInv
  <2> SUFFICES ASSUME Init
               PROVE  SweepInv
    OBVIOUS
  <2>1. PICK p \in Plans : disk = p.disk /\ user = NoUser /\ root = [r \in Roots |-> NoRoot]
    BY DEF Init
  <2>2. SweptBehind
    BY <2>1 DEF SweptBehind, Behind, NoUser, NoRoot
  <2>3. ReceiptGoesLast
    BY <2>1 DEF ReceiptGoesLast, Receipted
  <2> QED
    BY <2>2, <2>3 DEF SweepInv
<1>2. IInv /\ SweepInv /\ [Next]_vars => SweepInv'
  BY SweepStep
<1>3. SweepInv => Explained
  BY DEF SweepInv, ReceiptGoesLast, Calm, Explained
<1> QED
  BY <1>1, <1>2, <1>3, HostInvariant, PTL DEF Spec
=============================================================================
