----------------------------- MODULE Inventory -----------------------------
(* The recorded files of one installation prefix, and what may be done to   *)
(* them on the strength of an accepted inventory (installation.rs and       *)
(* installation/inventory.rs).  A file is known by its digest: Absent, a    *)
(* content nobody recorded, or the content one version of OpenWave gives    *)
(* the slot.  A snapshot maps every slot to the content it was accepted     *)
(* with, Absent for a slot the snapshot does not list.                      *)
EXTENDS Naturals, Sequences, FiniteSets

CONSTANTS
    Order,      \* slots in the order they are removed, the receipt last
    Same        \* slots whose content the two versions share

ASSUME OrderAssumption ==
    /\ Order \in Seq({Order[i] : i \in DOMAIN Order}) /\ Len(Order) > 2
    /\ \A i, j \in DOMAIN Order : Order[i] = Order[j] => i = j

Absent   == 0
Versions == {1, 2}          \* what is installed at first, and its upgrade
Alien    == 3

Slots   == {Order[i] : i \in DOMAIN Order}
Receipt == Order[Len(Order)]
Payload == Slots \ {Receipt}
\* A receipt lists the digests of the files: that of another version differs.
ASSUME SameAssumption == Receipt \notin Same
Launcher == Order[1]             \* bin/openwave
Helper   == Order[2]             \* libexec/openwave-maintenance
Asset    == Order[Len(Order) - 1] \* share/openwave, the drop-ins it compares with

VARIABLES
    disk,       \* slot -> content
    packaged    \* a package manager claims the files

Content(v, s) == IF s \in Same THEN 1 ELSE v

\* The snapshot a receipt of version v decodes to: the fixed payload with the
\* digests it records, and the receipt itself.
SnapshotOf(v) == [s \in Slots |-> Content(v, s)]

\* Installations older than receipts list the files that are there.
LegacySnapshot == [disk EXCEPT ![Receipt] = Absent]

Listed(sn)  == {s \in Slots : sn[s] # Absent}
Legacy(sn)  == sn[Receipt] = Absent
AppGone(sn) == \A s \in Listed(sn) : disk[s] = Absent

\* An unrecorded, replaced or newer receipt withdraws the authority of sn.
ReceiptUnchanged(sn) == disk[Receipt] \in {Absent, sn[Receipt]}

\* What is still there is what was recorded.
ExistingHashes(sn) == \A s \in Listed(sn) : disk[s] \in {Absent, sn[s]}

PackageOwner == packaged

Valid(sn) == ~PackageOwner /\ ReceiptUnchanged(sn) /\ ExistingHashes(sn)

\* The launcher and the other files of the old layout are all witnesses.
LegacyInstalled == /\ disk[Receipt] = Absent
                   /\ disk[Launcher] = 1
                   /\ \A s \in Payload : disk[s] # Absent

\* The inventories an inspection of the prefix accepts: one or none.
InspectPrefix ==
    {sn \in {SnapshotOf(v) : v \in Versions} :
        disk[Receipt] # Absent /\ disk[Receipt] = sn[Receipt] /\ Valid(sn)}
    \cup {sn \in {LegacySnapshot} : LegacyInstalled /\ ~PackageOwner}

\* Nothing but a complete native installation, or nothing at all, may be
\* installed over.
CheckInstallTarget ==
    /\ ~PackageOwner
    /\ IF disk[Receipt] # Absent
       THEN InspectPrefix # {}
       ELSE \A s \in Payload : disk[s] = Absent

\* The order in which remove_inventory visits the slots.
Visited_ReceiptFirst(i) == Order[Len(Order) + 1 - i]
Visited(i) == Order[i]

\* One turn of its loop, over the slot at i: a file that is not there is passed
\* over; another is compared with what was accepted, then the receipt is, and
\* only then is it unlinked.
PassedOver(sn, i) == Visited(i) \notin Listed(sn) \/ disk[Visited(i)] = Absent
MayUnlink(sn, i)  == disk[Visited(i)] = sn[Visited(i)] /\ ReceiptUnchanged(sn)
Unlink(i) == disk' = [disk EXCEPT ![Visited(i)] = Absent]
Turn(sn, i) == \/ PassedOver(sn, i) /\ UNCHANGED disk
               \/ ~PassedOver(sn, i) /\ MayUnlink(sn, i) /\ Unlink(i)
TurnFits(sn, i) == PassedOver(sn, i) \/ MayUnlink(sn, i)
=============================================================================
