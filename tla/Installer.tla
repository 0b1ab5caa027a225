----------------------------- MODULE Installer -----------------------------
(* install-payload: the root helper that publishes a staged payload, version *)
(* 2, into the prefix (installation/install.rs).  One process at a time, by  *)
(* the lock on its bootstrap directory; it may die at any step, and a later  *)
(* run continues on the record of the first.                                *)
EXTENDS Inventory

VARIABLES
    inst,       \* phase of the helper, and what it last saw in each slot
    authority   \* the durable record: the originals of every slot, or NoRecord

NoRecord == [s \in {} |-> Absent]
Accepted == SnapshotOf(2)
installerVars == <<inst, authority>>

InstInit == /\ inst = [at |-> "idle", expected |-> [s \in Slots |-> Absent]]
            /\ authority = NoRecord

At(phase) == inst.at = phase
Go(phase) == inst' = [inst EXCEPT !.at = phase]

\* prepare: the retained record is taken up, or the target must pass the
\* preflight of an ordinary installation.
InstStart ==
    /\ At("idle") /\ ~PackageOwner
    /\ \/ authority # NoRecord /\ Go("expect")
       \/ authority = NoRecord /\ CheckInstallTarget /\ Go("record")
    /\ UNCHANGED <<disk, packaged, authority>>

\* The slots as they are now become the originals, unless one of them is not
\* what the old receipt records.
RecordAuthority ==
    /\ At("record")
    /\ disk[Receipt] \in {Absent} \cup Versions
    /\ \A s \in Payload : disk[s] # Absent =>
          disk[Receipt] # Absent /\ disk[s] = Content(disk[Receipt], s)
    /\ authority' = disk
    /\ Go("expect")
    /\ UNCHANGED <<disk, packaged>>

\* Every slot is as it was at first or as it will be at last.
Expect ==
    /\ At("expect")
    /\ \A s \in Slots : disk[s] \in {authority[s], Accepted[s]}
    /\ inst' = [at |-> "publish", expected |-> disk]
    /\ UNCHANGED <<disk, packaged, authority>>

AsExpected(s) == disk[s] = inst.expected[s]
Publish(s) == /\ AsExpected(s)
              /\ disk' = [disk EXCEPT ![s] = Accepted[s]]

\* publish_source, in order, for the slots that do not have their content yet.
Unpublished == {i \in DOMAIN Order \ {Len(Order)} : inst.expected[Order[i]] # Accepted[Order[i]]}
PublishSource ==
    /\ At("publish") /\ Unpublished # {}
    /\ AsExpected(Receipt)
    /\ LET s == Order[CHOOSE i \in Unpublished : \A j \in Unpublished : i <= j]
       IN  Publish(s) /\ inst' = [inst EXCEPT !.expected[s] = Accepted[s]]
    /\ UNCHANGED <<packaged, authority>>
SourcesPublished ==
    /\ At("publish") /\ Unpublished = {}
    /\ Go("verify")
    /\ UNCHANGED <<disk, packaged, authority>>

\* verify_payload: before the receipt, and again after it.
Verified == \A s \in Payload : disk[s] = Accepted[s]
AfterReceipt_Trusts == TRUE
AfterReceipt == Verified
VerifyPayload ==
    \/ At("verify") /\ Verified /\ Go("receipt") /\ UNCHANGED <<disk, packaged, authority>>
    \/ At("reverify") /\ AfterReceipt /\ Go("finish") /\ UNCHANGED <<disk, packaged, authority>>

PublishReceipt ==
    /\ At("receipt")
    /\ Publish(Receipt)
    /\ inst' = [at |-> "reverify", expected |-> [inst.expected EXCEPT ![Receipt] = Accepted[Receipt]]]
    /\ UNCHANGED <<packaged, authority>>

\* finish: the record is dropped when the receipt is the one published.
Finish ==
    /\ At("finish") /\ AsExpected(Receipt)
    /\ authority' = NoRecord
    /\ inst' = [inst EXCEPT !.at = "idle"]
    /\ UNCHANGED <<disk, packaged>>

\* An error return, or the death of the helper: what was published stays.
InstAbort ==
    /\ ~At("idle")
    /\ Go("idle")
    /\ UNCHANGED <<disk, packaged, authority>>

InstallerStep == RecordAuthority \/ Expect \/ PublishSource \/ SourcesPublished
                 \/ VerifyPayload \/ PublishReceipt \/ Finish \/ InstAbort
=============================================================================
