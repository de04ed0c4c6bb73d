---------------------------- MODULE RepositoryParts ----------------------------
(* What runs on one repository: the handoff cycles of HandoffCycle, or one   *)
(* rendering of the handoff document, or the binding of a preregistration.   *)
(* A behaviour is of one part throughout; the variables of the others rest.  *)
EXTENDS HandoffCycle

CONSTANTS
    SnapshotChanges, BindingChanges    \* bounds on what others do beside the two

VARIABLES
    part,
    snapCommits, snapHead, disk, snapChanges, writer,
    bindCommits, bindHead, working, loaded, bindChanges, past, regained,
    reader

snapshotVars == <<snapCommits, snapHead, disk, snapChanges, writer>>
bindingVars == <<bindCommits, bindHead, working, loaded, bindChanges, past, regained, reader>>

Snapshot == INSTANCE HandoffSnapshot WITH
                MaxChanges <- SnapshotChanges, commits <- snapCommits, head <- snapHead,
                changes <- snapChanges
Binding == INSTANCE PreregistrationBinding WITH
                MaxChanges <- BindingChanges, commits <- bindCommits, head <- bindHead,
                changes <- bindChanges

(* The bounds on what others do beside the two.                              *)
ASSUME RepositoryAssumption == SnapshotChanges \in Nat /\ BindingChanges \in Nat

SnapshotRests ==
  /\ snapCommits = "rests" /\ snapHead = "rests" /\ disk = "rests"
  /\ snapChanges = "rests" /\ writer = "rests"

BindingRests ==
  /\ bindCommits = "rests" /\ bindHead = "rests" /\ working = "rests"
  /\ loaded = "rests" /\ bindChanges = "rests" /\ past = "rests"
  /\ regained = "rests" /\ reader = "rests"

PartsInit ==
  /\ Init
  /\ \/ part = "cycle" /\ SnapshotRests /\ BindingRests
     \/ part = "snapshot" /\ Snapshot!Init /\ BindingRests
     \/ part = "binding" /\ Binding!Init /\ SnapshotRests

partsVars == <<part, vars, snapshotVars, bindingVars>>

CycleStep ==
  part = "cycle" /\ Next
    /\ UNCHANGED <<part, snapshotVars, bindingVars>>

SnapshotStep ==
  part = "snapshot" /\ Snapshot!Next
    /\ UNCHANGED <<part, vars, bindingVars>>

BindingStep ==
  part = "binding" /\ Binding!Next
    /\ UNCHANGED <<part, vars, snapshotVars>>

(* Every part but the cycles ends; the cycles alone must never be stuck. *)
Ended == part # "cycle" /\ UNCHANGED partsVars

PartsNext ==
  \/ CycleStep
  \/ SnapshotStep
  \/ BindingStep
  \/ Ended

PartsSpec == PartsInit /\ [][PartsNext]_partsVars

(* HandoffSnapshot: a rendered document is what sources that were in place   *)
(* together give, and a check that passes found such a one (handoff.py).     *)
DocumentIsCurrent == part = "snapshot" => Snapshot!DocumentIsCurrent

(* PreregistrationBinding: an accepted contract is committed, frozen before  *)
(* its controls ran, and names the code that runs (acquisition.py).          *)
BindingIsWhole == part = "binding" => Binding!BindingIsWhole
================================================================================
