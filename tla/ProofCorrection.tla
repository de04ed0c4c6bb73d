--------------------------- MODULE ProofCorrection ---------------------------
(***************************************************************************)
(* The one authorized correction of a proof verification, and the key it   *)
(* is signed with (verification.py, verify_iter000_proof_bundle_correction *)
(* _001; receipts.py, load_or_create_signing_key and write_signer_anchor). *)
(* An initializer makes a key and its anchor, the owner commits the anchor *)
(* with the authority, and correctors compete to consume the authority by  *)
(* creating the receipt exclusively.  There is no lock, and any process    *)
(* may be killed between two steps.                                        *)
(***************************************************************************)
EXTENDS Integers, FiniteSets

CONSTANTS
    Initializers,    \* processes that run initialize_iter000_verification_signer
    Correctors,      \* processes that run the corrected verification
    MaxEdits,        \* bound on the edits of the trust inputs
    MaxKeys          \* bound on the keys that are generated

Absent == 0
Short == -1          \* a key file that was created and not filled

VARIABLES
    key,             \* the private key file: Absent, Short or a key
    anchor,          \* the public key in the anchor file, or Absent
    selected,        \* the public key committed with the authority, or Absent
    inputs,          \* are amendments, authority and proof as they were frozen
    edits, keys,     \* edits so far, keys generated so far
    receipt,         \* the receipt file
    at,              \* what each process does next
    held,            \* the key each process has in memory
    verified         \* the correctors that verified the proof

vars == <<key, anchor, selected, inputs, edits, keys, receipt, at, held, verified>>

NoReceipt == [kind |-> "absent"]
Consumption(p) == [kind |-> "consumption", by |-> p, signer |-> held[p]]
Final(p) == [kind |-> "final", by |-> p, signer |-> held[p]]

Processes == Initializers \cup Correctors
Go(p, next) == at' = [at EXCEPT ![p] = next]
Fail(p) == Go(p, "failed")

(***************************************************************************)
(* The key: whoever creates the file generates the key.                    *)
(***************************************************************************)

CreateKey(p) ==
    /\ at[p] = "key" /\ key = Absent /\ keys < MaxKeys
    /\ key' = Short
    /\ Go(p, "fill")
    /\ UNCHANGED <<anchor, selected, inputs, edits, keys, receipt, held, verified>>

FillKey(p) ==
    /\ at[p] = "fill"
    /\ keys' = keys + 1
    /\ key' = keys'
    /\ held' = [held EXCEPT ![p] = keys']
    /\ Go(p, "anchor")
    /\ UNCHANGED <<anchor, selected, inputs, edits, receipt, verified>>

ReadKey(p) ==
    /\ at[p] = "key" /\ key # Absent
    /\ IF key = Short THEN Fail(p) /\ UNCHANGED held
       ELSE held' = [held EXCEPT ![p] = key] /\ Go(p, "anchor")
    /\ UNCHANGED <<key, anchor, selected, inputs, edits, keys, receipt, verified>>

(* An existing anchor must be that of the key. *)
CheckAnchor(p) ==
    /\ p \in Initializers /\ at[p] = "anchor"
    /\ IF anchor = Absent THEN Go(p, "write")
       ELSE Go(p, IF anchor = held[p] THEN "done" ELSE "failed")
    /\ UNCHANGED <<key, anchor, selected, inputs, edits, keys, receipt, held, verified>>

WriteAnchor(p) ==
    /\ at[p] = "write"
    /\ anchor' = held[p]
    /\ Go(p, "done")
    /\ UNCHANGED <<key, selected, inputs, edits, keys, receipt, held, verified>>

(***************************************************************************)
(* The owner, and what may happen to the working tree.                     *)
(***************************************************************************)

Select ==
    /\ selected = Absent /\ anchor # Absent
    /\ selected' = anchor
    /\ UNCHANGED <<key, anchor, inputs, edits, keys, receipt, at, held, verified>>

Edit ==
    /\ edits < MaxEdits
    /\ inputs' = ~inputs /\ edits' = edits + 1
    /\ UNCHANGED <<key, anchor, selected, keys, receipt, at, held, verified>>

(* Also the way out when a crash left a key file short. *)
LoseKey ==
    /\ key # Absent /\ \A p \in Processes : at[p] # "fill"
    /\ key' = Absent
    /\ UNCHANGED <<anchor, selected, inputs, edits, keys, receipt, at, held, verified>>

(***************************************************************************)
(* The correction.                                                         *)
(***************************************************************************)

Trusted == inputs /\ selected # Absent /\ anchor = selected

(* The authority is read with the anchor, and the receipt must not exist.  *)
CheckAuthority(p) ==
    /\ at[p] = "start" /\ p \in Correctors
    /\ IF Trusted /\ receipt.kind = "absent" THEN Go(p, "key") ELSE Fail(p)
    /\ UNCHANGED <<key, anchor, selected, inputs, edits, keys, receipt, held, verified>>

(* Mutant for FinalIsBacked: whatever key there is signs. *)
CheckSignerAny(p) ==
    /\ p \in Correctors /\ at[p] = "anchor"
    /\ Go(p, "consume")
    /\ UNCHANGED <<key, anchor, selected, inputs, edits, keys, receipt, held, verified>>

(* The local key must be the committed one: a key that had to be created   *)
(* just now is not, and stays.                                             *)
CheckSigner(p) ==
    /\ p \in Correctors /\ at[p] = "anchor"
    /\ Go(p, IF held[p] = selected THEN "consume" ELSE "failed")
    /\ UNCHANGED <<key, anchor, selected, inputs, edits, keys, receipt, held, verified>>

(* Mutant for CorrectionIsOneShot: the receipt is opened, not created. *)
ConsumeAgain(p) ==
    /\ at[p] = "consume"
    /\ receipt' = [kind |-> "empty"] /\ Go(p, "record")
    /\ UNCHANGED <<key, anchor, selected, inputs, edits, keys, held, verified>>

Consume(p) ==
    /\ at[p] = "consume"
    /\ IF receipt.kind = "absent"
       THEN receipt' = [kind |-> "empty"] /\ Go(p, "record")
       ELSE Fail(p) /\ UNCHANGED receipt
    /\ UNCHANGED <<key, anchor, selected, inputs, edits, keys, held, verified>>

Record(p) ==
    /\ at[p] = "record"
    /\ receipt' = Consumption(p)
    /\ Go(p, "verify")
    /\ UNCHANGED <<key, anchor, selected, inputs, edits, keys, held, verified>>

(* The bundle is read again from the working tree; a changed one does not  *)
(* verify.                                                                 *)
Verify(p) ==
    /\ at[p] = "verify"
    /\ IF inputs THEN verified' = verified \cup {p} /\ Go(p, "recheck")
                 ELSE Fail(p) /\ UNCHANGED verified
    /\ UNCHANGED <<key, anchor, selected, inputs, edits, keys, receipt, held>>

Unchanged(p) == Trusted /\ receipt = Consumption(p)

Recheck(p) ==
    /\ at[p] = "recheck"
    /\ Go(p, IF Unchanged(p) THEN "publish" ELSE "failed")
    /\ UNCHANGED <<key, anchor, selected, inputs, edits, keys, receipt, held, verified>>

Publish(p) ==
    /\ at[p] = "publish"
    /\ receipt' = Final(p)
    /\ Go(p, "done")
    /\ UNCHANGED <<key, anchor, selected, inputs, edits, keys, held, verified>>

Crash(p) ==
    /\ at[p] \notin {"done", "failed"}
    /\ Fail(p)
    /\ UNCHANGED <<key, anchor, selected, inputs, edits, keys, receipt, held, verified>>

(* A process that failed or was killed is run again. *)
Retry(p) ==
    /\ at[p] = "failed"
    /\ Go(p, IF p \in Correctors THEN "start" ELSE "key")
    /\ held' = [held EXCEPT ![p] = Absent]
    /\ UNCHANGED <<key, anchor, selected, inputs, edits, keys, receipt, verified>>

Init ==
    /\ key = Absent /\ anchor = Absent /\ selected = Absent
    /\ inputs = TRUE /\ edits = 0 /\ keys = 0
    /\ receipt = NoReceipt
    /\ at = [p \in Processes |-> IF p \in Correctors THEN "start" ELSE "key"]
    /\ held = [p \in Processes |-> Absent]
    /\ verified = {}

Next ==
    \/ \E p \in Processes :
          \/ CreateKey(p) \/ FillKey(p) \/ ReadKey(p)
          \/ CheckAnchor(p) \/ WriteAnchor(p)
          \/ CheckAuthority(p) \/ CheckSigner(p) \/ Consume(p) \/ Record(p)
          \/ Verify(p) \/ Recheck(p) \/ Publish(p)
          \/ Crash(p) \/ Retry(p)
    \/ Select \/ Edit \/ LoseKey

Spec == Init /\ [][Next]_vars

(***************************************************************************)
(* The correction keeps the promise of a single-use authority: consumed    *)
(* before its output, once, for at most one finished receipt.              *)
(***************************************************************************)
Once == INSTANCE OneShotAuthority
        WITH consumed <- receipt.kind # "absent",
             output <- receipt.kind = "final",
             runs <- IF receipt.kind = "final" THEN 1 ELSE 0

CorrectionIsOneShot == Once!Spec

(***************************************************************************)
(* A finished receipt is signed with the key the owner committed, by the   *)
(* one process that consumed the authority; nobody else has verified the   *)
(* proof under it; and it never gives way to another.                      *)
(***************************************************************************)
FinalIsBacked ==
    /\ Cardinality(verified) <= 1
    /\ receipt.kind = "final" => /\ verified = {receipt.by}
                                 /\ receipt.signer = selected
    /\ \A p \in Correctors : at[p] \in {"verify", "recheck", "publish"} =>
          /\ receipt = Consumption(p)
          /\ held[p] = selected
=============================================================================
