----------------------------- MODULE ProofBundle -----------------------------
(***************************************************************************)
(* Verifying the proof bundle of an execution (verification.py,            *)
(* _verify_iter000_proof_bundle) while somebody works in the same tree.    *)
(* The verifier reads a dozen files, several of them more than once, and   *)
(* compares each with what other files and the signed ledger commit to.    *)
(* Meanwhile files are edited, rebuilt by the program's own tools, cut     *)
(* back, or taken from the bundle of another run that the same key signed. *)
(*                                                                         *)
(* A content stands for its own hash.  What is derived by the program      *)
(* carries what it was derived from, so that building it again from the    *)
(* same files gives the same content.  No file gets a content back that it *)
(* has had before: that case is out of scope.                              *)
(***************************************************************************)
EXTENDS Integers, Sequences, FiniteSets

CONSTANTS
    MaxEdits     \* bound on the changes to the files

Runs == {1, 2}
Amended == 2         \* the run that had to consume an attempt authority

VARIABLES
    flow,        \* of each run: "normal" or "invalid"
    disk,        \* the content of each file
    past,        \* the contents each file has had
    edits,       \* changes so far
    reader       \* the state of the verifier

vars == <<flow, disk, past, edits, reader>>

(***************************************************************************)
(* What a run writes.                                                      *)
(***************************************************************************)

Plain(r, f, edit) == [run |-> r, file |-> f, edit |-> edit]

(* Artifacts that are bundled; the rest of the tree. *)
DataOf(r) == IF flow[r] = "normal" THEN {"coverage", "receipt"} ELSE {"invalidity"}
Bundled(r) ==
    DataOf(r) \cup {"inputs", "report", "result", "learning"}
       \cup (IF r = Amended THEN {"localAuthority", "consumption"} ELSE {})
Artifacts(r) == Bundled(r) \cup {"bundle"}
Trusted == {"anchor", "authority"}

Verdict(report) ==
    IF report.of.file = "invalidity" THEN "INVALID"
    ELSE IF report.of.of.edit = 0 THEN "BLOCKED_EVIDENCE" ELSE "PASS"

(* What the program makes of the files in directory d for run r. *)
Receipt(d) == [file |-> "receipt", of |-> d["coverage"]]
Report(d, data) == [file |-> "report", of |-> d[data]]
Result(report) == [file |-> "result", of |-> report]
Learning(report) == [file |-> "learning", of |-> Verdict(report)]
Bundle(d, r) ==
    [file |-> "bundle", run |-> r, of |-> [f \in Bundled(r) |-> d[f]]]
Manifest(d, r, length) ==
    [file |-> "manifest", run |-> r, of |-> [f \in Artifacts(r) |-> d[f]],
     checkpoint |-> length - 1, verdict |-> Verdict(d["report"])]

Length(r) == IF flow[r] = "normal" THEN 5 ELSE 4
Ledger(r, n) == [run |-> r, length |-> n, signed |-> TRUE]
LedgerHead(r, n) == [run |-> r, length |-> n, signed |-> TRUE]

Rebuilt(d, r) ==
    LET normal == flow[r] = "normal"
        receipt == IF normal THEN [d EXCEPT !["receipt"] = Receipt(d)] ELSE d
        report == [receipt EXCEPT !["report"] =
                     Report(receipt, IF normal THEN "receipt" ELSE "invalidity")]
        result == [report EXCEPT !["result"] = Result(report["report"]),
                                 !["learning"] = Learning(report["report"])]
        bundle == [result EXCEPT !["bundle"] = Bundle(result, r)]
    IN  [bundle EXCEPT !["manifest"] = Manifest(bundle, r, Length(r))]

Files(r) == Artifacts(r) \cup {"manifest", "ledger", "head"} \cup Trusted
AllFiles == UNION {Files(r) : r \in Runs}

(* The anchor and the authority are the same for every run. *)
Written(r) ==
    Rebuilt([f \in AllFiles |->
               IF f \in {"ledger", "head"} THEN Ledger(r, Length(r))
               ELSE IF f \in Trusted THEN Plain(0, f, 0)
               ELSE IF f = "localAuthority" THEN Plain(0, "authority", 0)
               ELSE Plain(r, f, 0)], r)

(***************************************************************************)
(* Changes to the tree.                                                    *)
(***************************************************************************)

Put(f, content) ==
    /\ edits < MaxEdits /\ content \notin past[f]
    /\ disk' = [disk EXCEPT ![f] = content]
    /\ past' = [past EXCEPT ![f] = @ \cup {content}]
    /\ edits' = edits + 1
    /\ UNCHANGED <<flow, reader>>

(* Nobody but the run can sign: an edited ledger or head does not verify. *)
Edit(f) ==
    Put(f, IF f \in {"ledger", "head"}
           THEN [disk[f] EXCEPT !.signed = FALSE]
           ELSE Plain(1, f, edits + 1))

TakeFrom(r, f) == Put(f, Written(r)[f])

CutBack(r, n) == Put("ledger", Ledger(r, n)) \/ Put("head", LedgerHead(r, n))

(* Everything that is derived is made again from what is there. *)
Rebuild(r) ==
    /\ edits < MaxEdits
    /\ disk' = Rebuilt(disk, r)
    /\ \A f \in AllFiles : disk'[f] # disk[f] => disk'[f] \notin past[f]
    /\ past' = [f \in AllFiles |-> past[f] \cup {disk'[f]}]
    /\ edits' = edits + 1
    /\ UNCHANGED <<flow, reader>>

(***************************************************************************)
(* The verifier.  got holds the first content of each file that counts,    *)
(* parsed what was read from the file again to be understood.              *)
(***************************************************************************)

World == <<flow, disk, past, edits>>
Run == reader.got["ledger"].run
Signed == Written(Run)          \* the contents that run's events commit to
With(fun, f, c) == [g \in DOMAIN fun \cup {f} |-> IF g = f THEN c ELSE fun[g]]
Go(next) == reader' = [reader EXCEPT !.at = next]
Check(condition, next) == Go(IF condition THEN next ELSE "refused")
At(step) == reader.at = step /\ UNCHANGED World

First == IF reader.authorized THEN <<"anchor", "authority", "ledger", "head">>
                              ELSE <<"anchor", "ledger", "head">>

(* The trusted files are pinned: an anchor that changed has another key,   *)
(* and an authority that changed names none of the files it should.        *)
AnchorTrusted == disk["anchor"].edit = 0
AuthorityTrusted == disk["authority"].edit = 0

ReadFirst ==
    /\ At("first")
    /\ LET f == First[reader.next]
       IN  IF \/ f = "anchor" /\ ~AnchorTrusted
              \/ f = "authority" /\ ~AuthorityTrusted
           THEN Go("refused")
           ELSE reader' = [reader EXCEPT
                    !.got = With(@, f, disk[f]), !.next = @ + 1,
                    !.at = IF reader.next = Len(First) THEN "ledger" ELSE "first"]

(* verify_ledger opens both files anew; the events are those read before. *)
VerifyLedger ==
    /\ At("ledger")
    /\ Check(/\ disk["ledger"].signed /\ disk["head"].signed
             /\ disk["head"].run = disk["ledger"].run
             /\ disk["head"].length = disk["ledger"].length
             /\ reader.got["ledger"].length = Length(Run), "manifest")

(* An amended run needs its authority, no other has it. *)
RunIsAuthorized == reader.authorized = (Run = Amended)

(* The last event commits to the manifest, and the manifest to the ledger  *)
(* before that event. *)
ReadManifest ==
    /\ At("manifest")
    /\ LET m == disk["manifest"]
       IN  IF /\ m = Signed["manifest"]
              /\ m.run = Run /\ m.checkpoint = reader.got["ledger"].length - 1
              /\ RunIsAuthorized
              /\ DOMAIN m.of = Artifacts(Run)
           THEN reader' = [reader EXCEPT !.at = "hash", !.got = With(@, "manifest", m)]
           ELSE Go("refused")

Unhashed == Artifacts(Run) \ DOMAIN reader.got

HashArtifact ==
    /\ At("hash")
    /\ IF Unhashed = {} THEN Go("bundle")
       ELSE LET f == CHOOSE g \in Unhashed : TRUE
            IN  IF disk[f] = reader.got["manifest"].of[f]
                THEN reader' = [reader EXCEPT !.got = With(@, f, disk[f])]
                ELSE Go("refused")

ReadBundle ==
    /\ At("bundle")
    /\ LET b == disk["bundle"]
       IN  Check(/\ b.run = Run /\ DOMAIN b.of = Bundled(Run)
                 /\ \A f \in Bundled(Run) : b.of[f] = reader.got[f]
                 /\ reader.got["bundle"] = Signed["bundle"], "report")

Readable(report) == "of" \in DOMAIN report

ReadReport ==
    /\ At("report")
    /\ IF Readable(disk["report"])
       THEN reader' = [reader EXCEPT !.at = "result", !.parsed = disk["report"]]
       ELSE Go("refused")

ReadResult ==
    /\ At("result")
    /\ Check(disk["result"] = Result(reader.parsed)
             /\ reader.got["result"] = disk["result"], "learning")

ReadLearning ==
    /\ At("learning")
    /\ Check(disk["learning"] = Learning(reader.parsed),
             IF reader.authorized THEN "authority" ELSE "inputs")

(* The consumption was signed, and is what the run said it started from. *)
ConsumptionHolds ==
    /\ disk["consumption"].edit = 0
    /\ disk["consumption"] = Signed["consumption"]

(* The authority in the bundle is the selected one. *)
ReadAuthority ==
    /\ At("authority")
    /\ Check(/\ disk["localAuthority"] = reader.got["authority"]
             /\ reader.got["localAuthority"] = reader.got["authority"]
             /\ reader.got["authority"] = Signed["authority"]
             /\ ConsumptionHolds
             /\ disk["consumption"] = reader.got["consumption"], "inputs")

(* The first event names the anchor the run was started with. *)
StartedHolds == reader.got["anchor"] = Signed["anchor"]

(* The dataset lock and the amendments. *)
ReadInputs ==
    /\ At("inputs")
    /\ Check(reader.got["inputs"] = Signed["inputs"] /\ StartedHolds, "data")

InvalidityHolds ==
    /\ reader.got["invalidity"] = Signed["invalidity"]
    /\ reader.parsed = Report(disk, "invalidity")

(* The report is computed again from the data, or follows from the         *)
(* invalidity record.                                                      *)
ReadData ==
    /\ At("data")
    /\ Check(IF flow[Run] = "normal"
             THEN /\ reader.got["receipt"] = Signed["receipt"]
                  /\ reader.got["coverage"] = Signed["coverage"]
                  /\ disk["receipt"] = Receipt(reader.got)
                  /\ reader.parsed = Report(disk, "receipt")
                  /\ Receipt(disk) = disk["receipt"]
             ELSE InvalidityHolds, "adjudicated")

CheckAdjudicated ==
    /\ At("adjudicated")
    /\ IF /\ \A f \in {"report", "result", "learning"} : reader.got[f] = Signed[f]
          /\ Verdict(reader.parsed) = Verdict(Signed["report"])
          /\ Verdict(reader.parsed) = reader.got["manifest"].verdict
       THEN reader' = [reader EXCEPT !.at = "recheck", !.left = DOMAIN reader.got,
                       !.whole = \A f \in DOMAIN reader.got : disk[f] = reader.got[f]]
       ELSE Go("refused")

(* Mutant for VerifiedIsOneRun: only the artifacts are looked at again. *)
RecheckArtifacts ==
    /\ At("recheck")
    /\ LET again == reader.left \cap Artifacts(Run)
       IN  IF again = {} THEN Go("verified")
           ELSE LET f == CHOOSE g \in again : TRUE
                IN  IF disk[f] = reader.got[f]
                    THEN reader' = [reader EXCEPT !.left = @ \ {f}]
                    ELSE Go("refused")

Recheck ==
    /\ At("recheck")
    /\ IF reader.left = {} THEN Go("verified")
       ELSE LET f == CHOOSE g \in reader.left : TRUE
            IN  IF disk[f] = reader.got[f]
                THEN reader' = [reader EXCEPT !.left = @ \ {f}]
                ELSE Go("refused")

Start(authorized) ==
    [at |-> "first", authorized |-> authorized, next |-> 1, parsed |-> {},
     got |-> [f \in {} |-> {}], left |-> {}, whole |-> FALSE]

Init ==
    /\ flow \in [Runs -> {"normal", "invalid"}]
    /\ \E r \in Runs : disk = Written(r)
    /\ past = [f \in AllFiles |-> {disk[f]}]
    /\ edits = 0
    /\ reader \in {Start(TRUE), Start(FALSE)}

Next ==
    \/ \E f \in AllFiles \ {"receipt", "report", "result", "learning", "bundle",
                            "manifest"} : Edit(f)
    \/ \E r \in Runs : \/ \E f \in AllFiles : TakeFrom(r, f)
                       \/ \E n \in 1..(Length(r) - 1) : CutBack(r, n)
                       \/ Rebuild(r)
    \/ ReadFirst \/ VerifyLedger \/ ReadManifest \/ HashArtifact
    \/ ReadBundle \/ ReadReport \/ ReadResult \/ ReadLearning \/ ReadAuthority
    \/ ReadInputs \/ ReadData \/ CheckAdjudicated \/ Recheck

Spec == Init /\ [][Next]_vars

(***************************************************************************)
(* A bundle that verifies is one run's, and nothing but that run's: every  *)
(* file is what it wrote and the verdict is the one it signed; all of it   *)
(* was in place at one moment, though the tree changed during the reading; *)
(* and an amended run was only accepted with the authority it consumed.    *)
(***************************************************************************)
VerifiedIsOneRun ==
    reader.at = "verified" =>
        /\ \A f \in DOMAIN reader.got : reader.got[f] = Written(Run)[f]
        /\ DOMAIN reader.got \cup {"authority"} = Files(Run)
        /\ Verdict(reader.parsed) = Verdict(Written(Run)["report"])
        /\ reader.whole
        /\ reader.authorized <=> Run = Amended
=============================================================================
