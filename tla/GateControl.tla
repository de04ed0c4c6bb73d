------------------------------ MODULE GateControl ------------------------------
(***************************************************************************)
(* Running the frozen gate controls of iteration 000 again (mission.py,    *)
(* _verify_gate_control_registry) in a private runner whose whole tree is  *)
(* bound by one digest (runner_trust.py, tree_digest, runner_is_unchanged).*)
(* The child that runs the tests shares the tree with the verifier, has to *)
(* write two things in it, and may write others, some of them after it has *)
(* ended (a process it left behind).  The registry is in the repository,   *)
(* where somebody may edit it at any time.                                 *)
(*                                                                         *)
(* A stamp stands for what a stat call returns of an entry; a write brings *)
(* a new one even when it puts an earlier content back.                    *)
(***************************************************************************)
EXTENDS Integers, FiniteSets

CONSTANTS
    MaxWrites,    \* bound on the writes of the child
    MaxEdits      \* bound on the edits of the registry

Files == {"source", "tool"}     \* a sealed test file, and what runs it
Sealed == {"source"}
Dirs == {"root", "lib"}         \* the report is made in the root
Mutable == {"root"}
SetNames == {"frozen", "other"} \* sets of controls a registry can name

VARIABLES
    registry,    \* the content of the registry file
    edits,       \* edits of it so far
    tree,        \* the private tree
    writes,      \* writes of the child so far
    child,       \* "none", "running", "left" (behind), "gone"
    blame,       \* what went wrong that was not the verifier's doing
    harm,        \* bound entries that changed while the tests ran
    verifier     \* the state of the verifier

vars == <<registry, edits, tree, writes, child, blame, harm, verifier>>

(***************************************************************************)
(* Registries.  A seal names what it was computed from.                    *)
(***************************************************************************)

Frozen == [f \in Sealed |-> 0]
SetHash(controls, files) == [controls |-> controls, files |-> files]
Passing(controls, set) == [set |-> set, nodes |-> controls, exit |-> 0, passed |-> TRUE]

Registry(controls, set, result) ==
    [controls |-> controls, set |-> SetHash(set, Frozen),
     result |-> Passing(result, SetHash(result, Frozen))]

Malformed == [controls |-> "none"]
Historical == Registry("frozen", "frozen", "frozen")
Registries ==
    {Historical, Registry("other", "other", "other"), Malformed,
     Registry("frozen", "frozen", "other"), Registry("frozen", "other", "frozen")}

(* What happens after the verdict does not matter to it. *)
Open == verifier.at \notin {"passed", "refused"}

EditRegistry ==
    /\ Open /\ edits < MaxEdits
    /\ \E content \in Registries \ {registry} : registry' = content
    /\ edits' = edits + 1
    /\ blame' = blame \cup {"registry"}
    /\ UNCHANGED <<tree, writes, child, harm, verifier>>

(***************************************************************************)
(* The private tree, and its digest.                                       *)
(***************************************************************************)

NewTree ==
    [content |-> [f \in Files |-> 0], stamp |-> [x \in Files \cup Dirs |-> 0],
     extra |-> {}, report |-> "absent", scratch |-> "private"]

Extra == [root |-> "another file", lib |-> "another module"]

(* The entries found by a walk: the report and the scratch are left out.   *)
Inventory(t) == Files \cup Dirs \cup {Extra[d] : d \in t.extra}

(* Mutant for VerdictIsExact: a file is bound by its content alone. *)
EntryOfContent(t, x) ==
    IF x \in Mutable THEN [kind |-> "directory"]
    ELSE IF x \in Dirs THEN [kind |-> "directory", stamp |-> t.stamp[x]]
    ELSE IF x \in Files THEN [kind |-> "file", content |-> t.content[x]]
    ELSE [kind |-> "extra"]

(* The stamp of a directory in which an output will be made is not bound. *)
Entry(t, x) ==
    IF x \in Mutable THEN [kind |-> "directory"]
    ELSE IF x \in Dirs THEN [kind |-> "directory", stamp |-> t.stamp[x]]
    ELSE IF x \in Files
         THEN [kind |-> "file", stamp |-> t.stamp[x], content |-> t.content[x]]
    ELSE [kind |-> "extra"]

Digest(t, names) == [x \in names |-> Entry(t, x)]

SealedFiles(t) == [f \in Sealed |-> t.content[f]]

(***************************************************************************)
(* The child.  It must write its report; it may use the scratch.           *)
(***************************************************************************)

CanWrite == Open /\ child \in {"running", "left"} /\ writes < MaxWrites

Harm(x) ==
    /\ blame' = blame \cup {"child"}
    /\ harm' = IF child = "running" THEN harm \cup {x} ELSE harm

(* A file is written: something new, or what was there at first. *)
Rewrite(f) ==
    /\ CanWrite
    /\ \E content \in {0, writes + 1} :
         tree' = [tree EXCEPT !.content[f] = content, !.stamp[f] = writes + 1]
    /\ writes' = writes + 1
    /\ Harm(f)
    /\ UNCHANGED <<registry, edits, child, verifier>>

AddExtra(d) ==
    /\ CanWrite /\ d \notin tree.extra
    /\ tree' = [tree EXCEPT !.extra = @ \cup {d}, !.stamp[d] = writes + 1]
    /\ writes' = writes + 1
    /\ Harm(d)
    /\ UNCHANGED <<registry, edits, child, verifier>>

(* What was added is taken away: only the stamp of the directory shows it. *)
TakeExtra(d) ==
    /\ CanWrite /\ d \in tree.extra
    /\ tree' = [tree EXCEPT !.extra = @ \ {d}, !.stamp[d] = writes + 1]
    /\ writes' = writes + 1
    /\ Harm(d)
    /\ UNCHANGED <<registry, edits, child, verifier>>

WriteReport(results) ==
    /\ CanWrite
    /\ tree' = [tree EXCEPT !.report = results, !.stamp["root"] = writes + 1]
    /\ writes' = writes + 1
    /\ blame' = IF results = "exact" THEN blame ELSE blame \cup {"tests"}
    /\ UNCHANGED <<registry, edits, child, harm, verifier>>

(* The scratch is private unless the child opens it to others. *)
WriteScratch(mode) ==
    /\ CanWrite
    /\ tree' = [tree EXCEPT !.scratch = mode]
    /\ writes' = writes + 1
    /\ blame' = IF mode = "private" THEN blame ELSE blame \cup {"child"}
    /\ UNCHANGED <<registry, edits, child, harm, verifier>>

(***************************************************************************)
(* The verifier.                                                           *)
(***************************************************************************)

World == <<registry, edits, tree, writes, harm>>
At(step) == verifier.at = step
Go(step) == verifier' = [verifier EXCEPT !.at = step]
Check(condition, step) == Go(IF condition THEN step ELSE "refused")

(* The registry is parsed once; it is only compared as bytes later. *)
Parse ==
    /\ At("parse")
    /\ verifier' = [verifier EXCEPT
         !.parsed = registry, !.at = IF registry = Malformed THEN "refused" ELSE "git"]
    /\ UNCHANGED <<World, child, blame>>

ReadHistory ==
    /\ At("git")
    /\ \/ Go("prepare") /\ UNCHANGED blame
       \/ Go("refused") /\ blame' = blame \cup {"git"}
    /\ UNCHANGED <<World, child>>

(* The snapshot is written, the runner made in it, and both are bound. *)
Prepare ==
    /\ At("prepare")
    /\ \/ /\ verifier' = [verifier EXCEPT !.at = "substance",
                              !.bound = Digest(tree, Inventory(tree))]
          /\ UNCHANGED blame
       \/ Go("refused") /\ blame' = blame \cup {"runner"}
    /\ UNCHANGED <<World, child>>

(* Every control the registry names is a test that asserts what it should. *)
Substantive(controls) == controls \in SetNames

CheckSubstance ==
    /\ At("substance") /\ Check(Substantive(verifier.parsed.controls), "seal")
    /\ UNCHANGED <<World, child, blame>>

SetHashNow == SetHash(verifier.parsed.controls, SealedFiles(tree))

CheckSeal ==
    /\ At("seal") /\ Check(verifier.parsed.set = SetHashNow, "registry")
    /\ UNCHANGED <<World, child, blame>>

CheckRegistry ==
    /\ At("registry") /\ Check(registry = Historical, "walk")
    /\ UNCHANGED <<World, child, blame>>

(* The digest: a walk, each entry, the walk again. *)
Walk ==
    /\ At("walk")
    /\ verifier' = [verifier EXCEPT !.names = Inventory(tree), !.at = "read"]
    /\ UNCHANGED <<World, child, blame>>

ReadEntries ==
    /\ At("read")
    /\ IF verifier.names \subseteq Inventory(tree)
       THEN verifier' = [verifier EXCEPT !.read = Digest(tree, verifier.names),
                                         !.at = "rewalk"]
       ELSE Go("refused")
    /\ UNCHANGED <<World, child, blame>>

DirectoriesAreTrusted == tree.scratch = "private"

WalkAgain ==
    /\ At("rewalk")
    /\ Check(/\ verifier.names = Inventory(tree) /\ verifier.read = verifier.bound
             /\ DirectoriesAreTrusted,
             IF verifier.ran THEN "settle" ELSE "start")
    /\ UNCHANGED <<World, child, blame>>

Start ==
    /\ At("start")
    /\ IF tree.scratch = "private" /\ tree.report = "absent"
       THEN /\ verifier' = [verifier EXCEPT !.at = "wait", !.ran = TRUE]
            /\ child' = "running"
       ELSE Go("refused") /\ UNCHANGED child
    /\ UNCHANGED <<World, blame>>

Exit(code) ==
    /\ At("wait")
    /\ verifier' = [verifier EXCEPT !.at = "report", !.exit = code]
    /\ child' \in {"left", "gone"}
    /\ blame' = IF code = 0 /\ tree.report # "absent" THEN blame
                ELSE blame \cup {"tests"}
    /\ UNCHANGED World

(* The test run is killed; whatever it started may go on. *)
Timeout ==
    /\ At("wait") /\ Go("refused")
    /\ child' \in {"left", "gone"}
    /\ blame' = blame \cup {"timeout"}
    /\ UNCHANGED World

(* Every test is reported, in order, and none failed or was skipped. *)
ReadReport ==
    /\ At("report")
    /\ verifier' = [verifier EXCEPT !.exact = (tree.report = "exact"), !.at = "walk"]
    /\ UNCHANGED <<World, child, blame>>

Settle ==
    /\ At("settle")
    /\ Check(SetHashNow = verifier.parsed.set /\ registry = Historical, "judge")
    /\ UNCHANGED <<World, child, blame>>

Outcome ==
    [set |-> verifier.parsed.set, nodes |-> verifier.parsed.controls,
     exit |-> verifier.exit, passed |-> verifier.exit = 0 /\ verifier.exact]

Judge ==
    /\ At("judge")
    /\ Check(/\ verifier.exit = 0 /\ verifier.exact
             /\ verifier.parsed.result = Outcome, "passed")
    /\ UNCHANGED <<World, child, blame>>

Init ==
    /\ registry \in Registries
    /\ edits = 0
    /\ tree = NewTree
    /\ writes = 0
    /\ child = "none"
    /\ blame = IF registry = Historical THEN {} ELSE {"registry"}
    /\ harm = {}
    /\ verifier = [at |-> "parse", parsed |-> Malformed, bound |-> {}, names |-> {},
                   read |-> {}, ran |-> FALSE, exit |-> 1, exact |-> FALSE]

Next ==
    \/ EditRegistry
    \/ \E f \in Files : Rewrite(f)
    \/ \E d \in Dirs : AddExtra(d) \/ TakeExtra(d)
    \/ \E results \in {"exact", "failed", "skipped"} : WriteReport(results)
    \/ \E mode \in {"private", "open"} : WriteScratch(mode)
    \/ Parse \/ ReadHistory \/ Prepare \/ CheckSubstance \/ CheckSeal
    \/ CheckRegistry \/ Walk \/ ReadEntries \/ WalkAgain \/ Start
    \/ \E code \in {0, 1} : Exit(code)
    \/ Timeout \/ ReadReport \/ Settle \/ Judge

Spec == Init /\ [][Next]_vars

(***************************************************************************)
(* The verdict is earned both ways.  Controls that pass were run by the    *)
(* tree that was bound: nothing of it changed while they ran, not even to  *)
(* be put back, except that files may have come and gone beside the report;*)
(* the tests ended well and are all accounted for, and an untouched        *)
(* registry was the historical one.  And a refusal has a cause: what the   *)
(* tests have to write does not count against them.                        *)
(***************************************************************************)
VerdictIsExact ==
    /\ verifier.at = "passed" =>
         /\ harm \subseteq Mutable
         /\ verifier.exit = 0 /\ verifier.exact
         /\ verifier.parsed.result =
              Passing(verifier.parsed.controls,
                      SetHash(verifier.parsed.controls, Frozen))
         /\ edits = 0 => verifier.parsed = Historical
    /\ verifier.at = "refused" => blame # {}
=============================================================================
