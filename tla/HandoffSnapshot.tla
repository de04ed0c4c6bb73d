----------------------------- MODULE HandoffSnapshot -----------------------------
(***************************************************************************)
(* Rendering and checking the handoff document (handoff.py, write_handoff  *)
(* and check_handoff) while others edit, commit and check out.  The        *)
(* sources are read into a manifest that has the stamp of every file, and  *)
(* are copied into a private clone; a fresh interpreter renders the        *)
(* document there; then everything is read again.  Directories that change *)
(* during a walk are the subject of TreeCensus.                            *)
(*                                                                         *)
(* A stamp stands for what a stat call returns; a write brings a new one   *)
(* even when it puts an earlier content back.                              *)
(***************************************************************************)
EXTENDS Integers, Sequences, FiniteSets

CONSTANTS
    MaxChanges    \* bound on what others do

SourceFiles == {"s1", "s2"}
Files == SourceFiles \cup {"memory", "document"}

VARIABLES
    commits,     \* of each commit its tree and its parents
    head,        \* the commit checked out, and the stamp of that
    disk,        \* of each file the content and the stamp
    changes,     \* what others did so far
    writer       \* the state of the command

vars == <<commits, head, disk, changes, writer>>

(***************************************************************************)
(* Contents.  Commit 2 has the validation evidence; a memory that is       *)
(* "longer" or "other" names it, but only the longer one continues it.     *)
(***************************************************************************)

Evidence == 2
Rendered(tree) == [s1 |-> tree["s1"], s2 |-> tree["s2"], memory |-> tree["memory"]]
Document(s1, s2, memory) == [s1 |-> s1, s2 |-> s2, memory |-> memory]
Stale == Document(0, 0, "none")

Contents == [f \in Files |-> disk[f].content]
Names(memory) == memory \in {"longer", "other"}
Tree(c) == commits[c].tree

(***************************************************************************)
(* What others do.                                                         *)
(***************************************************************************)

Now == changes + 1

Change ==
    /\ changes < MaxChanges /\ writer.outcome = "open"
    /\ changes' = changes + 1
    /\ UNCHANGED writer

Put(f, content) == disk' = [disk EXCEPT ![f] = [content |-> content, stamp |-> Now]]

Edit ==
    /\ \/ \E f \in SourceFiles : Put(f, 1 - disk[f].content)
       \/ \E m \in {"short", "longer", "other"} \ {disk["memory"].content} : Put("memory", m)
       \/ \E d \in {Stale, Rendered(Contents)} \ {disk["document"].content} : Put("document", d)
    /\ UNCHANGED <<commits, head>>
    /\ Change

Clean == Contents = Tree(head.commit)

Commit ==
    /\ ~Clean
    /\ commits' = Append(commits, [tree |-> Contents, parents |-> <<head.commit>>])
    /\ head' = [commit |-> Len(commits) + 1, stamp |-> Now]
    /\ UNCHANGED disk
    /\ Change

(* What is checked out is merged into the first commit, as it is or not. *)
Merge ==
    /\ commits' = Append(commits, [tree |-> Contents, parents |-> <<1, head.commit>>])
    /\ head' = [commit |-> Len(commits) + 1, stamp |-> Now]
    /\ UNCHANGED disk
    /\ Change

Checkout ==
    /\ Clean
    /\ \E c \in (1..Len(commits)) \ {head.commit} :
         /\ head' = [commit |-> c, stamp |-> Now]
         /\ disk' = [f \in Files |->
                       IF Tree(c)[f] = disk[f].content THEN disk[f]
                       ELSE [content |-> Tree(c)[f], stamp |-> Now]]
    /\ UNCHANGED commits
    /\ Change

(***************************************************************************)
(* Topology.                                                               *)
(***************************************************************************)

IsFinal(c) ==
    /\ commits[c].parents = <<Evidence>>
    /\ {f \in Files : Tree(c)[f] # Tree(Evidence)[f]} = {"memory", "document"}
    /\ Tree(c)["memory"] = "longer"

(* The final commit, or a merge of it into the past that changes nothing. *)
IsFinalized(c) ==
    LET parents == commits[c].parents
    IN  \/ Len(parents) = 1 /\ IsFinal(c)
        \/ /\ Len(parents) = 2 /\ parents[1] = 1
           /\ Tree(c) = Tree(parents[2]) /\ IsFinal(parents[2])

Changed == {f \in Files : disk[f].content # Tree(head.commit)[f]}

CheckoutHolds ==
    IF head.commit = Evidence THEN Changed \subseteq {"memory", "document"}
    ELSE IsFinalized(head.commit) /\ Changed = {}

(***************************************************************************)
(* The command, as the list of its steps.                                  *)
(***************************************************************************)

Render ==
    <<"head", "s1", "s2", "memory", "checkout", "clone", "copyS1", "copyS2", "worker",
      "headAgain", "s1Again", "s2Again", "memoryAgain", "checkoutAgain", "result">>

Steps(command) ==
    IF command = "write"
    THEN Render \o <<"write", "document">> \o Render \o <<"documentAgain", "done">>
    ELSE <<"document">> \o Render \o
         <<"documentAgain", "note", "finalized", "clean", "noted", "finalized", "clean",
           "last", "done">>

Step == Steps(writer.command)[writer.at]
At(step) == writer.outcome = "open" /\ Step = step
World == <<commits, head, disk, changes>>
Go == writer' = [writer EXCEPT !.at = @ + 1]
Refuse == writer' = [writer EXCEPT !.outcome = "refused"]
Check(condition) == IF condition THEN Go ELSE Refuse

(* What fails in the clone is held back until all has been read again. *)
Recheck == CHOOSE n \in writer.at..Len(Steps(writer.command)) :
             /\ Steps(writer.command)[n] = "headAgain"
             /\ \A k \in writer.at..(n - 1) : Steps(writer.command)[k] # "headAgain"
Hold == writer' = [writer EXCEPT !.at = Recheck, !.failed = TRUE, !.fresh = FALSE]

ReadHead ==
    /\ At("head")
    /\ writer' = [writer EXCEPT !.head = head.commit, !.at = @ + 1, !.failed = FALSE]
    /\ UNCHANGED World

(* One file of the manifest, or the memory: the content and the stamp. *)
ReadFile(f) ==
    /\ At(f)
    /\ writer' = [writer EXCEPT !.got[f] = disk[f], !.at = @ + 1]
    /\ UNCHANGED World

CheckCheckout(step) ==
    /\ At(step)
    /\ Check(Names(writer.got["memory"].content) => CheckoutHolds)
    /\ UNCHANGED World

(* The manifest is held against the commit, and the clone must have it. *)
BoundTo(c) == \A f \in SourceFiles : writer.got[f].content = Tree(c)[f]

Clone ==
    /\ At("clone")
    /\ IF BoundTo(writer.head) /\ head.commit = writer.head THEN Go ELSE Hold
    /\ UNCHANGED World

Copy(f, step) ==
    /\ At(step)
    /\ IF disk[f] = writer.got[f] THEN Go ELSE Hold
    /\ UNCHANGED World

InPlace == \A f \in SourceFiles \cup {"memory"} : disk[f] = writer.got[f]

(* The worker renders what was copied; or it fails, or takes too long. *)
Work ==
    /\ At("worker")
    /\ \/ writer' = [writer EXCEPT !.at = @ + 1, !.fresh = InPlace,
                       !.rendered = Rendered([f \in Files |-> IF f = "document" THEN Stale
                                                              ELSE writer.got[f].content])]
       \/ writer' = [writer EXCEPT !.at = @ + 1, !.fresh = InPlace, !.failed = TRUE]
    /\ UNCHANGED World

ReadHeadAgain ==
    /\ At("headAgain")
    /\ Check(head.commit = writer.head)
    /\ UNCHANGED World

(* Mutant for DocumentIsCurrent: the manifests are compared by content. *)
SameContent(f) == disk[f].content = writer.got[f].content

Same(f) == disk[f] = writer.got[f]

ReadFileAgain(f, step) ==
    /\ At(step)
    /\ Check(Same(f))
    /\ UNCHANGED World

Return ==
    /\ At("result")
    /\ IF writer.failed
       THEN writer' = [writer EXCEPT !.outcome = "failed"]
       ELSE writer' = [writer EXCEPT !.at = @ + 1, !.returned = TRUE]
    /\ UNCHANGED World

WriteDocument ==
    /\ At("write")
    /\ disk' = [disk EXCEPT !["document"] =
                  [content |-> writer.rendered, stamp |-> MaxChanges + 1]]
    /\ writer' = [writer EXCEPT !.at = @ + 1, !.returned = FALSE]
    /\ UNCHANGED <<commits, head, changes>>

ReadDocument ==
    /\ At("document")
    /\ writer' = [writer EXCEPT !.at = @ + 1, !.got["document"] = disk["document"],
                                !.since = head.stamp]
    /\ UNCHANGED World

ReadDocumentAgain ==
    /\ At("documentAgain")
    /\ Check(/\ disk["document"].content = writer.got["document"].content
             /\ disk["document"].content = writer.rendered)
    /\ UNCHANGED World

(* The memory is read again; without evidence only the last step is left. *)
Note ==
    /\ At("note")
    /\ writer' = [writer EXCEPT !.note = [memory |-> disk["memory"].content,
                                          head |-> head.commit],
                    !.at = IF Names(disk["memory"].content) THEN @ + 1
                           ELSE Len(Steps("check")) - 1]
    /\ UNCHANGED World

CheckFinalized ==
    /\ At("finalized")
    /\ Check(head.commit # Evidence /\ IsFinalized(head.commit))
    /\ UNCHANGED World

CheckClean ==
    /\ At("clean")
    /\ Check(Changed = {})
    /\ UNCHANGED World

CheckNoted ==
    /\ At("noted")
    /\ Check(writer.note = [memory |-> disk["memory"].content, head |-> head.commit])
    /\ UNCHANGED World

CheckLast ==
    /\ At("last")
    /\ IF /\ disk["document"].content = writer.rendered
          /\ disk["memory"].content = writer.note.memory
       THEN writer' = [writer EXCEPT !.at = @ + 1,
              !.steady = (/\ \A f \in {"document", "memory"} : disk[f] = writer.got[f]
                          /\ head.stamp = writer.since)]
       ELSE Refuse
    /\ UNCHANGED World

Finish ==
    /\ At("done")
    /\ writer' = [writer EXCEPT !.outcome = "done"]
    /\ UNCHANGED World

(* The evidence is committed; the final commit may be, rightly or not. *)
Base == [s1 |-> 0, s2 |-> 0, memory |-> "short", document |-> Stale]
Final(memory, document) == [Base EXCEPT !["memory"] = memory, !["document"] = document]

Init ==
    /\ \E memory \in {"longer", "other"}, document \in {Stale, Document(0, 0, "longer"), Document(0, 0, "short")} :
         commits = <<[tree |-> [Base EXCEPT !["s1"] = 1], parents |-> <<>>],
                     [tree |-> Base, parents |-> <<1>>],
                     [tree |-> Final(memory, document), parents |-> <<Evidence>>]>>
    /\ \E c \in {2, 3} : head = [commit |-> c, stamp |-> 0]
    /\ disk = [f \in Files |-> [content |-> Tree(head.commit)[f], stamp |-> 0]]
    /\ changes = 0
    /\ \E command \in {"write", "check"} :
         writer = [command |-> command, at |-> 1, head |-> 0, rendered |-> Stale,
                   got |-> [f \in Files |-> [content |-> Stale, stamp |-> -1]],
                   failed |-> FALSE, fresh |-> FALSE, returned |-> FALSE,
                   note |-> [memory |-> "none", head |-> 0], since |-> 0,
                   steady |-> FALSE, outcome |-> "open"]

Next ==
    \/ Edit \/ Commit \/ Merge \/ Checkout
    \/ ReadHead
    \/ \E f \in SourceFiles \cup {"memory"} : ReadFile(f)
    \/ CheckCheckout("checkout") \/ CheckCheckout("checkoutAgain")
    \/ Clone \/ Copy("s1", "copyS1") \/ Copy("s2", "copyS2") \/ Work
    \/ ReadHeadAgain
    \/ ReadFileAgain("s1", "s1Again") \/ ReadFileAgain("s2", "s2Again")
    \/ ReadFileAgain("memory", "memoryAgain")
    \/ Return \/ WriteDocument \/ ReadDocument \/ ReadDocumentAgain
    \/ Note \/ CheckFinalized \/ CheckClean \/ CheckNoted \/ CheckLast \/ Finish

Spec == Init /\ [][Next]_vars

(***************************************************************************)
(* A document that is returned is what the committed sources and the       *)
(* memory give, and they were all in place, together, when the worker had  *)
(* done, though files are read one by one while others write to them.  And *)
(* a check that passes without the document, the memory or the head having *)
(* been changed and changed back has found a finalized commit, whose       *)
(* document is what its own sources and its own memory give.               *)
(***************************************************************************)
DocumentIsCurrent ==
    /\ writer.returned =>
         /\ writer.fresh
         /\ writer.rendered = Rendered([Tree(writer.head) EXCEPT
                                          !["memory"] = writer.got["memory"].content])
    /\ writer.outcome = "done" /\ writer.command = "check" /\ writer.steady
         /\ Names(writer.note.memory) =>
         /\ IsFinalized(writer.note.head)
         /\ Tree(writer.note.head)["document"] = Rendered(Tree(writer.note.head))
=============================================================================
