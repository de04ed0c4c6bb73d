-------------------------- MODULE PreregistrationBinding --------------------------
(***************************************************************************)
(* Binding an acquisition to what was registered before it (acquisition.py,*)
(* verify_preregistration_binding): the contract, the preregistration, the *)
(* dependency lock and the package's own sources are read from a working   *)
(* tree in which a developer goes on editing, committing and checking out, *)
(* and are held against the objects of Git, which do not change.  How one  *)
(* walk over the sources notices changes is the subject of TreeCensus;     *)
(* here a walk is one step.                                                *)
(***************************************************************************)
EXTENDS Integers, Sequences, FiniteSets

CONSTANTS
    MaxChanges    \* bound on what the developer does

SourceFiles == {"validator", "other"}      \* src/fieldtrue; acquisition.py is one of them
Files == {"contract", "preregistration", "lock"} \cup SourceFiles

VARIABLES
    commits,     \* of each commit its files and the commits it descends from
    head,        \* the commit that is checked out
    working,     \* the contents of the files on disk
    loaded,      \* the validator's code that runs
    changes,     \* changes so far
    past,        \* every content of the files, and every head, so far
    regained,    \* something became what it had been before
    reader       \* the state of the verification

vars == <<commits, head, working, loaded, changes, past, regained, reader>>

(***************************************************************************)
(* Contracts.                                                              *)
(***************************************************************************)

Draft == [sealed |-> FALSE, commit |-> 1, preregistration |-> 0, validator |-> 0, lock |-> 0]
Contract == [Draft EXCEPT !.sealed = TRUE]
Resealed == [Contract EXCEPT !.validator = 1]

Contents(f) == IF f = "contract" THEN {Draft, Contract, Resealed} ELSE {0, 1}

Clean == working = commits[head].tree

(***************************************************************************)
(* The developer.                                                          *)
(***************************************************************************)

State == [file |-> working, head |-> head]

Change ==
    /\ changes < MaxChanges /\ reader.at <= Len(reader.steps)
    /\ changes' = changes + 1
    /\ past' = past \cup {State'}
    /\ regained' = (regained \/ (\E s \in past :
                       \/ s.head = head' /\ head' # head
                       \/ \E f \in Files : s.file[f] = working'[f] /\ working'[f] # working[f]))
    /\ UNCHANGED <<loaded, reader>>

Edit(f) ==
    /\ \E content \in Contents(f) \ {working[f]} :
         working' = [working EXCEPT ![f] = content]
    /\ UNCHANGED <<commits, head>>
    /\ Change

Commit ==
    /\ ~Clean
    /\ commits' = Append(commits, [tree |-> working, before |->
                                    commits[head].before \cup {Len(commits) + 1}])
    /\ head' = Len(commits) + 1
    /\ UNCHANGED working
    /\ Change

Checkout ==
    /\ Clean
    /\ head' \in (1..Len(commits)) \ {head}
    /\ working' = commits[head'].tree
    /\ UNCHANGED commits
    /\ Change

(***************************************************************************)
(* The verification.  got holds what was read first of each file, and the  *)
(* head; what is read again must be the same.                              *)
(***************************************************************************)

Steps(authority) ==
    <<"select", "contract", "preregistration", "head", "status", "ancestry",
      "validator", "lock", "executing", "sources", "committed", "head", "status",
      "sources", "status", "head", "sources", "preregistration", "validator",
      "lock", "contract">>

World == <<commits, head, working, loaded, changes, past, regained>>
At(step) == reader.at <= Len(reader.steps) /\ reader.steps[reader.at] = step
Refused == 100
Refuse == reader' = [reader EXCEPT !.at = Refused]
Check(condition) ==
    IF condition THEN reader' = [reader EXCEPT !.at = @ + 1] ELSE Refuse

Known == DOMAIN reader.got
Take(x, content) ==
    reader' = [reader EXCEPT !.at = @ + 1,
                 !.got = [y \in Known \cup {x} |-> IF y = x THEN content ELSE reader.got[y]]]
TakeOrCompare(x, content, right) ==
    IF x \in Known THEN Check(reader.got[x] = content)
    ELSE IF right THEN Take(x, content)
    ELSE Refuse

(* The caller read the contract earlier. *)
Select ==
    /\ At("select")
    /\ reader' = [reader EXCEPT !.at = @ + 1, !.selected = working["contract"]]
    /\ UNCHANGED World

ReadContract ==
    /\ At("contract")
    /\ TakeOrCompare("contract", working["contract"],
                     working["contract"] = reader.selected /\ reader.selected.sealed)
    /\ UNCHANGED World

Says(x) == reader.selected[x]

ReadPreregistration ==
    /\ At("preregistration")
    /\ TakeOrCompare("preregistration", working["preregistration"],
                     working["preregistration"] = Says("preregistration"))
    /\ UNCHANGED World

ReadHead ==
    /\ At("head")
    /\ TakeOrCompare("head", head, TRUE)
    /\ UNCHANGED World

ReadStatus ==
    /\ At("status")
    /\ Check(Clean)
    /\ UNCHANGED World

(* The checks made of Git's objects. *)
Ancestor(c, d) == c \in commits[d].before

CheckAncestry ==
    /\ At("ancestry")
    /\ Check(/\ Ancestor(reader.authority, reader.got["head"])
             /\ Ancestor(Says("commit"), reader.authority)
             /\ commits[Says("commit")].tree["preregistration"] = Says("preregistration"))
    /\ UNCHANGED World

ReadValidator ==
    /\ At("validator")
    /\ TakeOrCompare("validator", working["validator"],
                     working["validator"] = Says("validator"))
    /\ UNCHANGED World

ReadLock ==
    /\ At("lock")
    /\ TakeOrCompare("lock", working["lock"], working["lock"] = Says("lock"))
    /\ UNCHANGED World

(* The code objects that run are those the source compiles to. *)
CheckExecuting ==
    /\ At("executing")
    /\ Check(loaded = reader.got["validator"])
    /\ UNCHANGED World

(* The sources at the authority's commit, at the head and on disk agree,   *)
(* and the validator among them is the sealed one.                         *)
Closure(c) == [f \in SourceFiles |-> commits[c].tree[f]]
OnDisk == [f \in SourceFiles |-> working[f]]

CheckSources ==
    /\ At("sources")
    /\ IF /\ Closure(reader.authority) = Closure(reader.got["head"])
          /\ OnDisk = Closure(reader.authority)
          /\ Closure(reader.authority)["validator"] = Says("validator")
       THEN reader' = [reader EXCEPT !.at = @ + 1,
              !.whole = @ \/ (/\ Clean /\ head = reader.got["head"]
                              /\ \A f \in Known \cap Files : working[f] = reader.got[f])]
       ELSE Refuse
    /\ UNCHANGED World

(* Mutant for BindingIsWhole: a clean tree is taken for enough. *)
CheckCommittedOnce ==
    /\ At("committed")
    /\ Check(Clean)
    /\ UNCHANGED World

CheckCommitted ==
    /\ At("committed")
    /\ Check(commits[reader.got["head"]].tree["contract"] = reader.got["contract"])
    /\ UNCHANGED World

First == [f \in Files |-> IF f = "contract" THEN Draft ELSE 0]
Second == [First EXCEPT !["contract"] = Contract]

Init ==
    /\ commits = <<[tree |-> First, before |-> {1}], [tree |-> Second, before |-> {1, 2}]>>
    /\ head = 2 /\ working = Second
    /\ loaded \in {0, 1}
    /\ changes = 0 /\ past = {State} /\ regained = FALSE
    /\ \E authority \in {1, 2, 3} :
         reader = [at |-> 1, steps |-> Steps(authority), authority |-> authority,
                   selected |-> Draft, got |-> [x \in {} |-> 0], whole |-> FALSE]

Next ==
    \/ \E f \in Files : Edit(f)
    \/ Commit \/ Checkout
    \/ Select \/ ReadContract \/ ReadPreregistration \/ ReadHead \/ ReadStatus
    \/ CheckAncestry \/ ReadValidator \/ ReadLock \/ CheckExecuting
    \/ CheckSources \/ CheckCommitted

Spec == Init /\ [][Next]_vars

(***************************************************************************)
(* What is accepted is bound.  The contract is the one committed at the    *)
(* head, and sealed; what it froze was committed before the controls were  *)
(* run, and those before the head; the code that runs is the code it       *)
(* names, at both commits.  And unless something was changed and changed   *)
(* back, all of it was in place, in a clean tree, at one moment.           *)
(***************************************************************************)
BindingIsWhole ==
    reader.at = Len(reader.steps) + 1 =>
        LET c == reader.got["head"]
        IN  /\ commits[c].tree["contract"] = reader.selected /\ reader.selected.sealed
            /\ commits[Says("commit")].tree["preregistration"]
                 = reader.got["preregistration"]
            /\ Ancestor(Says("commit"), reader.authority) /\ Ancestor(reader.authority, c)
            /\ loaded = commits[c].tree["validator"]
            /\ Closure(c) = Closure(reader.authority)
            /\ ~regained => reader.whole /\ commits[c].tree["lock"] = Says("lock")
=============================================================================
