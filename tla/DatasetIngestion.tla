-------------------------- MODULE DatasetIngestion --------------------------
(***************************************************************************)
(* Fetching and ingesting the ADAPT dataset (adapters/adapt.py), as the    *)
(* experiment does it under its run lock (experiment.py) while the command *)
(* line may fetch at any time.  The archive is extracted under one fixed   *)
(* temporary name and moved into place; its files are parsed and written   *)
(* out one by one, the receipt last.  A process may be killed anywhere.    *)
(*                                                                         *)
(* A directory is an object that names point to: a file that was opened    *)
(* goes on being written wherever its directory has been moved.            *)
(***************************************************************************)
EXTENDS Integers, Sequences, FiniteSets

CONSTANTS
    Ingesters,       \* processes that run an experiment
    MaxRuns          \* bound on the runs that are started

Members == <<"m1", "m2">>            \* the files in the archive, in order
Files == {Members[i] : i \in DOMAIN Members}
Size == 2                            \* parts of a file
Nowhere == 0
Free == "nobody"

VARIABLES
    archive,     \* is a verified archive in place
    runLock, runs,   \* who holds the run lock, runs started
    dirs,        \* directories: file -> parts written
    temp, dest,  \* the directory each name is, or Nowhere
    phase,       \* what each process does next
    work,        \* per process: files handled, open file, what was parsed
    output       \* the derived root

vars == <<archive, runLock, runs, dirs, temp, dest, phase, work, output>>

NoFiles == [f \in {} |-> 0]
Idle == [next |-> 1, dir |-> Nowhere, parsed |-> NoFiles]
Go(p, next) == phase' = [phase EXCEPT ![p] = next]
Set(fun, x, y) == [z \in DOMAIN fun \cup {x} |-> IF z = x THEN y ELSE fun[z]]
Current(p) == Members[work[p].next]
AllDone(p) == work[p].next > Len(Members)

(***************************************************************************)
(* The run lock, and the end of a run.                                     *)
(***************************************************************************)

(* Mutant for ReceiptIsWhole: nobody looks at the lock. *)
BeginUnlocked(p) ==
    /\ phase[p] = "idle" /\ runs < MaxRuns
    /\ runLock' = p /\ runs' = runs + 1
    /\ Go(p, "fetch") /\ work' = [work EXCEPT ![p] = Idle]
    /\ UNCHANGED <<archive, dirs, temp, dest, output>>

Begin(p) ==
    /\ phase[p] = "idle" /\ runs < MaxRuns
    /\ runLock = Free
    /\ runLock' = p /\ runs' = runs + 1
    /\ Go(p, "fetch") /\ work' = [work EXCEPT ![p] = Idle]
    /\ UNCHANGED <<archive, dirs, temp, dest, output>>

(* Any exception, the normal end and a kill all give the lock back. *)
End(p) ==
    /\ Go(p, "idle")
    /\ runLock' = IF runLock = p THEN Free ELSE runLock

Kill(p) ==
    /\ phase[p] # "idle"
    /\ End(p)
    /\ UNCHANGED <<archive, runs, dirs, temp, dest, work, output>>

(***************************************************************************)
(* The archive: downloaded aside, verified, and moved into place whole.    *)
(***************************************************************************)

FetchAlone ==
    /\ ~archive
    /\ archive' = TRUE
    /\ UNCHANGED <<runLock, runs, dirs, temp, dest, phase, work, output>>

Fetch(p) ==
    /\ phase[p] = "fetch"
    /\ \/ archive' = TRUE /\ Go(p, "check") /\ UNCHANGED runLock
       \/ ~archive /\ End(p) /\ UNCHANGED archive     \* bad bytes, or no answer
    /\ UNCHANGED <<runs, dirs, temp, dest, work, output>>

(* The derived root must be empty, whoever left something there. *)
Check(p) ==
    /\ phase[p] = "check"
    /\ IF archive /\ output.by = {} THEN Go(p, "clear") /\ UNCHANGED runLock
                                    ELSE End(p)
    /\ UNCHANGED <<archive, runs, dirs, temp, dest, work, output>>

(***************************************************************************)
(* Extraction.                                                             *)
(***************************************************************************)

Clear(p) ==
    /\ phase[p] = "clear"
    /\ temp' = Nowhere
    /\ Go(p, "make")
    /\ UNCHANGED <<archive, runLock, runs, dirs, dest, work, output>>

Make(p) ==
    /\ phase[p] = "make"
    /\ IF temp = Nowhere
       THEN /\ dirs' = Append(dirs, NoFiles)
            /\ temp' = Len(dirs')
            /\ Go(p, "extract") /\ UNCHANGED runLock
       ELSE End(p) /\ UNCHANGED <<dirs, temp>>
    /\ UNCHANGED <<archive, runs, dest, work, output>>

(* A failure while extracting removes whatever has the temporary name. *)
GiveUp(p) == End(p) /\ temp' = Nowhere /\ UNCHANGED <<dirs, work>>

OpenMember(p) ==
    /\ phase[p] = "extract" /\ ~AllDone(p) /\ work[p].dir = Nowhere
    /\ IF temp = Nowhere THEN GiveUp(p)
       ELSE /\ dirs' = [dirs EXCEPT ![temp] = Set(@, Current(p), 0)]
            /\ work' = [work EXCEPT ![p].dir = temp]
            /\ UNCHANGED <<temp, phase, runLock>>
    /\ UNCHANGED <<archive, runs, dest, output>>

WritePart(p) ==
    /\ phase[p] = "extract" /\ work[p].dir # Nowhere
    /\ LET d == work[p].dir
       IN  IF dirs[d][Current(p)] < Size
           THEN dirs' = [dirs EXCEPT ![d][Current(p)] = @ + 1] /\ UNCHANGED work
           ELSE work' = [work EXCEPT ![p].dir = Nowhere, ![p].next = @ + 1]
                /\ UNCHANGED dirs
    /\ UNCHANGED <<archive, runLock, runs, temp, dest, phase, output>>

RemoveOld(p) ==
    /\ phase[p] = "extract" /\ AllDone(p)
    /\ dest' = Nowhere
    /\ Go(p, "move")
    /\ UNCHANGED <<archive, runLock, runs, dirs, temp, work, output>>

Move(p) ==
    /\ phase[p] = "move"
    /\ IF temp = Nowhere \/ dest # Nowhere THEN GiveUp(p) /\ UNCHANGED dest
       ELSE /\ dest' = temp /\ temp' = Nowhere
            /\ Go(p, "list")
            /\ UNCHANGED <<dirs, work, runLock>>
    /\ UNCHANGED <<archive, runs, output>>

(***************************************************************************)
(* Parsing and writing.                                                    *)
(***************************************************************************)

(* The inventory must be exact. *)
List(p) ==
    /\ phase[p] = "list"
    /\ IF dest # Nowhere /\ DOMAIN dirs[dest] = Files
       THEN /\ Go(p, "parse") /\ UNCHANGED runLock
            /\ work' = [work EXCEPT ![p].next = 1]
       ELSE End(p) /\ UNCHANGED work
    /\ UNCHANGED <<archive, runs, dirs, temp, dest, output>>

(* An empty file lacks its header.  One that is cut short may still parse. *)
Found(p) == IF dest = Nowhere THEN 0 ELSE dirs[dest][Current(p)]

Parse(p) ==
    /\ phase[p] = "parse" /\ ~AllDone(p)
    /\ \/ /\ Found(p) > 0
          /\ work' = [work EXCEPT ![p].parsed = Set(@, Current(p), Found(p)),
                                  ![p].next = @ + 1]
          /\ UNCHANGED <<phase, runLock>>
       \/ /\ Found(p) < Size
          /\ End(p) /\ UNCHANGED work
    /\ UNCHANGED <<archive, runs, dirs, temp, dest, output>>

Parsed(p) ==
    /\ phase[p] = "parse" /\ AllDone(p)
    /\ Go(p, "derive") /\ work' = [work EXCEPT ![p].next = 1]
    /\ UNCHANGED <<archive, runLock, runs, dirs, temp, dest, output>>

(* Telemetry and commands of one run of the experiment. *)
Derive(p) ==
    /\ phase[p] = "derive" /\ ~AllDone(p)
    /\ LET f == Current(p)
       IN  output' = [output EXCEPT !.evidence = Set(@, f, work[p].parsed[f]),
                                    !.by = @ \cup {p}]
    /\ work' = [work EXCEPT ![p].next = @ + 1]
    /\ UNCHANGED <<archive, runLock, runs, dirs, temp, dest, phase>>

(* Evidence and truth manifests and the coverage report, then the receipt. *)
Manifests(p) ==
    /\ phase[p] = "derive" /\ AllDone(p)
    /\ output' = [output EXCEPT !.manifest = work[p].parsed]
    /\ Go(p, "receipt")
    /\ UNCHANGED <<archive, runLock, runs, dirs, temp, dest, work>>

Receipt(p) ==
    /\ phase[p] = "receipt"
    /\ output' = [output EXCEPT !.receipt = @ \cup {p}]
    /\ End(p)
    /\ UNCHANGED <<archive, runs, dirs, temp, dest, work>>

Init ==
    /\ archive = FALSE
    /\ runLock = Free /\ runs = 0
    /\ dirs = <<>> /\ temp = Nowhere /\ dest = Nowhere
    /\ phase = [p \in Ingesters |-> "idle"]
    /\ work = [p \in Ingesters |-> Idle]
    /\ output = [by |-> {}, evidence |-> NoFiles, manifest |-> NoFiles, receipt |-> {}]

Next ==
    \/ FetchAlone
    \/ \E p \in Ingesters :
          \/ Begin(p) \/ Kill(p)
          \/ Fetch(p) \/ Check(p) \/ Clear(p) \/ Make(p)
          \/ OpenMember(p) \/ WritePart(p) \/ RemoveOld(p) \/ Move(p)
          \/ List(p) \/ Parse(p) \/ Parsed(p)
          \/ Derive(p) \/ Manifests(p) \/ Receipt(p)

Spec == Init /\ [][Next]_vars

(***************************************************************************)
(* An ingestion with a receipt is whole, and one process's: every file of  *)
(* the archive was parsed to its end, and what was derived is what the     *)
(* manifests list; no killed run before it left anything in there.         *)
(***************************************************************************)
ReceiptIsWhole ==
    output.receipt # {} =>
        /\ output.evidence = [f \in Files |-> Size]
        /\ output.manifest = output.evidence
        /\ Cardinality(output.by) = 1 /\ output.receipt = output.by
=============================================================================
