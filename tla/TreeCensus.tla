----------------------------- MODULE TreeCensus -----------------------------
(***************************************************************************)
(* Reading a directory tree that somebody else may be writing to.  Two     *)
(* readers of the code promise to notice changes:                          *)
(*                                                                         *)
(*   "snapshot"  terminal_authority.py, snapshot_acquisition_input and     *)
(*               verify_input_manifest_replay: every file is checked       *)
(*               around its own reading, then the list of paths is taken   *)
(*               again; a later replay must find the same manifest;        *)
(*   "census"    acquisition.py, _working_source_census: every directory   *)
(*               and file stays open, and all of them are looked at again  *)
(*               after the last one was read.                              *)
(*                                                                         *)
(* The tree is a root with one subdirectory.  A file is read in two parts. *)
(* Every change gives the object it touches a new stamp, which stands for  *)
(* what a stat call returns (device, inode, links, size, times).  Two      *)
(* changes within one clock tick of the file system are out of scope, and  *)
(* so is a content that was put back: every change brings a new one.       *)
(***************************************************************************)
EXTENDS Integers, Sequences, FiniteSets

CONSTANTS
    MaxChanges    \* bound on the changes the writer makes

Root == "root"
Sub == "sub"
Place == [a |-> Root, b |-> Sub]     \* the directory each file is in
Files == DOMAIN Place
Order == <<"a", "b">>                \* the order in which readers meet them
Gone == 0

VARIABLES
    objects,     \* file contents by identity: [text, stamp]
    entry,       \* which object each name is, or Gone
    stamps,      \* the stamp of each directory
    changes,     \* changes so far; also the source of fresh stamps
    history,     \* every content each name has had
    reader       \* the state of the reader

vars == <<objects, entry, stamps, changes, history, reader>>

Text(f) == objects[entry[f]].text
Present == {f \in Files : entry[f] # Gone}
Tree == [f \in Present |-> Text(f)]

(***************************************************************************)
(* The writer.                                                             *)
(***************************************************************************)

Fresh == changes + 1

Note(f, object) == history' = history \cup {<<f, objects'[object].text>>}

(* One part of a file is overwritten in place. *)
Write(f, part) ==
    /\ changes < MaxChanges /\ entry[f] # Gone
    /\ objects' = [objects EXCEPT ![entry[f]].text[part] = Fresh,
                                  ![entry[f]].stamp = Fresh]
    /\ changes' = Fresh
    /\ Note(f, entry[f])
    /\ UNCHANGED <<entry, stamps, reader>>

(* A new file takes the name, whether there was one or not; the old one    *)
(* loses its last link.                                                    *)
Put(f) ==
    /\ changes < MaxChanges
    /\ objects' = [o \in DOMAIN objects \cup {Fresh} |->
                     IF o = Fresh THEN [text |-> <<Fresh, Fresh>>, stamp |-> Fresh]
                     ELSE IF o = entry[f] THEN [objects[o] EXCEPT !.stamp = Fresh]
                     ELSE objects[o]]
    /\ entry' = [entry EXCEPT ![f] = Fresh]
    /\ stamps' = [stamps EXCEPT ![Place[f]] = Fresh]
    /\ changes' = Fresh
    /\ Note(f, Fresh)
    /\ UNCHANGED reader

Remove(f) ==
    /\ changes < MaxChanges /\ entry[f] # Gone
    /\ objects' = [objects EXCEPT ![entry[f]].stamp = Fresh]
    /\ entry' = [entry EXCEPT ![f] = Gone]
    /\ stamps' = [stamps EXCEPT ![Place[f]] = Fresh]
    /\ changes' = Fresh
    /\ UNCHANGED <<history, reader>>

(***************************************************************************)
(* Reading one file: open, read, and compare what the descriptor and the   *)
(* name show afterwards with what they showed before.                      *)
(***************************************************************************)

World == <<objects, entry, stamps, changes, history>>

Refuse == reader' = [reader EXCEPT !.at = "refused"]

Left == {f \in reader.listed : f \notin DOMAIN reader.found}

NextFile == CHOOSE f \in Left :
               \A g \in Left : g = f \/ (f = "a" /\ g = "b")

(* In the census a file of the subdirectory waits for its directory. *)
Open ==
    /\ reader.at = "files" /\ Left # {}
    /\ LET f == NextFile
       IN  IF entry[f] = Gone THEN Refuse
           ELSE reader' = [reader EXCEPT
                    !.at = "reading",
                    !.open = [file |-> f, id |-> entry[f],
                              stamp |-> objects[entry[f]].stamp, got |-> <<>>]]
    /\ UNCHANGED World

ReadPart ==
    /\ reader.at = "reading" /\ Len(reader.open.got) < 2
    /\ LET text == objects[reader.open.id].text
       IN  reader' = [reader EXCEPT !.open.got =
                          Append(@, text[Len(@) + 1])]
    /\ UNCHANGED World

(* Mutant for AcceptedTreeExisted: only the name is looked at again. *)
UnchangedName(held) == entry[held.file] = held.id

Unchanged(held) ==
    /\ objects[held.id].stamp = held.stamp
    /\ entry[held.file] = held.id

Close ==
    /\ reader.at = "reading" /\ Len(reader.open.got) = 2
    /\ IF ~Unchanged(reader.open) THEN Refuse
       ELSE LET done == [f \in DOMAIN reader.found \cup {reader.open.file} |->
                            IF f = reader.open.file THEN reader.open
                            ELSE reader.found[f]]
            IN  reader' = [reader EXCEPT !.at = "files", !.found = done]
    /\ UNCHANGED World

Found == [f \in DOMAIN reader.found |-> reader.found[f].got]

(***************************************************************************)
(* The snapshot, and its replay.                                           *)
(***************************************************************************)

None == [f \in {} |-> 0]

Inventory ==
    /\ reader.mode = "snapshot" /\ reader.at = "start"
    /\ IF Present = {} THEN Refuse
       ELSE reader' = [reader EXCEPT !.at = "files", !.listed = Present,
                                     !.dirs = [stamps EXCEPT ![Sub] = 0]]
    /\ UNCHANGED World

(* The inventory and the root must be as before.  The first time this      *)
(* gives the manifest; the second time the manifests must be equal.        *)
Finish ==
    /\ reader.mode = "snapshot" /\ reader.at = "files" /\ Left = {}
    /\ IF Present # reader.listed \/ stamps[Root] # reader.dirs[Root] THEN Refuse
       ELSE IF reader.manifest = None
       THEN reader' = [reader EXCEPT !.at = "accepted", !.manifest = Found,
                                     !.held = (Tree = Found)]
       ELSE reader' = [reader EXCEPT
                           !.at = IF Found = reader.manifest THEN "replayed"
                                  ELSE "refused"]
    /\ UNCHANGED World

Replay ==
    /\ reader.mode = "snapshot" /\ reader.at = "accepted"
    /\ reader' = [reader EXCEPT !.at = "start", !.found = None, !.listed = {}]
    /\ UNCHANGED World

(***************************************************************************)
(* The census.                                                             *)
(***************************************************************************)

(* Scanning the root opens the subdirectory after the files before it. *)
ScanRoot ==
    /\ reader.mode = "census" /\ reader.at = "start"
    /\ reader' = [reader EXCEPT
                    !.at = "files",
                    !.listed = {f \in Present : Place[f] = Root},
                    !.dirs = [stamps EXCEPT ![Sub] = 0]]
    /\ UNCHANGED World

OpenSub ==
    /\ reader.mode = "census" /\ reader.at = "files" /\ Left = {}
    /\ reader.dirs[Sub] = 0
    /\ reader' = [reader EXCEPT !.at = "sub", !.dirs = [@ EXCEPT ![Sub] = stamps[Sub]]]
    /\ UNCHANGED World

ScanSub ==
    /\ reader.at = "sub"
    /\ reader' = [reader EXCEPT
                    !.at = "files",
                    !.listed = @ \cup {f \in Present : Place[f] = Sub}]
    /\ UNCHANGED World

(* The second look begins; everything is open yet. *)
Recheck ==
    /\ reader.mode = "census" /\ reader.at = "files" /\ Left = {}
    /\ reader.dirs[Sub] # 0
    /\ reader' = [reader EXCEPT !.at = "dirs", !.left = reader.listed,
                                !.manifest = Found, !.held = (Tree = Found)]
    /\ UNCHANGED World

RecheckDir(step, d, next) ==
    /\ reader.at = step
    /\ IF stamps[d] = reader.dirs[d] THEN reader' = [reader EXCEPT !.at = next]
                                     ELSE Refuse
    /\ UNCHANGED World

(* One directory after the other, and then the root by its path. *)
RecheckDirs ==
    \/ RecheckDir("dirs", Root, "below")
    \/ RecheckDir("below", Sub, "path")
    \/ RecheckDir("path", Root, "again")

RecheckFile ==
    /\ reader.at = "again"
    /\ IF reader.left = {}
       THEN reader' = [reader EXCEPT !.at = "taken"]
       ELSE \E f \in reader.left :
              IF Unchanged(reader.found[f])
              THEN reader' = [reader EXCEPT !.left = @ \ {f}]
              ELSE Refuse
    /\ UNCHANGED World

(***************************************************************************)
(* The specification.                                                      *)
(***************************************************************************)

Start(mode) ==
    [mode |-> mode, at |-> "start", listed |-> {}, found |-> None,
     open |-> None, dirs |-> None, manifest |-> None, left |-> {},
     held |-> FALSE]

Init ==
    /\ objects = [o \in {-1, -2} |-> [text |-> <<o, o>>, stamp |-> o]]
    /\ entry \in {[a |-> -1, b |-> -2], [a |-> -1, b |-> Gone]}
    /\ stamps = [d \in {Root, Sub} |-> -3]
    /\ changes = 0
    /\ history = {<<f, objects[entry[f]].text>> : f \in {g \in Files : entry[g] # Gone}}
    /\ reader \in {Start("snapshot"), Start("census")}

Next ==
    \/ \E f \in Files : Put(f) \/ Remove(f) \/ \E part \in 1..2 : Write(f, part)
    \/ Open \/ ReadPart \/ Close
    \/ Inventory \/ Finish \/ Replay
    \/ ScanRoot \/ OpenSub \/ ScanSub \/ Recheck \/ RecheckDirs \/ RecheckFile

Spec == Init /\ [][Next]_vars

(***************************************************************************)
(* What an accepted tree is worth.  No entry is a mixture: each is what    *)
(* that name held at one moment.  A census is moreover the whole tree at   *)
(* one moment, though the writer never stopped; and a snapshot is, once    *)
(* its replay has agreed (terminal_authority.py,                           *)
(* verify_input_manifest_replay).  A snapshot alone is not: it may join    *)
(* an old file with a new one.                                             *)
(***************************************************************************)
AcceptedTreeExisted ==
    /\ reader.at \in {"accepted", "replayed", "taken"} =>
          \A f \in DOMAIN reader.manifest : <<f, reader.manifest[f]>> \in history
    /\ reader.at \in {"replayed", "taken"} => reader.held
=============================================================================
