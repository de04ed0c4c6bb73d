---------------------------- MODULE RunnerPreparation ----------------------------
(***************************************************************************)
(* Preparing an authenticated runner (runner_trust.py,                     *)
(* prepare_authenticated_runner): a pinned uv is staged in a fresh private *)
(* root, the wheels of the dependency lock and the archive of the pinned   *)
(* Python come from a cache or from the network, uv installs the Python,   *)
(* the wheels are unpacked, and a probe imports them.  Several processes   *)
(* prepare runners at once and share the cache, whose bytes are not to be  *)
(* trusted.                                                                *)
(*                                                                         *)
(* A stamp stands for what a stat call returns of a file.  Which wheels    *)
(* the lock asks for is the subject of LockedClosure.                      *)
(***************************************************************************)
EXTENDS Integers, FiniteSets

CONSTANTS
    Preparers,    \* processes that prepare a runner
    MaxChanges,   \* bound on what somebody else does to files
    MaxRuns       \* bound on the preparations started

Artifacts == {"wheel", "python"}
Absent == [content |-> "none", stamp |-> 0]

VARIABLES
    cache,       \* the shared file of each artifact
    stamp,       \* the last stamp given out
    changes,     \* changes by somebody else so far
    runs,        \* preparations started
    prep         \* the state of each preparer

vars == <<cache, stamp, changes, runs, prep>>

Idle ==
    [at |-> "idle", art |-> "wheel", look |-> 0, got |-> {}, uv |-> 0, bound |-> 0,
     ran |-> -1]

Done == {"done", "distrusted", "unavailable", "dead", "idle"}

(***************************************************************************)
(* What happens around the preparers.                                      *)
(***************************************************************************)

(* A file of the cache is replaced by other bytes, or removed. *)
Tamper(a) ==
    /\ changes < MaxChanges
    /\ \E content \in {"other", "none"} :
         cache' = [cache EXCEPT ![a] = [content |-> content, stamp |-> stamp + 1]]
    /\ stamp' = stamp + 1
    /\ changes' = changes + 1
    /\ UNCHANGED <<runs, prep>>

(* The staged uv is written to; 0 is the pinned content. *)
Alter(p) ==
    /\ changes < MaxChanges /\ prep[p].at \notin Done \cup {"stage"}
    /\ prep' = [prep EXCEPT ![p].uv = stamp + 1]
    /\ stamp' = stamp + 1
    /\ changes' = changes + 1
    /\ UNCHANGED <<cache, runs>>

Crash(p) ==
    /\ prep[p].at \notin Done
    /\ prep' = [prep EXCEPT ![p].at = "dead"]
    /\ UNCHANGED <<cache, stamp, changes, runs>>

(***************************************************************************)
(* Steps of a preparer.                                                    *)
(***************************************************************************)

World == <<cache, stamp, changes>>
At(p, step) == prep[p].at = step
Go(p, step) == prep' = [prep EXCEPT ![p].at = step]
Distrust(p) == Go(p, "distrusted")

(* Every preparation has a root of its own. *)
Begin(p) ==
    /\ prep[p].at \in Done /\ runs < MaxRuns
    /\ runs' = runs + 1
    /\ prep' = [prep EXCEPT ![p] = [Idle EXCEPT !.at = "stage"]]
    /\ UNCHANGED World

(* The uv that is found must be the pinned release. *)
StageUv(p) ==
    /\ At(p, "stage")
    /\ Go(p, "lock") \/ Distrust(p)
    /\ UNCHANGED <<World, runs>>

(* What is bound of an executable: its bytes, and what stat shows of it    *)
(* and of the directories that lead to it.                                 *)
Binding(p) == prep[p].uv

SameUv(p) == Binding(p) = prep[p].bound

(* The lock is read, and the wheels are resolved. *)
ReadLock(p) ==
    /\ At(p, "lock")
    /\ Go(p, "look") \/ Distrust(p)
    /\ UNCHANGED <<World, runs>>

(* A stable read: what stat shows, the bytes, what stat shows again. *)
Look(p) ==
    /\ prep[p].at \in {"look", "look again"}
    /\ prep' = [prep EXCEPT ![p].look = cache[prep[p].art].stamp,
                  ![p].at = IF @ = "look" THEN "settle" ELSE "settle again"]
    /\ UNCHANGED <<World, runs>>

StableBytes(p) ==
    LET file == cache[prep[p].art]
    IN  IF file.stamp = prep[p].look THEN file.content ELSE "changed"

(* Mutant for RunnerIsAuthentic: what the cache has is taken as it is. *)
Any(content) == content # "none"

Authentic(content) == content = "good"

(* With an artifact in hand: the archive of Python comes after the wheels. *)
Take(p, content) ==
    prep' = [prep EXCEPT ![p].got = @ \cup {<<prep[p].art, content>>},
               ![p].at = IF prep[p].art = "wheel" THEN "look" ELSE "install",
               ![p].art = "python"]

UseCache(p) ==
    /\ At(p, "settle")
    /\ IF Authentic(StableBytes(p)) THEN Take(p, StableBytes(p)) ELSE Go(p, "download")
    /\ UNCHANGED <<World, runs>>

(* Every hop must lead to an allowed host. *)
Redirected == {"elsewhere"}

(* A short answer is a failure of the network; other bytes are not. *)
Answers == {"good", "other", "short", "error"} \cup Redirected

Download(p) ==
    /\ At(p, "download")
    /\ \E answer \in Answers :
         CASE answer = "good" -> Go(p, "temp")
           [] answer \in {"other"} \cup Redirected -> Distrust(p)
           [] OTHER -> Go(p, "unavailable")
    /\ UNCHANGED <<World, runs>>

WriteTemp(p) ==
    /\ At(p, "temp")
    /\ Go(p, "replace")
    /\ UNCHANGED <<World, runs>>

Replace(p) ==
    /\ At(p, "replace")
    /\ cache' = [cache EXCEPT ![prep[p].art] = [content |-> "good", stamp |-> stamp + 1]]
    /\ stamp' = stamp + 1
    /\ Go(p, "look again")
    /\ UNCHANGED <<changes, runs>>

WriteFails(p) ==
    /\ prep[p].at \in {"temp", "replace"}
    /\ Distrust(p)
    /\ UNCHANGED <<World, runs>>

(* The file is read back, and what was read is used. *)
UsePersisted(p) ==
    /\ At(p, "settle again")
    /\ IF Authentic(StableBytes(p)) THEN Take(p, StableBytes(p))
       ELSE Distrust(p)
    /\ UNCHANGED <<World, runs>>

(* The mirror is made and uv is checked before it runs, *)
StartInstall(p) ==
    /\ At(p, "install")
    /\ IF SameUv(p) THEN Go(p, "installing") ELSE Distrust(p)
    /\ UNCHANGED <<World, runs>>

RunUv(p) ==
    /\ At(p, "installing")
    /\ prep' = [prep EXCEPT ![p].at = "installed", ![p].ran = prep[p].uv]
    /\ UNCHANGED <<World, runs>>

InstallFails(p) ==
    /\ At(p, "installing")
    /\ Go(p, "unavailable") \/ Distrust(p)
    /\ UNCHANGED <<World, runs>>

(* and again when it has run, with the mirror and the host's own tool. *)
CheckInstall(p) ==
    /\ At(p, "installed")
    /\ IF SameUv(p) THEN Go(p, "extract") ELSE Distrust(p)
    /\ UNCHANGED <<World, runs>>

Extract(p) ==
    /\ At(p, "extract")
    /\ Go(p, "probe") \/ Distrust(p)
    /\ UNCHANGED <<World, runs>>

Probe(p) ==
    /\ At(p, "probe")
    /\ Go(p, "bind") \/ Distrust(p) \/ Go(p, "unavailable")
    /\ UNCHANGED <<World, runs>>

Bind(p) ==
    /\ At(p, "bind")
    /\ IF SameUv(p) THEN Go(p, "done") ELSE Distrust(p)
    /\ UNCHANGED <<World, runs>>

Init ==
    /\ cache \in [Artifacts -> {Absent, [content |-> "good", stamp |-> 0],
                                [content |-> "other", stamp |-> 0]}]
    /\ stamp = 0 /\ changes = 0 /\ runs = 0
    /\ prep = [p \in Preparers |-> Idle]

Next ==
    \/ \E a \in Artifacts : Tamper(a)
    \/ \E p \in Preparers :
         \/ Alter(p) \/ Crash(p) \/ Begin(p) \/ StageUv(p) \/ ReadLock(p)
         \/ Look(p) \/ UseCache(p) \/ Download(p) \/ WriteTemp(p) \/ Replace(p)
         \/ WriteFails(p) \/ UsePersisted(p) \/ StartInstall(p) \/ RunUv(p)
         \/ InstallFails(p) \/ CheckInstall(p) \/ Extract(p) \/ Probe(p) \/ Bind(p)

Spec == Init /\ [][Next]_vars

(***************************************************************************)
(* A runner that is given out has only pinned bytes in it, whatever other  *)
(* processes did to the cache meanwhile, and it was the pinned uv that     *)
(* installed it.                                                           *)
(***************************************************************************)
RunnerIsAuthentic ==
    \A p \in Preparers : At(p, "done") =>
        /\ prep[p].got = {<<a, "good">> : a \in Artifacts}
        /\ prep[p].ran = 0
=============================================================================
