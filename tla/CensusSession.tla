--------------------------- MODULE CensusSession ---------------------------
(***************************************************************************)
(* src/fieldtrue/census_execution.py: a leased retrieval session.  Any     *)
(* number of processes present leases for one session identifier, and the  *)
(* session's store directory decides which of them is served.  A session   *)
(* retrieves bodies over a transport, charges them against the frozen      *)
(* ceiling, keeps each as a blob named by its digest, and appends a record *)
(* to the store's manifest.  Processes crash; a write to the store fails.  *)
(*                                                                         *)
(* A body is a model value standing for its digest.  A uri is one of two   *)
(* kinds, inside or outside the committed frame.  Where the transport was  *)
(* redirected to is not modelled: no rule of the session looks at it.      *)
(***************************************************************************)
EXTENDS Naturals, Sequences, SequencesExt, FiniteSets

CONSTANTS
  Openers,        \* processes that present a lease
  Candidates,     \* source candidates
  Bodies,         \* contents of responses
  Size,           \* the length of each body
  Ceiling,        \* CEILING_RETRIEVED_BYTES
  NotBefore, ExpiresAt,   \* the lease's window
  MaxTime,        \* bound on the clock
  MaxRetrievals,  \* bound on the retrievals of one session
  Garbled         \* a line of the manifest that is not a record

ASSUME SessionAssumption ==
  /\ Candidates # {} /\ Bodies # {}
  /\ Size \in [Bodies -> Nat]
  /\ {Ceiling, NotBefore, ExpiresAt, MaxTime, MaxRetrievals} \subseteq Nat
  /\ NotBefore < ExpiresAt

VARIABLES
  clock,
  store,      \* .local/census/<session>: "absent", "root" (no blobs yet) or "open"
  blobs,      \* each blob file: "absent", "partial" or "whole"
  manifest,   \* the lines of manifest.jsonl
  torn,       \* does the manifest end in a line cut short
  pc,
  lease,      \* the lease a process holds
  spent,      \* CensusSession._retrieved_bytes
  failed,     \* CensusSession._failed_candidates
  counted,    \* the length of CensusSession._records
  request,    \* the candidate and the moment of the retrieval under way
  body,       \* the body the transport returned
  served,     \* sessions that were opened (history)
  stopped,    \* candidates that ever had a failing gate recorded (history)
  writeFailed \* did a write to the store ever raise (history)

disk == <<store, blobs, manifest, torn>>
session == <<lease, spent, failed, counted>>
call == <<request, body>>
history == <<served, stopped, writeFailed>>
vars == <<clock, disk, pc, session, call, history>>

Record == [candidate : Candidates, at : 0..MaxTime, bytes : Range(Size), body : Bodies]

Keys == {"owner", "other"}
Registries == {"committed", "another"}

\* CensusExecutionLease: what a lease restates of the approved scope, the frame
\* registry it binds, the ceiling it grants and who signed its hash.
Lease == [scope : {"approved", "another"}, registry : Registries,
          max : {Ceiling, Ceiling + 1}, signer : Keys]

\* issue_census_lease: the scope and the ceiling are no parameters.
IssueLease(key, registry) ==
  [scope |-> "approved", registry |-> registry, max |-> Ceiling, signer |-> key]

Valid(at) == NotBefore <= at /\ at < ExpiresAt

\* verify_census_lease, given the registry bytes that are on disk.
VerifyLease(l, registry, at) ==
  /\ l.scope = "approved"
  /\ l.registry = registry
  /\ l.max = Ceiling
  /\ Valid(at)
  /\ l.signer = "owner"

NoLease == IssueLease("owner", "committed")
NoBody == CHOOSE b \in Bodies : TRUE
NoRequest == [candidate |-> CHOOSE c \in Candidates : TRUE, at |-> 0]

Init ==
  /\ clock = 0
  /\ store = "absent"
  /\ blobs = [b \in Bodies |-> "absent"]
  /\ manifest = <<>>
  /\ torn = FALSE
  /\ pc = [p \in Openers |-> "closed"]
  /\ lease = [p \in Openers |-> NoLease]
  /\ spent = [p \in Openers |-> 0]
  /\ failed = [p \in Openers |-> {}]
  /\ counted = [p \in Openers |-> 0]
  /\ request = [p \in Openers |-> NoRequest]
  /\ body = [p \in Openers |-> NoBody]
  /\ served = 0
  /\ stopped = {}
  /\ writeFailed = FALSE

Goto(p, label) == pc' = [pc EXCEPT ![p] = label]

Tick ==
  /\ clock < MaxTime
  /\ clock' = clock + 1
  /\ UNCHANGED <<disk, pc, session, call, history>>
----------------------------------------------------------------------------
(* CensusSession.__init__                                                  *)

\* The lease is verified against the committed registry, the session's memory
\* is fresh, and the store must not exist.
Open(p) ==
  /\ pc[p] = "closed" /\ store = "absent"
  /\ \E l \in Lease :
       /\ VerifyLease(l, "committed", clock)
       /\ lease' = [lease EXCEPT ![p] = l]
  /\ spent' = [spent EXCEPT ![p] = 0]
  /\ failed' = [failed EXCEPT ![p] = {}]
  /\ counted' = [counted EXCEPT ![p] = 0]
  /\ Goto(p, "mkdir")
  /\ UNCHANGED <<clock, disk, call, history>>

\* mkdir(parents=True): the store itself, which may have been created meanwhile.
MakeRoot(p) ==
  /\ pc[p] = "mkdir"
  /\ store' = IF store = "absent" THEN "root" ELSE store
  /\ Goto(p, "blobs")
  /\ UNCHANGED <<clock, blobs, manifest, torn, session, call, history>>

\* Mutant: mkdir(parents=True, exist_ok=True).
MakeBlobsExistOk(p) ==
  /\ pc[p] = "blobs"
  /\ store' = "open"
  /\ served' = served + 1
  /\ Goto(p, "ready")
  /\ UNCHANGED <<clock, blobs, manifest, torn, session, call, stopped, writeFailed>>

\* ... and the blobs directory, which must be this process's to create.
MakeBlobs(p) ==
  /\ pc[p] = "blobs" /\ store = "root"
  /\ store' = "open"
  /\ served' = served + 1
  /\ Goto(p, "ready")
  /\ UNCHANGED <<clock, blobs, manifest, torn, session, call, stopped, writeFailed>>

\* Another process was first: FileExistsError.
RefuseBlobs(p) ==
  /\ pc[p] = "blobs" /\ store = "open"
  /\ Goto(p, "closed")
  /\ UNCHANGED <<clock, disk, session, call, history>>
----------------------------------------------------------------------------
(* CensusSession.record_failed_gate and CensusSession.retrieve             *)

RecordFailedGate(p, c) ==
  /\ pc[p] = "ready"
  /\ failed' = [failed EXCEPT ![p] = @ \cup {c}]
  /\ stopped' = stopped \cup {c}
  /\ UNCHANGED <<clock, disk, pc, lease, spent, counted, call, served, writeFailed>>

\* Mutant: the stop rule is left to the caller.
RetrieveStopped(p, c) ==
  /\ pc[p] = "ready" /\ counted[p] < MaxRetrievals
  /\ Valid(clock)
  /\ request' = [request EXCEPT ![p] = [candidate |-> c, at |-> clock]]
  /\ Goto(p, "transport")
  /\ UNCHANGED <<clock, disk, session, body, history>>

\* The moment is read once, and the request must be in the window, of a candidate
\* that has not failed, and to an https host of the frame.  (Where the uri is not,
\* or any other test fails, the call raises and nothing changes.)
Retrieve(p, c) ==
  /\ pc[p] = "ready" /\ counted[p] < MaxRetrievals
  /\ Valid(clock)
  /\ c \notin failed[p]
  /\ request' = [request EXCEPT ![p] = [candidate |-> c, at |-> clock]]
  /\ Goto(p, "transport")
  /\ UNCHANGED <<clock, disk, session, body, history>>

\* The transport answers 200 with a body, after at most MAX_REDIRECT_HOPS hops.
Answer(p, b) ==
  /\ pc[p] = "transport"
  /\ body' = [body EXCEPT ![p] = b]
  /\ Goto(p, "admit")
  /\ UNCHANGED <<clock, disk, session, request, history>>

\* Or it raises, answers another status, or was redirected too often.
AnswerRefused(p) ==
  /\ pc[p] = "transport"
  /\ Goto(p, "ready")
  /\ UNCHANGED <<clock, disk, session, call, history>>

\* Mutant: only a body that is not in the store yet is charged.
AdmitNewOnly(p) ==
  /\ pc[p] = "admit"
  /\ spent[p] + Size[body[p]] <= lease[p].max
  /\ spent' = [spent EXCEPT ![p] = IF blobs[body[p]] = "absent" THEN @ + Size[body[p]] ELSE @]
  /\ Goto(p, "blob")
  /\ UNCHANGED <<clock, disk, lease, failed, counted, call, history>>

\* Mutant: the record is made first and the blob left for later.
AdmitUnstored(p) ==
  /\ pc[p] = "admit"
  /\ spent[p] + Size[body[p]] <= lease[p].max
  /\ spent' = [spent EXCEPT ![p] = @ + Size[body[p]]]
  /\ Goto(p, "record")
  /\ UNCHANGED <<clock, disk, lease, failed, counted, call, history>>

\* The body has arrived before its length is compared with what is left.
Admit(p) ==
  /\ pc[p] = "admit"
  /\ spent[p] + Size[body[p]] <= lease[p].max
  /\ spent' = [spent EXCEPT ![p] = @ + Size[body[p]]]
  /\ Goto(p, "blob")
  /\ UNCHANGED <<clock, disk, lease, failed, counted, call, history>>

RefuseBody(p) ==
  /\ pc[p] = "admit"
  /\ spent[p] + Size[body[p]] > lease[p].max
  /\ Goto(p, "ready")
  /\ UNCHANGED <<clock, disk, session, call, history>>

\* A blob that exists is believed; a new one is opened, which truncates it ...
OpenBlob(p) ==
  /\ pc[p] = "blob"
  /\ IF blobs[body[p]] # "absent"
       THEN blobs' = blobs /\ Goto(p, "record")
       ELSE blobs' = [blobs EXCEPT ![body[p]] = "partial"] /\ Goto(p, "fill")
  /\ UNCHANGED <<clock, store, manifest, torn, session, call, history>>

\* ... and filled.
FillBlob(p) ==
  /\ pc[p] = "fill"
  /\ blobs' = [blobs EXCEPT ![body[p]] = "whole"]
  /\ Goto(p, "record")
  /\ UNCHANGED <<clock, store, manifest, torn, session, call, history>>

\* The write raises; the session goes on if its caller does.
FillFails(p) ==
  /\ pc[p] = "fill"
  /\ writeFailed' = TRUE
  /\ Goto(p, "ready")
  /\ UNCHANGED <<clock, disk, session, call, served, stopped>>

\* The record is kept in memory before it is written.
KeepRecord(p) ==
  /\ pc[p] = "record"
  /\ counted' = [counted EXCEPT ![p] = @ + 1]
  /\ Goto(p, "line")
  /\ UNCHANGED <<clock, disk, lease, spent, failed, call, history>>

NewRecord(p) == [candidate |-> request[p].candidate, at |-> request[p].at,
                 bytes |-> Size[body[p]], body |-> body[p]]

\* A line is appended to whatever the file ends with.
AppendLine(p) ==
  /\ pc[p] = "line"
  /\ manifest' = Append(manifest, IF torn THEN Garbled ELSE NewRecord(p))
  /\ torn' = FALSE
  /\ Goto(p, "ready")
  /\ UNCHANGED <<clock, store, blobs, session, call, history>>

\* The append raises with part of the line written.
AppendFails(p) ==
  /\ pc[p] = "line"
  /\ torn' = TRUE
  /\ writeFailed' = TRUE
  /\ Goto(p, "ready")
  /\ UNCHANGED <<clock, store, blobs, manifest, session, call, served, stopped>>

\* The process ends wherever it is: what the operating system had not been given
\* of a line is lost, and the session's memory with it.
Crash(p) ==
  /\ pc[p] # "closed"
  /\ Goto(p, "closed")
  /\ torn' \in IF pc[p] = "line" THEN {torn, TRUE} ELSE {torn}
  /\ UNCHANGED <<clock, store, blobs, manifest, session, call, history>>

Next ==
  \/ Tick
  \/ \E p \in Openers :
       \/ Open(p) \/ MakeRoot(p) \/ MakeBlobs(p) \/ RefuseBlobs(p)
       \/ \E c \in Candidates : RecordFailedGate(p, c) \/ Retrieve(p, c)
       \/ \E b \in Bodies : Answer(p, b)
       \/ AnswerRefused(p) \/ Admit(p) \/ RefuseBody(p)
       \/ OpenBlob(p) \/ FillBlob(p) \/ FillFails(p)
       \/ KeepRecord(p) \/ AppendLine(p) \/ AppendFails(p)
       \/ Crash(p)

Spec == Init /\ [][Next]_vars
----------------------------------------------------------------------------
Records == {manifest[i] : i \in {j \in DOMAIN manifest : manifest[j] # Garbled}}

\* The bytes the manifest's records claim, repetitions included.
ClaimedBytes ==
  [i \in DOMAIN manifest |-> IF manifest[i] = Garbled THEN 0 ELSE manifest[i].bytes]
Claimed == SumFunction(ClaimedBytes)

\* The blobs that are there, whole or not.
Stored == {b \in Bodies : blobs[b] # "absent"}

\* CensusSession.execution_binding
ExecutionBinding(p) == [count |-> counted[p], bytes |-> spent[p]]

TypeOK ==
  /\ clock \in 0..MaxTime
  /\ store \in {"absent", "root", "open"}
  /\ blobs \in [Bodies -> {"absent", "partial", "whole"}]
  /\ manifest \in Seq(Record \cup {Garbled})
  /\ torn \in BOOLEAN /\ writeFailed \in BOOLEAN
  /\ pc \in [Openers -> {"closed", "mkdir", "blobs", "ready", "transport", "admit",
                         "blob", "fill", "record", "line"}]
  /\ lease \in [Openers -> Lease]
  /\ spent \in [Openers -> 0..Ceiling]
  /\ failed \in [Openers -> SUBSET Candidates]
  /\ counted \in [Openers -> 0..MaxRetrievals]
  /\ request \in [Openers -> [candidate : Candidates, at : 0..MaxTime]]
  /\ body \in [Openers -> Bodies]
  /\ served \in Nat
  /\ stopped \subseteq Candidates

\* However many processes present leases for one session, race and crash, at most
\* one of them is ever served, and the store it was served from stays.
OneLeaseOneSession == served <= 1 /\ (served = 1 => store = "open")

\* What the manifest claims was retrieved fits the frozen ceiling, the blobs on
\* disk fit what was claimed or charged, and the binding a live session reports
\* leaves out neither a retrieval nor a byte of the manifest.
CeilingIsKept ==
  /\ Claimed <= Ceiling
  /\ \A p \in Openers :
       LET binding == ExecutionBinding(p) IN
       pc[p] \notin {"closed", "mkdir", "blobs"} =>
         /\ Claimed <= binding.bytes /\ binding.bytes <= Ceiling
         /\ Len(manifest) <= binding.count
         /\ SumFunctionOnSet(Size, Stored) <= binding.bytes

\* Every record of the manifest names a blob that is whole, whatever crashed: only
\* a write that raised and was survived can break this.
RecordsAreBacked ==
  writeFailed \/ \A r \in Records : blobs[r.body] = "whole"

\* Once a candidate has a failing gate, no process ever adds a record of it,
\* although the stop rule lives in one process's memory.
StopRule ==
  [][\A c \in stopped :
       Len(manifest') > Len(manifest) =>
         Last(manifest') = Garbled \/ Last(manifest').candidate # c]_vars
=============================================================================
