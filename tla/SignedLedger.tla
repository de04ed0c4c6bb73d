---------------------------- MODULE SignedLedger ----------------------------
(***************************************************************************)
(* src/fieldtrue/receipts.py: SignedLedger.append, run by several processes *)
(* against one ledger file and one head file, and verify_ledger, which      *)
(* reads both without the lock.  An append takes the advisory file lock,    *)
(* parses and verifies the file, builds and signs one event, writes one     *)
(* line, replaces the head file and releases the lock; a crash or an        *)
(* exception may end it after any of these steps.                           *)
(*                                                                          *)
(* Hashes and signatures are ideal: an event's hash is a number no other    *)
(* event has, and `origin' stands for what one ledger may not mix: the      *)
(* signing key, the run ID and the runtime identity.                        *)
(***************************************************************************)
EXTENDS LedgerRules

CONSTANTS
  Writers,    \* processes that append
  Readers,    \* processes that verify
  Origins,    \* (signing key, run ID, runtime) triples
  OriginOf,   \* the origin each writer signs with
  Pinned,     \* the origin the signer anchor pins
  Nobody,     \* the lock's holder, and a writer's event, when there is none
  Times,      \* wall-clock readings
  MaxHash,    \* bound on the events ever built
  Remains     \* what an interrupted write may leave after the last full line

ASSUME LedgerAssumption ==
  /\ OriginOf \in [Writers -> Origins]
  /\ Pinned \in Origins
  /\ Nobody \notin Writers
  /\ Times \subseteq Nat
  /\ MaxHash \in Nat
  /\ Remains \subseteq {"fragment", "unterminated"}

VARIABLES
  events,    \* the events the file parses to, its unfinished tail apart
  tail,      \* "clean": the file ends in a newline; "fragment": in a piece of a
             \* line; "unterminated": in a whole event without its newline
  head,      \* the head file
  lock,      \* holder of the exclusive lock
  pc,        \* where each writer is inside append
  known,     \* the events a writer parsed
  pending,   \* the event a writer has built
  minted,    \* hashes given out so far
  seen,      \* the events a reader has parsed and not yet compared with the head
  attested   \* the events a reader last returned a verification for

vars == <<events, tail, head, lock, pc, known, pending, minted, seen, attested>>
file == <<events, tail, head>>
readers == <<seen, attested>>

Genesis == 0
Event == [hash : Nat, prev : Nat, type : EventTypes, origin : Origins, time : Times]
NoHead == [count |-> 0, hash |-> Genesis, origin |-> Nobody]
LedgerHead == [count : Nat, hash : Nat, origin : Origins] \cup {NoHead}

Types(es) == [i \in 1..Len(es) |-> es[i].type]

\* _verify_event and _verify_events: the chain, a single origin, monotone
\* timestamps and the lifecycle.
VerifyEvents(es) ==
  /\ \A i \in 1..Len(es) : es[i].prev = IF i = 1 THEN Genesis ELSE es[i - 1].hash
  /\ \A i \in 1..Len(es) : es[i].origin = es[1].origin
  /\ \A i \in 2..Len(es) : es[i - 1].time <= es[i].time
  /\ Lifecycle(Types(es))

\* The hash the next event must name, and _verify_events' first result.
LastHash(es) == IF es = <<>> THEN Genesis ELSE es[Len(es)].hash

\* _parse_events rejects a piece of a line.  It splits on newlines without
\* asking for the last one, so a whole event with no newline after it parses.
Parses == tail # "fragment"
----------------------------------------------------------------------------
Init ==
  /\ events = <<>> /\ tail = "clean" /\ head = NoHead
  /\ lock = Nobody
  /\ pc = [w \in Writers |-> "idle"]
  /\ known = [w \in Writers |-> <<>>]
  /\ pending = [w \in Writers |-> Nobody]
  /\ minted = 0
  /\ seen = [r \in Readers |-> <<>>]
  /\ attested = [r \in Readers |-> <<>>]

\* Mutant: the lock is not exclusive.
LockShared(w) ==
  /\ pc[w] = "idle"
  /\ lock' = w
  /\ pc' = [pc EXCEPT ![w] = "locked"]
  /\ UNCHANGED <<file, known, pending, minted, readers>>

\* append opens the file for appending and takes the exclusive lock on it.
Lock(w) ==
  /\ pc[w] = "idle"
  /\ lock = Nobody
  /\ lock' = w
  /\ pc' = [pc EXCEPT ![w] = "locked"]
  /\ UNCHANGED <<file, known, pending, minted, readers>>

\* Whatever ends an append closes the file, which drops the lock.
Release(w) ==
  /\ lock' = Nobody
  /\ pc' = [pc EXCEPT ![w] = "idle"]
  /\ known' = [known EXCEPT ![w] = <<>>]
  /\ pending' = [pending EXCEPT ![w] = Nobody]
  /\ UNCHANGED <<minted, readers>>

\* The file parses, verifies and is signed by this writer, or it is empty.
Usable(w) ==
  /\ Parses
  /\ VerifyEvents(events)
  /\ events # <<>> => events[1].origin = OriginOf[w]

\* The whole file is read under the lock.
Parse(w) ==
  /\ pc[w] = "locked"
  /\ Usable(w)
  /\ known' = [known EXCEPT ![w] = events]
  /\ pc' = [pc EXCEPT ![w] = "parsed"]
  /\ UNCHANGED <<file, lock, pending, minted, readers>>

\* LedgerVerificationError: the file does not parse or belongs to another signer.
RefuseLedger(w) ==
  /\ pc[w] = "locked"
  /\ ~Usable(w)
  /\ Release(w)
  /\ UNCHANGED file

NewEvent(w, t, now) ==
  [hash |-> minted + 1, prev |-> LastHash(known[w]), type |-> t,
   origin |-> OriginOf[w], time |-> now]

\* The event is built, signed and verified at the end of the parsed ledger.
Build(w, t, now) ==
  /\ pc[w] = "parsed"
  /\ minted < MaxHash
  /\ VerifyEvents(Append(known[w], NewEvent(w, t, now)))
  /\ pending' = [pending EXCEPT ![w] = NewEvent(w, t, now)]
  /\ minted' = minted + 1
  /\ pc' = [pc EXCEPT ![w] = "built"]
  /\ UNCHANGED <<file, lock, known, readers>>

\* LedgerVerificationError: the event breaks the lifecycle or the clock order.
RefuseEvent(w, t, now) ==
  /\ pc[w] = "parsed"
  /\ ~VerifyEvents(Append(known[w], NewEvent(w, t, now)))
  /\ Release(w)
  /\ UNCHANGED file

\* Mutant: the file is opened for update at its last line, not for appending.
WriteOver(w) ==
  /\ pc[w] = "built"
  /\ events' = Append(SubSeq(events, 1, Len(events) - 1), pending[w])
  /\ pc' = [pc EXCEPT ![w] = "written"]
  /\ UNCHANGED <<tail, head, lock, known, pending, minted, readers>>

\* The event's line is written at the end of the file and fsynced.  When the
\* last line has no newline the two share a line, which no longer parses.
WriteLine(w) ==
  /\ pc[w] = "built"
  /\ IF tail = "unterminated"
     THEN /\ events' = SubSeq(events, 1, Len(events) - 1)
          /\ tail' = "fragment"
     ELSE /\ events' = Append(events, pending[w])
          /\ tail' = tail
  /\ pc' = [pc EXCEPT ![w] = "written"]
  /\ UNCHANGED <<head, lock, known, pending, minted, readers>>

\* The write is cut short (a crash, a full disk).  The event is one write and
\* its newline another, so a long event can reach the file without it.
CutShort(w, rest) ==
  /\ pc[w] = "built"
  /\ IF tail = "unterminated"
     THEN /\ events' = SubSeq(events, 1, Len(events) - 1)
          /\ tail' = "fragment"
     ELSE /\ events' = IF rest = "unterminated" THEN Append(events, pending[w]) ELSE events
          /\ tail' = rest
  /\ Release(w)
  /\ UNCHANGED head

\* Mutant: the head counts the events that were parsed, without the new one.
WriteHeadBehind(w) ==
  /\ pc[w] = "written"
  /\ head' = [count |-> Len(known[w]), hash |-> pending[w].hash, origin |-> OriginOf[w]]
  /\ Release(w)
  /\ UNCHANGED <<events, tail>>

\* _write_head replaces the head file, and append returns its event.
WriteHead(w) ==
  /\ pc[w] = "written"
  /\ head' = [count |-> Len(known[w]) + 1, hash |-> pending[w].hash,
              origin |-> OriginOf[w]]
  /\ Release(w)
  /\ UNCHANGED <<events, tail>>

\* A crash, or an exception between two effects: nothing more is written.
Interrupt(w) ==
  /\ pc[w] # "idle"
  /\ Release(w)
  /\ UNCHANGED file

\* verify_ledger parses and verifies the ledger file, without the lock ...
ReadLedger(r) ==
  /\ seen[r] = <<>>
  /\ events # <<>> /\ Parses /\ VerifyEvents(events)
  /\ seen' = [seen EXCEPT ![r] = events]
  /\ UNCHANGED <<file, lock, pc, known, pending, minted, attested>>

\* Mutant: only the signer of the head is compared.
HeadSigned(es) ==
  /\ head # NoHead
  /\ es[1].origin = Pinned /\ head.origin = Pinned

\* ... and then reads the head file, which must match what it read before.
HeadMatches(es) ==
  /\ head # NoHead
  /\ head.count = Len(es) /\ head.hash = LastHash(es)
  /\ es[1].origin = Pinned /\ head.origin = Pinned

ReadHead(r) ==
  /\ seen[r] # <<>>
  /\ seen' = [seen EXCEPT ![r] = <<>>]
  /\ attested' = IF HeadMatches(seen[r]) THEN [attested EXCEPT ![r] = seen[r]] ELSE attested
  /\ UNCHANGED <<file, lock, pc, known, pending, minted>>

Next ==
  \/ \E w \in Writers : \/ Lock(w) \/ Parse(w) \/ RefuseLedger(w)
                        \/ WriteLine(w) \/ WriteHead(w) \/ Interrupt(w)
  \/ \E w \in Writers, t \in EventTypes, now \in Times :
       Build(w, t, now) \/ RefuseEvent(w, t, now)
  \/ \E w \in Writers, rest \in Remains : CutShort(w, rest)
  \/ \E r \in Readers : ReadLedger(r) \/ ReadHead(r)

Spec == Init /\ [][Next]_vars
----------------------------------------------------------------------------
TypeOK ==
  /\ events \in Seq(Event)
  /\ tail \in {"clean", "fragment", "unterminated"}
  /\ head \in LedgerHead
  /\ lock \in Writers \cup {Nobody}
  /\ pc \in [Writers -> {"idle", "locked", "parsed", "built", "written"}]
  /\ known \in [Writers -> Seq(Event)]
  /\ pending \in [Writers -> Event \cup {Nobody}]
  /\ minted \in Nat
  /\ seen \in [Readers -> Seq(Event)]
  /\ attested \in [Readers -> Seq(Event)]

\* Whatever appenders interleave and wherever they are cut short, the events in
\* the file always pass the verification every later append starts with: one
\* unbroken chain of one origin along the lifecycle.
LedgerVerifies == VerifyEvents(events)

\* A verification that was returned, read in two unlocked steps beside running
\* appends, is of events that are still the beginning of the ledger and that the
\* signed head covers: verify_ledger never vouches for an event whose append
\* had not replaced the head.
AttestationIsCommitted ==
  \A r \in Readers :
    /\ Len(attested[r]) <= head.count
    /\ Len(attested[r]) <= Len(events)
    /\ attested[r] = SubSeq(events, 1, Len(attested[r]))

\* The ledger is append-only, as the module's first line says: an event the file
\* parses to is never lost or changed by a later append.
EventsSurvive ==
  [][/\ Len(events) <= Len(events')
     /\ events = SubSeq(events', 1, Len(events))]_vars

\* The ledger keeps the abstract promise: its types are the record and the head's
\* count is what is certified.
Promise == INSTANCE AttemptLedger WITH recorded <- Types(events), certified <- head.count
KeepsPromise == Promise!Spec
=============================================================================
