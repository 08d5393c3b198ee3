---------------------------- MODULE ReplayJournal ----------------------------
(***************************************************************************)
(* The single-use record of handshakes (src/crypto/replay.rs): the         *)
(* in-memory ReplayCache, its authenticated v4 journal, and the file       *)
(* system below it, with I/O errors, process deaths and power losses       *)
(* between any two system calls.                                           *)
(*                                                                         *)
(* Abstractions.  A chained MAC is the sequence of entries it              *)
(* authenticates, so a journal line is the sequence that ends in its own   *)
(* entry and <<>> is a line whose MAC does not verify.  Generation 0 marks *)
(* a header slot that does not verify (the code writes generations from    *)
(* 1).  No other program writes the file: the branches for a journal that  *)
(* was truncated from outside are left out.                                *)
(***************************************************************************)
EXTENDS Naturals, Sequences, FiniteSets, Functions

CONSTANTS
  Entry,          \* the handshakes: records [ts, nonce, transcript]
  Window,         \* window_secs
  MaxFutureSkew,  \* MAX_FUTURE_SKEW_SECS
  Capacity,       \* capacity, at least 1 (config.rs rejects 0)
  StaleThreshold, \* capacity.max(1024)
  Legacy,         \* the entries a v3 journal may list
  None,           \* Option::None
  MaxTime, MaxFaults, MaxCrashes,   \* bounds of the instance
  OrderedMetadata   \* TRUE: fsync of a file commits an earlier rename of it

ASSUME ConstantsAssumption ==
  /\ Entry \subseteq [ts : Nat, nonce : Nat, transcript : Nat]
  /\ Legacy \subseteq Seq(Entry)
  /\ Window \in Nat /\ MaxFutureSkew \in Nat
  /\ Capacity \in Nat \ {0} /\ StaleThreshold \in Nat
  /\ OrderedMetadata \in BOOLEAN
  /\ None \notin Nat
  /\ MaxTime \in Nat /\ MaxFaults \in Nat /\ MaxCrashes \in Nat

VARIABLES
  cache,    \* the ReplayCache value of the running process
  pc,       \* the system call the cache is about to make
  op,       \* which operation makes it: "insert", "drain" or "load"
  entry,    \* the entry that operation persists
  committedLen, \* committed_len: lines in the file when the append began
  file,     \* what the path reads as while the machine is up
  inode,    \* what that inode may hold after a power loss
  oldPath,  \* what the path may name after one: renames not yet synced
  now,      \* the wall clock
  highWater,\* the latest value it ever had
  granted,  \* how often each entry was answered Inserted
  lost,     \* entries a crash caught in the deferred queue
  faults, crashes

memory == <<cache, pc, op, entry, committedLen>>
disk == <<file, inode, oldPath>>
clock == <<now, highWater>>
ghost == <<granted, lost>>
vars == <<memory, disk, clock, ghost, faults, crashes>>

-----------------------------------------------------------------------------
(* The journal file. *)

Header == [gen : Nat, count : Nat, tail : Seq(Entry)]
TornHeader == [gen |-> 0, count |-> 0, tail |-> <<>>]
File == [kind : {"none", "empty", "v3", "v4"},
         slots : [0..1 -> Header],
         body : Seq(Seq(Entry))]

NoFile == [kind |-> "none", slots |-> [i \in 0..1 |-> TornHeader], body |-> <<>>]

(* Slot selection: the highest generation, the lower index on a tie. *)
ActiveSlot(f) ==
  IF f.kind # "v4" \/ f.slots[0].gen >= f.slots[1].gen THEN 0 ELSE 1

Committed(f) == f.slots[ActiveSlot(f)]

(* A line's MAC chains onto the line before it. *)
Chained(body, i) ==
  \E e \in Entry : body[i] = Append(IF i = 1 THEN <<>> ELSE body[i - 1], e)

BodyVerifies(f) ==
  LET h == Committed(f) IN
  /\ h.count <= Len(f.body)
  /\ \A i \in 1..h.count : Chained(f.body, i)
  /\ h.tail = IF h.count = 0 THEN <<>> ELSE f.body[h.count]

Loads(f) ==
  \/ f.kind \in {"none", "empty"}
  \/ f.kind = "v3" /\ BodyVerifies(f)
  \/ f.kind = "v4" /\ Committed(f).gen > 0 /\ BodyVerifies(f)

JournalEntries(f) ==
  IF f.kind \in {"none", "empty"} THEN <<>>
  ELSE [i \in 1..Committed(f).count |-> f.body[i][Len(f.body[i])]]

NeedsRewrite(f) ==
  \/ f.kind = "v3"
  \/ /\ f.kind = "v4"
     /\ \/ Len(f.body) > Committed(f).count
        \/ \E i \in 0..1 : f.slots[i].gen = 0

(* serialize_authenticated_journal: twin headers, generation 1. *)
Serialized(s) ==
  LET h == [gen |-> 1, count |-> Len(s), tail |-> s]
  IN [kind |-> "v4", slots |-> [i \in 0..1 |-> h],
      body |-> [i \in 1..Len(s) |-> SubSeq(s, 1, i)]]

(* The effect of one system call on one possible content of the inode. The  *)
(* line lands behind line n; a shorter body leaves a hole, which no MAC     *)
(* covers.                                                                  *)
WriteLine(f, n, line) ==
  IF Len(f.body) < n THEN [f EXCEPT !.body = Append(@, <<>>)]
  ELSE [f EXCEPT !.body = Append(SubSeq(@, 1, n), line)]
Truncate(f, n) ==
  IF Len(f.body) < n THEN f ELSE [f EXCEPT !.body = SubSeq(@, 1, n)]
WriteSlot(f, i, h) == [f EXCEPT !.slots[i] = h]

-----------------------------------------------------------------------------
(* The in-memory cache. *)

Journal == [gen : Nat, count : Nat, tail : Seq(Entry), slot : 0..1]

JournalOf(f) ==
  [gen |-> IF f.kind = "v4" THEN Committed(f).gen ELSE 0,
   count |-> Committed(f).count, tail |-> Committed(f).tail,
   slot |-> ActiveSlot(f)]

Unexpired(e, t) == e.ts + Window >= t

IsFresh(e, t) == e.ts <= t + MaxFutureSkew /\ Unexpired(e, t)

Elements(s) == {s[i] : i \in DOMAIN s}

MinTs(s) ==
  IF s = <<>> THEN None
  ELSE CHOOSE t \in {e.ts : e \in Elements(s)} : \A e \in Elements(s) : t <= e.ts

Cache == [order : Seq(Entry), nonces : SUBSET Nat, transcripts : SUBSET Nat,
          oldest : Nat \cup {None}, pending : Seq(Entry),
          journal : Journal \cup {None}]

Loaded(s, j) ==
  [order |-> s, nonces |-> {e.nonce : e \in Elements(s)},
   transcripts |-> {e.transcript : e \in Elements(s)}, oldest |-> MinTs(s),
   pending |-> <<>>, journal |-> j]

EmptyCache == Loaded(<<>>, JournalOf(NoFile))

(* VecDeque::retain, the kept positions enumerated in some order: nothing    *)
(* depends on the order of the entries that stay.                            *)
Retain(s, t) ==
  LET kept == {i \in DOMAIN s : Unexpired(s[i], t)}
      enum == CHOOSE f \in Bijection(1..Cardinality(kept), kept) : TRUE
  IN [j \in 1..Cardinality(kept) |-> s[enum[j]]]

PruneExpired(c, t) ==
  LET keep == Retain(c.order, t) IN
  IF c.oldest = None THEN c
  ELSE IF c.oldest + Window >= t \/ Len(keep) = Len(c.order) THEN c
  ELSE [c EXCEPT !.order = keep,
                 !.nonces = {e.nonce : e \in Elements(keep)},
                 !.transcripts = {e.transcript : e \in Elements(keep)},
                 !.oldest = MinTs(keep),
                 !.pending = Retain(@, t)]

(* Faulty variant: the transcript hash is not looked up. *)
StageOutcomeByNonce(c, e, t) ==
  IF ~IsFresh(e, t) THEN "Stale"
  ELSE IF e.nonce \in c.nonces THEN "Replayed"
  ELSE IF Len(c.order) >= Capacity THEN "CacheFull"
  ELSE "Inserted"

StageOutcome(c, e, t) ==
  IF ~IsFresh(e, t) THEN "Stale"
  ELSE IF e.nonce \in c.nonces \/ e.transcript \in c.transcripts THEN "Replayed"
  ELSE IF Len(c.order) >= Capacity THEN "CacheFull"
  ELSE "Inserted"

PushLoadedEntry(c, e) ==
  [c EXCEPT !.order = Append(@, e),
            !.nonces = @ \cup {e.nonce},
            !.transcripts = @ \cup {e.transcript},
            !.oldest = IF @ = None THEN e.ts ELSE IF e.ts < @ THEN e.ts ELSE @]

(* Faulty variant: the cached oldest timestamp is not recomputed. *)
PopKeepingOldest(c) ==
  LET n == Len(c.order)
  IN [c EXCEPT !.order = SubSeq(c.order, 1, n - 1),
               !.nonces = @ \ {c.order[n].nonce},
               !.transcripts = @ \ {c.order[n].transcript}]

(* pop_pushed_entry and the two removals its caller makes. *)
PopPushedEntry(c) ==
  LET n == Len(c.order)
      e == c.order[n]
      rest == SubSeq(c.order, 1, n - 1)
  IN [c EXCEPT !.order = rest,
               !.nonces = @ \ {e.nonce},
               !.transcripts = @ \ {e.transcript},
               !.oldest = IF @ = e.ts THEN MinTs(rest) ELSE @]

(* The branches of persist_authenticated_entry before any I/O. *)
PersistRoute(c) ==
  IF c.journal = None THEN "compact"
  ELSE IF c.journal.count = 0 \/ c.journal.count > Len(c.order) + StaleThreshold
  THEN "compact" ELSE "append"

-----------------------------------------------------------------------------
(* Operations.  `pc' names the system call that comes next: "append" (write  *)
(* the line), "syncline", "rollback", "header", "synchdr", "compact" (write  *)
(* and rename the temporary file) and "dirsync"; "drain" is the head of the  *)
(* loop of persist_pending, "idle" no operation, "down" no process.          *)

Fault == faults < MaxFaults /\ faults' = faults + 1

(* The operation returns an error, leaving cache c behind. *)
Fail(c) ==
  /\ cache' = CASE op = "insert" -> PopPushedEntry(c)
               [] op = "drain" -> c
               [] op = "load" -> EmptyCache
  /\ pc' = IF op = "load" THEN "down" ELSE "idle"
  /\ UNCHANGED <<op, entry, clock, ghost, crashes>>

(* Faulty: the loop stops after one entry. *)
SucceedOnce(c, compacted) ==
  /\ cache' = IF op # "drain" THEN c
              ELSE [c EXCEPT !.pending = IF compacted THEN <<>> ELSE Tail(@)]
  /\ pc' = "idle"
  /\ granted' = IF op = "insert" THEN [granted EXCEPT ![entry] = @ + 1] ELSE granted
  /\ UNCHANGED <<op, entry, clock, lost, faults, crashes>>

(* The journal write succeeded, leaving cache c behind. *)
Succeed(c, compacted) ==
  /\ cache' = IF op # "drain" THEN c
              ELSE [c EXCEPT !.pending = IF compacted THEN <<>> ELSE Tail(@)]
  /\ pc' = IF op = "drain" THEN "drain" ELSE "idle"
  /\ granted' = IF op = "insert" THEN [granted EXCEPT ![entry] = @ + 1] ELSE granted
  /\ UNCHANGED <<op, entry, clock, lost, faults, crashes>>

InsertNewOutcome(e) ==
  /\ pc = "idle"
  /\ LET c == PruneExpired(cache, now) IN
     IF StageOutcome(c, e, now) = "Inserted"
     THEN /\ cache' = PushLoadedEntry(c, e)
          /\ op' = "insert" /\ entry' = e /\ pc' = PersistRoute(cache')
     ELSE cache' = c /\ UNCHANGED <<op, entry, pc>>
  /\ UNCHANGED <<committedLen, disk, clock, ghost, faults, crashes>>

InsertNewOutcomeDeferred(e) ==
  /\ pc = "idle"
  /\ LET c == PruneExpired(cache, now) IN
     IF StageOutcome(c, e, now) = "Inserted"
     THEN /\ cache' = [PushLoadedEntry(c, e) EXCEPT !.pending = Append(@, e)]
          /\ granted' = [granted EXCEPT ![e] = @ + 1]
     ELSE cache' = c /\ UNCHANGED granted
  /\ UNCHANGED <<pc, op, entry, committedLen, disk, clock, lost, faults, crashes>>

PersistPending ==
  /\ pc = "idle" /\ pc' = "drain"
  /\ UNCHANGED <<cache, op, entry, committedLen, disk, clock, ghost, faults, crashes>>

(* One turn of the loop of persist_pending. *)
DrainNext ==
  /\ pc = "drain"
  /\ \/ /\ cache.pending = <<>>
        /\ pc' = "idle" /\ UNCHANGED <<cache, op, entry>>
     \/ /\ cache.pending # <<>> /\ Head(cache.pending).nonce \notin cache.nonces
        /\ cache' = [cache EXCEPT !.pending = Tail(@)]
        /\ UNCHANGED <<pc, op, entry>>
     \/ /\ cache.pending # <<>> /\ Head(cache.pending).nonce \in cache.nonces
        /\ op' = "drain" /\ entry' = Head(cache.pending)
        /\ pc' = PersistRoute(cache) /\ UNCHANGED cache
  /\ UNCHANGED <<committedLen, disk, clock, ghost, faults, crashes>>

NoJournal(c) == [c EXCEPT !.journal = None]
NextTail == Append(cache.journal.tail, entry)
NextHeader == [gen |-> cache.journal.gen + 1, count |-> cache.journal.count + 1,
               tail |-> NextTail]
TargetSlot == (cache.journal.slot + 1) % 2

(* sync_data on the journal: what is visible is what survives. *)
SyncFile ==
  /\ inode' = {file'}
  /\ oldPath' = IF OrderedMetadata THEN {} ELSE oldPath

Goto(label) ==
  /\ pc' = label
  /\ UNCHANGED <<op, entry, clock, ghost, crashes>>

(* Phase 1: open, seek to the end, write the line. *)
AppendEntry ==
  LET Full(f) == WriteLine(f, Len(file.body), NextTail)
      Torn(f) == WriteLine(f, Len(file.body), <<>>)
  IN /\ pc = "append"
     /\ committedLen' = Len(file.body)
     /\ UNCHANGED oldPath
     /\ \/ /\ Fault /\ Fail(cache) /\ UNCHANGED <<file, inode>>
        \/ /\ file' = Full(file)
           /\ inode' = inode \cup {Full(f) : f \in inode} \cup {Torn(f) : f \in inode}
           /\ Goto("syncline") /\ UNCHANGED <<cache, faults>>
        \/ /\ Fault /\ file' \in {file, Torn(file)}
           /\ inode' = inode \cup {Torn(f) : f \in inode}
           /\ Goto("rollback") /\ UNCHANGED cache

(* Faulty variant: the header is written before the line is synced. *)
SyncEntryElided ==
  /\ pc = "syncline" /\ Goto("header")
  /\ UNCHANGED <<cache, committedLen, disk, faults>>

SyncEntry ==
  /\ pc = "syncline" /\ UNCHANGED <<cache, committedLen, file>>
  /\ \/ SyncFile /\ Goto("header") /\ UNCHANGED faults
     \/ Fault /\ Goto("rollback") /\ UNCHANGED <<inode, oldPath>>

(* Faulty variant: a failed cut leaves the journal position in place. *)
RollbackTrusting ==
  /\ pc = "rollback" /\ UNCHANGED committedLen
  /\ \/ file' = Truncate(file, committedLen) /\ SyncFile /\ UNCHANGED faults
     \/ Fault /\ UNCHANGED disk
  /\ Fail(cache)

(* Phase 1 failed: set_len(committed_len), then a sync whose error is ignored. *)
RollbackEntry ==
  LET Cut(f) == Truncate(f, committedLen)
  IN /\ pc = "rollback"
     /\ \/ /\ file' = Cut(file) /\ SyncFile
           /\ Fail(cache) /\ UNCHANGED faults
        \/ /\ Fault /\ file' = Cut(file)
           /\ inode' = inode \cup {Cut(f) : f \in inode} /\ UNCHANGED oldPath
           /\ Fail(cache)
        \/ /\ Fault /\ UNCHANGED disk
           /\ Fail(NoJournal(cache))
     /\ UNCHANGED committedLen

(* Phase 2: the header goes into the slot that is not the committed one. *)
CommitHeader ==
  LET Full(f) == WriteSlot(f, TargetSlot, NextHeader)
      Torn(f) == WriteSlot(f, TargetSlot, TornHeader)
  IN /\ pc = "header"
     /\ \/ /\ file' = Full(file)
           /\ inode' = inode \cup {Full(f) : f \in inode} \cup {Torn(f) : f \in inode}
           /\ Goto("synchdr") /\ UNCHANGED <<cache, faults>>
        \/ /\ Fault /\ file' \in {file, Torn(file)}
           /\ inode' = inode \cup {Torn(f) : f \in inode}
           /\ Fail(NoJournal(cache))
     /\ UNCHANGED <<committedLen, oldPath>>

(* Faulty variant: the header only reaches the page cache. *)
SyncHeaderSkipped ==
  /\ pc = "synchdr" /\ UNCHANGED <<file, committedLen, inode, oldPath>>
  /\ Succeed([cache EXCEPT !.journal =
                [gen |-> NextHeader.gen, count |-> NextHeader.count,
                 tail |-> NextHeader.tail, slot |-> TargetSlot]], FALSE)

SyncHeader ==
  /\ pc = "synchdr" /\ UNCHANGED <<file, committedLen>>
  /\ \/ /\ SyncFile
        /\ Succeed([cache EXCEPT !.journal =
                     [gen |-> NextHeader.gen, count |-> NextHeader.count,
                      tail |-> NextHeader.tail, slot |-> TargetSlot]], FALSE)
     \/ /\ Fault /\ UNCHANGED <<inode, oldPath>>
        /\ Fail(NoJournal(cache))

(* compact_authenticated_journal up to the rename: the temporary file is     *)
(* synced before it takes the journal's name.                                *)
CompactAuthenticatedJournal ==
  /\ pc = "compact" /\ UNCHANGED committedLen
  /\ \/ /\ Fault /\ UNCHANGED disk
        /\ Fail(NoJournal(cache))
     \/ /\ file' = Serialized(cache.order)
        /\ inode' = {file'}
        /\ oldPath' = oldPath \cup inode
        /\ cache' = NoJournal(cache)
        /\ Goto("dirsync") /\ UNCHANGED faults

FsyncParentDir ==
  /\ pc = "dirsync" /\ UNCHANGED <<file, inode, committedLen>>
  /\ \/ /\ oldPath' = {}
        /\ Succeed([cache EXCEPT !.journal = JournalOf(file)], TRUE)
     \/ /\ Fault /\ UNCHANGED oldPath
        /\ Fail(cache)

(* load_authenticated_with_window.  A file that does not load leaves the     *)
(* server down.                                                              *)
Load ==
  /\ pc = "down" /\ Loads(file)
  /\ IF file.kind \in {"none", "empty"}
     THEN cache' = EmptyCache /\ pc' = "idle"
     ELSE /\ cache' = PruneExpired(Loaded(JournalEntries(file), JournalOf(file)), now)
          /\ pc' = IF NeedsRewrite(file) THEN "compact" ELSE "idle"
  /\ op' = "load"
  /\ UNCHANGED <<entry, committedLen, disk, clock, ghost, faults, crashes>>

-----------------------------------------------------------------------------
(* The environment. *)

Tick ==
  /\ now < MaxTime /\ now' = now + 1
  /\ highWater' = IF now' > highWater THEN now' ELSE highWater
  /\ UNCHANGED <<memory, disk, ghost, faults, crashes>>

(* The wall clock is stepped back (counted as one of the faults). *)
ClockRollback ==
  /\ Fault /\ now > 0 /\ now' \in 0..(now - 1)
  /\ UNCHANGED <<memory, disk, highWater, ghost, crashes>>

Die ==
  /\ crashes < MaxCrashes /\ crashes' = crashes + 1
  /\ pc' = "down" /\ cache' = EmptyCache
  /\ lost' = lost \cup Elements(cache.pending)
  /\ UNCHANGED <<op, entry, committedLen, clock, granted, faults>>

(* The process dies; the page cache keeps what it wrote. *)
Kill == pc # "down" /\ Die /\ UNCHANGED disk

(* The machine loses power; any write not synced may be missing or torn. *)
PowerLoss ==
  /\ file' \in inode \cup oldPath
  /\ inode' = {file'} /\ oldPath' = {}
  /\ Die

(* What an earlier version may have left: no file, a 0-byte file, a v3       *)
(* journal whose single header covers the first n of its lines.              *)
InitialFile ==
  {NoFile, [NoFile EXCEPT !.kind = "empty"]}
  \cup UNION {{[kind |-> "v3", body |-> Serialized(s).body,
                slots |-> [i \in 0..1 |->
                  IF i = 0 THEN [gen |-> 0, count |-> n, tail |-> SubSeq(s, 1, n)]
                  ELSE TornHeader]] : n \in 0..Len(s)} : s \in Legacy}

Init ==
  /\ cache = EmptyCache /\ pc = "down" /\ op = "load"
  /\ entry = None /\ committedLen = 0
  /\ file \in InitialFile /\ inode = {file} /\ oldPath = {}
  /\ now = 0 /\ highWater = 0
  /\ granted = [e \in Entry |-> 0] /\ lost = {}
  /\ faults = 0 /\ crashes = 0

Persist ==
  AppendEntry \/ SyncEntry \/ RollbackEntry \/ CommitHeader \/ SyncHeader
  \/ CompactAuthenticatedJournal \/ FsyncParentDir

(* The cache of the TCP handshakes, which are recorded before they are        *)
(* answered.  The guards of ReplayGuard use the deferred operations instead.  *)
Next ==
  \/ \E e \in Entry : InsertNewOutcome(e)
  \/ Persist \/ Load
  \/ Tick \/ ClockRollback \/ Kill \/ PowerLoss

Spec == Init /\ [][Next]_vars

-----------------------------------------------------------------------------
(* Properties. *)

(* Every variable has its type; `journal' is None or a committed position. *)
TypeOK ==
  /\ cache \in Cache
  /\ pc \in {"down", "idle", "drain", "append", "syncline", "rollback", "header",
             "synchdr", "compact", "dirsync"}
  /\ op \in {"insert", "drain", "load"}
  /\ entry \in Entry \cup {None}
  /\ committedLen \in Nat
  /\ file \in File /\ inode \subseteq File /\ oldPath \subseteq File
  /\ now \in Nat /\ highWater \in Nat
  /\ granted \in [Entry -> Nat] /\ lost \subseteq Entry
  /\ faults \in Nat /\ crashes \in Nat

SameHandshake(e, f) == e.nonce = f.nonce \/ e.transcript = f.transcript

(* The entries whose acceptance must still count: answered Inserted, not past *)
(* the replay window of any clock value seen so far, and not caught by a      *)
(* crash in the deferred queue, where the code documents the loss.            *)
Live == {e \in Entry : granted[e] > 0 /\ Unexpired(e, highWater) /\ e \notin lost}

(* No handshake is accepted twice: of two live accepted entries that share a  *)
(* nonce or a transcript neither is accepted beside the other, and none is    *)
(* accepted again, across I/O errors, clock steps, restarts and power losses. *)
NoReplay ==
  \A e, f \in Live : SameHandshake(e, f) => e = f /\ granted[e] = 1

(* An accepted entry is durable: every content a power loss can leave at the  *)
(* journal's path lists it, unless it still waits in the deferred queue.      *)
AcceptedIsDurable ==
  \A e \in Live : \/ e \in Elements(cache.pending)
                 \/ \A f \in {file} \cup inode \cup oldPath :
                      e \in Elements(JournalEntries(f))

(* Whatever instant the process or the machine dies at, the next start finds  *)
(* a journal that verifies: no interrupted append, rollback, header commit or *)
(* compaction leaves a file on which the server refuses to start.             *)
JournalAlwaysLoads == \A f \in {file} \cup inode \cup oldPath : Loads(f)

(* The nonce set, the transcript set and the cached oldest timestamp describe *)
(* exactly the entries held, through inserts, roll-backs, pruning and loads.  *)
IndexMatchesOrder ==
  pc # "down" =>
    /\ cache.nonces = {e.nonce : e \in Elements(cache.order)}
    /\ cache.transcripts = {e.transcript : e \in Elements(cache.order)}
    /\ cache.oldest = MinTs(cache.order)

(* Between operations a journal position kept in memory is the one the file   *)
(* selects on load, and no line follows it: the next append chains.           *)
JournalMatchesFile ==
  pc = "idle" /\ cache.journal # None /\ cache.journal.count > 0 =>
    /\ JournalOf(file) = cache.journal
    /\ Len(file.body) = cache.journal.count

=============================================================================
