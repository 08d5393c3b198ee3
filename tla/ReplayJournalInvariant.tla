----------------------- MODULE ReplayJournalInvariant ------------------------
(***************************************************************************)
(* The inductive invariant of the replay journal: what a running process   *)
(* remembers, what a power loss can leave of the file, and where the       *)
(* journal position stands at each system call.                            *)
(***************************************************************************)
EXTENDS ReplayGuard

-----------------------------------------------------------------------------
(* The cache. *)

(* Every entry held is in the nonce and transcript sets. *)
Indexed(c) ==
  \A e \in Elements(c.order) : e.nonce \in c.nonces /\ e.transcript \in c.transcripts

(* The index of a cache describes exactly the entries it holds. *)
Described(c) ==
  /\ c.nonces = {e.nonce : e \in Elements(c.order)}
  /\ c.transcripts = {e.transcript : e \in Elements(c.order)}
  /\ c.oldest = MinTs(c.order)

-----------------------------------------------------------------------------
(* The inductive invariant. *)

Contents == {file} \cup inode \cup oldPath

InAppend == {"append", "syncline", "rollback", "header", "synchdr"}
InPersist == InAppend \cup {"compact", "dirsync"}

(* The operation in progress and the entry it is about. *)
OpInv ==
  /\ pc \in InAppend => op \in {"insert", "drain"}
  /\ pc \in InPersist /\ op \in {"insert", "drain"} => entry \in Entry
  /\ pc \in InPersist /\ op = "insert" =>
       /\ cache.order # <<>> /\ cache.order[Len(cache.order)] = entry
       /\ \A i \in 1..(Len(cache.order) - 1) : ~SameHandshake(cache.order[i], entry)
  /\ pc \in InPersist /\ op = "drain" =>
       cache.pending # <<>> /\ Head(cache.pending) = entry
  /\ pc = "down" \/ (pc \in InPersist /\ op = "load") => cache.pending = <<>>

(* The entries held besides a tentative one. *)
Held == IF pc \in InPersist /\ op = "insert"
        THEN {cache.order[i] : i \in 1..(Len(cache.order) - 1)}
        ELSE Elements(cache.order)

(* While a process runs it remembers every accepted entry still in force. *)
LiveHeld ==
  pc # "down" =>
    /\ Live \subseteq Held
    /\ Indexed(cache)

(* What a power loss can leave of the present inode agrees with the visible  *)
(* file on its committed lines, or commits fewer of them.                    *)
InodeInv ==
  \A f \in inode :
    /\ f.kind = file.kind
    /\ file.kind = "v4" =>
         /\ Committed(f).count <= Committed(file).count
         /\ Committed(file).count <= Len(f.body)

(* The journal position against the visible file, at each system call. *)
PositionInv ==
  /\ pc \in {"idle", "drain"} /\ cache.journal # None /\ cache.journal.count > 0 =>
       /\ file.kind = "v4" /\ JournalOf(file) = cache.journal
       /\ Len(file.body) = cache.journal.count
  /\ pc \in InAppend =>
       cache.journal # None /\ cache.journal.count > 0 /\ file.kind = "v4"
  /\ pc \in InAppend \ {"synchdr"} => JournalOf(file) = cache.journal
  /\ pc = "append" => Len(file.body) = cache.journal.count
  /\ pc \in {"syncline", "rollback"} => committedLen = cache.journal.count
  /\ pc = "rollback" => Len(file.body) >= cache.journal.count
  /\ pc \in {"syncline", "header", "synchdr"} =>
       /\ Len(file.body) = cache.journal.count + 1
       /\ file.body[cache.journal.count + 1] = NextTail
  /\ pc = "header" => inode = {file}
  /\ pc = "synchdr" =>
       /\ Committed(file) = NextHeader
       /\ ActiveSlot(file) = TargetSlot
  /\ pc = "dirsync" =>
       inode = {file} /\ file = Serialized(cache.order) /\ cache.journal = None

IInv ==
  /\ TypeOK /\ OpInv /\ LiveHeld /\ InodeInv /\ PositionInv
  /\ JournalAlwaysLoads /\ AcceptedIsDurable /\ NoReplay
  /\ now <= highWater

-----------------------------------------------------------------------------
(* The steps of the guards. *)

(* The steps a cache takes beyond those of Next when its owner defers writes. *)
DeferredStep ==
  \/ \E e \in Entry : InsertNewOutcomeDeferred(e)
  \/ PersistPending \/ DrainNext

(* Why a worker may return when it finds the slot empty: as long as no write  *)
(* has failed, a queue that is not empty has a worker yet to come, or one     *)
(* inside its loop, which looks at the queue again before it returns.  A      *)
(* failed write is also the only way to a roll-back.                          *)
QueueServed ==
  /\ spawned \in Nat /\ op # "insert"
  /\ faults = 0 => pc # "rollback"
  /\ faults = 0 /\ cache.pending # <<>> =>
       \/ spawned > 0 \/ pc \in {"down", "drain"}
       \/ pc \in InPersist /\ op = "drain"

=============================================================================
