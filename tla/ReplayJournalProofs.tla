------------------------- MODULE ReplayJournalProofs -------------------------
(***************************************************************************)
(* Theorems about ReplayJournal and about the guards of ReplayGuard for    *)
(* every set of handshakes, every window and capacity, and any number of   *)
(* faults and crashes.                                                     *)
(***************************************************************************)
EXTENDS ReplayJournalLemmas

-----------------------------------------------------------------------------
(* The system calls of persist. *)

(* A system call inside an operation keeps the invariant when the disk still *)
(* loads, still lists what it listed, and the position fits the next call.   *)
LEMMA GotoPreserves ==
  ASSUME IInv, pc \in InPersist, NEW label \in InPersist, Goto(label),
         label \in InAppend => pc \in InAppend,
         cache' = cache \/ cache' = NoJournal(cache),
         faults' \in Nat, committedLen' \in Nat,
         file' \in File, inode' \subseteq File, oldPath' \subseteq File,
         InodeInv', PositionInv', JournalAlwaysLoads',
         \A e \in Live : (\A f \in Contents : e \in Elements(JournalEntries(f)))
                         => \A f \in Contents' : e \in Elements(JournalEntries(f))
  PROVE  IInv'
<1> USE DEF IInv
<1>1. /\ op' = op /\ entry' = entry /\ granted' = granted /\ lost' = lost
      /\ now' = now /\ highWater' = highWater /\ crashes' = crashes
      /\ pc' = label
  BY Zenon DEF Goto, ghost, clock
<1>2. Live' = Live /\ NoReplay'
  BY Zenon, <1>1 DEF Live, NoReplay
<1>3. /\ cache' \in Cache /\ cache'.order = cache.order /\ cache'.pending = cache.pending
      /\ cache'.nonces = cache.nonces /\ cache'.transcripts = cache.transcripts
  <2>1. cache \in Cache
    BY Zenon DEF TypeOK
  <2> QED BY Zenon, <2>1 DEF NoJournal, Cache
<1>4. label \in {"append", "syncline", "rollback", "header", "synchdr", "compact", "dirsync"}
  BY Zenon DEF InPersist, InAppend
<1>5. TypeOK'
  BY Zenon, <1>1, <1>3, <1>4 DEF TypeOK
<1>6. OpInv'
  BY Zenon, <1>1, <1>3, <1>4 DEF OpInv, InPersist
<1>7. LiveHeld'
  <2>1. Held' = Held
    BY Zenon, <1>1, <1>3 DEF Held
  <2>2. Live \subseteq Held /\ Indexed(cache)
    BY Zenon DEF LiveHeld, InPersist, InAppend
  <2>3. Indexed(cache')
    BY Zenon, <1>3, <2>2 DEF Indexed
  <2> QED BY Zenon, <1>2, <2>1, <2>2, <2>3 DEF LiveHeld
<1>8. AcceptedIsDurable'
  BY Zenon, <1>2, <1>3 DEF AcceptedIsDurable, Contents
<1> QED BY Zenon, <1>1, <1>2, <1>5, <1>6, <1>7, <1>8

(* The facts about the journal and the file that hold throughout an append. *)
LEMMA AppendContext ==
  ASSUME IInv, pc \in InAppend
  PROVE  /\ pc \in InPersist /\ op \in {"insert", "drain"} /\ entry \in Entry
         /\ cache \in Cache /\ cache.journal \in Journal
         /\ cache.journal.count \in Nat /\ cache.journal.count > 0
         /\ cache.journal.gen \in Nat /\ cache.journal.slot \in 0..1
         /\ cache.journal.tail \in Seq(Entry)
         /\ NextTail \in Seq(Entry) /\ NextHeader \in Header
         /\ TargetSlot \in 0..1 /\ TargetSlot # cache.journal.slot
         /\ file.kind = "v4" /\ \A f \in {file} \cup inode :
               f \in File /\ f.kind = "v4" /\ Loads(f) /\ Len(f.body) \in Nat
         /\ file \in File /\ inode \subseteq File /\ oldPath \subseteq File
         /\ pc # "synchdr" =>
              /\ Committed(file).count = cache.journal.count
              /\ Committed(file).gen = cache.journal.gen
              /\ Committed(file).tail = cache.journal.tail
              /\ ActiveSlot(file) = cache.journal.slot
              /\ \A f \in inode : /\ Committed(f).count \in Nat
                                  /\ Committed(f).count <= cache.journal.count
                                  /\ cache.journal.count <= Len(f.body)
<1> USE DEF IInv
<1>1. pc \in InPersist /\ op \in {"insert", "drain"} /\ entry \in Entry
  BY Zenon DEF OpInv, InPersist
<1>2. cache \in Cache /\ cache.journal # None /\ cache.journal.count > 0 /\ file.kind = "v4"
  BY Zenon DEF TypeOK, PositionInv
<1>3. cache.journal \in Journal
  BY Zenon, <1>2 DEF Cache
<1>4. /\ cache.journal.count \in Nat /\ cache.journal.gen \in Nat
      /\ cache.journal.slot \in 0..1 /\ cache.journal.tail \in Seq(Entry)
  BY Zenon, <1>3 DEF Journal
<1>5. NextTail \in Seq(Entry)
  BY <1>1, <1>4 DEF NextTail
<1>6. NextHeader \in Header
  BY <1>4, <1>5 DEF NextHeader, Header
<1>7. TargetSlot \in 0..1 /\ TargetSlot # cache.journal.slot
  BY <1>4 DEF TargetSlot
<1>8. /\ file \in File /\ inode \subseteq File /\ oldPath \subseteq File
      /\ \A f \in {file} \cup inode :
            f \in File /\ f.kind = "v4" /\ Loads(f) /\ Len(f.body) \in Nat
  <2>1. file \in File /\ inode \subseteq File /\ oldPath \subseteq File
    BY Zenon DEF TypeOK
  <2>2. \A f \in {file} \cup inode : f.kind = "v4"
    BY Zenon, <1>2 DEF InodeInv
  <2>3. \A f \in {file} \cup inode : Loads(f)
    BY Zenon DEF JournalAlwaysLoads, Contents
  <2>4. \A f \in File : Len(f.body) \in Nat
    BY DEF File
  <2> QED BY Zenon, <2>1, <2>2, <2>3, <2>4
<1>9. ASSUME pc # "synchdr"
      PROVE  /\ Committed(file).count = cache.journal.count
             /\ Committed(file).gen = cache.journal.gen
             /\ Committed(file).tail = cache.journal.tail
             /\ ActiveSlot(file) = cache.journal.slot
             /\ \A f \in inode : /\ Committed(f).count \in Nat
                                 /\ Committed(f).count <= cache.journal.count
                                 /\ cache.journal.count <= Len(f.body)
  <2>1. JournalOf(file) = cache.journal
    BY Zenon, <1>9 DEF PositionInv
  <2>2. /\ Committed(file).count = cache.journal.count
        /\ Committed(file).gen = cache.journal.gen
        /\ Committed(file).tail = cache.journal.tail
        /\ ActiveSlot(file) = cache.journal.slot
    BY Zenon, <1>2, <1>8, <2>1, JournalOfType
  <2> QED BY Zenon, <1>2, <1>8, <2>2, CommittedType DEF InodeInv
<1> QED BY Zenon, <1>1, <1>2, <1>3, <1>4, <1>5, <1>6, <1>7, <1>8, <1>9

(* Phase 1, the write of the line. *)
LEMMA AppendPreserves ==
  ASSUME IInv, AppendEntry
  PROVE  IInv'
<1> DEFINE n == cache.journal.count
           Full(f) == WriteLine(f, Len(file.body), NextTail)
           Torn(f) == WriteLine(f, Len(file.body), <<>>)
<1>0. pc \in InAppend /\ pc = "append"
  BY Zenon DEF AppendEntry, InAppend
<1>1. /\ Len(file.body) = n /\ n \in Nat /\ Committed(file).count = n
      /\ JournalOf(file) = cache.journal /\ n > 0
  BY Zenon, <1>0, AppendContext DEF IInv, PositionInv
<1>2. \A f \in {file} \cup inode :
        /\ f \in File /\ f.kind = "v4" /\ Loads(f) /\ Committed(f).count \in Nat
        /\ Committed(f).count <= n /\ n <= Len(f.body) /\ Len(f.body) \in Nat
  <2>1. \A f \in {file} \cup inode :
          f \in File /\ f.kind = "v4" /\ Loads(f) /\ Len(f.body) \in Nat
    BY Zenon, <1>0, AppendContext
  <2>2. \A f \in inode : /\ Committed(f).count \in Nat /\ Committed(f).count <= n
                         /\ n <= Len(f.body)
    BY Zenon, <1>0, AppendContext
  <2>3. n \in Nat /\ Committed(file).count = n /\ Len(file.body) = n
    BY Zenon, <1>1
  <2> HIDE DEF n
  <2> QED BY <2>1, <2>2, <2>3
<1>3. ASSUME NEW f \in {file} \cup inode, NEW g \in {Full(f), Torn(f)}
      PROVE  /\ g \in File /\ g.kind = "v4" /\ Loads(g) /\ Len(g.body) = n + 1
             /\ Committed(g) = Committed(f) /\ ActiveSlot(g) = ActiveSlot(f)
             /\ JournalEntries(g) = JournalEntries(f)
             /\ g = Full(f) => g.body[n + 1] = NextTail
  <2>1. NextTail \in Seq(Entry) /\ <<>> \in Seq(Entry)
    BY <1>0, AppendContext
  <2>2. PICK line \in Seq(Entry) : /\ g = WriteLine(f, n, line)
                                   /\ g = Full(f) => line = NextTail
    <3>1. WriteLine(f, Len(file.body), NextTail) = WriteLine(f, n, NextTail)
      BY Zenon, <1>1
    <3>2. WriteLine(f, Len(file.body), <<>>) = WriteLine(f, n, <<>>)
      BY Zenon, <1>1
    <3>3. CASE g = Full(f)
      BY Zenon, <2>1, <3>1, <3>3
    <3>4. CASE g # Full(f)
      BY Zenon, <2>1, <3>2, <3>4
    <3> QED BY Zenon, <3>3, <3>4
  <2>3. /\ f \in File /\ f.kind = "v4" /\ Loads(f) /\ Committed(f).count <= n
        /\ n <= Len(f.body)
    BY Zenon, <1>2
  <2> HIDE DEF n, Full, Torn
  <2> QED BY <1>1, <2>2, <2>3, WriteLineSafe
<1>4. /\ committedLen' = n /\ oldPath' = oldPath /\ oldPath \subseteq File
      /\ file \in File /\ inode \subseteq File /\ faults \in Nat /\ n \in Nat
  BY Zenon, <1>0, <1>1 DEF AppendEntry, IInv, TypeOK
<1>5. CASE Fault /\ Fail(cache) /\ UNCHANGED <<file, inode>>
  <2>1. faults' \in Nat
    BY <1>4, <1>5 DEF Fault
  <2>2. InodeInv' /\ JournalAlwaysLoads' /\ Contents' = Contents
    BY Zenon, <1>4, <1>5 DEF IInv, InodeInv, JournalAlwaysLoads, Contents
  <2>3. pc \in InPersist
    BY Zenon, <1>0, AppendContext
  <2>4. file'.kind = "v4" /\ JournalOf(file') = cache.journal /\ Len(file'.body) = n
    BY Zenon, <1>1, <1>2, <1>5
  <2> QED BY Zenon, <1>4, <1>5, <2>1, <2>2, <2>3, <2>4, FailPreserves
<1>6. CASE /\ file' \in {file, Full(file), Torn(file)}
           /\ inode' \subseteq inode \cup {Full(f) : f \in inode} \cup {Torn(f) : f \in inode}
           /\ cache' = cache /\ faults' \in Nat
           /\ \/ file' = Full(file) /\ Goto("syncline")
              \/ file' \in {file, Torn(file)} /\ Goto("rollback")
  <2> HIDE DEF n, Full, Torn
  <2>1. /\ file' \in File /\ file'.kind = "v4" /\ Loads(file')
        /\ Committed(file') = Committed(file) /\ ActiveSlot(file') = ActiveSlot(file)
        /\ JournalEntries(file') = JournalEntries(file)
        /\ Len(file'.body) \in {n, n + 1}
        /\ file' = Full(file) => Len(file'.body) = n + 1 /\ file'.body[n + 1] = NextTail
    <3>1. CASE file' = file /\ file' # Full(file)
      BY Zenon, <1>1, <1>2, <3>1
    <3>2. CASE file' \in {Full(file), Torn(file)}
      BY Zenon, <1>3, <3>2
    <3> QED BY Zenon, <1>6, <3>1, <3>2
  <2>2. \A g \in inode' : \E f \in inode :
          /\ g \in File /\ g.kind = "v4" /\ Loads(g)
          /\ n <= Len(g.body) /\ Committed(g) = Committed(f)
          /\ JournalEntries(g) = JournalEntries(f)
    <3> TAKE g \in inode'
    <3>1. CASE g \in inode
      BY Zenon, <1>2, <3>1
    <3>2. CASE g \notin inode
      <4>1. PICK f \in inode : g \in {Full(f), Torn(f)}
        BY Zenon, <1>6, <3>2
      <4>2. /\ g \in File /\ g.kind = "v4" /\ Loads(g) /\ Len(g.body) = n + 1
            /\ Committed(g) = Committed(f) /\ JournalEntries(g) = JournalEntries(f)
        BY Zenon, <1>3, <4>1
      <4> QED BY <1>4, <4>1, <4>2
    <3> QED BY Zenon, <3>1, <3>2
  <2>3. InodeInv'
    <3>1. \A g \in inode' : Committed(g).count <= n
      BY Zenon, <1>2, <2>2
    <3> QED BY Zenon, <1>1, <2>1, <2>2, <3>1 DEF InodeInv
  <2>4. JournalAlwaysLoads'
    BY Zenon, <1>4, <2>1, <2>2 DEF JournalAlwaysLoads, IInv
  <2>5. inode' \subseteq File
    BY Zenon, <2>2
  <2>6. \A e \in Live : (\A f \in Contents : e \in Elements(JournalEntries(f)))
                        => \A f \in Contents' : e \in Elements(JournalEntries(f))
    BY Zenon, <1>4, <2>1, <2>2 DEF Contents
  <2>7. JournalOf(file') = cache.journal
    BY Zenon, <1>1, <1>2, <2>1 DEF JournalOf
  <2>8. pc \in InPersist /\ cache.journal # None /\ cache.journal.count = n
    BY Zenon, <1>0, AppendContext DEF n, IInv, PositionInv
  <2>9. CASE file' = Full(file) /\ Goto("syncline")
    <3>1. pc' = "syncline" /\ NextTail' = NextTail
      BY Zenon, <1>6, <2>9 DEF Goto, NextTail
    <3>2. PositionInv'
      BY Zenon, <1>1, <1>4, <1>6, <2>1, <2>7, <2>8, <2>9, <3>1 DEF PositionInv, InAppend
    <3>3. "syncline" \in InPersist
      BY Zenon DEF InPersist, InAppend
    <3> QED BY Zenon, <1>0, <1>4, <1>6, <2>1, <2>3, <2>4, <2>5, <2>6, <2>8, <2>9, <3>2, <3>3,
               GotoPreserves
  <2>10. CASE file' \in {file, Torn(file)} /\ Goto("rollback")
    <3>1. pc' = "rollback"
      BY Zenon, <2>10 DEF Goto
    <3>2. PositionInv'
      BY <1>1, <1>4, <1>6, <2>1, <2>7, <2>8, <3>1 DEF PositionInv, InAppend
    <3>3. "rollback" \in InPersist
      BY Zenon DEF InPersist, InAppend
    <3> QED BY Zenon, <1>0, <1>4, <1>6, <2>1, <2>3, <2>4, <2>5, <2>6, <2>8, <2>10, <3>2, <3>3,
               GotoPreserves
  <2> QED BY Zenon, <1>6, <2>9, <2>10
<1> QED
  <2>1. \/ Fault /\ Fail(cache) /\ UNCHANGED <<file, inode>>
        \/ /\ file' = Full(file) /\ Goto("syncline") /\ cache' = cache /\ faults' = faults
           /\ inode' = inode \cup {Full(f) : f \in inode} \cup {Torn(f) : f \in inode}
        \/ /\ Fault /\ file' \in {file, Torn(file)} /\ Goto("rollback") /\ cache' = cache
           /\ inode' = inode \cup {Torn(f) : f \in inode}
    BY Zenon DEF AppendEntry
  <2>2. Fault => faults' \in Nat
    BY <1>4 DEF Fault
  <2> HIDE DEF Full, Torn
  <2> QED BY Zenon, <1>4, <1>5, <1>6, <2>1, <2>2

(* Phase 1, the sync of the line. *)
LEMMA SyncEntryPreserves ==
  ASSUME IInv, SyncEntry
  PROVE  IInv'
<1>0. pc \in InAppend /\ pc = "syncline"
  BY Zenon DEF SyncEntry, InAppend
<1>1. /\ cache' = cache /\ committedLen' = committedLen /\ file' = file
      /\ faults \in Nat /\ committedLen \in Nat /\ file \in File
      /\ inode \subseteq File /\ oldPath \subseteq File /\ pc \in InPersist
  BY Zenon, <1>0, AppendContext DEF SyncEntry, IInv, TypeOK
<1>2. CASE SyncFile /\ Goto("header") /\ UNCHANGED faults
  <2>1. inode' = {file} /\ oldPath' \subseteq oldPath
    BY Zenon, <1>1, <1>2 DEF SyncFile
  <2>2. InodeInv'
    <3>1. file.kind = "v4" => Committed(file).count <= Len(file.body)
      BY Zenon, <1>0, AppendContext DEF Loads, BodyVerifies
    <3>2. Committed(file).count \in Nat
      BY Zenon, <1>1, CommittedType
    <3> QED BY <1>1, <2>1, <3>1, <3>2 DEF InodeInv
  <2>3. JournalAlwaysLoads' /\ Contents' \subseteq Contents
    BY Zenon, <1>1, <2>1 DEF JournalAlwaysLoads, IInv, Contents
  <2>4. pc' = "header" /\ entry' = entry
    BY Zenon, <1>2 DEF Goto
  <2>5. PositionInv'
    BY Zenon, <1>0, <1>1, <2>1, <2>4 DEF IInv, PositionInv, InAppend, NextTail
  <2>6. "header" \in InPersist
    BY Zenon DEF InPersist, InAppend
  <2>7. inode' \subseteq File /\ oldPath' \subseteq File /\ file' \in File
    BY Zenon, <1>1, <2>1
  <2> QED BY Zenon, <1>0, <1>1, <1>2, <2>2, <2>3, <2>5, <2>6, <2>7, GotoPreserves
<1>3. CASE Fault /\ Goto("rollback") /\ UNCHANGED <<inode, oldPath>>
  <2>1. InodeInv' /\ JournalAlwaysLoads' /\ Contents' = Contents
    BY Zenon, <1>1, <1>3 DEF InodeInv, JournalAlwaysLoads, IInv, Contents
  <2>2. pc' = "rollback" /\ faults' \in Nat
    BY <1>1, <1>3 DEF Goto, Fault
  <2>3. PositionInv'
    <3>1. Len(file.body) = cache.journal.count + 1 /\ cache.journal.count \in Nat
      BY Zenon, <1>0, AppendContext DEF IInv, PositionInv
    <3> QED BY SMTT(30), <1>0, <1>1, <2>2, <3>1 DEF IInv, PositionInv, InAppend
  <2>4. "rollback" \in InPersist
    BY Zenon DEF InPersist, InAppend
  <2> QED BY Zenon, <1>0, <1>1, <1>3, <2>1, <2>2, <2>3, <2>4, GotoPreserves
<1> QED BY Zenon, <1>2, <1>3 DEF SyncEntry

(* An operation that gives up with the disk as it is and no position kept. *)
LEMMA GiveUpPreserves ==
  ASSUME IInv, pc \in InPersist, Fault, Fail(NoJournal(cache)), UNCHANGED disk,
         committedLen' = committedLen
  PROVE  IInv'
<1>1. InodeInv' /\ JournalAlwaysLoads' /\ Contents' = Contents
      /\ file' = file /\ inode' = inode /\ oldPath' = oldPath
  BY Zenon DEF disk, InodeInv, JournalAlwaysLoads, IInv, Contents
<1>2. faults' \in Nat /\ committedLen' \in Nat /\ NoJournal(cache).journal = None
      /\ file \in File /\ inode \subseteq File /\ oldPath \subseteq File
  BY DEF Fault, NoJournal, IInv, TypeOK, Cache
<1> QED BY Zenon, <1>1, <1>2, FailPreserves

(* Phase 1 undone: the cut removes only lines no header covers. *)
LEMMA RollbackPreserves ==
  ASSUME IInv, RollbackEntry
  PROVE  IInv'
<1> DEFINE n == cache.journal.count
           Cut(f) == Truncate(f, committedLen)
<1>0. pc \in InAppend /\ pc = "rollback"
  BY Zenon DEF RollbackEntry, InAppend
<1>1. /\ committedLen = n /\ n \in Nat /\ n <= Len(file.body)
      /\ Committed(file).count = n /\ JournalOf(file) = cache.journal
      /\ committedLen' = committedLen /\ pc \in InPersist
      /\ faults \in Nat /\ file \in File /\ inode \subseteq File /\ oldPath \subseteq File
  BY Zenon, <1>0, AppendContext DEF IInv, PositionInv, RollbackEntry, TypeOK
<1>2. \A f \in {file} \cup inode :
        /\ f \in File /\ f.kind = "v4" /\ Loads(f) /\ Committed(f).count \in Nat
        /\ Committed(f).count <= n /\ n <= Len(f.body)
  <2>1. \A f \in {file} \cup inode : f \in File /\ f.kind = "v4" /\ Loads(f)
    BY Zenon, <1>0, AppendContext
  <2>2. \A f \in inode : /\ Committed(f).count \in Nat /\ Committed(f).count <= n
                         /\ n <= Len(f.body)
    BY Zenon, <1>0, AppendContext
  <2>3. n \in Nat /\ Committed(file).count = n /\ n <= Len(file.body)
    BY Zenon, <1>1
  <2> HIDE DEF n
  <2> QED BY <2>1, <2>2, <2>3
<1> HIDE DEF n
<1>3. \A f \in {file} \cup inode :
        /\ Cut(f) \in File /\ Cut(f).kind = "v4" /\ Loads(Cut(f)) /\ Len(Cut(f).body) = n
        /\ Committed(Cut(f)) = Committed(f) /\ ActiveSlot(Cut(f)) = ActiveSlot(f)
        /\ JournalEntries(Cut(f)) = JournalEntries(f)
  BY Zenon, <1>1, <1>2, TruncateSafe
<1> HIDE DEF Cut
<1>4. JournalOf(Cut(file)) = cache.journal
  BY Zenon, <1>1, <1>2, <1>3 DEF JournalOf
<1>5. CASE /\ file' = Cut(file) /\ Fail(cache) /\ faults' \in Nat
           /\ \/ inode' = {file'}
              \/ inode' = inode \cup {Cut(f) : f \in inode}
           /\ oldPath' \subseteq oldPath
  <2>1. \A g \in inode' : /\ g \in File /\ g.kind = "v4" /\ Loads(g)
                          /\ Committed(g).count <= n /\ n <= Len(g.body)
    BY <1>1, <1>2, <1>3, <1>5
  <2>2. \A g \in inode' : \E f \in {file} \cup inode : JournalEntries(g) = JournalEntries(f)
    BY <1>3, <1>5
  <2>3. InodeInv'
    BY Zenon, <1>1, <1>3, <1>5, <2>1 DEF InodeInv
  <2>4. JournalAlwaysLoads'
    BY Zenon, <1>3, <1>5, <2>1 DEF JournalAlwaysLoads, IInv
  <2>5. \A e \in Live : (\A f \in Contents : e \in Elements(JournalEntries(f)))
                        => \A f \in Contents' : e \in Elements(JournalEntries(f))
    BY Zenon, <1>3, <1>5, <2>2 DEF Contents
  <2>6. inode' \subseteq File /\ oldPath' \subseteq File /\ file' \in File
        /\ file'.kind = "v4" /\ JournalOf(file') = cache.journal
        /\ Len(file'.body) = cache.journal.count
    BY Zenon, <1>1, <1>3, <1>4, <1>5, <2>1 DEF n
  <2> QED BY Zenon, <1>1, <1>5, <2>3, <2>4, <2>5, <2>6, FailPreserves
<1>6. CASE Fault /\ UNCHANGED disk /\ Fail(NoJournal(cache))
  BY Zenon, <1>1, <1>6, GiveUpPreserves
<1> QED
  <2>1. Fault => faults' \in Nat
    BY <1>1 DEF Fault
  <2> QED BY Zenon, <1>1, <1>5, <1>6, <2>1 DEF RollbackEntry, SyncFile, Cut

(* Phase 2, the header write into the other slot. *)
LEMMA CommitHeaderPreserves ==
  ASSUME IInv, CommitHeader
  PROVE  IInv'
<1> DEFINE n == cache.journal.count
           full == WriteSlot(file, TargetSlot, NextHeader)
           torn == WriteSlot(file, TargetSlot, TornHeader)
<1>0. pc \in InAppend /\ pc = "header"
  BY Zenon DEF CommitHeader, InAppend
<1>1. /\ inode = {file} /\ Len(file.body) = n + 1 /\ file.body[n + 1] = NextTail
      /\ n \in Nat /\ n > 0 /\ pc \in InPersist /\ entry \in Entry
      /\ Committed(file).count = n /\ JournalOf(file) = cache.journal
      /\ faults \in Nat /\ file \in File /\ oldPath \subseteq File
      /\ committedLen' = committedLen /\ committedLen \in Nat /\ oldPath' = oldPath
      /\ file.kind = "v4" /\ Loads(file)
  BY Zenon, <1>0, AppendContext DEF IInv, PositionInv, CommitHeader, TypeOK
<1>2. /\ NextHeader \in Header /\ TargetSlot \in 0..1 /\ TargetSlot # ActiveSlot(file)
      /\ NextHeader.gen = Committed(file).gen + 1 /\ NextHeader.count = n + 1
      /\ NextHeader.tail = NextTail /\ NextTail = Append(Committed(file).tail, entry)
  BY Zenon, <1>0, AppendContext DEF NextHeader, NextTail
<1> HIDE DEF n
<1>3. /\ torn \in File /\ torn.kind = "v4" /\ Loads(torn) /\ torn.body = file.body
      /\ Committed(torn) = Committed(file) /\ ActiveSlot(torn) = ActiveSlot(file)
      /\ JournalEntries(torn) = JournalEntries(file)
  BY Zenon, <1>1, <1>2, TornSlotSafe
<1>4. /\ full \in File /\ full.kind = "v4" /\ Loads(full) /\ full.body = file.body
      /\ Committed(full) = NextHeader /\ ActiveSlot(full) = TargetSlot
      /\ Elements(JournalEntries(full)) = Elements(JournalEntries(file)) \cup {entry}
  <2>1. /\ NextHeader.count = Committed(file).count + 1
        /\ NextHeader.tail = Append(Committed(file).tail, entry)
        /\ Committed(file).count > 0
    BY Zenon, <1>1, <1>2
  <2>2. Len(file.body) = NextHeader.count /\ file.body[NextHeader.count] = NextHeader.tail
    BY Zenon, <1>1, <1>2
  <2> QED BY Zenon, <1>1, <1>2, <2>1, <2>2, CommitSlotSafe
<1> HIDE DEF full, torn
<1>5. CASE /\ file' = full /\ inode' = {file, full, torn}
           /\ Goto("synchdr") /\ cache' = cache /\ faults' = faults
  <2>1. InodeInv'
    <3>1. /\ Committed(full).count = n + 1 /\ Committed(file).count <= n + 1
          /\ Committed(torn).count <= n + 1
      BY <1>1, <1>2, <1>3, <1>4
    <3>2. n + 1 <= Len(file.body) /\ n + 1 <= Len(full.body) /\ n + 1 <= Len(torn.body)
          /\ n + 1 <= n + 1
      BY <1>1, <1>3, <1>4
    <3>3. file.kind = full.kind /\ torn.kind = full.kind
      BY Zenon, <1>1, <1>3, <1>4
    <3> QED BY Zenon, <1>5, <3>1, <3>2, <3>3 DEF InodeInv
  <2>2. JournalAlwaysLoads'
    BY Zenon, <1>1, <1>3, <1>4, <1>5 DEF JournalAlwaysLoads, IInv
  <2>3. \A e \in Live : (\A f \in Contents : e \in Elements(JournalEntries(f)))
                        => \A f \in Contents' : e \in Elements(JournalEntries(f))
    BY Zenon, <1>1, <1>3, <1>4, <1>5 DEF Contents
  <2>4. pc' = "synchdr" /\ NextTail' = NextTail /\ NextHeader' = NextHeader
        /\ TargetSlot' = TargetSlot
    BY Zenon, <1>5 DEF Goto, NextTail, NextHeader, TargetSlot
  <2>5. PositionInv'
    <3>1. cache.journal # None /\ cache.journal.count > 0 /\ cache.journal.count = n
      BY Zenon, <1>0 DEF IInv, PositionInv, n
    <3> QED BY Zenon, <1>1, <1>4, <1>5, <2>4, <3>1 DEF PositionInv, InAppend
  <2>6. "synchdr" \in InPersist
    BY Zenon DEF InPersist, InAppend
  <2>7. inode' \subseteq File /\ file' \in File /\ oldPath' \subseteq File /\ faults' \in Nat
    BY Zenon, <1>1, <1>3, <1>4, <1>5
  <2> QED BY Zenon, <1>0, <1>1, <1>5, <2>1, <2>2, <2>3, <2>5, <2>6, <2>7, GotoPreserves
<1>6. CASE /\ file' \in {file, torn} /\ inode' = {file, torn}
           /\ Fault /\ Fail(NoJournal(cache))
  <2>1. InodeInv'
    <3>1. /\ Committed(torn).count = n /\ Committed(file).count = n /\ n <= n
          /\ n <= Len(file.body) /\ n <= Len(torn.body) /\ torn.kind = file.kind
      BY <1>1, <1>3
    <3>2. CASE file' = file
      BY Zenon, <1>6, <3>1, <3>2 DEF InodeInv
    <3>3. CASE file' = torn
      BY Zenon, <1>6, <3>1, <3>3 DEF InodeInv
    <3> QED BY Zenon, <1>6, <3>2, <3>3
  <2>2. JournalAlwaysLoads'
    BY Zenon, <1>1, <1>3, <1>6 DEF JournalAlwaysLoads, IInv
  <2>3. \A e \in Live : (\A f \in Contents : e \in Elements(JournalEntries(f)))
                        => \A f \in Contents' : e \in Elements(JournalEntries(f))
    BY Zenon, <1>1, <1>3, <1>6 DEF Contents
  <2>4. inode' \subseteq File /\ file' \in File /\ oldPath' \subseteq File
    BY Zenon, <1>1, <1>3, <1>6
  <2>5. faults' \in Nat /\ NoJournal(cache).journal = None
    BY <1>1, <1>6 DEF Fault, NoJournal, IInv, TypeOK, Cache
  <2> QED BY Zenon, <1>1, <1>6, <2>1, <2>2, <2>3, <2>4, <2>5, FailPreserves
<1> QED BY Zenon, <1>1, <1>5, <1>6 DEF CommitHeader, full, torn

(* Phase 2, the sync that commits: the header and its line are on disk. *)
LEMMA SyncHeaderPreserves ==
  ASSUME IInv, SyncHeader, OrderedMetadata
  PROVE  IInv'
<1> DEFINE n == cache.journal.count
           j == [gen |-> NextHeader.gen, count |-> NextHeader.count,
                 tail |-> NextHeader.tail, slot |-> TargetSlot]
<1>0. pc \in InAppend /\ pc = "synchdr"
  BY Zenon DEF SyncHeader, InAppend
<1>1. /\ Len(file.body) = n + 1 /\ file.body[n + 1] = NextTail
      /\ n \in Nat /\ pc \in InPersist /\ entry \in Entry /\ cache.journal.tail \in Seq(Entry)
      /\ Committed(file) = NextHeader /\ ActiveSlot(file) = TargetSlot
      /\ file' = file /\ committedLen' = committedLen /\ committedLen \in Nat
      /\ file.kind = "v4" /\ file \in File
  BY Zenon, <1>0, AppendContext DEF IInv, PositionInv, SyncHeader, TypeOK
<1>2. CASE SyncFile /\ Succeed([cache EXCEPT !.journal = j], FALSE)
  <2>1. inode' = {file} /\ oldPath' = {}
    BY Zenon, <1>1, <1>2 DEF SyncFile
  <2>2. NextHeader.count = n + 1
    BY Zenon DEF NextHeader
  <2>3. entry \in Elements(JournalEntries(file))
    <3>1. JournalEntries(file) = [i \in 1..(n + 1) |-> file.body[i][Len(file.body[i])]]
      BY Zenon, <1>1, <2>2 DEF JournalEntries
    <3>2. n + 1 \in 1..(n + 1) /\ file.body[n + 1][Len(file.body[n + 1])] = entry
      <4>1. ASSUME NEW t \in Seq(Entry), NEW e \in Entry
            PROVE  Append(t, e)[Len(Append(t, e))] = e
        OBVIOUS
      <4>2. NextTail[Len(NextTail)] = entry
        BY Zenon, <1>1, <4>1 DEF NextTail
      <4>3. n + 1 \in 1..(n + 1)
        BY <1>1
      <4> QED
        BY Zenon, <1>1, <4>2, <4>3
    <3> HIDE DEF n
    <3>3. JournalEntries(file)[n + 1] = entry /\ n + 1 \in DOMAIN JournalEntries(file)
      BY Zenon, <3>1, <3>2
    <3> QED BY Zenon, <3>3 DEF Elements
  <2>4. JournalOf(file) = j
    BY Zenon, <1>1 DEF JournalOf
  <2>5. j \in Journal
    BY Zenon, <1>1, <2>4, JournalOfType
  <2>6. j.count = n + 1
    BY Zenon, <2>2
  <2> HIDE DEF j
  <2>7. Len(file.body) = j.count
    BY Zenon, <1>1, <2>6
  <2> QED BY Zenon, <1>0, <1>1, <1>2, <2>1, <2>3, <2>4, <2>5, <2>7, SucceedPreserves
<1>3. CASE Fault /\ UNCHANGED <<inode, oldPath>> /\ Fail(NoJournal(cache))
  BY Zenon, <1>1, <1>3, GiveUpPreserves DEF disk
<1> QED BY Zenon, <1>2, <1>3 DEF SyncHeader

(* Compaction up to the rename: both names the path may have after a power   *)
(* loss list every accepted entry.                                           *)
LEMMA CompactPreserves ==
  ASSUME IInv, CompactAuthenticatedJournal
  PROVE  IInv'
<1>1. /\ pc = "compact" /\ pc \in InPersist /\ committedLen' = committedLen
      /\ committedLen \in Nat /\ file \in File /\ inode \subseteq File
      /\ oldPath \subseteq File /\ faults \in Nat /\ cache \in Cache
      /\ cache.order \in Seq(Entry)
  BY Zenon DEF CompactAuthenticatedJournal, InPersist, IInv, TypeOK, Cache
<1>2. CASE Fault /\ UNCHANGED disk /\ Fail(NoJournal(cache))
  BY Zenon, <1>1, <1>2, GiveUpPreserves
<1>3. CASE /\ file' = Serialized(cache.order) /\ inode' = {file'}
           /\ oldPath' = oldPath \cup inode
           /\ cache' = NoJournal(cache) /\ Goto("dirsync") /\ faults' = faults
  <2>1. /\ file' \in File /\ file'.kind = "v4" /\ Loads(file')
        /\ Committed(file').count = Len(cache.order) /\ Len(file'.body) = Len(cache.order)
        /\ Elements(JournalEntries(file')) = Elements(cache.order)
    BY <1>1, <1>3, SerializedSafe
  <2>2. Len(cache.order) \in Nat
    BY <1>1
  <2>3. InodeInv'
    BY <1>3, <2>1, <2>2 DEF InodeInv
  <2>4. JournalAlwaysLoads'
    BY Zenon, <1>3, <2>1 DEF JournalAlwaysLoads, IInv
  <2>5. Live \subseteq Elements(cache.order)
    <3>1. Live \subseteq Held
      BY Zenon, <1>1 DEF IInv, LiveHeld
    <3>2. Held \subseteq Elements(cache.order)
      BY <1>1 DEF Held, Elements
    <3> QED BY Zenon, <3>1, <3>2
  <2>6. \A e \in Live : (\A f \in Contents : e \in Elements(JournalEntries(f)))
                        => \A f \in Contents' : e \in Elements(JournalEntries(f))
    BY Zenon, <1>3, <2>1, <2>5 DEF Contents
  <2>7. pc' = "dirsync" /\ cache'.order = cache.order /\ cache'.journal = None
    BY Zenon, <1>1, <1>3 DEF Goto, NoJournal, Cache
  <2>8. PositionInv'
    BY Zenon, <1>3, <2>7 DEF PositionInv, InAppend
  <2>9. "dirsync" \in InPersist /\ "dirsync" \notin InAppend
    BY Zenon DEF InPersist, InAppend
  <2>10. inode' \subseteq File /\ oldPath' \subseteq File /\ faults' \in Nat /\ committedLen' \in Nat
    BY Zenon, <1>1, <1>3, <2>1
  <2> QED BY Zenon, <1>1, <1>3, <2>1, <2>3, <2>4, <2>6, <2>8, <2>9, <2>10, GotoPreserves
<1> QED BY Zenon, <1>2, <1>3 DEF CompactAuthenticatedJournal

(* The directory sync leaves one name and one content. *)
LEMMA DirSyncPreserves ==
  ASSUME IInv, FsyncParentDir
  PROVE  IInv'
<1>1. /\ pc = "dirsync" /\ pc \in InPersist /\ committedLen' = committedLen
      /\ committedLen \in Nat /\ file \in File /\ inode = {file}
      /\ oldPath \subseteq File /\ faults \in Nat /\ cache \in Cache
      /\ cache.order \in Seq(Entry) /\ file = Serialized(cache.order)
      /\ file' = file /\ inode' = inode
  BY Zenon DEF FsyncParentDir, InPersist, IInv, TypeOK, Cache, PositionInv
<1>2. CASE oldPath' = {} /\ Succeed([cache EXCEPT !.journal = JournalOf(file)], TRUE)
  <2>1. /\ file.kind = "v4" /\ Committed(file).count = Len(cache.order)
        /\ Len(file.body) = Len(cache.order)
        /\ Elements(JournalEntries(file)) = Elements(cache.order)
    BY <1>1, SerializedSafe
  <2>2. JournalOf(file) \in Journal /\ JournalOf(file).count = Len(file.body)
    BY Zenon, <1>1, <2>1, JournalOfType
  <2>3. Held \subseteq Elements(cache.order)
    BY <1>1 DEF Held, Elements
  <2>4. op = "insert" => entry \in Elements(cache.order)
    <3> HAVE op = "insert"
    <3>1. cache.order # <<>> /\ cache.order[Len(cache.order)] = entry
      BY Zenon, <1>1 DEF IInv, OpInv
    <3>2. Len(cache.order) \in Nat /\ Len(cache.order) > 0
      BY <1>1, <3>1
    <3> QED BY <1>1, <3>1, <3>2 DEF Elements
  <2> QED BY Zenon, <1>1, <1>2, <2>1, <2>2, <2>3, <2>4, SucceedPreserves
<1>3. CASE Fault /\ oldPath' = oldPath /\ Fail(cache)
  <2>1. InodeInv' /\ JournalAlwaysLoads' /\ Contents' = Contents
    BY Zenon, <1>1, <1>3 DEF InodeInv, JournalAlwaysLoads, IInv, Contents
  <2>2. faults' \in Nat
    BY <1>1, <1>3 DEF Fault
  <2>3. cache.journal = None
    BY Zenon, <1>1 DEF IInv, PositionInv
  <2> QED BY Zenon, <1>1, <1>3, <2>1, <2>2, <2>3, FailPreserves
<1> QED BY Zenon, <1>2, <1>3 DEF FsyncParentDir

-----------------------------------------------------------------------------
(* The theorems. *)

(* A journal an earlier version left loads. *)
LEMMA InitialFileLoads ==
  ASSUME NEW f \in InitialFile
  PROVE  f \in File /\ Loads(f) /\ f.kind # "v4"
<1>1. CASE f \in {NoFile, [NoFile EXCEPT !.kind = "empty"]}
  <2>1. NoFile \in File
    BY Zenon, EmptyCacheType
  <2>2. [NoFile EXCEPT !.kind = "empty"] \in File
    BY Zenon, <2>1 DEF File
  <2> QED BY <1>1, <2>1, <2>2 DEF Loads, NoFile
<1>2. CASE f \notin {NoFile, [NoFile EXCEPT !.kind = "empty"]}
  <2>1. PICK s \in Legacy : \E n \in 0..Len(s) :
          f = [kind |-> "v3", body |-> Serialized(s).body,
               slots |-> [i \in 0..1 |->
                  IF i = 0 THEN [gen |-> 0, count |-> n, tail |-> SubSeq(s, 1, n)]
                  ELSE TornHeader]]
    BY <1>2 DEF InitialFile
  <2>2. PICK n \in 0..Len(s) :
          f = [kind |-> "v3", body |-> Serialized(s).body,
               slots |-> [i \in 0..1 |->
                  IF i = 0 THEN [gen |-> 0, count |-> n, tail |-> SubSeq(s, 1, n)]
                  ELSE TornHeader]]
    BY Zenon, <2>1
  <2>3. s \in Seq(Entry) /\ Len(s) \in Nat /\ n \in Nat /\ n <= Len(s)
    BY ConstantsAssumption
  <2> DEFINE b == Serialized(s).body
             h == [gen |-> 0, count |-> n, tail |-> SubSeq(s, 1, n)]
             sl == [i \in 0..1 |-> IF i = 0 THEN h ELSE TornHeader]
  <2>4. SubSeq(s, 1, n) \in Seq(Entry) /\ (n = 0 => SubSeq(s, 1, n) = <<>>)
    <3>1. n \in Int /\ 1 \in Int /\ \A i \in 1..n : s[i] \in Entry
      BY <2>3
    <3>2. SubSeq(s, 1, n) \in Seq(Entry) /\ Len(SubSeq(s, 1, n)) = IF 1 <= n THEN n - 1 + 1 ELSE 0
      BY <3>1
    <3> QED BY <3>2
  <2>5. /\ Serialized(s) \in File /\ BodyVerifies(Serialized(s))
        /\ Committed(Serialized(s)).count = Len(s) /\ Len(b) = Len(s)
    BY <2>3, SerializedSafe DEF Loads
  <2>6. n # 0 => b[n] = SubSeq(s, 1, n)
    BY <2>3 DEF Serialized
  <2>7. h \in Header /\ TornHeader \in Header /\ h.count = n /\ h.tail = SubSeq(s, 1, n)
    BY <2>3, <2>4 DEF Header, TornHeader
  <2>8. b \in Seq(Seq(Entry)) /\ \A i \in 1..Len(s) : Chained(b, i)
    BY Zenon, <2>5 DEF File, BodyVerifies
  <2> HIDE DEF b, h
  <2>9. f = [kind |-> "v3", body |-> b, slots |-> sl]
    BY Zenon, <2>2 DEF b, h
  <2>10. sl \in [0..1 -> Header] /\ sl[0] = h
    BY <2>7
  <2> HIDE DEF sl
  <2>11. f \in File /\ f.kind = "v3" /\ f.body = b /\ f.slots[0] = h
    BY Zenon, <2>8, <2>9, <2>10 DEF File
  <2>12. Committed(f) = h
    BY Zenon, <2>11 DEF Committed, ActiveSlot
  <2>13. BodyVerifies(f)
    <3>1. \A i \in 1..n : Chained(b, i)
      BY <2>3, <2>8
    <3>2. h.tail = IF n = 0 THEN <<>> ELSE b[n]
      BY Zenon, <2>4, <2>6, <2>7
    <3> QED BY Zenon, <2>3, <2>5, <2>7, <2>11, <2>12, <3>1, <3>2 DEF BodyVerifies
  <2> QED BY Zenon, <2>11, <2>13 DEF Loads
<1> QED BY Zenon, <1>1, <1>2

(* The invariant holds before the first start. *)
LEMMA InitInv ==
  ASSUME Init
  PROVE  IInv
<1>1. file \in File /\ Loads(file) /\ file.kind # "v4"
  BY Zenon, InitialFileLoads DEF Init
<1>2. cache \in Cache /\ cache.pending = <<>>
  BY Zenon, EmptyCacheType DEF Init
<1>3. Live = {}
  BY DEF Init, Live
<1>4. TypeOK
  BY Zenon, <1>1, <1>2 DEF Init, TypeOK
<1>5. OpInv /\ LiveHeld /\ PositionInv
  BY Zenon, <1>2 DEF Init, OpInv, LiveHeld, PositionInv, InPersist, InAppend
<1>6. InodeInv /\ JournalAlwaysLoads /\ AcceptedIsDurable /\ NoReplay
  BY Zenon, <1>1, <1>3 DEF Init, InodeInv, JournalAlwaysLoads, AcceptedIsDurable, NoReplay
<1> QED BY <1>4, <1>5, <1>6 DEF IInv, Init

(* Nothing changes in a stuttering step. *)
LEMMA StutterPreserves ==
  ASSUME IInv, UNCHANGED vars
  PROVE  IInv'
<1>1. /\ cache' = cache /\ pc' = pc /\ op' = op /\ entry' = entry
      /\ committedLen' = committedLen /\ file' = file /\ inode' = inode
      /\ oldPath' = oldPath /\ granted' = granted /\ lost' = lost /\ crashes' = crashes
      /\ now' = now /\ highWater' = highWater /\ faults' = faults
  BY Zenon DEF vars, memory, disk, clock, ghost
<1>2. Live' = Live
  BY Zenon, <1>1 DEF Live
<1>3. TypeOK' /\ OpInv' /\ InodeInv' /\ JournalAlwaysLoads'
  BY Zenon, <1>1 DEF IInv, TypeOK, OpInv, InodeInv, JournalAlwaysLoads
<1>4. LiveHeld' /\ AcceptedIsDurable' /\ NoReplay'
  <2>1. Held' = Held
    BY Zenon, <1>1 DEF Held
  <2>2. LiveHeld'
    BY Zenon, <1>1, <1>2, <2>1 DEF IInv, LiveHeld
  <2>3. AcceptedIsDurable'
    BY Zenon, <1>1, <1>2 DEF IInv, AcceptedIsDurable
  <2>4. NoReplay'
    BY Zenon, <1>1, <1>2 DEF IInv, NoReplay
  <2> QED BY Zenon, <2>2, <2>3, <2>4
<1>5. PositionInv'
  BY Zenon, <1>1 DEF IInv, PositionInv, NextTail, NextHeader, TargetSlot
<1> QED BY Zenon, <1>1, <1>3, <1>4, <1>5 DEF IInv

(* Every step of a cache keeps the invariant, if the file system commits a    *)
(* rename no later than the next fsync of the renamed file.                   *)
LEMMA StepPreserves ==
  ASSUME OrderedMetadata, IInv, [Next \/ DeferredStep]_vars
  PROVE  IInv'
<1>1. ASSUME NEW e \in Entry, InsertNewOutcome(e) PROVE IInv'
  BY Zenon, <1>1, InsertPreserves
<1>2. ASSUME NEW e \in Entry, InsertNewOutcomeDeferred(e) PROVE IInv'
  BY Zenon, <1>2, InsertDeferredPreserves
<1>3. CASE PersistPending \/ DrainNext
  BY Zenon, <1>3, DrainPreserves
<1>4. CASE AppendEntry
  BY Zenon, <1>4, AppendPreserves
<1>5. CASE SyncEntry
  BY Zenon, <1>5, SyncEntryPreserves
<1>6. CASE RollbackEntry
  BY Zenon, <1>6, RollbackPreserves
<1>7. CASE CommitHeader
  BY Zenon, <1>7, CommitHeaderPreserves
<1>8. CASE SyncHeader
  BY Zenon, <1>8, SyncHeaderPreserves
<1>9. CASE CompactAuthenticatedJournal
  BY Zenon, <1>9, CompactPreserves
<1>10. CASE FsyncParentDir
  BY Zenon, <1>10, DirSyncPreserves
<1>11. CASE Load
  BY Zenon, <1>11, LoadPreserves
<1>12. CASE Tick \/ ClockRollback
  BY Zenon, <1>12, ClockPreserves
<1>13. CASE Kill \/ PowerLoss
  BY Zenon, <1>13, DeathPreserves
<1>14. CASE UNCHANGED vars
  BY Zenon, <1>14, StutterPreserves
<1> QED BY Zenon, <1>1, <1>2, <1>3, <1>4, <1>5, <1>6, <1>7, <1>8, <1>9, <1>10, <1>11,
           <1>12, <1>13, <1>14 DEF Next, DeferredStep, Persist

(* IInv is an invariant of the journal driven by immediate inserts. *)
THEOREM Inductive == ASSUME OrderedMetadata PROVE Spec => []IInv
<1>1. Init => IInv
  BY Zenon, InitInv
<1>2. IInv /\ [Next]_vars => IInv'
  BY Zenon, StepPreserves
<1> QED BY <1>1, <1>2, PTL DEF Spec

(* Type correctness of the journal. *)
THEOREM TypeCorrect == ASSUME OrderedMetadata PROVE Spec => []TypeOK
<1>1. IInv => TypeOK
  BY Zenon DEF IInv
<1> QED BY <1>1, Inductive, PTL

(* No handshake still inside the replay window is answered Inserted twice,    *)
(* through any number of I/O errors, clock steps, restarts and power losses.  *)
THEOREM ReplayExcluded == ASSUME OrderedMetadata PROVE Spec => []NoReplay
<1>1. IInv => NoReplay
  BY Zenon DEF IInv
<1> QED BY <1>1, Inductive, PTL

(* An entry answered Inserted is on disk whatever a power loss leaves, or     *)
(* waits in the deferred queue.                                               *)
THEOREM AcceptanceDurable == ASSUME OrderedMetadata PROVE Spec => []AcceptedIsDurable
<1>1. IInv => AcceptedIsDurable
  BY Zenon DEF IInv
<1> QED BY <1>1, Inductive, PTL

(* No death of the process or the machine leaves a journal that the next      *)
(* start refuses.                                                             *)
THEOREM RestartSucceeds == ASSUME OrderedMetadata PROVE Spec => []JournalAlwaysLoads
<1>1. IInv => JournalAlwaysLoads
  BY Zenon DEF IInv
<1> QED BY <1>1, Inductive, PTL

(* Between operations the position kept in memory is the one the file commits *)
(* to, with no line behind it, so that the next append chains.                *)
THEOREM PositionKept == ASSUME OrderedMetadata PROVE Spec => []JournalMatchesFile
<1>1. IInv => JournalMatchesFile
  BY Zenon DEF IInv, PositionInv, JournalMatchesFile
<1> QED BY <1>1, Inductive, PTL

-----------------------------------------------------------------------------
(* The index over the entries held. *)

(* The oldest timestamp is the one timestamp below all others. *)
LEMMA MinTsIs ==
  ASSUME NEW s \in Seq(Entry), s # <<>>
  PROVE  /\ MinTs(s) \in {e.ts : e \in Elements(s)}
         /\ \A e \in Elements(s) : MinTs(s) <= e.ts
         /\ \A t \in {e.ts : e \in Elements(s)} :
              (\A e \in Elements(s) : t <= e.ts) => MinTs(s) = t
<1> DEFINE T == {e.ts : e \in Elements(s)}
<1>1. T \subseteq Nat /\ T # {}
  <2>1. ASSUME NEW e \in Elements(s) PROVE e.ts \in Nat
    <3>1. e \in Entry
      BY DEF Elements
    <3> QED BY Zenon, <3>1, ConstantsAssumption
  <2>2. s[1] \in Elements(s)
    BY DEF Elements
  <2> QED BY Zenon, <2>1, <2>2
<1>2. \E t \in T : \A u \in T : t <= u
  BY Zenon, <1>1, NatMin
<1>3. MinTs(s) = CHOOSE x \in T : \A e \in Elements(s) : x <= e.ts
  BY Zenon DEF MinTs
<1>4. MinTs(s) \in T /\ \A e \in Elements(s) : MinTs(s) <= e.ts
  <2>1. \E t \in T : \A e \in Elements(s) : t <= e.ts
    BY Zenon, <1>2
  <2> QED BY Zenon, <1>3, <2>1
<1>5. ASSUME NEW t \in T, \A e \in Elements(s) : t <= e.ts
      PROVE  MinTs(s) = t
  <2>1. PICK e \in Elements(s) : e.ts = t
    BY Zenon
  <2>2. PICK f \in Elements(s) : f.ts = MinTs(s)
    BY Zenon, <1>4
  <2>3. t \in Nat /\ MinTs(s) \in Nat /\ t <= MinTs(s) /\ MinTs(s) <= t
    BY Zenon, <1>1, <1>4, <1>5, <2>1, <2>2
  <2> QED BY <2>3
<1> QED BY Zenon, <1>4, <1>5

(* push_loaded_entry keeps the index exact. *)
LEMMA PushDescribed ==
  ASSUME NEW c \in Cache, Described(c), NEW e \in Entry
  PROVE  Described(PushLoadedEntry(c, e))
<1> DEFINE p == PushLoadedEntry(c, e)
           o == IF c.oldest = None THEN e.ts ELSE IF e.ts < c.oldest THEN e.ts ELSE c.oldest
<1>1. /\ p.order \in Seq(Entry) /\ Elements(p.order) = Elements(c.order) \cup {e}
      /\ Len(p.order) = Len(c.order) + 1 /\ Len(c.order) \in Nat
  <2>1. Indexed(c)
    BY Zenon DEF Described, Indexed
  <2>2. p \in Cache /\ Elements(p.order) = Elements(c.order) \cup {e}
        /\ Len(p.order) = Len(c.order) + 1 /\ Len(c.order) \in Nat
    BY Zenon, <2>1, PushSafe
  <2> QED BY Zenon, <2>2 DEF Cache
<1>2. /\ p.nonces = c.nonces \cup {e.nonce}
      /\ p.transcripts = c.transcripts \cup {e.transcript}
      /\ p.oldest = o
  BY Zenon DEF PushLoadedEntry, Cache
<1> HIDE DEF p
<1>3. p.order # <<>>
  BY <1>1
<1>4. e.ts \in Nat /\ \A x \in Elements(p.order) : x.ts \in Nat
  BY <1>1, ConstantsAssumption DEF Elements
<1>5. MinTs(p.order) = o
  <2>1. o \in {x.ts : x \in Elements(p.order)} /\ \A x \in Elements(p.order) : o <= x.ts
    <3>1. CASE c.order = <<>>
      <4>1. c.oldest = None /\ Elements(c.order) = {}
        BY <3>1 DEF Described, MinTs, Elements
      <4> QED BY <1>1, <1>4, <4>1
    <3>2. CASE c.order # <<>>
      <4>1. c.order \in Seq(Entry)
        BY Zenon DEF Cache
      <4>2. /\ c.oldest \in {x.ts : x \in Elements(c.order)}
            /\ \A x \in Elements(c.order) : c.oldest <= x.ts
        BY <3>2, <4>1, MinTsIs DEF Described
      <4>3. c.oldest \in Nat /\ c.oldest # None
        BY Zenon, <1>1, <1>4, <4>2, ConstantsAssumption
      <4> QED BY <1>1, <1>4, <4>2, <4>3
    <3> QED BY Zenon, <3>1, <3>2
  <2> HIDE DEF o
  <2> QED BY Zenon, <1>1, <1>3, <2>1, MinTsIs
<1>6. /\ p.nonces = {x.nonce : x \in Elements(p.order)}
      /\ p.transcripts = {x.transcript : x \in Elements(p.order)}
  BY <1>1, <1>2 DEF Described
<1> HIDE DEF o
<1>7. Described(p)
  BY Zenon, <1>2, <1>5, <1>6 DEF Described
<1> QED BY Zenon, <1>7 DEF p

(* pop_pushed_entry and its caller keep it exact: no entry below the popped   *)
(* one shares its nonce or its transcript, and the oldest timestamp is looked *)
(* for again when it was the popped one's.                                    *)
LEMMA PopDescribed ==
  ASSUME NEW c \in Cache, Described(c), c.order # <<>>,
         \A i \in 1..(Len(c.order) - 1) : ~SameHandshake(c.order[i], c.order[Len(c.order)])
  PROVE  Described(PopPushedEntry(c))
<1> DEFINE p == PopPushedEntry(c)
           n == Len(c.order)
           e == c.order[n]
<1>1. c.order \in Seq(Entry) /\ n \in Nat /\ n > 0 /\ e \in Entry
  BY DEF Cache
<1>2. /\ p.order \in Seq(Entry)
      /\ Elements(p.order) = {c.order[i] : i \in 1..(n - 1)}
  <2>1. Indexed(c)
    BY Zenon DEF Described, Indexed
  <2>2. p \in Cache /\ Elements(p.order) = {c.order[i] : i \in 1..(n - 1)}
    BY Zenon, <2>1, PopSafe
  <2> QED BY Zenon, <2>2 DEF Cache
<1>3. /\ p.nonces = c.nonces \ {e.nonce}
      /\ p.transcripts = c.transcripts \ {e.transcript}
      /\ p.oldest = IF c.oldest = e.ts THEN MinTs(p.order) ELSE c.oldest
  BY Zenon DEF PopPushedEntry, Cache
<1> HIDE DEF p
<1>4. Elements(c.order) = Elements(p.order) \cup {e}
  <2>1. Elements(c.order) = {c.order[i] : i \in 1..n}
    BY <1>1 DEF Elements
  <2>2. 1..n = (1..(n - 1)) \cup {n}
    BY <1>1
  <2> HIDE DEF n
  <2> QED BY Zenon, <1>2, <2>1, <2>2
<1>5. \A x \in Elements(p.order) : x.nonce # e.nonce /\ x.transcript # e.transcript
  BY Zenon, <1>2 DEF SameHandshake
<1> HIDE DEF n, e
<1>6. /\ p.nonces = {x.nonce : x \in Elements(p.order)}
      /\ p.transcripts = {x.transcript : x \in Elements(p.order)}
  BY <1>3, <1>4, <1>5 DEF Described
<1>7. p.oldest = MinTs(p.order)
  <2>1. CASE c.oldest # e.ts
    <3>1. /\ c.oldest \in {x.ts : x \in Elements(c.order)}
          /\ \A x \in Elements(c.order) : c.oldest <= x.ts
      BY <1>1, MinTsIs DEF Described
    <3>2. /\ c.oldest \in {x.ts : x \in Elements(p.order)}
          /\ \A x \in Elements(p.order) : c.oldest <= x.ts
      BY Zenon, <1>4, <2>1, <3>1
    <3>3. p.order # <<>>
      BY <3>2 DEF Elements
    <3> QED BY Zenon, <1>2, <1>3, <2>1, <3>2, <3>3, MinTsIs
  <2> QED BY Zenon, <1>3, <2>1
<1>8. Described(p)
  BY Zenon, <1>6, <1>7 DEF Described
<1> QED BY Zenon, <1>8 DEF p

(* prune_expired recomputes the index from what it keeps. *)
LEMMA PruneDescribed ==
  ASSUME NEW c \in Cache, Described(c), NEW t
  PROVE  Described(PruneExpired(c, t))
<1> DEFINE p == PruneExpired(c, t)
           keep == Retain(c.order, t)
           pend == Retain(c.pending, t)
           q == [c EXCEPT !.order = keep,
                          !.nonces = {e.nonce : e \in Elements(keep)},
                          !.transcripts = {e.transcript : e \in Elements(keep)},
                          !.oldest = MinTs(keep),
                          !.pending = pend]
<1> HIDE DEF keep, pend
<1>1. p = c \/ p = q
  BY Zenon DEF PruneExpired, keep, pend
<1>2. Described(q)
  BY Zenon DEF Cache, Described
<1> QED BY Zenon, <1>1, <1>2

(* A cache that was just read from a journal. *)
LEMMA LoadedType ==
  ASSUME NEW s \in Seq(Entry), NEW j \in Journal
  PROVE  Loaded(s, j) \in Cache /\ Described(Loaded(s, j)) /\ Loaded(s, j).pending = <<>>
<1>1. MinTs(s) \in Nat \cup {None}
  BY Zenon, MinTsType
<1>2. Elements(s) \subseteq Entry
  BY DEF Elements
<1>3. {e.nonce : e \in Elements(s)} \subseteq Nat /\ {e.transcript : e \in Elements(s)} \subseteq Nat
  BY SMTT(30), <1>2, ConstantsAssumption
<1>4. Loaded(s, j) \in Cache /\ Loaded(s, j).pending = <<>>
  BY <1>1, <1>3 DEF Loaded, Cache
<1>5. Described(Loaded(s, j))
  BY Zenon DEF Loaded, Described
<1> QED BY Zenon, <1>4, <1>5

(* Neither the journal position nor the queue is part of the index. *)
LEMMA SameIndex ==
  ASSUME NEW c, NEW d, Described(c), d.order = c.order, d.nonces = c.nonces,
         d.transcripts = c.transcripts, d.oldest = c.oldest
  PROVE  Described(d)
BY Zenon DEF Described

(* An operation that returns an error leaves the index exact. *)
LEMMA FailDescribed ==
  ASSUME IInv, pc \in InPersist, Described(cache),
         NEW c, c = cache \/ c = NoJournal(cache), Fail(c)
  PROVE  IndexMatchesOrder'
<1>1. cache \in Cache /\ op \in {"insert", "drain", "load"}
  BY Zenon DEF IInv, TypeOK
<1>2. c \in Cache /\ c.order = cache.order /\ Described(c)
  <2>1. CASE c = NoJournal(cache)
    <3>1. /\ c \in Cache /\ c.order = cache.order /\ c.nonces = cache.nonces
          /\ c.transcripts = cache.transcripts /\ c.oldest = cache.oldest
      BY Zenon, <1>1, <2>1 DEF NoJournal, Cache
    <3> QED BY Zenon, <3>1, SameIndex
  <2> QED BY Zenon, <1>1, <2>1
<1>3. CASE op = "load"
  BY Zenon, <1>3 DEF Fail, IndexMatchesOrder
<1>4. CASE op = "insert"
  <2>1. cache' = PopPushedEntry(c)
    BY Zenon, <1>4 DEF Fail
  <2>2. /\ c.order # <<>>
        /\ \A i \in 1..(Len(c.order) - 1) : ~SameHandshake(c.order[i], c.order[Len(c.order)])
    BY Zenon, <1>2, <1>4 DEF IInv, OpInv
  <2>3. Described(cache')
    BY Zenon, <1>2, <2>1, <2>2, PopDescribed
  <2> QED BY Zenon, <2>3 DEF Described, IndexMatchesOrder
<1>5. CASE op = "drain"
  <2>1. Described(cache')
    BY Zenon, <1>2, <1>5 DEF Fail
  <2> QED BY Zenon, <2>1 DEF Described, IndexMatchesOrder
<1> QED BY Zenon, <1>1, <1>3, <1>4, <1>5

(* So does one that succeeds. *)
LEMMA SucceedDescribed ==
  ASSUME IInv, Described(cache), NEW j, NEW compacted,
         Succeed([cache EXCEPT !.journal = j], compacted)
  PROVE  IndexMatchesOrder'
<1>1. cache \in Cache
  BY Zenon DEF IInv, TypeOK
<1>2. /\ cache'.order = cache.order /\ cache'.nonces = cache.nonces
      /\ cache'.transcripts = cache.transcripts /\ cache'.oldest = cache.oldest
  BY Zenon, <1>1 DEF Succeed, Cache
<1>3. Described(cache')
  BY Zenon, <1>2, SameIndex
<1> QED BY Zenon, <1>3 DEF Described, IndexMatchesOrder

(* Every step keeps the index exact. *)
LEMMA IndexStep ==
  ASSUME IInv, IndexMatchesOrder, [Next \/ DeferredStep]_vars
  PROVE  IndexMatchesOrder'
<1> USE DEF InPersist, InAppend
<1>1. cache \in Cache /\ now \in Nat
  BY Zenon DEF IInv, TypeOK
<1>2. pc # "down" => Described(cache)
  BY Zenon DEF IndexMatchesOrder, Described
<1>3. SUFFICES pc' # "down" => Described(cache')
  BY Zenon DEF IndexMatchesOrder, Described
<1> DEFINE c == PruneExpired(cache, now)
<1>4. pc # "down" => c \in Cache /\ Described(c)
  BY Zenon, <1>1, <1>2, PruneSafe, PruneDescribed
<1> HIDE DEF c
<1>5. ASSUME NEW e \in Entry, InsertNewOutcome(e) PROVE Described(cache')
  <2>1. pc = "idle" /\ (cache' = PushLoadedEntry(c, e) \/ cache' = c)
    BY Zenon, <1>5 DEF InsertNewOutcome, c
  <2> QED BY Zenon, <1>4, <2>1, PushDescribed
<1>6. ASSUME NEW e \in Entry, InsertNewOutcomeDeferred(e) PROVE Described(cache')
  <2> DEFINE p == PushLoadedEntry(c, e)
  <2>1. pc = "idle" /\ (cache' = [p EXCEPT !.pending = Append(@, e)] \/ cache' = c)
    BY Zenon, <1>6 DEF InsertNewOutcomeDeferred, c
  <2>2. Described(p) /\ p \in Cache
    <3>1. Indexed(c)
      BY Zenon, <1>4, <2>1 DEF Described, Indexed
    <3> QED BY Zenon, <1>4, <2>1, <3>1, PushDescribed, PushSafe
  <2> HIDE DEF p
  <2>3. CASE cache' = [p EXCEPT !.pending = Append(@, e)]
    <3>1. /\ cache'.order = p.order /\ cache'.nonces = p.nonces
          /\ cache'.transcripts = p.transcripts /\ cache'.oldest = p.oldest
      BY Zenon, <2>2, <2>3 DEF Cache
    <3> QED BY Zenon, <2>2, <3>1, SameIndex
  <2> QED BY Zenon, <1>4, <2>1, <2>3
<1>7. CASE PersistPending \/ DrainNext
  <2>1. pc # "down" /\ (cache' = cache \/ cache' = [cache EXCEPT !.pending = Tail(@)])
    BY Zenon, <1>7 DEF PersistPending, DrainNext
  <2>2. /\ cache'.order = cache.order /\ cache'.nonces = cache.nonces
        /\ cache'.transcripts = cache.transcripts /\ cache'.oldest = cache.oldest
    BY Zenon, <1>1, <2>1 DEF Cache
  <2> QED BY Zenon, <1>2, <2>1, <2>2, SameIndex
<1>8. CASE AppendEntry \/ SyncEntry \/ RollbackEntry \/ CommitHeader
  <2>1. /\ pc \in InPersist
        /\ \/ Fail(cache) \/ Fail(NoJournal(cache)) \/ cache' = cache
    BY Zenon, <1>8 DEF AppendEntry, SyncEntry, RollbackEntry, CommitHeader
  <2>2. pc # "down"
    BY Zenon, <2>1
  <2> QED BY Zenon, <1>2, <2>1, <2>2, FailDescribed DEF IndexMatchesOrder, Described
<1>9. CASE SyncHeader \/ FsyncParentDir
  <2>1. /\ pc \in InPersist
        /\ \/ Fail(cache) \/ Fail(NoJournal(cache))
           \/ \E j : \E b \in BOOLEAN : Succeed([cache EXCEPT !.journal = j], b)
    BY Zenon, <1>9 DEF SyncHeader, FsyncParentDir
  <2>2. pc # "down"
    BY Zenon, <2>1
  <2> QED BY Zenon, <1>2, <2>1, <2>2, FailDescribed, SucceedDescribed
             DEF IndexMatchesOrder, Described
<1>10. CASE CompactAuthenticatedJournal
  <2>1. pc \in InPersist /\ pc # "down" /\ (Fail(NoJournal(cache)) \/ cache' = NoJournal(cache))
    BY Zenon, <1>10 DEF CompactAuthenticatedJournal
  <2>2. CASE cache' = NoJournal(cache)
    <3>1. /\ cache'.order = cache.order /\ cache'.nonces = cache.nonces
          /\ cache'.transcripts = cache.transcripts /\ cache'.oldest = cache.oldest
      BY Zenon, <1>1, <2>2 DEF NoJournal, Cache
    <3> QED BY Zenon, <1>2, <2>1, <3>1, SameIndex
  <2> QED BY Zenon, <1>2, <2>1, <2>2, FailDescribed DEF IndexMatchesOrder, Described
<1>11. CASE Load
  <2> DEFINE l == Loaded(JournalEntries(file), JournalOf(file))
  <2>1. Described(EmptyCache)
    BY Zenon DEF Described, Loaded, EmptyCache
  <2>2. file \in File /\ Loads(file)
    BY Zenon, <1>11 DEF Load, IInv, TypeOK
  <2>3. JournalEntries(file) \in Seq(Entry) /\ JournalOf(file) \in Journal
    BY Zenon, <2>2, JournalEntriesType, JournalOfType
  <2>4. l \in Cache /\ Described(l)
    BY Zenon, <2>3, LoadedType
  <2> QED BY Zenon, <1>11, <2>1, <2>4, PruneDescribed DEF Load
<1>12. CASE Tick \/ ClockRollback
  BY Zenon, <1>2, <1>12 DEF Tick, ClockRollback, memory
<1>13. CASE Kill \/ PowerLoss
  BY Zenon, <1>13 DEF Kill, PowerLoss, Die
<1>14. CASE UNCHANGED vars
  BY Zenon, <1>2, <1>14 DEF vars, memory
<1> QED BY Zenon, <1>5, <1>6, <1>7, <1>8, <1>9, <1>10, <1>11, <1>12, <1>13, <1>14
        DEF Next, DeferredStep, Persist

(* The index describes exactly the entries held, through inserts, roll-backs, *)
(* pruning and loads, so that the look-ups of an insert decide by what is     *)
(* held.                                                                      *)
THEOREM IndexExact == ASSUME OrderedMetadata PROVE Spec => []IndexMatchesOrder
<1>1. Init => IndexMatchesOrder
  BY Zenon DEF Init, IndexMatchesOrder
<1>2. IInv /\ IndexMatchesOrder /\ [Next]_vars => IndexMatchesOrder'
  BY Zenon, IndexStep
<1> QED BY <1>1, <1>2, Inductive, PTL DEF Spec

-----------------------------------------------------------------------------
(* The guards: acceptances in memory, workers that write behind them. *)

(* A step of a guard is a step of its cache, or leaves the cache alone. *)
LEMMA GuardStep ==
  ASSUME [GuardNext]_guardVars
  PROVE  [Next \/ DeferredStep]_vars
<1>1. ASSUME NEW e \in Entry, Accept(e) PROVE DeferredStep
  BY Zenon, <1>1 DEF Accept, DeferredStep
<1>2. CASE PersistCheckedOut
  BY Zenon, <1>2 DEF PersistCheckedOut, DeferredStep
<1>3. CASE DrainNext \/ Persist \/ Load \/ Tick \/ ClockRollback \/ Kill \/ PowerLoss
  BY Zenon, <1>3 DEF Next, DeferredStep
<1>4. CASE UNCHANGED guardVars
  BY Zenon, <1>4 DEF guardVars
<1> QED BY Zenon, <1>1, <1>2, <1>3, <1>4 DEF GuardNext, Worker

(* IInv is an invariant of a cache behind a guard as well, whatever the order *)
(* in which acceptances and workers take turns at it.                         *)
THEOREM GuardInductive == ASSUME OrderedMetadata PROVE GuardSpec => []IInv
<1>1. GuardInit => IInv
  BY Zenon, InitInv DEF GuardInit
<1>2. IInv /\ [GuardNext]_guardVars => IInv'
  BY Zenon, StepPreserves, GuardStep
<1> QED BY <1>1, <1>2, PTL DEF GuardSpec

(* A ticket or marker accepted by a guard is on disk whatever a power loss    *)
(* leaves, or still waits in the queue; only a crash that catches it there    *)
(* loses it.                                                                  *)
THEOREM GuardDurable == ASSUME OrderedMetadata PROVE GuardSpec => []AcceptedIsDurable
<1>1. IInv => AcceptedIsDurable
  BY Zenon DEF IInv
<1> QED BY <1>1, GuardInductive, PTL

(* Nothing a guard accepted, and no crash caught in its queue, is accepted    *)
(* again inside the replay window.                                            *)
THEOREM GuardExcludesReplay == ASSUME OrderedMetadata PROVE GuardSpec => []NoReplay
<1>1. IInv => NoReplay
  BY Zenon DEF IInv
<1> QED BY <1>1, GuardInductive, PTL

(* The guards keep it so. *)
LEMMA QueueServedStep ==
  ASSUME IInv, QueueServed, [GuardNext]_guardVars
  PROVE  QueueServed'
<1> USE DEF InPersist, InAppend
<1>1. /\ cache \in Cache /\ now \in Nat /\ faults \in Nat /\ granted \in [Entry -> Nat]
      /\ op \in {"drain", "load"} /\ spawned \in Nat
      /\ pc \in {"down", "idle", "drain"} \cup InPersist
  BY Zenon DEF IInv, TypeOK, QueueServed
<1>2. pc \in InPersist /\ op = "load" => cache.pending = <<>>
  BY Zenon DEF IInv, OpInv
<1>3. ASSUME NEW c, c = cache \/ c = NoJournal(cache), pc \in InPersist, Fail(c),
             spawned' = spawned, faults' = faults + 1 \/ (pc = "rollback" /\ faults' = faults)
      PROVE  QueueServed'
  <2>1. faults' # 0
    BY <1>1, <1>3 DEF Fault, QueueServed
  <2> QED BY Zenon, <1>1, <1>3, <2>1 DEF Fail, QueueServed
<1>4. ASSUME NEW j, NEW b \in BOOLEAN, pc \in InPersist,
             Succeed([cache EXCEPT !.journal = j], b), spawned' = spawned
      PROVE  QueueServed'
  <2>1. faults' = faults /\ op' = op /\ pc' = IF op = "drain" THEN "drain" ELSE "idle"
    BY Zenon, <1>4 DEF Succeed
  <2>2. op = "load" => cache'.pending = <<>>
    BY Zenon, <1>1, <1>2, <1>4 DEF Succeed, Cache
  <2> QED BY Zenon, <1>1, <1>4, <2>1, <2>2 DEF QueueServed
<1>5. ASSUME NEW label \in InPersist, Goto(label), UNCHANGED spawned, cache'.pending = cache.pending,
             pc \in InPersist, (faults' = faults /\ label # "rollback") \/ faults' = faults + 1
      PROVE  QueueServed'
  <2>1. pc' = label /\ op' = op
    BY Zenon, <1>5 DEF Goto
  <2> QED BY <1>1, <1>2, <1>5, <2>1 DEF Fault, QueueServed
<1>6. ASSUME NEW e \in Entry, Accept(e) PROVE QueueServed'
  <2> DEFINE c == PruneExpired(cache, now)
  <2>1. pc' = pc /\ pc = "idle" /\ faults' = faults /\ op' = op
        /\ spawned' = IF granted' # granted THEN spawned + 1 ELSE spawned
    BY Zenon, <1>6 DEF Accept, InsertNewOutcomeDeferred
  <2>2. CASE StageOutcome(c, e, now) = "Inserted"
    <3>1. granted' = [granted EXCEPT ![e] = @ + 1]
      BY Zenon, <1>6, <2>2 DEF Accept, InsertNewOutcomeDeferred
    <3>2. granted' # granted
      BY <1>1, <3>1
    <3> QED BY <1>1, <2>1, <3>2 DEF QueueServed
  <2>3. CASE StageOutcome(c, e, now) # "Inserted"
    <3>1. cache' = c
      BY Zenon, <1>6, <2>3 DEF Accept, InsertNewOutcomeDeferred
    <3>2. cache.pending = <<>> => cache'.pending = <<>>
      BY Zenon, <1>1, <3>1, PruneSafe
    <3> QED BY <1>1, <2>1, <3>2 DEF QueueServed
  <2> QED BY Zenon, <2>2, <2>3
<1>7. CASE PersistCheckedOut
  BY <1>1, <1>2, <1>7 DEF PersistCheckedOut, PersistPending, vars, memory, QueueServed
<1>8. CASE DrainNext /\ UNCHANGED spawned
  <2>1. PersistRoute(cache) \in {"append", "compact"}
    BY Zenon DEF PersistRoute
  <2> QED BY Zenon, <1>1, <1>8, <2>1 DEF DrainNext, QueueServed, Cache
<1>9. CASE Persist /\ UNCHANGED spawned
  <2>1. /\ pc \in InPersist /\ UNCHANGED spawned
        /\ \/ /\ Fail(cache) \/ Fail(NoJournal(cache))
              /\ faults' = faults + 1 \/ (pc = "rollback" /\ faults' = faults)
           \/ \E j : \E b \in BOOLEAN : Succeed([cache EXCEPT !.journal = j], b)
           \/ \E label \in InPersist :
                /\ Goto(label) /\ (cache' = cache \/ cache' = NoJournal(cache))
                /\ (faults' = faults /\ label # "rollback") \/ faults' = faults + 1
    <3>1. CASE AppendEntry
      BY <1>9, <3>1 DEF AppendEntry, Fault
    <3>2. CASE SyncEntry
      BY <1>9, <3>2 DEF SyncEntry, Fault
    <3>3. CASE RollbackEntry
      BY Zenon, <1>9, <3>3 DEF RollbackEntry, Fault
    <3>4. CASE CommitHeader
      BY <1>9, <3>4 DEF CommitHeader, Fault
    <3>5. CASE SyncHeader
      BY Zenon, <1>9, <3>5 DEF SyncHeader, Fault
    <3>6. CASE CompactAuthenticatedJournal
      BY <1>9, <3>6 DEF CompactAuthenticatedJournal, Fault
    <3>7. CASE FsyncParentDir
      BY Zenon, <1>9, <3>7 DEF FsyncParentDir, Fault
    <3> QED BY Zenon, <1>9, <3>1, <3>2, <3>3, <3>4, <3>5, <3>6, <3>7 DEF Persist
  <2>2. NoJournal(cache).pending = cache.pending
    BY Zenon, <1>1 DEF NoJournal, Cache
  <2> QED BY Zenon, <1>3, <1>4, <1>5, <2>1, <2>2
<1>10. CASE Load /\ UNCHANGED spawned
  <2>1. cache'.pending = <<>>
    <3>1. file \in File /\ Loads(file)
      BY Zenon, <1>10 DEF Load, IInv, TypeOK
    <3>2. JournalEntries(file) \in Seq(Entry) /\ JournalOf(file) \in Journal
      BY Zenon, <3>1, JournalEntriesType, JournalOfType
    <3> DEFINE l == Loaded(JournalEntries(file), JournalOf(file))
    <3>3. l \in Cache /\ l.pending = <<>>
      BY Zenon, <3>2, LoadedType
    <3>4. cache' = EmptyCache \/ cache' = PruneExpired(l, now)
      BY Zenon, <1>10 DEF Load
    <3> HIDE DEF l
    <3> QED BY Zenon, <1>1, <3>3, <3>4, PruneSafe, EmptyCacheType
  <2> QED BY Zenon, <1>1, <1>10, <2>1 DEF Load, QueueServed
<1>11. CASE (Tick \/ ClockRollback) /\ UNCHANGED spawned
  BY SMTT(30), <1>1, <1>11 DEF Tick, ClockRollback, Fault, memory, QueueServed
<1>12. CASE (Kill \/ PowerLoss) /\ spawned' = 0
  BY Zenon, <1>1, <1>12 DEF Kill, PowerLoss, Die, QueueServed
<1>13. CASE UNCHANGED guardVars
  BY Zenon, <1>13 DEF guardVars, vars, memory, QueueServed
<1> QED BY Zenon, <1>6, <1>7, <1>8, <1>9, <1>10, <1>11, <1>12, <1>13 DEF GuardNext, Worker

(* persist_checked_out may return at once when it finds the slot empty: no    *)
(* queued entry is left without a worker that will write it, unless a write   *)
(* has failed.                                                                *)
THEOREM NoneStranded == ASSUME OrderedMetadata PROVE GuardSpec => []NoStrandedEntry
<1>1. GuardInit => QueueServed
  BY EmptyCacheType DEF GuardInit, Init, QueueServed
<1>2. IInv /\ QueueServed /\ [GuardNext]_guardVars => QueueServed'
  BY Zenon, QueueServedStep
<1>3. QueueServed => NoStrandedEntry
  BY Zenon DEF QueueServed, NoStrandedEntry, InPersist, InAppend
<1> QED BY <1>1, <1>2, <1>3, GuardInductive, PTL DEF GuardSpec

=============================================================================
