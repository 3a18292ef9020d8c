----------------------------- MODULE TSMReader -----------------------------
(***************************************************************************)
(* Concurrent typed block reads of one TSM file (src/unnamed/part_000,     *)
(* reader.gen.go: TSMReader.Read*BlockAt and mmapAccessor.read*Block)      *)
(* against closing the reader and remapping the file.                      *)
(*                                                                         *)
(* A read takes the reader lock t.mu shared, then (after incAccess) the    *)
(* accessor lock m.mu shared, checks that the entry lies inside m.b,       *)
(* slices the block past its 4-byte checksum and decodes it, releases      *)
(* m.mu and then t.mu.  The ten typed methods have this same control and   *)
(* differ only in the decoder; a decoder rejects a block of another type.  *)
(*                                                                         *)
(* Close and rename are not in the source files: they are modelled from    *)
(* the spec (4.2, 5).  TSMReader.Close takes t.mu then m.mu exclusively    *)
(* and unmaps the file, leaving m.b nil; a second close finds m.b nil.     *)
(* rename takes m.mu exclusively, unmaps m.b and maps the renamed file     *)
(* again; between the two m.b still has its length but no memory behind.   *)
(***************************************************************************)
EXTENDS Integers, FiniteSets

CONSTANTS
    Readers,     \* goroutines reading through one TSMReader
    Entries,     \* index entries, records [off, size, type]
    Methods,     \* the block types the typed read methods decode
    FileLen,     \* len(m.b) while the file is mapped
    MaxCloses,   \* bound on calls of Close
    MaxRenames   \* bound on calls of rename

ASSUME \A e \in Entries : e.off + e.size <= FileLen /\ e.type \in Methods

VARIABLES
    tmu,     \* t.mu:  [readers : reader count, writer : BOOLEAN, pending : BOOLEAN]
    mmu,     \* m.mu:  the same for the accessor lock
    mb,      \* m.b: "mapped", "stale" (unmapped, not yet replaced) or "nil"
    rpc,     \* [Readers -> step of the read]
    ent,     \* [Readers -> entry being read]
    meth,    \* [Readers -> typed method called]
    res,     \* [Readers -> result of the read]
    cpc,     \* step of the goroutine calling Close
    npc,     \* step of the goroutine calling rename
    closes,  \* Close calls so far
    renames  \* rename calls so far

vars == <<tmu, mmu, mb, rpc, ent, meth, res, cpc, npc, closes, renames>>

Lock == [readers : 0..Cardinality(Readers), writer : BOOLEAN, pending : BOOLEAN]
Free == [readers |-> 0, writer |-> FALSE, pending |-> FALSE]

\* A sync.RWMutex grants RLock while no writer holds it or waits for it.
CanRLock(l) == ~l.writer /\ ~l.pending
RLock(l) == [l EXCEPT !.readers = @ + 1]
RUnlock(l) == [l EXCEPT !.readers = @ - 1]
\* Lock announces the writer, which blocks new readers, then waits for the
\* readers already inside to leave.
Announce(l) == [l EXCEPT !.pending = TRUE]
CanLock(l) == l.readers = 0 /\ ~l.writer
Acquire(l) == [l EXCEPT !.writer = TRUE, !.pending = FALSE]
Release(l) == [l EXCEPT !.writer = FALSE]

\* len(m.b)
BLen == IF mb = "nil" THEN 0 ELSE FileLen

\* The block type byte must match the decoder of the method.
Decodes(e, m) == e.type = m

Init ==
    /\ tmu = Free /\ mmu = Free
    /\ mb = "mapped"
    /\ rpc = [r \in Readers |-> "idle"]
    /\ ent \in [Readers -> Entries]
    /\ meth \in [Readers -> Methods]
    /\ res = [r \in Readers |-> "none"]
    /\ cpc = "idle" /\ npc = "idle"
    /\ closes = 0 /\ renames = 0

----------------------------------------------------------------------------
(* The read path.                                                          *)

\* A caller invokes Read<Type>BlockAt(entry) (or the Array variant):
\* t.mu.RLock() is requested.
CallRead(r, e, m) ==
    /\ rpc[r] = "idle"
    /\ rpc' = [rpc EXCEPT ![r] = "tlock"]
    /\ ent' = [ent EXCEPT ![r] = e]
    /\ meth' = [meth EXCEPT ![r] = m]
    /\ UNCHANGED <<tmu, mmu, mb, res, cpc, npc, closes, renames>>

\* Faulty variant: t.mu admits new readers while a writer waits for it.
RLockT_readerPreferred(r) ==
    /\ rpc[r] = "tlock"
    /\ ~tmu.writer
    /\ tmu' = RLock(tmu)
    /\ rpc' = [rpc EXCEPT ![r] = "mlock"]
    /\ UNCHANGED <<mmu, mb, ent, meth, res, cpc, npc, closes, renames>>

\* t.mu.RLock() returns; the accessor method is called.
RLockT(r) ==
    /\ rpc[r] = "tlock"
    /\ CanRLock(tmu)
    /\ tmu' = RLock(tmu)
    /\ rpc' = [rpc EXCEPT ![r] = "mlock"]
    /\ UNCHANGED <<mmu, mb, ent, meth, res, cpc, npc, closes, renames>>

\* Faulty variant: the shared lock taken does not exclude the writers of m.b.
RLockM_ignoreWriter(r) ==
    /\ rpc[r] = "mlock"
    /\ mmu' = RLock(mmu)
    /\ rpc' = [rpc EXCEPT ![r] = "check"]
    /\ UNCHANGED <<tmu, mb, ent, meth, res, cpc, npc, closes, renames>>

\* m.incAccess(); m.mu.RLock()
RLockM(r) ==
    /\ rpc[r] = "mlock"
    /\ CanRLock(mmu)
    /\ mmu' = RLock(mmu)
    /\ rpc' = [rpc EXCEPT ![r] = "check"]
    /\ UNCHANGED <<tmu, mb, ent, meth, res, cpc, npc, closes, renames>>

\* Faulty variant of the bounds check: "<=" for "<".
CheckBounds_offByOne(r) ==
    /\ rpc[r] = "check"
    /\ IF BLen <= ent[r].off + ent[r].size
          THEN /\ mmu' = RUnlock(mmu)
               /\ res' = [res EXCEPT ![r] = "closed"]
               /\ rpc' = [rpc EXCEPT ![r] = "tunlock"]
          ELSE /\ rpc' = [rpc EXCEPT ![r] = "decode"]
               /\ UNCHANGED <<mmu, res>>
    /\ UNCHANGED <<tmu, mb, ent, meth, cpc, npc, closes, renames>>

\* if int64(len(m.b)) < entry.Offset+int64(entry.Size) {
\*     m.mu.RUnlock(); return nil, ErrTSMClosed }
CheckBounds(r) ==
    /\ rpc[r] = "check"
    /\ IF BLen < ent[r].off + ent[r].size
          THEN /\ mmu' = RUnlock(mmu)
               /\ res' = [res EXCEPT ![r] = "closed"]
               /\ rpc' = [rpc EXCEPT ![r] = "tunlock"]
          ELSE /\ rpc' = [rpc EXCEPT ![r] = "decode"]
               /\ UNCHANGED <<mmu, res>>
    /\ UNCHANGED <<tmu, mb, ent, meth, cpc, npc, closes, renames>>

\* a, err := Decode<Type>Block(m.b[entry.Offset+4:entry.Offset+int64(entry.Size)], values)
\* m.mu.RUnlock()
\* Slicing with Size < 4 puts the low bound past the high bound, and
\* touching a region that is no longer mapped faults: either way the
\* goroutine panics and the process dies.
DecodeBlock(r) ==
    /\ rpc[r] = "decode"
    /\ IF ent[r].size < 4 \/ mb # "mapped"
          THEN /\ rpc' = [rpc EXCEPT ![r] = "panicked"]
               /\ UNCHANGED <<mmu, res>>
          ELSE /\ mmu' = RUnlock(mmu)
               /\ res' = [res EXCEPT ![r] = IF Decodes(ent[r], meth[r]) THEN "data" ELSE "corrupt"]
               /\ rpc' = [rpc EXCEPT ![r] = "tunlock"]
    /\ UNCHANGED <<tmu, mb, ent, meth, cpc, npc, closes, renames>>

\* Faulty variant: m.mu is released a second time on the way out.
RUnlockT_twice(r) ==
    /\ rpc[r] = "tunlock"
    /\ tmu' = RUnlock(tmu)
    /\ mmu' = RUnlock(mmu)
    /\ rpc' = [rpc EXCEPT ![r] = "idle"]
    /\ UNCHANGED <<mb, ent, meth, res, cpc, npc, closes, renames>>

\* t.mu.RUnlock(); the result is returned to the caller.
RUnlockT(r) ==
    /\ rpc[r] = "tunlock"
    /\ tmu' = RUnlock(tmu)
    /\ rpc' = [rpc EXCEPT ![r] = "idle"]
    /\ UNCHANGED <<mmu, mb, ent, meth, res, cpc, npc, closes, renames>>

----------------------------------------------------------------------------
(* Close and rename (modelled from the spec).                              *)

\* TSMReader.Close(): t.mu.Lock() is requested.
CallClose ==
    /\ cpc = "idle" /\ closes < MaxCloses
    /\ ~tmu.writer /\ ~tmu.pending
    /\ tmu' = Announce(tmu)
    /\ cpc' = "twait"
    /\ closes' = closes + 1
    /\ UNCHANGED <<mmu, mb, rpc, ent, meth, res, npc, renames>>

\* t.mu.Lock() returns once the readers inside have left.
LockT ==
    /\ cpc = "twait"
    /\ CanLock(tmu)
    /\ tmu' = Acquire(tmu)
    /\ cpc' = "mlock"
    /\ UNCHANGED <<mmu, mb, rpc, ent, meth, res, npc, closes, renames>>

\* m.mu.Lock() is requested by the goroutine whose step is p, once no other
\* writer holds or waits for m.mu.
AnnounceM(p, q) ==
    /\ p = "mlock"
    /\ ~mmu.writer /\ ~mmu.pending
    /\ mmu' = Announce(mmu)
    /\ q' = "mwait"

\* m.mu.Lock() returns once the readers inside have left.
AcquireM(p, q) ==
    /\ p = "mwait"
    /\ CanLock(mmu)
    /\ mmu' = Acquire(mmu)
    /\ q' = "unmap"

CloseLockM ==
    /\ AnnounceM(cpc, cpc) \/ AcquireM(cpc, cpc)
    /\ UNCHANGED <<tmu, mb, rpc, ent, meth, res, npc, closes, renames>>

\* mmapAccessor.close(): if m.b == nil { return nil }; munmap(m.b); m.b = nil;
\* m.mu.Unlock()
CloseUnmap ==
    /\ cpc = "unmap"
    /\ mb' = "nil"
    /\ mmu' = Release(mmu)
    /\ cpc' = "tunlock"
    /\ UNCHANGED <<tmu, rpc, ent, meth, res, npc, closes, renames>>

\* t.mu.Unlock(); Close returns.
UnlockT ==
    /\ cpc = "tunlock"
    /\ tmu' = Release(tmu)
    /\ cpc' = "idle"
    /\ UNCHANGED <<mmu, mb, rpc, ent, meth, res, npc, closes, renames>>

\* mmapAccessor.rename(path) is called; it requests m.mu.Lock().
CallRename ==
    /\ npc = "idle" /\ renames < MaxRenames
    /\ npc' = "mlock"
    /\ renames' = renames + 1
    /\ UNCHANGED <<tmu, mmu, mb, rpc, ent, meth, res, cpc, closes>>

RenameLockM ==
    /\ AnnounceM(npc, npc) \/ AcquireM(npc, npc)
    /\ UNCHANGED <<tmu, mb, rpc, ent, meth, res, cpc, closes, renames>>

\* munmap(m.b), then the file is renamed and reopened.  A closed accessor
\* stays closed: its rename maps nothing.
RenameUnmap ==
    /\ npc = "unmap"
    /\ IF mb = "nil"
          THEN mmu' = Release(mmu) /\ npc' = "idle" /\ UNCHANGED mb
          ELSE mb' = "stale" /\ npc' = "map" /\ UNCHANGED mmu
    /\ UNCHANGED <<tmu, rpc, ent, meth, res, cpc, closes, renames>>

\* m.b, err = mmap(m.f, 0, int(stat.Size())); m.mu.Unlock()
RenameMap ==
    /\ npc = "map"
    /\ mb' = "mapped"
    /\ mmu' = Release(mmu)
    /\ npc' = "idle"
    /\ UNCHANGED <<tmu, rpc, ent, meth, res, cpc, closes, renames>>

----------------------------------------------------------------------------
\* mmapAccessor.read<Type>Block: m.mu shared, bounds check, decode.
AccessorRead(r) == RLockM(r) \/ CheckBounds(r) \/ DecodeBlock(r)

\* TSMReader.Read<Type>BlockAt: t.mu shared around the accessor call.
ReadStep(r) == RLockT(r) \/ AccessorRead(r) \/ RUnlockT(r)

CloseStep == LockT \/ CloseLockM \/ CloseUnmap \/ UnlockT
RenameStep == RenameLockM \/ RenameUnmap \/ RenameMap

Next ==
    \/ \E r \in Readers : \/ \E e \in Entries, m \in Methods : CallRead(r, e, m)
                          \/ ReadStep(r)
    \/ CallClose \/ CloseStep
    \/ CallRename \/ RenameStep

\* Goroutines are preemptively scheduled and sync.RWMutex wakes blocked
\* goroutines when it is released: a goroutine inside a call keeps moving.
\* Nobody is obliged to start a read, a close or a rename.
Fairness ==
    /\ \A r \in Readers : WF_vars(ReadStep(r))
    /\ WF_vars(CloseStep)
    /\ WF_vars(RenameStep)

Spec == Init /\ [][Next]_vars /\ Fairness

----------------------------------------------------------------------------
TypeOK ==
    /\ tmu \in Lock /\ mmu \in Lock
    /\ mb \in {"mapped", "stale", "nil"}
    /\ rpc \in [Readers -> {"idle", "tlock", "mlock", "check", "decode", "tunlock", "panicked"}]
    /\ ent \in [Readers -> Entries]
    /\ meth \in [Readers -> Methods]
    /\ res \in [Readers -> {"none", "data", "corrupt", "closed"}]
    /\ cpc \in {"idle", "twait", "mlock", "mwait", "unmap", "tunlock"}
    /\ npc \in {"idle", "mlock", "mwait", "unmap", "map"}
    /\ closes \in 0..MaxCloses /\ renames \in 0..MaxRenames

\* A reader only ever decodes from a mapped region: between the bounds
\* check and the decode no close or rename can unmap m.b (the shared m.mu
\* and t.mu held across both against the exclusive locks of close/rename).
NoReadOfUnmapped ==
    \A r \in Readers : rpc[r] = "decode" => mb = "mapped"

\* No read panics: every entry read is sliced within the block it names.
NoPanic == \A r \in Readers : rpc[r] # "panicked"

\* A Close that has been called returns (no reader keeps a lock forever).
CloseCompletes == cpc # "idle" ~> cpc = "idle"

\* The reader implements ReadContract: a read started is "pending" until
\* its result is fixed, by the bounds check (ErrTSMClosed) or by the decode;
\* the file is open until m.b is set to nil.
Contract == INSTANCE ReadContract WITH
    open <- mb # "nil",
    call <- [r \in Readers |-> CASE rpc[r] = "idle" -> "idle"
                                 [] rpc[r] = "tunlock" -> res[r]
                                 [] OTHER -> "pending"],
    req <- [r \in Readers |-> <<ent[r], meth[r]>>]

ContractSpec == Contract!Spec

====
