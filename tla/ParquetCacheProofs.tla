-------------------------- MODULE ParquetCacheProofs --------------------------
(***************************************************************************)
(* What one refreshing command at a time may rely on, for any number of    *)
(* commands, any TTL and any length of time: the entry is whole after      *)
(* every crash, readers of an older entry included, and no hit is stale;   *)
(* and ParquetCache implements SnapshotStore.                              *)
(***************************************************************************)
EXTENDS ParquetCache, FiniteSetTheorems, TLAPS

Writing == {"rows", "footer", "rename"}

Reading == {"read", "hit", "unreadable"}

(* One command refreshes, and it has read the topic. *)
SoleInv ==
    /\ \A c, d \in Refreshing : c = d
    /\ \A c \in Refreshing : snap[c] \in Snapshot

(* The temporary file is not the entry, and belongs to who refreshes. *)
TmpInv ==
    /\ key = NoFile \/ key # tmp
    /\ \A c \in Commands : pc[c] \in Writing =>
        /\ tmp # NoFile
        /\ pc[c] # "rename" => fd[c] = tmp
        /\ pc[c] \in {"footer", "rename"} => rows[tmp] = snap[c]
        /\ pc[c] = "rename" => Whole(tmp)
        /\ key # NoFile => mtime[key] <= mtime[tmp]

(* The entry is whole, and so is what anybody reads, who reads no file that *)
(* is still to be written.                                                 *)
EntryInv ==
    /\ KeyIsWhole
    /\ \A c \in Commands : pc[c] \in Reading => fd[c] # tmp /\ Whole(fd[c])
    /\ EntriesReadable

(* An entry once seen stays, and it was fresh when it was checked. *)
FreshInv ==
    /\ \A c \in Commands : pc[c] \in {"fresh", "open"} => key # NoFile
    /\ \A c \in Commands : pc[c] = "open" => checked[c] - mtime[key] <= DefaultTtl
    /\ HitIsFresh
    /\ \A i \in Inodes : mtime[i] <= clock

IndInv == TypeOK /\ SoleInv /\ TmpInv /\ EntryInv /\ FreshInv

-----------------------------------------------------------------------------
(* Initially the names point to nothing. *)
LEMMA InitInv == Init => IndInv
BY CacheAssumption DEF Init, IndInv, TypeOK, SoleInv, TmpInv, EntryInv, FreshInv,
   KeyIsWhole, EntriesReadable, HitIsFresh, Refreshing, Writing, Reading, Over,
   NoFile, Hole, Snapshot

(* Time makes no file younger. *)
LEMMA TickStep == ASSUME IndInv, Tick PROVE IndInv'
BY CacheAssumption DEF Tick, IndInv, files, TypeOK, SoleInv, TmpInv, EntryInv, FreshInv,
   KeyIsWhole, EntriesReadable, HitIsFresh, Refreshing, Writing, Reading, Whole

(* Who holds a snapshot holds no hole. *)
LEMMA SnapshotIsNoHole == Hole \notin Snapshot
BY CacheAssumption DEF Hole, Snapshot

(* Where one command may refresh, the one that starts to is alone. *)
LEMMA NobodyElse ==
    ASSUME MaxRefreshing = 1, Cardinality(Refreshing) < MaxRefreshing
    PROVE  Refreshing = {}
<1>1. IsFiniteSet(Refreshing)
  BY CacheAssumption, FS_Subset DEF Refreshing
<1>2. Cardinality(Refreshing) = 0
  BY <1>1, FS_CardinalityType
<1>. QED  BY <1>1, <1>2, FS_EmptySet

(* A new command holds nothing open and has checked nothing. *)
LEMMA StartStep ==
    ASSUME IndInv, NEW c \in Commands, Start(c)
    PROVE  IndInv'
<1>. USE CacheAssumption DEF Start, Goto, IndInv, files, Over, NoFile
<1>1. TypeOK'
  BY DEF TypeOK, Refreshing, Snapshot, Hole
<1>2. SoleInv'
  BY DEF TypeOK, SoleInv, Refreshing
<1>3. TmpInv'
  BY DEF TypeOK, SoleInv, TmpInv, FreshInv, EntryInv, Refreshing, Writing, Reading, Whole
<1>4. EntryInv'
  BY DEF TypeOK, SoleInv, TmpInv, EntryInv, FreshInv, Refreshing, Writing, Reading,
         Whole, KeyIsWhole, EntriesReadable
<1>5. FreshInv'
  BY DEF TypeOK, SoleInv, TmpInv, EntryInv, FreshInv, Refreshing, Writing, Reading,
         HitIsFresh
<1>. QED  BY <1>1, <1>2, <1>3, <1>4, <1>5 DEF IndInv

(* A killed command leaves the temporary file to nobody. *)
LEMMA CrashStep ==
    ASSUME IndInv, NEW c \in Commands, Crash(c)
    PROVE  IndInv'
<1>. USE CacheAssumption DEF Crash, Goto, IndInv, files, Over, NoFile
<1>1. TypeOK'
  BY DEF TypeOK, Refreshing, Snapshot, Hole
<1>2. SoleInv'
  BY DEF TypeOK, SoleInv, Refreshing
<1>3. TmpInv'
  BY DEF TypeOK, SoleInv, TmpInv, FreshInv, EntryInv, Refreshing, Writing, Reading, Whole
<1>4. EntryInv'
  BY DEF TypeOK, SoleInv, TmpInv, EntryInv, FreshInv, Refreshing, Writing, Reading,
         Whole, KeyIsWhole, EntriesReadable
<1>5. FreshInv'
  BY DEF TypeOK, SoleInv, TmpInv, EntryInv, FreshInv, Refreshing, Writing, Reading,
         HitIsFresh
<1>. QED  BY <1>1, <1>2, <1>3, <1>4, <1>5 DEF IndInv

(* Only an entry that is there is looked at further. *)
LEMMA CheckExistsStep ==
    ASSUME IndInv, NEW c \in Commands, CheckExists(c)
    PROVE  IndInv'
<1>. USE CacheAssumption DEF CheckExists, Goto, IndInv, files, Over, NoFile
<1>1. TypeOK'
  BY DEF TypeOK, Refreshing, Snapshot, Hole
<1>2. SoleInv'
  BY DEF TypeOK, SoleInv, Refreshing
<1>3. TmpInv'
  BY DEF TypeOK, SoleInv, TmpInv, FreshInv, EntryInv, Refreshing, Writing, Reading, Whole
<1>4. EntryInv'
  BY DEF TypeOK, SoleInv, TmpInv, EntryInv, FreshInv, Refreshing, Writing, Reading,
         Whole, KeyIsWhole, EntriesReadable
<1>5. FreshInv'
  BY DEF TypeOK, SoleInv, TmpInv, EntryInv, FreshInv, Refreshing, Writing, Reading,
         HitIsFresh
<1>. QED  BY <1>1, <1>2, <1>3, <1>4, <1>5 DEF IndInv

(* The check is what FreshInv remembers. *)
LEMMA CheckFreshStep ==
    ASSUME IndInv, NEW c \in Commands, CheckFresh(c)
    PROVE  IndInv'
<1>. USE CacheAssumption DEF CheckFresh, Goto, IndInv, files, Over, NoFile, IsFresh
<1>1. TypeOK'
  BY DEF TypeOK, Refreshing, Snapshot, Hole
<1>2. SoleInv'
  BY DEF TypeOK, SoleInv, Refreshing
<1>3. TmpInv'
  BY DEF TypeOK, SoleInv, TmpInv, FreshInv, EntryInv, Refreshing, Writing, Reading, Whole
<1>4. EntryInv'
  BY DEF TypeOK, SoleInv, TmpInv, EntryInv, FreshInv, Refreshing, Writing, Reading,
         Whole, KeyIsWhole, EntriesReadable
<1>5. FreshInv'
  BY DEF TypeOK, SoleInv, TmpInv, EntryInv, FreshInv, Refreshing, Writing, Reading,
         HitIsFresh
<1>. QED  BY <1>1, <1>2, <1>3, <1>4, <1>5 DEF IndInv

(* An entry that was there is still there, and no older than it was.       *)
LEMMA OpenStep ==
    ASSUME IndInv, NEW c \in Commands, Open(c)
    PROVE  IndInv'
<1>. USE CacheAssumption DEF Open, Goto, IndInv, files, Over, NoFile
<1>1. TypeOK'
  BY DEF TypeOK, FreshInv
<1>2. SoleInv'
  BY DEF TypeOK, SoleInv, Refreshing
<1>3. TmpInv'
  BY DEF TypeOK, SoleInv, TmpInv, FreshInv, EntryInv, Refreshing, Writing, Reading, Whole
<1>4. EntryInv'
  BY DEF TypeOK, SoleInv, TmpInv, EntryInv, FreshInv, Refreshing, Writing, Reading,
         Whole, KeyIsWhole, EntriesReadable
<1>5. FreshInv'
  BY DEF TypeOK, SoleInv, TmpInv, EntryInv, FreshInv, Refreshing, Writing, Reading,
         HitIsFresh
<1>. QED  BY <1>1, <1>2, <1>3, <1>4, <1>5 DEF IndInv

(* What is read is whole, so it parses. *)
LEMMA ReadStep ==
    ASSUME IndInv, NEW c \in Commands, Read(c)
    PROVE  IndInv'
<1>. USE CacheAssumption DEF Read, Goto, IndInv, files, Over, NoFile, Outcomes
<1>1. TypeOK'
  BY DEF TypeOK, Refreshing, Snapshot, Hole
<1>2. SoleInv'
  BY DEF TypeOK, SoleInv, Refreshing
<1>3. TmpInv'
  BY DEF TypeOK, SoleInv, TmpInv, FreshInv, EntryInv, Refreshing, Writing, Reading, Whole
<1>4. EntryInv'
  BY DEF TypeOK, SoleInv, TmpInv, EntryInv, FreshInv, Refreshing, Writing, Reading,
         Whole, KeyIsWhole, EntriesReadable
<1>5. FreshInv'
  BY DEF TypeOK, SoleInv, TmpInv, EntryInv, FreshInv, Refreshing, Writing, Reading,
         HitIsFresh
<1>. QED  BY <1>1, <1>2, <1>3, <1>4, <1>5 DEF IndInv

(* Nobody else refreshes, and the snapshot is by the command itself.       *)
LEMMA ConsumeStep ==
    ASSUME IndInv, MaxRefreshing = 1, NEW c \in Commands, Consume(c)
    PROVE  IndInv'
<1>. USE CacheAssumption DEF Consume, Goto, IndInv, files, Over, NoFile
<1>1. TypeOK'
  BY DEF TypeOK, Refreshing, Snapshot, Hole
<1>2. SoleInv'
  BY NobodyElse DEF TypeOK, SoleInv, Refreshing, Snapshot
<1>3. TmpInv'
  BY DEF TypeOK, SoleInv, TmpInv, FreshInv, EntryInv, Refreshing, Writing, Reading, Whole
<1>4. EntryInv'
  BY DEF TypeOK, SoleInv, TmpInv, EntryInv, FreshInv, Refreshing, Writing, Reading,
         Whole, KeyIsWhole, EntriesReadable
<1>5. FreshInv'
  BY DEF TypeOK, SoleInv, TmpInv, EntryInv, FreshInv, Refreshing, Writing, Reading,
         HitIsFresh
<1>. QED  BY <1>1, <1>2, <1>3, <1>4, <1>5 DEF IndInv

(* The command keeps its snapshot and goes on alone, or gives up.          *)
LEMMA ConsumedStep ==
    ASSUME IndInv, NEW c \in Commands, Consumed(c)
    PROVE  IndInv'
<1>. USE CacheAssumption DEF Consumed, Goto, IndInv, files, Over, NoFile
<1>1. TypeOK'
  BY DEF TypeOK, Refreshing, Snapshot, Hole
<1>2. SoleInv'
  BY DEF TypeOK, SoleInv, Refreshing
<1>3. TmpInv'
  BY DEF TypeOK, SoleInv, TmpInv, FreshInv, EntryInv, Refreshing, Writing, Reading, Whole
<1>4. EntryInv'
  BY DEF TypeOK, SoleInv, TmpInv, EntryInv, FreshInv, Refreshing, Writing, Reading,
         Whole, KeyIsWhole, EntriesReadable
<1>5. FreshInv'
  BY DEF TypeOK, SoleInv, TmpInv, EntryInv, FreshInv, Refreshing, Writing, Reading,
         HitIsFresh
<1>. QED  BY <1>1, <1>2, <1>3, <1>4, <1>5 DEF IndInv

(* A file nobody reads, and not the entry, becomes the temporary one.      *)
LEMMA CreateStep ==
    ASSUME IndInv, NEW c \in Commands, Create(c)
    PROVE  IndInv'
<1>. USE CacheAssumption DEF Create, Goto, IndInv, files, Over, NoFile, InUse
<1>1. TypeOK'
  BY DEF TypeOK, Refreshing, Snapshot, Hole
<1>2. SoleInv'
  BY DEF TypeOK, SoleInv, Refreshing
<1>3. TmpInv'
  BY DEF TypeOK, SoleInv, TmpInv, FreshInv, EntryInv, Refreshing, Writing, Reading, Whole
<1>4. EntryInv'
  BY DEF TypeOK, SoleInv, TmpInv, EntryInv, FreshInv, Refreshing, Writing, Reading,
         Whole, KeyIsWhole, EntriesReadable
<1>5. FreshInv'
  BY DEF TypeOK, SoleInv, TmpInv, EntryInv, FreshInv, Refreshing, Writing, Reading,
         HitIsFresh
<1>. QED  BY <1>1, <1>2, <1>3, <1>4, <1>5 DEF IndInv

(* The pages go to the temporary file. *)
LEMMA WriteRowsStep ==
    ASSUME IndInv, NEW c \in Commands, WriteRows(c)
    PROVE  IndInv'
<1>. USE CacheAssumption DEF WriteRows, Goto, IndInv, files, Over, NoFile
<1>1. TypeOK'
  BY DEF TypeOK, Refreshing, Snapshot, Hole
<1>2. SoleInv'
  BY DEF TypeOK, SoleInv, Refreshing
<1>3. TmpInv'
  BY DEF TypeOK, SoleInv, TmpInv, FreshInv, EntryInv, Refreshing, Writing, Reading, Whole
<1>4. EntryInv'
  BY DEF TypeOK, SoleInv, TmpInv, EntryInv, FreshInv, Refreshing, Writing, Reading,
         Whole, KeyIsWhole, EntriesReadable
<1>5. FreshInv'
  BY DEF TypeOK, SoleInv, TmpInv, EntryInv, FreshInv, Refreshing, Writing, Reading,
         HitIsFresh
<1>. QED  BY <1>1, <1>2, <1>3, <1>4, <1>5 DEF IndInv

(* The footer makes the temporary file whole. *)
LEMMA WriteFooterStep ==
    ASSUME IndInv, NEW c \in Commands, WriteFooter(c)
    PROVE  IndInv'
<1>. USE CacheAssumption DEF WriteFooter, Goto, IndInv, files, Over, NoFile
<1>1. TypeOK'
  BY DEF TypeOK, Refreshing, Snapshot, Hole
<1>2. SoleInv'
  BY DEF TypeOK, SoleInv, Refreshing
<1>3. TmpInv'
  <2>1. snap[c] # Hole
    BY SnapshotIsNoHole DEF SoleInv, Refreshing
  <2>2. fd[c] = tmp /\ rows[tmp] = snap[c] /\ tmp \in Inodes
    BY DEF TypeOK, TmpInv, Writing
  <2>3. \A d \in Commands : pc[d] \in Writing => d = c
    BY DEF TypeOK, SoleInv, Refreshing, Writing
  <2>4. Whole(tmp)'
    BY <2>1, <2>2 DEF TypeOK, Whole
  <2>. QED  BY <2>2, <2>3, <2>4 DEF TypeOK, TmpInv, FreshInv, Writing
<1>4. EntryInv'
  BY DEF TypeOK, SoleInv, TmpInv, EntryInv, FreshInv, Refreshing, Writing, Reading,
         Whole, KeyIsWhole, EntriesReadable
<1>5. FreshInv'
  BY DEF TypeOK, SoleInv, TmpInv, EntryInv, FreshInv, Refreshing, Writing, Reading,
         HitIsFresh
<1>. QED  BY <1>1, <1>2, <1>3, <1>4, <1>5 DEF IndInv

(* The whole temporary file, no older than the entry, becomes the entry.   *)
LEMMA RenameStep ==
    ASSUME IndInv, NEW c \in Commands, Rename(c)
    PROVE  IndInv'
<1>. USE CacheAssumption DEF Rename, Goto, IndInv, files, Over, NoFile
<1>1. TypeOK'
  BY DEF TypeOK, Refreshing, Snapshot, Hole
<1>2. SoleInv'
  BY DEF TypeOK, SoleInv, Refreshing
<1>3. TmpInv'
  BY DEF TypeOK, SoleInv, TmpInv, FreshInv, EntryInv, Refreshing, Writing, Reading, Whole
<1>4. EntryInv'
  BY DEF TypeOK, SoleInv, TmpInv, EntryInv, FreshInv, Refreshing, Writing, Reading,
         Whole, KeyIsWhole, EntriesReadable
<1>5. FreshInv'
  BY DEF TypeOK, SoleInv, TmpInv, EntryInv, FreshInv, Refreshing, Writing, Reading,
         HitIsFresh
<1>. QED  BY <1>1, <1>2, <1>3, <1>4, <1>5 DEF IndInv

(* What was written stays behind, but not as the entry. *)
LEMMA WriteFailsStep ==
    ASSUME IndInv, NEW c \in Commands, WriteFails(c)
    PROVE  IndInv'
<1>. USE CacheAssumption DEF WriteFails, Goto, IndInv, files, Over, NoFile
<1>1. TypeOK'
  BY DEF TypeOK, Refreshing, Snapshot, Hole
<1>2. SoleInv'
  BY DEF TypeOK, SoleInv, Refreshing
<1>3. TmpInv'
  BY DEF TypeOK, SoleInv, TmpInv, FreshInv, EntryInv, Refreshing, Writing, Reading, Whole
<1>4. EntryInv'
  BY DEF TypeOK, SoleInv, TmpInv, EntryInv, FreshInv, Refreshing, Writing, Reading,
         Whole, KeyIsWhole, EntriesReadable
<1>5. FreshInv'
  BY DEF TypeOK, SoleInv, TmpInv, EntryInv, FreshInv, Refreshing, Writing, Reading,
         HitIsFresh
<1>. QED  BY <1>1, <1>2, <1>3, <1>4, <1>5 DEF IndInv

-----------------------------------------------------------------------------
(* The invariant survives every step of every command and of the clock.    *)
LEMMA StepInv ==
    ASSUME MaxRefreshing = 1, IndInv, [Next]_vars
    PROVE  IndInv'
<1>1. CASE Tick
  BY <1>1, TickStep
<1>2. ASSUME NEW c \in Commands, Start(c) \/ Crash(c) PROVE IndInv'
  BY <1>2, StartStep, CrashStep
<1>3. ASSUME NEW c \in Commands, Lookup(c) PROVE IndInv'
  BY <1>3, CheckExistsStep, CheckFreshStep, OpenStep, ReadStep DEF Lookup
<1>4. ASSUME NEW c \in Commands, Refresh(c) PROVE IndInv'
  BY <1>4, ConsumeStep, ConsumedStep, CreateStep, WriteRowsStep, WriteFooterStep,
     RenameStep, WriteFailsStep DEF Refresh
<1>5. CASE UNCHANGED vars
  BY <1>5 DEF vars, files, IndInv, TypeOK, SoleInv, TmpInv, EntryInv, FreshInv,
     KeyIsWhole, EntriesReadable, HitIsFresh, Refreshing, Writing, Reading, Whole
<1>. QED  BY <1>1, <1>2, <1>3, <1>4, <1>5 DEF Next

(* As long as one command at a time refreshes the entry, the invariant     *)
(* holds: the rename publishes only what that command has finished.        *)
THEOREM CacheInvariance == ASSUME MaxRefreshing = 1 PROVE Spec => []IndInv
<1>1. IndInv /\ [Next]_vars => IndInv'
  BY StepInv
<1>. QED  BY <1>1, InitInv, PTL DEF Spec

(* The state of commands, files and clock is well typed.                   *)
THEOREM CacheTyping == ASSUME MaxRefreshing = 1 PROVE Spec => []TypeOK
<1>1. IndInv => TypeOK
  BY DEF IndInv
<1>. QED  BY <1>1, CacheInvariance, PTL

(* ParquetCache::write is atomic: at any moment, and after any crash, the  *)
(* entry is one whole snapshot or is not there.                            *)
THEOREM EntryWhole == ASSUME MaxRefreshing = 1 PROVE Spec => []KeyIsWhole
<1>1. IndInv => KeyIsWhole
  BY DEF IndInv, EntryInv
<1>. QED  BY <1>1, CacheInvariance, PTL

(* ParquetCache::read never fails on an entry, not even on one that is     *)
(* replaced while it is read.                                              *)
THEOREM Readable == ASSUME MaxRefreshing = 1 PROVE Spec => []EntriesReadable
<1>1. IndInv => EntriesReadable
  BY DEF IndInv, EntryInv
<1>. QED  BY <1>1, CacheInvariance, PTL

(* The gap between is_fresh and the open lets in no staler file.           *)
THEOREM FreshHits == ASSUME MaxRefreshing = 1 PROVE Spec => []HitIsFresh
<1>1. IndInv => HitIsFresh
  BY DEF IndInv, FreshInv
<1>. QED  BY <1>1, CacheInvariance, PTL

-----------------------------------------------------------------------------
(* Every step on files is a step of SnapshotStore, or a stutter. *)

(* What leaves the entry and every command's view alone is a stutter.      *)
LEMMA Stutter ==
    ASSUME EntryOf' = EntryOf,
           \A d \in Commands : TakingOf'[d] = TakingOf[d] /\ ServedOf'[d] = ServedOf[d]
    PROVE  UNCHANGED Store!vars
<1>1. TakingOf' = TakingOf
  BY DEF TakingOf
<1>2. ServedOf' = ServedOf
  BY DEF ServedOf
<1>. QED  BY <1>1, <1>2 DEF Store!vars

(* What a command is served changes for one command.                       *)
LEMMA ServedChanges ==
    ASSUME NEW c \in Commands, NEW s, ServedOf'[c] = s,
           \A d \in Commands \ {c} : ServedOf'[d] = ServedOf[d]
    PROVE  ServedOf' = [ServedOf EXCEPT ![c] = s]
BY DEF ServedOf

(* What a command takes changes for one command.                           *)
LEMMA TakingChanges ==
    ASSUME NEW c \in Commands, NEW s, TakingOf'[c] = s,
           \A d \in Commands \ {c} : TakingOf'[d] = TakingOf[d]
    PROVE  TakingOf' = [TakingOf EXCEPT ![c] = s]
BY DEF TakingOf

(* A command that refreshes has something in hand. *)
LEMMA RefreshingTakes ==
    ASSUME IndInv, NEW c \in Commands, c \in Refreshing
    PROVE  TakingOf[c] = snap[c] /\ snap[c] # Hole /\ ServedOf[c] = Hole
BY SnapshotIsNoHole DEF IndInv, SoleInv, TakingOf, ServedOf, Refreshing

(* What a command is served is never a hole. *)
LEMMA ReadingServes ==
    ASSUME IndInv, NEW c \in Commands, pc[c] = "read"
    PROVE  ServedOf[c] = rows[fd[c]] /\ rows[fd[c]] # Hole
BY DEF IndInv, EntryInv, Reading, ServedOf, Whole

-----------------------------------------------------------------------------
(* The clock, the looks at the name and the writing of the temporary file  *)
(* change nothing that can be seen.                                        *)

LEMMA LookStutters ==
    ASSUME IndInv, NEW c \in Commands,
           Tick \/ CheckExists(c) \/ CheckFresh(c)
    PROVE  UNCHANGED Store!vars
<1>1. EntryOf' = EntryOf
  BY DEF Tick, CheckExists, CheckFresh, files, EntryOf
<1>2. ASSUME NEW d \in Commands
      PROVE  TakingOf'[d] = TakingOf[d] /\ ServedOf'[d] = ServedOf[d]
  BY DEF Tick, CheckExists, CheckFresh, Goto, files, IndInv, TypeOK, TakingOf, ServedOf, Refreshing
<1>. QED  BY <1>1, <1>2, Stutter

(* Nobody's file but the temporary one is written to. *)
LEMMA WritingStutters ==
    ASSUME IndInv, NEW c \in Commands,
           Create(c) \/ WriteRows(c) \/ WriteFooter(c)
    PROVE  UNCHANGED Store!vars
<1>. USE DEF IndInv, TypeOK
<1>1. ASSUME NEW i \in Inodes, i = key \/ \E d \in Commands : pc[d] = "read" /\ i = fd[d]
      PROVE  rows'[i] = rows[i]
  <2>1. CASE Create(c)
    BY <1>1, <2>1 DEF Create, TmpInv, EntryInv, Reading, InUse, NoFile
  <2>2. CASE WriteRows(c)
    BY <1>1, <2>2 DEF WriteRows, TmpInv, EntryInv, Reading, Writing, NoFile
  <2>3. CASE WriteFooter(c)
    BY <2>3 DEF WriteFooter
  <2>. QED  BY <2>1, <2>2, <2>3
<1>2. EntryOf' = EntryOf
  <2>1. key' = key
    BY DEF Create, WriteRows, WriteFooter
  <2>. QED  BY <1>1, <2>1 DEF EntryOf
<1>3. ASSUME NEW d \in Commands
      PROVE  TakingOf'[d] = TakingOf[d] /\ ServedOf'[d] = ServedOf[d]
  <2>1. snap' = snap
    BY DEF Create, WriteRows, WriteFooter
  <2>2. /\ (pc'[d] = "read") <=> (pc[d] = "read")
        /\ (pc'[d] = "hit") <=> (pc[d] = "hit")
        /\ (d \in Refreshing') <=> (d \in Refreshing)
    BY DEF Create, WriteRows, WriteFooter, Goto, Refreshing
  <2>3. pc[d] = "read" => fd'[d] = fd[d] /\ fd[d] \in Inodes
    BY DEF Create, WriteRows, WriteFooter, NoFile
  <2>. QED  BY <1>1, <2>1, <2>2, <2>3 DEF TakingOf, ServedOf
<1>. QED  BY <1>2, <1>3, Stutter

(* Reading a file that was opened is being served it, which has happened.  *)
LEMMA ReadStutters ==
    ASSUME IndInv, NEW c \in Commands, Read(c)
    PROVE  UNCHANGED Store!vars
<1>. USE DEF IndInv, TypeOK, Read, Goto, files
<1>1. EntryOf' = EntryOf
  BY DEF EntryOf
<1>2. pc'[c] = "hit" /\ snap'[c] = rows[fd[c]]
  BY DEF Outcomes, EntryInv, Reading
<1>3. ASSUME NEW d \in Commands
      PROVE  TakingOf'[d] = TakingOf[d] /\ ServedOf'[d] = ServedOf[d]
  BY <1>2 DEF TakingOf, ServedOf, Refreshing
<1>. QED  BY <1>1, <1>3, Stutter

-----------------------------------------------------------------------------
(* The other steps are those of the store. *)

(* A new command gives back what the one before it was served. *)
LEMMA StartFinishes ==
    ASSUME IndInv, NEW c \in Commands, Start(c)
    PROVE  Store!Finish(c) \/ UNCHANGED Store!vars
<1>. USE DEF IndInv, TypeOK, Start, Goto, files, Over
<1>1. EntryOf' = EntryOf
  BY DEF EntryOf
<1>2. ASSUME NEW d \in Commands PROVE TakingOf'[d] = TakingOf[d]
  BY DEF TakingOf, Refreshing
<1>3. ServedOf'[c] = Hole
  BY DEF ServedOf
<1>4. ASSUME NEW d \in Commands \ {c} PROVE ServedOf'[d] = ServedOf[d]
  BY DEF ServedOf
<1>5. CASE ServedOf[c] = Hole
  <2>1. ASSUME NEW d \in Commands PROVE ServedOf'[d] = ServedOf[d]
    BY <1>3, <1>4, <1>5
  <2>. QED  BY <1>1, <1>2, <2>1, Stutter
<1>6. CASE ServedOf[c] # Hole
  <2>1. TakingOf' = TakingOf
    BY <1>2 DEF TakingOf
  <2>2. ServedOf' = [ServedOf EXCEPT ![c] = Hole]
    BY <1>3, <1>4, ServedChanges
  <2>. QED  BY <1>1, <1>6, <2>1, <2>2 DEF Store!Finish
<1>. QED  BY <1>5, <1>6

(* A command that is killed gives up what it was taking, or drops what it  *)
(* was reading.                                                            *)
LEMMA CrashGivesUp ==
    ASSUME IndInv, NEW c \in Commands, Crash(c)
    PROVE  Store!GiveUp(c) \/ Store!Finish(c) \/ UNCHANGED Store!vars
<1>. USE DEF IndInv, TypeOK, Crash, Goto, files, Over
<1>1. EntryOf' = EntryOf
  BY DEF EntryOf
<1>2. TakingOf'[c] = Hole /\ ServedOf'[c] = Hole
  BY DEF TakingOf, ServedOf, Refreshing
<1>3. ASSUME NEW d \in Commands \ {c}
      PROVE  TakingOf'[d] = TakingOf[d] /\ ServedOf'[d] = ServedOf[d]
  BY DEF TakingOf, ServedOf, Refreshing
<1>4. CASE c \in Refreshing
  <2>1. TakingOf[c] # Hole /\ ServedOf[c] = Hole
    BY <1>4, RefreshingTakes
  <2>2. ServedOf' = ServedOf
    BY <1>2, <1>3, <2>1 DEF ServedOf
  <2>3. TakingOf' = [TakingOf EXCEPT ![c] = Hole]
    BY <1>2, <1>3, TakingChanges
  <2>. QED  BY <1>1, <2>1, <2>2, <2>3 DEF Store!GiveUp
<1>5. CASE pc[c] = "read"
  <2>1. ServedOf[c] # Hole
    BY <1>5, ReadingServes
  <2>2. TakingOf' = TakingOf
    BY <1>2, <1>3, <1>5 DEF TakingOf, Refreshing
  <2>3. ServedOf' = [ServedOf EXCEPT ![c] = Hole]
    BY <1>2, <1>3, ServedChanges
  <2>. QED  BY <1>1, <2>1, <2>2, <2>3 DEF Store!Finish
<1>6. CASE c \notin Refreshing /\ pc[c] # "read"
  <2>1. TakingOf[c] = Hole /\ ServedOf[c] = Hole
    BY <1>6 DEF TakingOf, ServedOf
  <2>. QED  BY <1>1, <1>2, <1>3, <2>1, Stutter
<1>. QED  BY <1>4, <1>5, <1>6

(* Opening the entry is the moment at which a command is served. *)
LEMMA OpenServes ==
    ASSUME IndInv, NEW c \in Commands, Open(c)
    PROVE  Store!Serve(c)
<1>. USE DEF IndInv, TypeOK, Open, Goto, files
<1>1. key # NoFile /\ Whole(key)
  BY DEF FreshInv, EntryInv, KeyIsWhole
<1>2. EntryOf = rows[key] /\ EntryOf # Hole
  BY <1>1 DEF EntryOf, Whole
<1>3. EntryOf' = EntryOf
  BY DEF EntryOf
<1>4. TakingOf[c] = Hole /\ ServedOf[c] = Hole
  BY DEF TakingOf, ServedOf, Refreshing
<1>5. TakingOf' = TakingOf
  BY DEF TakingOf, Refreshing
<1>6. ServedOf'[c] = EntryOf
  BY <1>2 DEF ServedOf
<1>7. ASSUME NEW d \in Commands \ {c} PROVE ServedOf'[d] = ServedOf[d]
  BY DEF ServedOf
<1>8. ServedOf' = [ServedOf EXCEPT ![c] = EntryOf]
  BY <1>6, <1>7, ServedChanges
<1>. QED  BY <1>2, <1>3, <1>4, <1>5, <1>8 DEF Store!Serve

(* Consuming begins a snapshot. *)
LEMMA ConsumeTakes ==
    ASSUME IndInv, NEW c \in Commands, Consume(c)
    PROVE  Store!Take(c)
<1>. USE DEF IndInv, TypeOK, Consume, Goto, files
<1>1. EntryOf' = EntryOf
  BY DEF EntryOf
<1>2. TakingOf[c] = Hole /\ ServedOf[c] = Hole
  BY DEF TakingOf, ServedOf, Refreshing
<1>3. [by |-> c, at |-> clock] \in Snapshot
  BY CacheAssumption DEF Snapshot
<1>4. TakingOf'[c] = [by |-> c, at |-> clock]
  BY DEF TakingOf, Refreshing
<1>5. ASSUME NEW d \in Commands \ {c} PROVE TakingOf'[d] = TakingOf[d]
  BY DEF TakingOf, Refreshing
<1>6. TakingOf' = [TakingOf EXCEPT ![c] = [by |-> c, at |-> clock]]
  BY <1>4, <1>5, TakingChanges
<1>7. ServedOf' = ServedOf
  BY DEF ServedOf
<1>. QED  BY <1>1, <1>2, <1>3, <1>6, <1>7 DEF Store!Take

(* Consuming goes on to the write, or fails. *)
LEMMA ConsumedGivesUp ==
    ASSUME IndInv, NEW c \in Commands, Consumed(c)
    PROVE  Store!GiveUp(c) \/ UNCHANGED Store!vars
<1>. USE DEF IndInv, TypeOK, Consumed, Goto, files
<1>1. EntryOf' = EntryOf
  BY DEF EntryOf
<1>2. ServedOf' = ServedOf
  BY DEF ServedOf
<1>3. ASSUME NEW d \in Commands \ {c} PROVE TakingOf'[d] = TakingOf[d]
  BY DEF TakingOf, Refreshing
<1>4. CASE pc'[c] = "create"
  <2>1. TakingOf'[c] = TakingOf[c]
    BY <1>4 DEF TakingOf, Refreshing
  <2>. QED  BY <1>1, <1>2, <1>3, <2>1, Stutter
<1>5. CASE pc'[c] = "failed"
  <2>1. TakingOf'[c] = Hole
    BY <1>5 DEF TakingOf, Refreshing
  <2>2. TakingOf[c] # Hole
    BY RefreshingTakes DEF Refreshing
  <2>3. TakingOf' = [TakingOf EXCEPT ![c] = Hole]
    BY <1>3, <2>1, TakingChanges
  <2>. QED  BY <1>1, <1>2, <2>2, <2>3 DEF Store!GiveUp
<1>. QED  BY <1>4, <1>5

(* A write that fails gives the snapshot up. *)
LEMMA WriteFailsGivesUp ==
    ASSUME IndInv, NEW c \in Commands, WriteFails(c)
    PROVE  Store!GiveUp(c)
<1>. USE DEF IndInv, TypeOK, WriteFails, Goto, files
<1>1. EntryOf' = EntryOf
  BY DEF EntryOf
<1>2. TakingOf[c] # Hole
  BY RefreshingTakes DEF Refreshing
<1>3. TakingOf'[c] = Hole
  BY DEF TakingOf, Refreshing
<1>4. ASSUME NEW d \in Commands \ {c} PROVE TakingOf'[d] = TakingOf[d]
  BY DEF TakingOf, Refreshing
<1>5. TakingOf' = [TakingOf EXCEPT ![c] = Hole]
  BY <1>3, <1>4, TakingChanges
<1>6. ServedOf' = ServedOf
  BY DEF ServedOf
<1>. QED  BY <1>1, <1>2, <1>5, <1>6 DEF Store!GiveUp

(* The rename publishes what its command has taken. *)
LEMMA RenamePublishes ==
    ASSUME IndInv, NEW c \in Commands, Rename(c)
    PROVE  Store!Publish(c)
<1>. USE DEF IndInv, TypeOK, Rename, Goto
<1>1. TakingOf[c] = snap[c] /\ TakingOf[c] # Hole
  BY RefreshingTakes DEF Refreshing
<1>2. EntryOf' = TakingOf[c]
  BY <1>1 DEF EntryOf, TmpInv, Writing, NoFile
<1>3. TakingOf'[c] = Hole
  BY DEF TakingOf, Refreshing
<1>4. ASSUME NEW d \in Commands \ {c} PROVE TakingOf'[d] = TakingOf[d]
  BY DEF TakingOf, Refreshing
<1>5. TakingOf' = [TakingOf EXCEPT ![c] = Hole]
  BY <1>3, <1>4, TakingChanges
<1>6. ServedOf' = ServedOf
  BY DEF ServedOf
<1>. QED  BY <1>1, <1>2, <1>5, <1>6 DEF Store!Publish

-----------------------------------------------------------------------------
(* Every step of the files is a step of the store, or none.                *)
LEMMA StoreStep ==
    ASSUME IndInv, [Next]_vars
    PROVE  [Store!Next]_(Store!vars)
<1>1. CASE Tick
  <2>1. CASE Commands = {}
    <3>1. EntryOf' = EntryOf
      BY <1>1 DEF Tick, files, EntryOf
    <3>. QED  BY <3>1, <2>1, Stutter
  <2>2. CASE Commands # {}
    BY <1>1, <2>2, LookStutters
  <2>. QED  BY <2>1, <2>2
<1>2. ASSUME NEW c \in Commands, Start(c) \/ Crash(c) PROVE [Store!Next]_(Store!vars)
  BY <1>2, StartFinishes, CrashGivesUp DEF Store!Next
<1>3. ASSUME NEW c \in Commands, Lookup(c) PROVE [Store!Next]_(Store!vars)
  BY <1>3, LookStutters, OpenServes, ReadStutters DEF Lookup, Store!Next
<1>4. ASSUME NEW c \in Commands, Refresh(c) PROVE [Store!Next]_(Store!vars)
  BY <1>4, ConsumeTakes, ConsumedGivesUp, WritingStutters, RenamePublishes,
     WriteFailsGivesUp DEF Refresh, Store!Next
<1>5. CASE UNCHANGED vars
  <2>1. EntryOf' = EntryOf
    BY <1>5 DEF vars, files, EntryOf
  <2>2. ASSUME NEW d \in Commands
        PROVE  TakingOf'[d] = TakingOf[d] /\ ServedOf'[d] = ServedOf[d]
    BY <1>5 DEF vars, files, TakingOf, ServedOf, Refreshing
  <2>. QED  BY <2>1, <2>2, Stutter
<1>. QED  BY <1>1, <1>2, <1>3, <1>4, <1>5 DEF Next

(* With one refreshing command at a time the cache keeps the promise of    *)
(* SnapshotStore: entries are replaced and served in single steps.         *)
THEOREM StoreRefinement == ASSUME MaxRefreshing = 1 PROVE Spec => ImplementsStore
<1>1. Init => Store!Init
  BY DEF Init, Store!Init, EntryOf, TakingOf, ServedOf, Refreshing
<1>. QED  BY <1>1, StoreStep, CacheInvariance, PTL DEF Spec, ImplementsStore, Store!Spec
=============================================================================
