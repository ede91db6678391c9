----------------------------- MODULE ParquetCache -----------------------------
(***************************************************************************)
(* "kqr query --reuse": commands that share one entry of the cache, the    *)
(* Parquet file for one broker, topic and window.  A command looks the     *)
(* entry up, and when there is none or only a stale one it consumes the    *)
(* topic and writes the entry anew, to a temporary file that it renames.   *)
(* The names of both files depend on the key alone.  Files are modelled as *)
(* the file system has them: names that point to inodes, and descriptors   *)
(* that stay with the inode when the name goes elsewhere.                  *)
(***************************************************************************)
EXTENDS Integers, FiniteSets

CONSTANTS
    Commands,      \* processes that run kqr, one command after the other
    Nobody,        \* the writer of a block that has not been written
    MaxTime,       \* bound: the clock stops here
    DefaultTtl,    \* DEFAULT_CACHE_TTL of query.rs
    MaxRefreshing  \* how many commands may consume and write at once

ASSUME CacheAssumption ==
    /\ IsFiniteSet(Commands)
    /\ Nobody \notin Commands
    /\ MaxTime \in Nat
    /\ DefaultTtl \in Nat
    /\ MaxRefreshing \in Nat

VARIABLES
    clock,
    key, tmp, \* the inodes the two names point to, NoFile when there is none
    rows,     \* rows[i]: snapshot that the data pages of inode i are from
    footer,   \* footer[i]: snapshot that its footer is from
    mtime,    \* mtime[i]: when inode i was last written
    pc,       \* pc[c]: where command c is
    fd,       \* fd[c]: inode c has opened, to read or to write
    snap,     \* snap[c]: what c has fetched, or what it was served
    checked   \* checked[c]: when c found the entry fresh

files == <<key, tmp, rows, footer, mtime>>
vars == <<clock, files, pc, fd, snap, checked>>

(* The topic as one command read it, beginning at some time. *)
Snapshot == [by : Commands, at : 0 .. MaxTime]

Hole == [by |-> Nobody, at |-> 0]

(* Enough inodes for both names and every descriptor. *)
Inodes == 1 .. (Cardinality(Commands) + 2)

NoFile == 0

Whole(i) == footer[i] # Hole /\ rows[i] = footer[i]

Refreshing == {c \in Commands : pc[c] \in {"consume", "create", "rows", "footer", "rename"}}

Over == {"idle", "hit", "fetched", "failed", "unreadable"}

-----------------------------------------------------------------------------
Init ==
    /\ clock = 0
    /\ key = NoFile
    /\ tmp = NoFile
    /\ rows = [i \in Inodes |-> Hole]
    /\ footer = [i \in Inodes |-> Hole]
    /\ mtime = [i \in Inodes |-> 0]
    /\ pc = [c \in Commands |-> "idle"]
    /\ fd = [c \in Commands |-> NoFile]
    /\ snap = [c \in Commands |-> Hole]
    /\ checked = [c \in Commands |-> 0]

Tick ==
    /\ clock < MaxTime
    /\ clock' = clock + 1
    /\ UNCHANGED <<files, pc, fd, snap, checked>>

Goto(c, l) == pc' = [pc EXCEPT ![c] = l]

(* A new command.  Nothing of an earlier one is left but the files. *)
Start(c) ==
    /\ pc[c] \in Over
    /\ Goto(c, "exists")
    /\ fd' = [fd EXCEPT ![c] = NoFile]
    /\ snap' = [snap EXCEPT ![c] = Hole]
    /\ checked' = [checked EXCEPT ![c] = 0]
    /\ UNCHANGED <<clock, files>>

(* The command is killed; its files stay as they are. *)
Crash(c) ==
    /\ pc[c] \notin Over
    /\ Goto(c, "idle")
    /\ fd' = [fd EXCEPT ![c] = NoFile]
    /\ UNCHANGED <<clock, files, snap, checked>>

-----------------------------------------------------------------------------
(* ParquetCache::read *)

CheckExists(c) ==
    /\ pc[c] = "exists"
    /\ Goto(c, IF key = NoFile THEN "miss" ELSE "fresh")
    /\ UNCHANGED <<clock, files, fd, snap, checked>>

(* A mutant: an entry may be a tick older than the TTL. *)
IsFreshLonger(i) == clock - mtime[i] <= DefaultTtl + 1

(* The age of a file is counted from its last write.                       *)

IsFresh(i) == clock - mtime[i] <= DefaultTtl

CheckFresh(c) ==
    /\ pc[c] = "fresh"
    /\ Goto(c, IF IsFresh(key) THEN "open" ELSE "miss")
    /\ checked' = [checked EXCEPT ![c] = clock]
    /\ UNCHANGED <<clock, files, fd, snap>>

Open(c) ==
    /\ pc[c] = "open"
    /\ fd' = [fd EXCEPT ![c] = key]
    /\ Goto(c, "read")
    /\ UNCHANGED <<clock, files, snap, checked>>

(* A file without a footer does not parse and fails the command; one whose *)
(* pages and footer are of different snapshots may do either.              *)
Outcomes(i) ==
    {l \in {"hit", "unreadable"} :
        IF l = "hit" THEN footer[i] # Hole ELSE ~Whole(i)}

(* A mutant: the name is looked up once more. *)
ReadByName(c) ==
    /\ pc[c] = "read"
    /\ \E l \in Outcomes(key) : Goto(c, l)
    /\ snap' = [snap EXCEPT ![c] = rows[key]]
    /\ UNCHANGED <<clock, files, fd, checked>>

Read(c) ==
    /\ pc[c] = "read"
    /\ \E l \in Outcomes(fd[c]) : Goto(c, l)
    /\ snap' = [snap EXCEPT ![c] = rows[fd[c]]]
    /\ UNCHANGED <<clock, files, fd, checked>>

-----------------------------------------------------------------------------
(* register_topic without a hit, and ParquetCache::write *)

Consume(c) ==
    /\ pc[c] = "miss"
    /\ Cardinality(Refreshing) < MaxRefreshing
    /\ snap' = [snap EXCEPT ![c] = [by |-> c, at |-> clock]]
    /\ Goto(c, "consume")
    /\ UNCHANGED <<clock, files, fd, checked>>

(* The window has been read and decoded, or that failed. *)
Consumed(c) ==
    /\ pc[c] = "consume"
    /\ \E l \in {"create", "failed"} : Goto(c, l)
    /\ UNCHANGED <<clock, files, fd, snap, checked>>

InUse == {key, tmp} \cup {fd[c] : c \in Commands}

(* A mutant: no temporary file. *)
CreateInPlace(c) ==
    /\ pc[c] = "create"
    /\ \E i \in Inodes :
         /\ IF key # NoFile THEN i = key ELSE i \notin InUse
         /\ key' = i
         /\ fd' = [fd EXCEPT ![c] = i]
         /\ rows' = [rows EXCEPT ![i] = Hole]
         /\ footer' = [footer EXCEPT ![i] = Hole]
         /\ mtime' = [mtime EXCEPT ![i] = clock]
    /\ Goto(c, "rows")
    /\ UNCHANGED <<clock, tmp, snap, checked>>

(* File::create: an existing file keeps its inode and loses its content. *)
Create(c) ==
    /\ pc[c] = "create"
    /\ \E i \in Inodes :
         /\ IF tmp # NoFile THEN i = tmp ELSE i \notin InUse
         /\ tmp' = i
         /\ fd' = [fd EXCEPT ![c] = i]
         /\ rows' = [rows EXCEPT ![i] = Hole]
         /\ footer' = [footer EXCEPT ![i] = Hole]
         /\ mtime' = [mtime EXCEPT ![i] = clock]
    /\ Goto(c, "rows")
    /\ UNCHANGED <<clock, key, snap, checked>>

WriteRows(c) ==
    /\ pc[c] = "rows"
    /\ rows' = [rows EXCEPT ![fd[c]] = snap[c]]
    /\ mtime' = [mtime EXCEPT ![fd[c]] = clock]
    /\ Goto(c, "footer")
    /\ UNCHANGED <<clock, key, tmp, footer, fd, snap, checked>>

WriteFooter(c) ==
    /\ pc[c] = "footer"
    /\ footer' = [footer EXCEPT ![fd[c]] = snap[c]]
    /\ mtime' = [mtime EXCEPT ![fd[c]] = clock]
    /\ fd' = [fd EXCEPT ![c] = NoFile]
    /\ Goto(c, "rename")
    /\ UNCHANGED <<clock, key, tmp, rows, snap, checked>>

(* The rename takes whatever file has the temporary name by now. *)
Rename(c) ==
    /\ pc[c] = "rename"
    /\ tmp # NoFile
    /\ key' = tmp
    /\ tmp' = NoFile
    /\ Goto(c, "fetched")
    /\ UNCHANGED <<clock, rows, footer, mtime, fd, snap, checked>>

(* Two mutants: a write that fails is renamed all the same, and it leaves  *)
(* its file open.                                                          *)
WriteFailsRenaming(c) ==
    /\ pc[c] \in {"create", "rows", "footer", "rename"}
    /\ Goto(c, "fetched")
    /\ fd' = [fd EXCEPT ![c] = NoFile]
    /\ IF tmp # NoFile THEN key' = tmp /\ tmp' = NoFile ELSE UNCHANGED <<key, tmp>>
    /\ UNCHANGED <<clock, rows, footer, mtime, snap, checked>>

WriteFailsLeaking(c) ==
    /\ pc[c] \in {"create", "rows", "footer", "rename"}
    /\ Goto(c, "fetched")
    /\ UNCHANGED <<clock, files, fd, snap, checked>>

(* A write that fails is only warned about: the query uses what it fetched.*)
WriteFails(c) ==
    /\ pc[c] \in {"create", "rows", "footer", "rename"}
    /\ Goto(c, "fetched")
    /\ fd' = [fd EXCEPT ![c] = NoFile]
    /\ UNCHANGED <<clock, files, snap, checked>>

-----------------------------------------------------------------------------
Lookup(c) == CheckExists(c) \/ CheckFresh(c) \/ Open(c) \/ Read(c)

Refresh(c) ==
    \/ Consume(c) \/ Consumed(c)
    \/ Create(c) \/ WriteRows(c) \/ WriteFooter(c) \/ Rename(c) \/ WriteFails(c)

Next ==
    \/ Tick
    \/ \E c \in Commands : Start(c) \/ Crash(c) \/ Lookup(c) \/ Refresh(c)

Spec == Init /\ [][Next]_vars

-----------------------------------------------------------------------------
(* Properties. *)

(* The type of every variable, and when a descriptor is open.              *)
TypeOK ==
    /\ clock \in 0 .. MaxTime
    /\ key \in Inodes \cup {NoFile} /\ tmp \in Inodes \cup {NoFile}
    /\ rows \in [Inodes -> Snapshot \cup {Hole}]
    /\ footer \in [Inodes -> Snapshot \cup {Hole}]
    /\ mtime \in [Inodes -> 0 .. MaxTime]
    /\ pc \in [Commands -> Over \cup {"exists", "fresh", "open", "read", "miss",
                 "consume", "create", "rows", "footer", "rename"}]
    /\ fd \in [Commands -> Inodes \cup {NoFile}]
    /\ \A c \in Commands : fd[c] # NoFile <=>
            pc[c] \in {"read", "hit", "unreadable", "rows", "footer"}
    /\ snap \in [Commands -> Snapshot \cup {Hole}]
    /\ checked \in [Commands -> 0 .. MaxTime]

(* "Atomically write batches to key": whoever looks, at any moment and     *)
(* after any crash, finds a complete file of one snapshot, or none.        *)
KeyIsWhole == key # NoFile => Whole(key)

(* A command that finds an entry never fails because of it, although other *)
(* commands write at the same time.                                        *)
EntriesReadable == \A c \in Commands : pc[c] # "unreadable"

(* The file a hit is served from was within the TTL when the entry was     *)
(* checked, although the entry may have been replaced since.               *)
HitIsFresh ==
    \A c \in Commands :
        pc[c] \in {"read", "hit"} => checked[c] - mtime[fd[c]] <= DefaultTtl

-----------------------------------------------------------------------------
(* The entry as SnapshotStore has it: what a name points to, and what a    *)
(* command has in hand or has opened.                                      *)

EntryOf == IF key = NoFile THEN Hole ELSE rows[key]

TakingOf == [c \in Commands |-> IF c \in Refreshing THEN snap[c] ELSE Hole]

ServedOf ==
    [c \in Commands |->
        IF pc[c] = "read" THEN rows[fd[c]] ELSE IF pc[c] = "hit" THEN snap[c] ELSE Hole]

Store == INSTANCE SnapshotStore
    WITH Snapshots <- Snapshot, None <- Hole,
         entry <- EntryOf, taking <- TakingOf, served <- ServedOf

(* Creating, filling and renaming files, and looking at a name three times *)
(* before its file is read, with crashes at any point, amounts to one      *)
(* entry that is replaced and served in single steps.                      *)
ImplementsStore == Store!Spec
=============================================================================
