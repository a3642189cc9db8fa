-------------------------------- MODULE Files --------------------------------
(***************************************************************************)
(* What the program does with files: uploads and other files on a local    *)
(* disk (pkg/storage, pkg/router/upload.go), the cache of HTML pages       *)
(* (pkg/server/file_loader.go), and the files that the generators of the   *)
(* command line write (pkg/commands).                                      *)
(*                                                                         *)
(* A step is one operation of the file system.  A path leads to an inode,  *)
(* which lives on, unlinked, for those that have it open.  A file is two   *)
(* blocks, each known by who wrote it, so that a file can be written in    *)
(* part and by two at once.  Paths are as resolve leaves them.             *)
(***************************************************************************)
EXTENDS Naturals, FiniteSets

CONSTANTS
    Procs,          \* goroutines and commands: each does one thing
    Shared,         \* a path that several may put, get and delete
    Page,           \* the page that is cached
    None,
    Old,            \* whoever wrote what was there before
    InitVersions,   \* versions of the migrations that may be there
    Base,           \* ten: the base in which versions are written
    MaxVersion,     \* the last version with six digits
    MaxClock        \* bound of the model: the clock of the file system

VARIABLES
    link,       \* [Paths -> inode or None]
    data,       \* [Inodes -> blocks]
    mtime,      \* [Inodes -> time of the last write]
    clock,
    cache,      \* FileCache of the page, or None
    crashed,    \* the runtime found two goroutines in the map
    migrations, \* app/Migrations: version, and who generated it
    call

disk == <<link, data, mtime, clock>>
vars == <<disk, cache, crashed, migrations, call>>

\* randomFilename: one path for each upload, which nobody else knows.
Paths == Procs \cup {Shared, Page}
Inodes == Procs \cup {Old}      \* nobody makes more than one
Blocks == [1..2 -> Procs \cup {Old, None}]
Empty == [b \in 1..2 |-> None]
Whole(p) == [b \in 1..2 |-> p]

Entries == [content : Blocks, mtime : Nat, at : Nat]    \* at: history, when it was read
Calls == [op : {"none", "store", "put", "get", "edit", "page", "make"},
          place : {"idle", "open", "first", "second", "remove", "left", "read", "read2",
                   "stat", "lookup", "load", "insert", "scan", "write", "ok", "error"},
          path : Paths \cup {None},
          inode : Inodes \cup {None},
          content : Blocks,             \* what was read
          mtime : Nat, at : Nat,
          version : Nat,
          before : SUBSET (Procs \cup {Old})] \* history: who had generated when it began
Idle == [op |-> "none", place |-> "idle", path |-> None, inode |-> None, content |-> Empty,
         mtime |-> 0, at |-> 0, version |-> 0, before |-> {}]

ASSUME FilesAssumption ==
    /\ Shared # Page /\ {Shared, Page} \cap Procs = {}
    /\ Old \notin Procs /\ None \notin Paths \cup {Old} \cup Entries
    /\ InitVersions \subseteq 1..MaxVersion
    /\ Base \in Nat \ {0} /\ MaxVersion \in Nat /\ MaxClock \in Nat

TypeOK ==
    /\ link \in [Paths -> Inodes \cup {None}]
    /\ data \in [Inodes -> Blocks]
    /\ mtime \in [Inodes -> Nat]
    /\ clock \in Nat
    /\ cache \in Entries \cup {None}
    /\ crashed \in BOOLEAN
    /\ migrations \subseteq [version : Nat, by : Procs \cup {Old}]
    /\ call \in [Procs -> Calls]

Init ==
    /\ link = [p \in Paths |-> IF p = Page THEN Old ELSE None]
    /\ data = [i \in Inodes |-> IF i = Old THEN Whole(Old) ELSE Empty]
    /\ mtime = [i \in Inodes |-> 0]
    /\ clock = 0
    /\ cache = None
    /\ crashed = FALSE
    /\ \E vs \in SUBSET InitVersions :
          migrations = {[version |-> v, by |-> Old] : v \in vs}
    /\ call = [p \in Procs |-> Idle]

At(p, op, place) == call[p].op = op /\ call[p].place = place /\ ~crashed
Set(p, c) == call' = [call EXCEPT ![p] = c]
Goto(p, place) == Set(p, [call[p] EXCEPT !.place = place])
Quiet == UNCHANGED <<disk, cache, crashed, migrations>>

-----------------------------------------------------------------------------
(* Writing a file in place: LocalDisk.Put, and an editor that saves the page. *)

Start(p, op, path) ==
    /\ call[p].op = "none" /\ ~crashed
    /\ Set(p, [Idle EXCEPT !.op = op, !.place = "open", !.path = path])
    /\ Quiet

\* FormFile cannot read the upload, or Validate refuses its size, extension or type:
\* nothing was stored yet.
Refuse(p) ==
    /\ call[p].op = "none" /\ ~crashed
    /\ Set(p, [Idle EXCEPT !.op = "store", !.place = "error", !.path = p])
    /\ Quiet
\* UploadedFile.Store, under a random name.
StoreClientName(p) == Start(p, "store", Shared)
Store(p) == Start(p, "store", p)
Put(p) == Start(p, "put", Shared)
Edit(p) == Start(p, "edit", Page)
Writing == {"store", "put", "edit"}

\* O_CREATE|O_TRUNC: the file there is, or a new one, empty.
Open(p) ==
    /\ call[p].op \in Writing /\ At(p, call[p].op, "open")
    /\ LET path == call[p].path
           i == IF link[path] = None THEN p ELSE link[path]
       IN /\ link' = [link EXCEPT ![path] = i]
          /\ data' = [data EXCEPT ![i] = Empty]
          /\ mtime' = [mtime EXCEPT ![i] = clock]
          /\ Set(p, [call[p] EXCEPT !.place = "first", !.inode = i])
    /\ UNCHANGED <<clock, cache, crashed, migrations>>
WriteBlock(p, place, b, next) ==
    /\ call[p].op \in Writing /\ At(p, call[p].op, place)
    /\ data' = [data EXCEPT ![call[p].inode][b] = p]
    /\ mtime' = [mtime EXCEPT ![call[p].inode] = clock]
    /\ Goto(p, next)
    /\ UNCHANGED <<link, clock, cache, crashed, migrations>>
\* io.Copy fails: the client is gone, or the disk is full.  An editor does not fail.
CopyFails(p) ==
    /\ \E op \in {"store", "put"} : At(p, op, "first") \/ At(p, op, "second")
    /\ Goto(p, "remove")
    /\ Quiet
\* os.Remove: whatever is at the path now.
Remove(p) ==
    /\ \E op \in {"store", "put"} : At(p, op, "remove")
    /\ link' = [link EXCEPT ![call[p].path] = None]
    /\ Goto(p, "error")
    /\ UNCHANGED <<data, mtime, clock, cache, crashed, migrations>>

\* The error of os.Remove is discarded: the caller gets that of io.Copy all the same.
RemoveFails(p) ==
    /\ \E op \in {"store", "put"} : At(p, op, "remove")
    /\ Goto(p, "left")
    /\ Quiet

\* Nobody knows the path of an upload before it is answered.
Known(path) == path \in Procs => call[path].op = "store" /\ call[path].place = "ok"

\* LocalDisk.Get: the reader has the file open while others write.
Get(p, path) ==
    /\ call[p].op = "none" /\ ~crashed
    /\ Known(path)
    /\ Set(p, IF link[path] = None THEN [Idle EXCEPT !.op = "get", !.place = "error"]
              ELSE [Idle EXCEPT !.op = "get", !.place = "read", !.path = path,
                                !.inode = link[path]])
    /\ Quiet
Read(p) ==
    /\ At(p, "get", "read")
    /\ Set(p, [call[p] EXCEPT !.place = "read2", !.content[1] = data[call[p].inode][1]])
    /\ Quiet
ReadRest(p) ==
    /\ At(p, "get", "read2")
    /\ Set(p, [call[p] EXCEPT !.place = "ok", !.content[2] = data[call[p].inode][2]])
    /\ Quiet

\* LocalDisk.Delete: a missing file is not an error.
Delete(path) ==
    /\ ~crashed
    /\ link[path] # None
    /\ Known(path)
    /\ path # Page
    /\ link' = [link EXCEPT ![path] = None]
    /\ UNCHANGED <<data, mtime, clock, cache, crashed, migrations, call>>

-----------------------------------------------------------------------------
(* GetHTMLContent *)

StartPage(p) ==
    /\ call[p].op = "none" /\ ~crashed
    /\ Set(p, [Idle EXCEPT !.op = "page", !.place = "stat", !.path = Page])
    /\ Quiet
Stat(p) ==
    /\ At(p, "page", "stat")
    /\ Set(p, [call[p] EXCEPT !.place = "lookup", !.inode = link[Page],
                              !.mtime = mtime[link[Page]]])
    /\ Quiet
\* The entry serves as long as the file has the time it had then.
Lookup(p) ==
    /\ At(p, "page", "lookup")
    /\ IF cache # None /\ cache.mtime = call[p].mtime
       THEN Set(p, [call[p] EXCEPT !.place = "ok", !.content = cache.content])
       ELSE Goto(p, "load")
    /\ Quiet
Load(p) ==
    /\ At(p, "page", "load")
    /\ Set(p, [call[p] EXCEPT !.place = "insert", !.content = data[link[Page]], !.at = clock])
    /\ Quiet
InsertWithStat(p) ==
    /\ At(p, "page", "insert")
    /\ cache' = [content |-> call[p].content, mtime |-> mtime[link[Page]], at |-> call[p].at]
    /\ Goto(p, "ok")
    /\ UNCHANGED <<disk, crashed, migrations>>
Insert(p) ==
    /\ At(p, "page", "insert")
    /\ cache' = [content |-> call[p].content, mtime |-> call[p].mtime, at |-> call[p].at]
    /\ Goto(p, "ok")
    /\ UNCHANGED <<disk, crashed, migrations>>
\* The map has no lock: one inserts while another looks up or inserts.
MapRace(p, q) ==
    /\ p # q
    /\ At(p, "page", "insert")
    /\ At(q, "page", "insert") \/ At(q, "page", "lookup")
    /\ crashed' = TRUE
    /\ UNCHANGED <<disk, cache, migrations, call>>

-----------------------------------------------------------------------------
(* make migration *)

Generated == {m.by : m \in migrations}
StartMake(p) ==
    /\ call[p].op = "none" /\ ~crashed
    /\ Set(p, [Idle EXCEPT !.op = "make", !.place = "scan", !.before = Generated])
    /\ Quiet

\* The order of versions, which are strings padded to six digits: one of seven
\* sorts by its first six.
Precedes(v, w) ==
    LET six(u) == IF u <= MaxVersion THEN u ELSE u \div Base IN
    six(v) < six(w) \/ (six(v) = six(w) /\ v < w)

\* nextMigrationVersion: one more than the last name of six digits.
Versions == {m.version : m \in {m \in migrations : m.version <= MaxVersion}}
NextByCount == Cardinality(Versions) + 1
NextVersion == IF Versions = {} THEN 1
               ELSE 1 + CHOOSE v \in Versions : \A w \in Versions : w <= v
Scan(p) ==
    /\ At(p, "make", "scan")
    /\ Set(p, [call[p] EXCEPT !.place = "write", !.version = NextVersion])
    /\ Quiet
\* writeGenerated: the names differ, so that nothing of that name exists.
Write(p) ==
    /\ At(p, "make", "write")
    /\ migrations' = migrations \cup {[version |-> call[p].version, by |-> p]}
    /\ Goto(p, "ok")
    /\ UNCHANGED <<disk, cache, crashed>>
\* A developer removes a migration, and one comes with a merge.
RemoveMigration ==
    /\ ~crashed
    /\ \E m \in migrations : migrations' = migrations \ {m}
    /\ UNCHANGED <<disk, cache, crashed, call>>
MergeMigration ==
    /\ ~crashed
    /\ \E v \in 1..MaxVersion :
          migrations' = migrations \cup {[version |-> v, by |-> Old]}
    /\ UNCHANGED <<disk, cache, crashed, call>>

-----------------------------------------------------------------------------
Tick ==
    /\ clock < MaxClock
    /\ clock' = clock + 1
    /\ UNCHANGED <<link, data, mtime, cache, crashed, migrations, call>>

Next ==
    \/ \E p \in Procs :
          \/ Refuse(p) \/ Store(p) \/ Put(p) \/ Edit(p)
          \/ Open(p)
          \/ WriteBlock(p, "first", 1, "second") \/ WriteBlock(p, "second", 2, "ok")
          \/ CopyFails(p) \/ Remove(p) \/ RemoveFails(p)
          \/ \E path \in Paths \ {Page} : Get(p, path)
          \/ Read(p) \/ ReadRest(p)
          \/ StartPage(p) \/ Stat(p) \/ Lookup(p) \/ Load(p) \/ Insert(p)
          \/ \E q \in Procs : MapRace(p, q)
          \/ StartMake(p) \/ Scan(p) \/ Write(p)
    \/ \E path \in Paths : Delete(path)
    \/ RemoveMigration \/ MergeMigration
    \/ Tick

Spec == Init /\ [][Next]_vars

-----------------------------------------------------------------------------
(* Properties. *)

\* An upload that was answered is there, whole and nobody else's, until it is
\* deleted, and whoever has it open reads it whole even then; one that failed has
\* left nothing ("Do not leave a half-written file behind", storage.go:97), unless
\* its removal failed as well, which Put ignores (storage.go:98).
StoredIsWhole ==
    \A p \in Procs :
        /\ call[p].op = "store" =>
              /\ call[p].place = "ok" /\ link[call[p].path] # None =>
                    data[link[call[p].path]] = Whole(p)
              /\ call[p].place = "error" => link[call[p].path] = None
        /\ At(p, "get", "ok") /\ call[p].path # Shared =>
              call[p].content = Whole(call[p].path)

\* The cache never serves an old page for a new file: when an entry has the time of
\* the file and another content, the file was written in the very tick of the
\* clock in which the entry was read.
CacheFresh ==
    cache # None /\ cache.mtime = mtime[link[Page]] /\ cache.content # data[link[Page]]
        => cache.at = cache.mtime

\* Versions order the migrations ("so files sort lexically in apply order",
\* make.go:397): of two that are there, the one whose command began when the other
\* was done is applied later, whatever was removed or merged meanwhile.  Up to six
\* digits: the first version of seven sorts before all that begin with more.
VersionsInOrder ==
    \A m, n \in migrations :
        /\ m.by # Old /\ n.by \in Procs /\ m.by \in call[n.by].before
        /\ m.version <= MaxVersion /\ n.version <= MaxVersion
        => Precedes(m.version, n.version)
==============================================================================
