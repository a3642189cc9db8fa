----------------------------- MODULE Files_proofs -----------------------------
(***************************************************************************)
(* Proofs about Files, for any number of goroutines and commands: the type *)
(* invariant, that an upload is stored whole or not at all, that the cache *)
(* of pages serves no old page for a new file, and that the versions order *)
(* the migrations.                                                         *)
(*                                                                         *)
(* The invariant says where an inode may be linked, which is only where    *)
(* whoever made it put it (LinksOK), what is in that of an upload at each  *)
(* of its steps (StoresOK), that what was read of the page was so at the   *)
(* time it goes by (EntryOK), and that nothing was generated in between    *)
(* under a version that a command may still use (MakesOK).                 *)
(***************************************************************************)
EXTENDS Files, FiniteSetTheorems, WellFoundedInduction, TLAPS

Opened == {"first", "second", "remove", "left", "ok"}

CallOK(p, c) ==
    /\ c \in Calls
    /\ c.op = "store" => c.path = p
    /\ c.op = "put" => c.path = Shared
    /\ c.op = "edit" => c.path = Page
    /\ c.op = "none" => c.place = "idle"
    /\ c.op = "store" /\ c.place \in Opened => c.inode = p
    /\ c.op = "edit" /\ c.place \in Opened => c.inode = Old
    /\ c.op = "get" /\ c.place \in {"read", "read2"} => c.inode \in Inodes
    /\ c.op = "make" /\ c.place = "ok" => p \notin c.before

\* What a call relies on of another: the inode of a put is of a put, and the upload
\* that is read was answered.
OthersOK(c) ==
    /\ c.op = "put" /\ c.place \in Opened =>
          /\ c.inode \in Procs
          /\ call[c.inode].op = "put"
    /\ c.op = "get" /\ c.place \in {"read", "read2", "ok"} /\ c.path # Shared =>
          /\ c.path \in Procs
          /\ call[c.path].op = "store" /\ call[c.path].place = "ok"
          /\ c.place # "ok" => c.inode = c.path
          /\ c.place # "read" => c.content[1] = c.path
          /\ c.place = "ok" => c.content[2] = c.path
CallsOK == \A p \in Procs : CallOK(p, call[p]) /\ OthersOK(call[p])

LinksOK ==
    /\ link[Page] = Old
    /\ \A path \in Paths : link[path] # None /\ path # Page =>
          /\ link[path] \in Procs
          /\ call[link[path]].op \in Writing
          /\ call[link[path]].path = path
          /\ call[link[path]].place \in Opened

StoresOK ==
    \A p \in Procs : call[p].op = "store" =>
        /\ call[p].place = "first" => data[p] = Empty
        /\ call[p].place = "second" => data[p] = [Empty EXCEPT ![1] = p]
        /\ call[p].place = "ok" => data[p] = Whole(p)

EntryOK(e) ==
    /\ e.mtime <= e.at
    /\ e.at <= clock
    /\ e.mtime <= mtime[Old]
    /\ e.mtime = mtime[Old] /\ e.content # data[Old] => e.at = e.mtime
PageOK ==
    /\ mtime[Old] <= clock
    /\ cache # None => EntryOK(cache)
    /\ \A p \in Procs : call[p].op = "page" =>
          /\ call[p].place \in {"lookup", "load"} => call[p].mtime <= mtime[Old]
          /\ call[p].place = "insert" => EntryOK(call[p])

MakesOK ==
    /\ \A m \in migrations : m.by # Old => call[m.by].op = "make" /\ call[m.by].place = "ok"
    /\ \A p \in Procs : \A q \in call[p].before \ {Old} :
          call[q].op = "make" /\ call[q].place = "ok"
    /\ \A p \in Procs : call[p].op = "make" /\ call[p].place = "write" =>
          \A m \in migrations :
             m.by # Old /\ m.by \in call[p].before /\ m.version <= MaxVersion
                => m.version < call[p].version

IInv ==
    /\ TypeOK
    /\ CallsOK
    /\ LinksOK
    /\ StoresOK
    /\ PageOK
    /\ MakesOK
    /\ VersionsInOrder

-----------------------------------------------------------------------------
(* What the step of one call keeps. *)

\* A call goes on with what it began; whoever made an inode that is linked is not
\* done with an error; a command that is done stays so.
Goes(p, c) ==
    call[p].op # "none" =>
        /\ c.op = call[p].op /\ c.path = call[p].path /\ c.before = call[p].before
        /\ call[p].op \in Writing /\ call[p].place \in Opened =>
              c.place \in Opened \/ link'[call[p].path] = None
        /\ call[p].op \in {"make", "store"} /\ call[p].place = "ok" => c.place = "ok"

\* Who is in the set of those before is done, and what a command will write is
\* larger than what they wrote.
MakeOK(c) ==
    /\ \A q \in c.before \ {Old} : call[q].op = "make" /\ call[q].place = "ok"
    /\ c.op = "make" /\ c.place = "write" =>
          \A m \in migrations :
             m.by # Old /\ m.by \in c.before /\ m.version <= MaxVersion
                => m.version < c.version

\* What was read of the page.
PageCallOK(c) ==
    c.op = "page" =>
        /\ c.place \in {"lookup", "load"} => c.mtime <= mtime[Old]
        /\ c.place = "insert" => EntryOK(c)

LEMMA CallNow ==
    ASSUME TypeOK, NEW p \in Procs, NEW c, Set(p, c)
    PROVE  \A q \in Procs : call'[q] = IF q = p THEN c ELSE call[q]
BY DEF Set, TypeOK

LEMMA CallsStay ==
    ASSUME TypeOK, CallsOK, NEW p \in Procs, NEW c, Set(p, c),
           CallOK(p, c), OthersOK(c), Goes(p, c)
    PROVE  CallsOK' /\ call' \in [Procs -> Calls]
<1>1. \A q \in Procs : call'[q] = IF q = p THEN c ELSE call[q]
  BY CallNow
<1>2. ASSUME NEW d, OthersOK(d) PROVE OthersOK(d)'
  <2>1. ASSUME d.op = "put", d.place \in Opened
        PROVE  d.inode \in Procs /\ call'[d.inode].op = "put"
    <3>1. d.inode \in Procs /\ call[d.inode].op = "put"
      BY <1>2, <2>1 DEF OthersOK
    <3> QED  BY <1>1, <3>1 DEF Goes
  <2>2. ASSUME NEW q \in Procs, call[q].op = "store", call[q].place = "ok"
        PROVE  call'[q].op = "store" /\ call'[q].place = "ok"
    BY <1>1, <2>2 DEF Goes
  <2> QED  BY <1>2, <2>1, <2>2 DEF OthersOK
<1>3. ASSUME NEW q \in Procs, NEW d, d = call'[q] PROVE CallOK(q, d) /\ OthersOK(d)'
  <2>1. CASE q = p
    BY <1>1, <1>2, <1>3, <2>1
  <2>2. CASE q # p
    BY <1>1, <1>2, <1>3, <2>2 DEF CallsOK
  <2> QED  BY <2>1, <2>2
<1>4. CallsOK'
  BY <1>3 DEF CallsOK, CallOK
<1>5. call' \in [Procs -> Calls]
  BY DEF Set, TypeOK, CallOK
<1> QED  BY <1>4, <1>5

\* Links are kept or removed.
LEMMA LinksStay ==
    ASSUME TypeOK, LinksOK, NEW p \in Procs, NEW c, Set(p, c), Goes(p, c),
           link'[Page] = Old,
           \A path \in Paths : path # Page => link'[path] \in {link[path], None}
    PROVE  LinksOK'
<1>1. \A q \in Procs : call'[q] = IF q = p THEN c ELSE call[q]
  BY CallNow
<1>2. ASSUME NEW path \in Paths, path # Page, NEW q, q = link'[path], q # None
      PROVE  /\ q \in Procs
             /\ call'[q].op \in Writing
             /\ call'[q].path = path
             /\ call'[q].place \in Opened
  <2>1. q = link[path]
    BY <1>2
  <2>2. /\ q \in Procs /\ call[q].op \in Writing
        /\ call[q].path = path /\ call[q].place \in Opened
    BY <1>2, <2>1 DEF LinksOK
  <2>3. call[q].op # "none"
    BY <2>2 DEF Writing
  <2>4. CASE q = p
    BY <1>1, <1>2, <2>2, <2>3, <2>4 DEF Goes
  <2>5. CASE q # p
    BY <1>1, <2>2, <2>5
  <2> QED  BY <2>4, <2>5
<1> QED  BY <1>2 DEF LinksOK

\* The contents of uploads are kept where nobody writes.
LEMMA StoresStay ==
    ASSUME TypeOK, StoresOK, NEW p \in Procs, NEW c, Set(p, c),
           \A q \in Procs : q # p /\ call[q].op = "store" => data'[q] = data[q],
           c.op = "store" => /\ c.place = "first" => data'[p] = Empty
                             /\ c.place = "second" => data'[p] = [Empty EXCEPT ![1] = p]
                             /\ c.place = "ok" => data'[p] = Whole(p)
    PROVE  StoresOK'
<1>1. \A q \in Procs : call'[q] = IF q = p THEN c ELSE call[q]
  BY CallNow
<1>2. ASSUME NEW q \in Procs, call'[q].op = "store"
      PROVE  /\ call'[q].place = "first" => data'[q] = Empty
             /\ call'[q].place = "second" => data'[q] = [Empty EXCEPT ![1] = q]
             /\ call'[q].place = "ok" => data'[q] = Whole(q)
  <2>1. CASE q = p
    BY <1>1, <1>2, <2>1
  <2>2. CASE q # p
    <3>1. call'[q] = call[q]
      BY <1>1, <2>2
    <3>2. data'[q] = data[q]
      BY <1>2, <2>2, <3>1
    <3> QED  BY <1>2, <3>1, <3>2 DEF StoresOK
  <2> QED  BY <2>1, <2>2
<1>3. Empty' = Empty /\ \A q : Whole(q)' = Whole(q)
  BY DEF Empty, Whole
<1> QED  BY <1>2, <1>3 DEF StoresOK, Empty, Whole

\* A write to the page's file, if any, is at the time of the clock.
PageFileGoes ==
    /\ clock' \in Nat /\ clock <= clock' /\ mtime'[Old] \in Nat
    /\ \/ data'[Old] = data[Old] /\ mtime'[Old] = mtime[Old]
       \/ mtime'[Old] = clock

LEMMA EntryStays ==
    ASSUME TypeOK, PageOK, PageFileGoes, NEW e, e.mtime \in Nat, e.at \in Nat, EntryOK(e)
    PROVE  EntryOK(e)'
<1>1. clock \in Nat /\ mtime[Old] \in Nat /\ mtime[Old] <= clock
  BY DEF TypeOK, PageOK, Inodes
<1> QED  BY <1>1 DEF EntryOK, PageFileGoes

LEMMA PageStays ==
    ASSUME TypeOK, PageOK, PageFileGoes, NEW p \in Procs, NEW c, Set(p, c),
           c \in Calls, PageCallOK(c),
           \/ cache' = cache
           \/ /\ cache' \in Entries /\ EntryOK(cache)'
    PROVE  PageOK'
<1>1. \A q \in Procs : call'[q] = IF q = p THEN c ELSE call[q]
  BY CallNow
<1>2. clock \in Nat /\ mtime[Old] \in Nat /\ mtime[Old] <= clock
  BY DEF TypeOK, PageOK, Inodes
<1>3. mtime'[Old] <= clock'
  BY <1>2 DEF PageFileGoes
<1>4. ASSUME NEW d \in Calls, PageCallOK(d) PROVE PageCallOK(d)'
  <2>1. d.mtime \in Nat /\ d.at \in Nat
    BY DEF Calls
  <2>2. d.op = "page" /\ d.place = "insert" => EntryOK(d)'
    BY <1>4, <2>1, EntryStays DEF PageCallOK
  <2>3. d.op = "page" /\ d.place \in {"lookup", "load"} => d.mtime <= mtime'[Old]
    BY <1>2, <1>4, <2>1 DEF PageCallOK, PageFileGoes
  <2> QED  BY <2>2, <2>3 DEF PageCallOK
<1>5. ASSUME NEW q \in Procs, NEW d, d = call'[q] PROVE PageCallOK(d)'
  <2>1. CASE q = p
    BY <1>1, <1>4, <1>5, <2>1
  <2>2. CASE q # p
    <3>1. d = call[q] /\ d \in Calls
      BY <1>1, <1>5, <2>2 DEF TypeOK
    <3>2. PageCallOK(d)
      BY <3>1 DEF PageOK, PageCallOK
    <3> QED  BY <1>4, <3>1, <3>2
  <2> QED  BY <2>1, <2>2
<1>6. cache' # None => EntryOK(cache)'
  <2>1. CASE cache' = cache
    <3> SUFFICES ASSUME NEW e, e = cache, e # None PROVE EntryOK(e)'
      BY <2>1
    <3>1. e \in Entries /\ EntryOK(e)
      BY DEF TypeOK, PageOK
    <3> QED  BY <3>1, EntryStays DEF Entries
  <2> QED  BY <2>1
<1> QED  BY <1>3, <1>5, <1>6 DEF PageOK, PageCallOK

\* Nothing is generated in between.
LEMMA MakesStay ==
    ASSUME TypeOK, MakesOK, VersionsInOrder, NEW p \in Procs, NEW c, Set(p, c), Goes(p, c),
           c \in Calls, MakeOK(c), UNCHANGED migrations
    PROVE  MakesOK' /\ VersionsInOrder'
<1>1. \A q \in Procs : call'[q] = IF q = p THEN c ELSE call[q]
  BY CallNow
<1>2. \A m \in migrations : m.by \in Procs \cup {Old}
  BY DEF TypeOK
<1>3. \A q \in Procs : call[q].op = "make" /\ call[q].place = "ok" =>
         call'[q].op = "make" /\ call'[q].place = "ok" /\ call'[q].before = call[q].before
  BY <1>1 DEF Goes
<1>4. \A m \in migrations : m.by # Old => call'[m.by].op = "make" /\ call'[m.by].place = "ok"
  BY <1>2, <1>3 DEF MakesOK
<1>5. ASSUME NEW q \in Procs, NEW d, d = call'[q]
      PROVE  /\ \A r \in d.before \ {Old} : call'[r].op = "make" /\ call'[r].place = "ok"
             /\ d.op = "make" /\ d.place = "write" =>
                   \A m \in migrations :
                      m.by # Old /\ m.by \in d.before /\ m.version <= MaxVersion
                         => m.version < d.version
  <2>1. MakeOK(d) /\ d \in Calls
    <3>1. CASE q = p
      BY <1>1, <1>5, <3>1
    <3>2. CASE q # p
      BY <1>1, <1>5, <3>2 DEF MakeOK, MakesOK, TypeOK
    <3> QED  BY <3>1, <3>2
  <2>2. \A r \in d.before \ {Old} : r \in Procs /\ call'[r].op = "make" /\ call'[r].place = "ok"
    BY <1>3, <2>1 DEF MakeOK, Calls
  <2> QED  BY <2>1, <2>2 DEF MakeOK
<1>6. MakesOK'
  BY <1>4, <1>5 DEF MakesOK
<1>7. VersionsInOrder'
  <2> SUFFICES ASSUME NEW m \in migrations, NEW n \in migrations,
                      m.by # Old, n.by \in Procs, m.by \in call'[n.by].before,
                      m.version <= MaxVersion, n.version <= MaxVersion
               PROVE  Precedes(m.version, n.version)
    BY DEF VersionsInOrder
  <2>1. n.by # Old
    BY FilesAssumption
  <2>2. call'[n.by].before = call[n.by].before
    BY <1>3, <2>1 DEF MakesOK
  <2> QED  BY <2>2 DEF VersionsInOrder
<1> QED  BY <1>6, <1>7

\* A step that changes one call only.
LEMMA QuietCall ==
    ASSUME IInv, NEW p \in Procs, NEW c, Set(p, c), Quiet,
           CallOK(p, c), OthersOK(c), Goes(p, c), PageCallOK(c), MakeOK(c),
           c.op = "store" => c.place \notin {"first", "second", "ok"}
    PROVE  IInv'
<1>1. TypeOK /\ CallsOK /\ LinksOK /\ StoresOK /\ PageOK /\ MakesOK /\ VersionsInOrder
  BY DEF IInv
<1>2. UNCHANGED <<link, data, mtime, clock, cache, crashed, migrations>> /\ c \in Calls
  BY DEF Quiet, disk, CallOK
<1>3. CallsOK' /\ call' \in [Procs -> Calls]
  BY <1>1, CallsStay
<1>4. TypeOK'
  BY <1>1, <1>2, <1>3 DEF TypeOK
<1>5. LinksOK'
  BY <1>1, <1>2, LinksStay DEF LinksOK
<1>6. StoresOK'
  BY <1>1, <1>2, StoresStay
<1>7. PageFileGoes
  BY <1>1, <1>2 DEF PageFileGoes, TypeOK, Inodes
<1>8. PageOK'
  BY <1>1, <1>2, <1>7, PageStays
<1>9. MakesOK' /\ VersionsInOrder'
  BY <1>1, <1>2, MakesStay
<1> QED  BY <1>3, <1>4, <1>5, <1>6, <1>8, <1>9 DEF IInv

\* What holds of a call as it is.
LEMMA CallIs ==
    ASSUME IInv, NEW p \in Procs
    PROVE  /\ call[p] \in Calls /\ CallOK(p, call[p]) /\ OthersOK(call[p])
           /\ PageCallOK(call[p]) /\ MakeOK(call[p])
<1>1. call[p] \in Calls /\ CallOK(p, call[p]) /\ OthersOK(call[p])
  BY DEF IInv, CallsOK, CallOK
<1>2. PageCallOK(call[p])
  BY DEF IInv, PageOK, PageCallOK
<1>3. MakeOK(call[p])
  BY DEF IInv, MakesOK, MakeOK
<1> QED  BY <1>1, <1>2, <1>3

\* The inode that a call writes is its own, or that of another put, or the page's.
LEMMA InodeIs ==
    ASSUME IInv, NEW p \in Procs, call[p].op \in Writing, call[p].place \in Opened
    PROVE  /\ call[p].inode \in Inodes
           /\ call[p].op = "store" => call[p].inode = p
           /\ call[p].op # "store" => \A q \in Procs : call[q].op = "store" => q # call[p].inode
<1>1. call[p] \in Calls /\ CallOK(p, call[p]) /\ OthersOK(call[p])
  BY CallIs
<1>2. Old \notin Procs
  BY FilesAssumption
<1> QED  BY <1>1, <1>2 DEF CallOK, OthersOK, Writing, Inodes

\* What a path leads to was opened under that path, with the operation it is for.
LEMMA LinkedTo ==
    ASSUME IInv, NEW path \in Paths, path # Page, link[path] # None
    PROVE  /\ link[path] \in Procs
           /\ call[link[path]].path = path
           /\ call[link[path]].place \in Opened
           /\ IF path = Shared THEN call[link[path]].op = "put" ELSE link[path] = path
<1>1. PICK q : q = link[path]
  OBVIOUS
<1>2. /\ q \in Procs /\ call[q].op \in Writing /\ call[q].path = path
      /\ call[q].place \in Opened
  BY <1>1 DEF IInv, LinksOK
<1>3. CallOK(q, call[q])
  BY <1>2, CallIs
<1>4. Shared \notin Procs /\ Page \notin Procs /\ Shared # Page
  BY FilesAssumption
<1>5. IF path = Shared THEN call[q].op = "put" ELSE q = path
  BY <1>2, <1>3, <1>4 DEF CallOK, Writing
<1> QED  BY <1>1, <1>2, <1>5

-----------------------------------------------------------------------------
(* The steps of a goroutine or a command that change nothing but its call. *)

LEMMA BeginStep ==
    ASSUME IInv, NEW p \in Procs, NEW path \in Paths \ {Page},
           Refuse(p) \/ Store(p) \/ Put(p) \/ Edit(p) \/ Get(p, path) \/ StartPage(p)
    PROVE  IInv'
<1>1. call[p].op = "none" /\ Quiet
  BY DEF Refuse, Store, Put, Edit, Get, StartPage, Start
<1>2. PICK c : Set(p, c) /\
         \/ c = [Idle EXCEPT !.op = "store", !.place = "error", !.path = p]
         \/ c = [Idle EXCEPT !.op = "store", !.place = "open", !.path = p]
         \/ c = [Idle EXCEPT !.op = "put", !.place = "open", !.path = Shared]
         \/ c = [Idle EXCEPT !.op = "edit", !.place = "open", !.path = Page]
         \/ c = [Idle EXCEPT !.op = "get", !.place = "error"]
         \/ /\ link[path] # None /\ Known(path)
            /\ c = [Idle EXCEPT !.op = "get", !.place = "read", !.path = path,
                                !.inode = link[path]]
         \/ c = [Idle EXCEPT !.op = "page", !.place = "stat", !.path = Page]
  BY DEF Refuse, Store, Put, Edit, Get, StartPage, Start
<1>3. Idle \in Calls /\ Idle.before = {} /\ p \in Paths /\ Shared \in Paths /\ Page \in Paths
  BY DEF Idle, Calls, Paths, Blocks, Empty
<1>4. link[path] \in Inodes \cup {None}
  BY DEF IInv, TypeOK
\* Whoever reads an upload has the inode of whoever stored it.
<1>9. link[path] # None /\ Known(path) /\ path # Shared =>
         /\ path \in Procs /\ link[path] = path
         /\ call[path].op = "store" /\ call[path].place = "ok"
  BY LinkedTo DEF Known, Paths
<1>5. /\ c \in Calls /\ c.before = {}
      /\ \/ c.op = "store" /\ c.path = p /\ c.place \in {"error", "open"}
         \/ c.op = "put" /\ c.path = Shared /\ c.place = "open"
         \/ c.op = "edit" /\ c.path = Page /\ c.place = "open"
         \/ c.op = "get" /\ c.place = "error"
         \/ /\ c.op = "get" /\ c.place = "read" /\ c.inode \in Inodes
            /\ c.path # Shared => /\ c.path \in Procs /\ c.inode = c.path
                                  /\ call[c.path].op = "store" /\ call[c.path].place = "ok"
         \/ c.op = "page" /\ c.place = "stat"
  <2>1. ASSUME NEW o \in {"store", "put", "edit", "page"}, NEW l \in {"error", "open", "stat"},
               NEW a \in Paths,
               c = [Idle EXCEPT !.op = o, !.place = l, !.path = a]
        PROVE  c \in Calls /\ c.before = {} /\ c.op = o /\ c.place = l /\ c.path = a
    BY <1>3, <2>1 DEF Calls
  <2>2. ASSUME c = [Idle EXCEPT !.op = "get", !.place = "error"]
        PROVE  c \in Calls /\ c.before = {} /\ c.op = "get" /\ c.place = "error"
    BY <1>3, <2>2 DEF Calls
  <2>3. ASSUME link[path] # None, Known(path),
               c = [Idle EXCEPT !.op = "get", !.place = "read", !.path = path, !.inode = link[path]]
        PROVE  /\ c \in Calls /\ c.before = {} /\ c.op = "get" /\ c.place = "read"
               /\ c.inode \in Inodes /\ c.inode = link[path] /\ c.path = path
    BY <1>3, <1>4, <2>3 DEF Calls
  <2>4. CASE c = [Idle EXCEPT !.op = "store", !.place = "error", !.path = p]
    BY <1>3, <2>1, <2>4
  <2>5. CASE c = [Idle EXCEPT !.op = "store", !.place = "open", !.path = p]
    BY <1>3, <2>1, <2>5
  <2>6. CASE c = [Idle EXCEPT !.op = "put", !.place = "open", !.path = Shared]
    BY <1>3, <2>1, <2>6
  <2>7. CASE c = [Idle EXCEPT !.op = "edit", !.place = "open", !.path = Page]
    BY <1>3, <2>1, <2>7
  <2>8. CASE c = [Idle EXCEPT !.op = "page", !.place = "stat", !.path = Page]
    BY <1>3, <2>1, <2>8
  <2> QED  BY <1>2, <1>9, <2>2, <2>3, <2>4, <2>5, <2>6, <2>7, <2>8
<1>6. CallOK(p, c) /\ OthersOK(c) /\ PageCallOK(c) /\ MakeOK(c)
  BY <1>5 DEF CallOK, OthersOK, PageCallOK, MakeOK, Opened
<1>7. Goes(p, c)
  BY <1>1 DEF Goes
<1>8. c.op = "store" => c.place \notin {"first", "second", "ok"}
  BY <1>5
<1> QED  BY <1>1, <1>2, <1>6, <1>7, <1>8, QuietCall

\* A call that goes on, with or without something that it read.
LEMMA GoesOn ==
    ASSUME IInv, NEW p \in Procs, Quiet, NEW c, Set(p, c),
           call[p].op \in {"get", "page", "make"}, call[p].place # "ok",
           c \in Calls, c.op = call[p].op, c.path = call[p].path, c.before = call[p].before,
           c.op = "get" => /\ c.place \in {"read", "read2"} => c.inode \in Inodes
                           /\ OthersOK(c),
           c.op = "page" => PageCallOK(c),
           c.op = "make" => MakeOK(c) /\ p \notin c.before
    PROVE  IInv'
<1>1. call[p] \in Calls /\ CallOK(p, call[p]) /\ MakeOK(call[p])
  BY CallIs
<1>2. CallOK(p, c) /\ OthersOK(c) /\ PageCallOK(c) /\ MakeOK(c)
  BY <1>1 DEF CallOK, OthersOK, PageCallOK, MakeOK
<1>3. Goes(p, c)
  BY DEF Goes, Writing
<1> QED  BY <1>2, <1>3, QuietCall

LEMMA FailStep ==
    ASSUME IInv, NEW p \in Procs, CopyFails(p) \/ RemoveFails(p)
    PROVE  IInv'
<1>1. /\ call[p].op \in {"store", "put"} /\ call[p].place \in {"first", "second", "remove"}
      /\ Quiet
  BY DEF CopyFails, RemoveFails, At
<1>2. PICK l \in {"remove", "left"} : Goto(p, l)
  BY DEF CopyFails, RemoveFails
<1>3. PICK c : c = [call[p] EXCEPT !.place = l]
  OBVIOUS
<1>4. Set(p, c)
  BY <1>2, <1>3 DEF Goto
<1>5. call[p] \in Calls /\ CallOK(p, call[p]) /\ OthersOK(call[p]) /\ MakeOK(call[p])
  BY CallIs
<1>6. /\ c \in Calls /\ c.place = l /\ c.op = call[p].op /\ c.path = call[p].path
      /\ c.inode = call[p].inode /\ c.before = call[p].before
  BY <1>3, <1>5 DEF Calls
<1>7. CallOK(p, c) /\ OthersOK(c) /\ PageCallOK(c) /\ MakeOK(c)
  BY <1>1, <1>5, <1>6 DEF CallOK, OthersOK, PageCallOK, MakeOK, Opened
<1>8. Goes(p, c)
  BY <1>1, <1>6 DEF Goes, Opened
<1> QED  BY <1>1, <1>4, <1>6, <1>7, <1>8, QuietCall

LEMMA ReadStep ==
    ASSUME IInv, NEW p \in Procs, Read(p) \/ ReadRest(p)
    PROVE  IInv'
<1>1. call[p].op = "get" /\ call[p].place \in {"read", "read2"} /\ Quiet
  BY DEF Read, ReadRest, At
<1>2. call[p] \in Calls /\ CallOK(p, call[p]) /\ OthersOK(call[p]) /\ TypeOK
  BY CallIs DEF IInv
<1>3. PICK b : b = data[call[p].inode]
  OBVIOUS
<1>4. b \in Blocks /\ call[p].inode \in Inodes
  BY <1>1, <1>2, <1>3 DEF CallOK, TypeOK
<1>5. PICK n \in 1..2, l \in {"read2", "ok"} :
         /\ \/ call[p].place = "read" /\ n = 1 /\ l = "read2"
            \/ call[p].place = "read2" /\ n = 2 /\ l = "ok"
         /\ Set(p, [call[p] EXCEPT !.place = l, !.content = [call[p].content EXCEPT ![n] = b[n]]])
  <2>1. CASE Read(p)
    <3>1. /\ call[p].place = "read"
          /\ Set(p, [call[p] EXCEPT !.place = "read2",
                                    !.content = [call[p].content EXCEPT ![1] = b[1]]])
      BY <1>2, <1>3, <2>1 DEF Read, Calls, At
    <3> QED  BY <3>1
  <2>2. CASE ReadRest(p)
    <3>1. /\ call[p].place = "read2"
          /\ Set(p, [call[p] EXCEPT !.place = "ok",
                                    !.content = [call[p].content EXCEPT ![2] = b[2]]])
      BY <1>2, <1>3, <2>2 DEF ReadRest, Calls, At
    <3> QED  BY <3>1
  <2> QED  BY <2>1, <2>2
<1> PICK c : c = [call[p] EXCEPT !.place = l, !.content = [call[p].content EXCEPT ![n] = b[n]]]
  OBVIOUS
<1>6. [call[p].content EXCEPT ![n] = b[n]] \in Blocks
  BY <1>2, <1>4 DEF Calls, Blocks
<1>7. /\ c \in Calls /\ c.op = "get" /\ c.path = call[p].path /\ c.before = call[p].before
      /\ c.inode = call[p].inode /\ c.place = l
      /\ c.content[n] = b[n] /\ \A k \in 1..2 : k # n => c.content[k] = call[p].content[k]
  BY <1>1, <1>2, <1>5, <1>6 DEF Calls, Blocks
<1>8. OthersOK(c)
  <2>1. ASSUME c.path # Shared
        PROVE  /\ c.path \in Procs /\ c.inode = c.path
               /\ call[c.path].op = "store" /\ call[c.path].place = "ok"
    BY <1>1, <1>2, <1>7, <2>1 DEF OthersOK
  <2>2. ASSUME c.path # Shared PROVE b[n] = c.path
    <3>1. PICK q \in Procs : q = c.path
      BY <2>1, <2>2
    <3>2. b = data[q]
      BY <1>3, <1>7, <2>1, <2>2, <3>1
    <3>3. data[q] = Whole(q)
      BY <2>1, <2>2, <3>1 DEF IInv, StoresOK
    <3> QED  BY <3>1, <3>2, <3>3 DEF Whole
  <2> QED  BY <1>2, <1>5, <1>7, <2>1, <2>2 DEF OthersOK
<1> QED  BY <1>1, <1>4, <1>5, <1>7, <1>8, GoesOn

\* The page's file is never replaced, only written.
LEMMA PageFacts ==
    ASSUME IInv
    PROVE  link[Page] = Old /\ mtime[Old] \in Nat /\ clock \in Nat /\ mtime[Old] <= clock
           /\ data[Old] \in Blocks /\ Old \in Inodes
BY DEF IInv, LinksOK, TypeOK, Inodes, PageOK

LEMMA PageReadStep ==
    ASSUME IInv, NEW p \in Procs, Stat(p) \/ Lookup(p) \/ Load(p)
    PROVE  IInv'
<1>1. call[p].op = "page" /\ call[p].place \in {"stat", "lookup", "load"} /\ Quiet
  BY DEF Stat, Lookup, Load, At
<1>2. call[p] \in Calls /\ PageCallOK(call[p])
  BY CallIs
<1>3. link[Page] = Old /\ mtime[Old] \in Nat /\ clock \in Nat /\ mtime[Old] <= clock
      /\ data[Old] \in Blocks /\ Old \in Inodes
  BY PageFacts
<1>4. CASE Stat(p)
  <2>1. PICK c : c = [call[p] EXCEPT !.place = "lookup", !.inode = Old, !.mtime = mtime[Old]]
    OBVIOUS
  <2>2. Set(p, c)
    BY <1>3, <1>4, <2>1 DEF Stat
  <2>3. /\ c \in Calls /\ c.op = "page" /\ c.path = call[p].path /\ c.before = call[p].before
        /\ c.place = "lookup" /\ c.mtime = mtime[Old]
    BY <1>1, <1>2, <1>3, <2>1 DEF Calls
  <2>4. PageCallOK(c)
    BY <1>3, <2>3 DEF PageCallOK
  <2> QED  BY <1>1, <2>2, <2>3, <2>4, GoesOn
<1>5. CASE Lookup(p)
  <2>1. PICK x : x = cache.content
    OBVIOUS
  <2>2. PICK c : Set(p, c) /\
           \/ cache # None /\ c = [call[p] EXCEPT !.place = "ok", !.content = x]
           \/ c = [call[p] EXCEPT !.place = "load"]
    BY <1>5, <2>1 DEF Lookup, Goto
  <2>3. cache # None => x \in Blocks
    BY <2>1 DEF IInv, TypeOK, Entries
  <2>4. /\ c \in Calls /\ c.op = "page" /\ c.path = call[p].path /\ c.before = call[p].before
        /\ c.place \in {"ok", "load"} /\ c.mtime = call[p].mtime
    <3>1. CASE cache # None /\ c = [call[p] EXCEPT !.place = "ok", !.content = x]
      BY <1>1, <1>2, <2>3, <3>1 DEF Calls
    <3>2. CASE c = [call[p] EXCEPT !.place = "load"]
      BY <1>1, <1>2, <3>2 DEF Calls
    <3> QED  BY <2>2, <3>1, <3>2
  <2>5. PageCallOK(c)
    BY <1>1, <1>2, <1>5, <2>4 DEF PageCallOK, Lookup, At
  <2> QED  BY <1>1, <2>2, <2>4, <2>5, GoesOn
<1>6. CASE Load(p)
  <2>1. PICK c : c = [call[p] EXCEPT !.place = "insert", !.content = data[Old], !.at = clock]
    OBVIOUS
  <2>2. Set(p, c)
    BY <1>3, <1>6, <2>1 DEF Load
  <2>3. /\ c \in Calls /\ c.op = "page" /\ c.path = call[p].path /\ c.before = call[p].before
        /\ c.place = "insert" /\ c.mtime = call[p].mtime /\ c.mtime \in Nat
        /\ c.content = data[Old] /\ c.at = clock
    BY <1>1, <1>2, <1>3, <2>1 DEF Calls
  <2>4. c.mtime <= mtime[Old]
    BY <1>1, <1>2, <1>6, <2>3 DEF PageCallOK, Load, At
  <2>5. PageCallOK(c)
    BY <1>3, <2>3, <2>4 DEF PageCallOK, EntryOK
  <2> QED  BY <1>1, <2>2, <2>3, <2>5, GoesOn
<1> QED  BY <1>4, <1>5, <1>6

LEMMA StartMakeStep ==
    ASSUME IInv, NEW p \in Procs, StartMake(p)
    PROVE  IInv'
<1>1. call[p].op = "none" /\ Quiet
  BY DEF StartMake
<1>2. PICK c : c = [Idle EXCEPT !.op = "make", !.place = "scan", !.before = Generated]
  OBVIOUS
<1>3. Set(p, c)
  BY <1>2 DEF StartMake
<1>4. Generated \subseteq Procs \cup {Old}
  BY DEF Generated, IInv, TypeOK
<1>5. Idle \in Calls
  BY DEF Idle, Calls, Paths, Blocks, Empty
<1>6. c \in Calls /\ c.op = "make" /\ c.place = "scan" /\ c.before = Generated
  BY <1>2, <1>4, <1>5 DEF Calls
<1>7. MakeOK(c)
  BY <1>6 DEF MakeOK, Generated, IInv, MakesOK
<1>8. CallOK(p, c) /\ OthersOK(c) /\ PageCallOK(c) /\ Goes(p, c)
  BY <1>1, <1>6 DEF CallOK, OthersOK, PageCallOK, Goes
<1> QED  BY <1>1, <1>3, <1>6, <1>7, <1>8, QuietCall

\* A finite set of integers that is not empty has a largest element: the set of those
\* as large as it is the least of all such sets.
LEMMA HasLargest ==
    ASSUME NEW V \in SUBSET Nat, IsFiniteSet(V), V # {}
    PROVE  \E v \in V : \A w \in V : w <= v
<1> DEFINE Above(v) == {w \in V : v <= w}
           T == {Above(v) : v \in V}
<1>1. IsWellFoundedOn(StrictSubsetOrdering(V), FiniteSubsetsOf(V))
  BY FS_StrictSubsetOrderingWellFounded
<1>2. T \subseteq FiniteSubsetsOf(V) /\ T # {}
  <2>1. FiniteSubsetsOf(V) = SUBSET V
    BY FS_FiniteSubsetsOfFinite
  <2>2. \A v \in V : Above(v) \in SUBSET V /\ Above(v) \in T
    OBVIOUS
  <2>3. T \subseteq SUBSET V
    BY <2>2
  <2>4. PICK v \in V : TRUE
    OBVIOUS
  <2>5. Above(v) \in T
    BY <2>2
  <2> HIDE DEF T, Above
  <2> QED  BY <2>1, <2>3, <2>5
<1> HIDE DEF T
<1>3. PICK x \in T : \A y \in T : ~(<<y, x>> \in StrictSubsetOrdering(V))
  BY <1>1, <1>2, WFMin
<1>4. PICK v \in V : x = Above(v)
  BY DEF T
<1>5. ASSUME NEW w \in V, ~(w <= v) PROVE FALSE
  <2>1. v \in Nat /\ w \in Nat /\ v < w
    BY <1>5
  <2>2. Above(w) \subseteq Above(v) /\ Above(w) # Above(v)
    <3>1. v \in Above(v) /\ v \notin Above(w)
      BY <2>1
    <3>2. ASSUME NEW u \in Above(w) PROVE u \in Above(v)
      BY <2>1, <3>2
    <3> QED  BY <3>1, <3>2
  <2>3. Above(w) \in SUBSET V /\ Above(v) \in SUBSET V /\ Above(w) \in T
    BY DEF T
  <2> HIDE DEF Above
  <2>4. <<Above(w), Above(v)>> \in StrictSubsetOrdering(V)
    BY <2>2, <2>3 DEF StrictSubsetOrdering
  <2> QED  BY <1>3, <1>4, <2>3, <2>4
<1> QED  BY <1>5

\* The next version is larger than all that have six digits.
LEMMA NextIsLarger ==
    ASSUME TypeOK
    PROVE  NextVersion \in Nat /\ \A m \in migrations : m.version <= MaxVersion
                                     => m.version < NextVersion
<1>1. Versions \in SUBSET Nat /\ MaxVersion \in Nat
  BY FilesAssumption DEF Versions, TypeOK
<1>2. \A m \in migrations : m.version <= MaxVersion => m.version \in Versions
  BY DEF Versions
<1>3. CASE Versions = {}
  BY <1>2, <1>3 DEF NextVersion
<1>4. CASE Versions # {}
  <2>1. \A v \in Versions : v <= MaxVersion
    BY DEF Versions
  <2>2. IsFiniteSet(Versions)
    BY <1>1, <2>1, FS_BoundedSetOfNaturals
  <2>3. \E v \in Versions : \A w \in Versions : w <= v
    BY <1>1, <1>4, <2>2, HasLargest
  <2>4. PICK v : v = CHOOSE u \in Versions : \A w \in Versions : w <= u
    OBVIOUS
  <2>5. v \in Versions /\ \A w \in Versions : w <= v
    BY <2>3, <2>4
  <2>6. NextVersion = 1 + v
    BY <1>4, <2>4 DEF NextVersion
  <2>7. v \in Nat /\ NextVersion \in Nat
    BY <1>1, <2>5, <2>6
  <2>8. ASSUME NEW m \in migrations, m.version <= MaxVersion PROVE m.version < NextVersion
    <3>1. m.version \in Nat /\ m.version <= v
      BY <1>1, <1>2, <2>5, <2>8
    <3> QED  BY <2>6, <2>7, <3>1
  <2> QED  BY <2>7, <2>8
<1> QED  BY <1>3, <1>4

LEMMA ScanStep ==
    ASSUME IInv, NEW p \in Procs, Scan(p)
    PROVE  IInv'
<1>1. call[p].op = "make" /\ call[p].place = "scan" /\ Quiet
  BY DEF Scan, At
<1>2. call[p] \in Calls /\ MakeOK(call[p])
  BY CallIs
<1>3. PICK v : v = NextVersion
  OBVIOUS
<1>4. v \in Nat /\ \A m \in migrations : m.version <= MaxVersion => m.version < v
  BY <1>3, NextIsLarger DEF IInv
<1>5. PICK c : c = [call[p] EXCEPT !.place = "write", !.version = v]
  OBVIOUS
<1>6. Set(p, c)
  BY <1>3, <1>5 DEF Scan
<1>7. /\ c \in Calls /\ c.op = "make" /\ c.path = call[p].path /\ c.before = call[p].before
      /\ c.version = v
  BY <1>1, <1>2, <1>4, <1>5 DEF Calls
<1>8. MakeOK(c)
  BY <1>2, <1>4, <1>7 DEF MakeOK
<1>9. p \notin c.before
  BY <1>1, <1>2, <1>7, FilesAssumption DEF MakeOK
<1> QED  BY <1>1, <1>6, <1>7, <1>8, <1>9, GoesOn

-----------------------------------------------------------------------------
(* The steps of a goroutine that change the disk or the cache. *)

LEMMA DiskCall ==
    ASSUME IInv, NEW p \in Procs, NEW c, Set(p, c),
           CallOK(p, c), OthersOK(c), Goes(p, c), PageCallOK(c), MakeOK(c),
           link' \in [Paths -> Inodes \cup {None}], LinksOK',
           data' \in [Inodes -> Blocks], mtime' \in [Inodes -> Nat], PageFileGoes,
           UNCHANGED <<clock, cache, crashed, migrations>>,
           \A q \in Procs : q # p /\ call[q].op = "store" => data'[q] = data[q],
           c.op = "store" => /\ c.place = "first" => data'[p] = Empty
                             /\ c.place = "second" => data'[p] = [Empty EXCEPT ![1] = p]
                             /\ c.place = "ok" => data'[p] = Whole(p)
    PROVE  IInv'
<1>1. TypeOK /\ CallsOK /\ LinksOK /\ StoresOK /\ PageOK /\ MakesOK /\ VersionsInOrder
  BY DEF IInv
<1>2. CallsOK' /\ call' \in [Procs -> Calls]
  BY <1>1, CallsStay
<1>3. TypeOK'
  BY <1>1, <1>2 DEF TypeOK
<1>4. StoresOK'
  BY <1>1, StoresStay
<1>5. c \in Calls
  BY DEF CallOK
<1>6. PageOK'
  BY <1>1, <1>5, PageStays
<1>7. MakesOK' /\ VersionsInOrder'
  BY <1>1, <1>5, MakesStay
<1> QED  BY <1>2, <1>3, <1>4, <1>6, <1>7 DEF IInv

LEMMA OpenStep ==
    ASSUME IInv, NEW p \in Procs, Open(p)
    PROVE  IInv'
<1>1. /\ call[p].op \in Writing /\ call[p].place = "open"
      /\ UNCHANGED <<clock, cache, crashed, migrations>>
  BY DEF Open, At
<1>2. call[p] \in Calls /\ CallOK(p, call[p]) /\ OthersOK(call[p]) /\ MakeOK(call[p])
  BY CallIs
<1>3. PICK path, i : path = call[p].path /\ i = IF link[path] = None THEN p ELSE link[path]
  OBVIOUS
<1>4. PICK c : c = [call[p] EXCEPT !.place = "first", !.inode = i]
  OBVIOUS
<1>5. /\ link' = [link EXCEPT ![path] = i] /\ data' = [data EXCEPT ![i] = Empty]
      /\ mtime' = [mtime EXCEPT ![i] = clock] /\ Set(p, c)
  BY <1>3, <1>4 DEF Open
<1>6. /\ path \in Paths /\ p \in Inodes /\ Old \in Inodes /\ Old \notin Procs
      /\ Shared \notin Procs /\ Page \notin Procs /\ Shared # Page
      /\ None \notin Procs /\ None # Old
  BY <1>1, <1>2, <1>3, FilesAssumption DEF CallOK, Writing, Paths, Inodes
<1>7. /\ call[p].op = "store" => path = p /\ i = p
      /\ call[p].op = "put" => path = Shared /\ i \in Procs /\ (i # p => call[i].op = "put")
      /\ call[p].op = "edit" => path = Page /\ i = Old
  <2>1. CASE call[p].op = "store"
    <3>1. path = p
      BY <1>2, <1>3, <2>1 DEF CallOK
    <3>2. link[p] = None
      BY <1>1, <1>6, <3>1, LinkedTo DEF Opened
    <3> QED  BY <1>3, <2>1, <3>1, <3>2
  <2>2. CASE call[p].op = "put"
    <3>1. path = Shared
      BY <1>2, <1>3, <2>2 DEF CallOK
    <3>2. link[Shared] # None => link[Shared] \in Procs /\ call[link[Shared]].op = "put"
      BY <1>6, <3>1, LinkedTo
    <3> QED  BY <1>3, <2>2, <3>1, <3>2
  <2>3. CASE call[p].op = "edit"
    BY <1>2, <1>3, <1>6, <2>3, PageFacts DEF CallOK
  <2> QED  BY <1>1, <2>1, <2>2, <2>3 DEF Writing
<1>8. i \in Inodes
  BY <1>1, <1>6, <1>7 DEF Writing, Inodes
<1>9. /\ c \in Calls /\ c.op = call[p].op /\ c.path = path /\ c.place = "first" /\ c.inode = i
      /\ c.before = call[p].before
  BY <1>2, <1>3, <1>4, <1>8 DEF Calls
<1>10. CallOK(p, c) /\ OthersOK(c) /\ PageCallOK(c) /\ MakeOK(c) /\ Goes(p, c)
  <2>1. CallOK(p, c)
    BY <1>1, <1>2, <1>3, <1>7, <1>9 DEF CallOK, Writing
  <2>2. OthersOK(c)
    BY <1>7, <1>9 DEF OthersOK
  <2>3. PageCallOK(c) /\ MakeOK(c)
    BY <1>1, <1>2, <1>9 DEF PageCallOK, MakeOK, Writing
  <2>4. Goes(p, c)
    BY <1>1, <1>3, <1>9 DEF Goes, Opened, Writing
  <2> QED  BY <2>1, <2>2, <2>3, <2>4
<1>11. TypeOK
  BY DEF IInv
<1>12. \A q \in Procs : call'[q] = IF q = p THEN c ELSE call[q]
  BY <1>5, <1>11, CallNow
<1>13. /\ link' \in [Paths -> Inodes \cup {None}]
       /\ data' \in [Inodes -> Blocks]
       /\ mtime' \in [Inodes -> Nat]
  BY <1>5, <1>8, <1>11 DEF TypeOK, Blocks, Empty
<1>14. ASSUME NEW a \in Paths, a # Page, NEW q, q = link'[a], q # None
       PROVE  /\ q \in Procs /\ call'[q].op \in Writing
              /\ call'[q].path = a /\ call'[q].place \in Opened
  <2>1. CASE a = path /\ i = p
    <3>1. q = p
      BY <1>5, <1>11, <1>14, <2>1 DEF TypeOK
    <3> QED  BY <1>1, <1>9, <1>12, <2>1, <3>1 DEF Opened
  <2>2. CASE ~(a = path /\ i = p)
    <3>1. q = link[a]
      BY <1>3, <1>5, <1>11, <1>14, <2>2 DEF TypeOK
    <3>2. /\ q \in Procs /\ call[q].op \in Writing
          /\ call[q].path = a /\ call[q].place \in Opened
      BY <1>14, <3>1 DEF IInv, LinksOK
    <3>3. q # p
      BY <1>1, <3>2 DEF Opened
    <3> QED  BY <1>12, <3>2, <3>3
  <2> QED  BY <2>1, <2>2
<1>15. link'[Page] = Old
  BY <1>1, <1>5, <1>6, <1>7, <1>11, PageFacts DEF TypeOK, Writing, Paths
<1>16. LinksOK'
  BY <1>14, <1>15 DEF LinksOK
<1>17. PageFileGoes
  BY <1>1, <1>5, <1>6, <1>11, <1>13, PageFacts DEF PageFileGoes, TypeOK
<1>18. \A q \in Procs : q # p /\ call[q].op = "store" => data'[q] = data[q]
  BY <1>1, <1>5, <1>6, <1>7, <1>11 DEF TypeOK, Writing, Inodes
<1>19. c.op = "store" => data'[p] = Empty
  BY <1>5, <1>6, <1>7, <1>9, <1>11 DEF TypeOK
<1>20. c.op = "store" => /\ c.place = "first" => data'[p] = Empty
                         /\ c.place = "second" => data'[p] = [Empty EXCEPT ![1] = p]
                         /\ c.place = "ok" => data'[p] = Whole(p)
  BY <1>9, <1>19
<1> QED  BY <1>1, <1>5, <1>10, <1>13, <1>16, <1>17, <1>18, <1>20, DiskCall

LEMMA WriteBlockStep ==
    ASSUME IInv, NEW p \in Procs,
           WriteBlock(p, "first", 1, "second") \/ WriteBlock(p, "second", 2, "ok")
    PROVE  IInv'
<1> PICK place, b, next :
        /\ WriteBlock(p, place, b, next)
        /\ \/ place = "first" /\ b = 1 /\ next = "second"
           \/ place = "second" /\ b = 2 /\ next = "ok"
  OBVIOUS
<1>1. /\ call[p].op \in Writing /\ call[p].place = place /\ place \in Opened
      /\ UNCHANGED <<link, clock, cache, crashed, migrations>>
  BY DEF WriteBlock, At, Opened
<1>2. call[p] \in Calls /\ CallOK(p, call[p]) /\ OthersOK(call[p]) /\ MakeOK(call[p])
  BY CallIs
<1>3. PICK i : i = call[p].inode
  OBVIOUS
<1>4. PICK c : c = [call[p] EXCEPT !.place = next]
  OBVIOUS
<1>5. /\ data' = [data EXCEPT ![i][b] = p] /\ mtime' = [mtime EXCEPT ![i] = clock] /\ Set(p, c)
  BY <1>3, <1>4 DEF WriteBlock, Goto
<1>6. /\ i \in Inodes
      /\ call[p].op = "store" => i = p
      /\ call[p].op # "store" => \A q \in Procs : call[q].op = "store" => q # i
  BY <1>1, <1>3, InodeIs
<1>7. next \in Opened /\ next # "first"
  BY DEF Opened
<1>8. /\ c \in Calls /\ c.op = call[p].op /\ c.path = call[p].path /\ c.place = next
      /\ c.inode = i /\ c.before = call[p].before
  BY <1>2, <1>3, <1>4 DEF Calls
<1>9. CallOK(p, c) /\ OthersOK(c) /\ PageCallOK(c) /\ MakeOK(c) /\ Goes(p, c)
  <2>1. CallOK(p, c)
    BY <1>1, <1>2, <1>3, <1>8 DEF CallOK, Writing
  <2>2. OthersOK(c)
    BY <1>1, <1>2, <1>3, <1>8 DEF OthersOK, Writing
  <2>3. PageCallOK(c) /\ MakeOK(c)
    BY <1>1, <1>2, <1>8 DEF PageCallOK, MakeOK, Writing
  <2>4. Goes(p, c)
    BY <1>1, <1>7, <1>8 DEF Goes, Writing
  <2> QED  BY <2>1, <2>2, <2>3, <2>4
<1>10. TypeOK
  BY DEF IInv
<1>11. /\ link' \in [Paths -> Inodes \cup {None}]
       /\ data' \in [Inodes -> Blocks]
       /\ mtime' \in [Inodes -> Nat]
  <2>1. [data[i] EXCEPT ![b] = p] \in Blocks
    BY <1>6, <1>10 DEF TypeOK, Blocks
  <2>2. data' = [data EXCEPT ![i] = [data[i] EXCEPT ![b] = p]]
    BY <1>5
  <2> QED  BY <1>1, <1>5, <1>6, <1>10, <2>1, <2>2 DEF TypeOK
<1>12. LinksOK'
  BY <1>1, <1>5, <1>9, <1>10, LinksStay DEF IInv, LinksOK
<1>13. PageFileGoes
  BY <1>1, <1>5, <1>6, <1>10, <1>11, PageFacts DEF PageFileGoes, TypeOK
<1>14. \A q \in Procs : q # p /\ call[q].op = "store" => data'[q] = data[q]
  BY <1>5, <1>6, <1>10 DEF TypeOK, Inodes
<1>15. ASSUME c.op = "store"
       PROVE  /\ c.place = "first" => data'[p] = Empty
              /\ c.place = "second" => data'[p] = [Empty EXCEPT ![1] = p]
              /\ c.place = "ok" => data'[p] = Whole(p)
  <2>1. data'[p] = [data[p] EXCEPT ![b] = p] /\ i = p
    BY <1>5, <1>6, <1>8, <1>10, <1>15 DEF TypeOK
  <2>2. CASE place = "first"
    BY <1>1, <1>8, <1>15, <2>1, <2>2 DEF IInv, StoresOK
  <2>3. CASE place = "second"
    <3>1. data[p] = [Empty EXCEPT ![1] = p]
      BY <1>1, <1>8, <1>15, <2>3 DEF IInv, StoresOK
    <3>2. data'[p] = [[Empty EXCEPT ![1] = p] EXCEPT ![2] = p]
      BY <2>1, <2>3, <3>1
    <3>3. [[Empty EXCEPT ![1] = p] EXCEPT ![2] = p] = Whole(p)
      BY DEF Empty, Whole
    <3> QED  BY <1>7, <1>8, <2>3, <3>2, <3>3
  <2> QED  BY <2>2, <2>3
<1> QED  BY <1>1, <1>5, <1>9, <1>11, <1>12, <1>13, <1>14, <1>15, DiskCall

LEMMA RemoveStep ==
    ASSUME IInv, NEW p \in Procs, Remove(p)
    PROVE  IInv'
<1>1. /\ call[p].op \in {"store", "put"} /\ call[p].place = "remove"
      /\ UNCHANGED <<data, mtime, clock, cache, crashed, migrations>>
  BY DEF Remove, At
<1>2. call[p] \in Calls /\ CallOK(p, call[p]) /\ OthersOK(call[p]) /\ MakeOK(call[p])
  BY CallIs
<1>3. PICK path : path = call[p].path
  OBVIOUS
<1>4. PICK c : c = [call[p] EXCEPT !.place = "error"]
  OBVIOUS
<1>5. link' = [link EXCEPT ![path] = None] /\ Set(p, c)
  BY <1>3, <1>4 DEF Remove, Goto
<1>6. path \in Paths /\ path # Page /\ Page \in Paths
  BY <1>1, <1>2, <1>3, FilesAssumption DEF CallOK, Paths
<1>7. /\ c \in Calls /\ c.op = call[p].op /\ c.path = call[p].path /\ c.place = "error"
      /\ c.before = call[p].before
  BY <1>2, <1>4 DEF Calls
<1>8. TypeOK
  BY DEF IInv
<1>9. /\ link'[path] = None /\ link'[Page] = Old /\ link' \in [Paths -> Inodes \cup {None}]
      /\ \A a \in Paths : a # Page => link'[a] \in {link[a], None}
  BY <1>5, <1>6, <1>8, PageFacts DEF TypeOK
<1>10. CallOK(p, c) /\ OthersOK(c) /\ PageCallOK(c) /\ MakeOK(c) /\ Goes(p, c)
  BY <1>1, <1>2, <1>3, <1>7, <1>9 DEF CallOK, OthersOK, PageCallOK, MakeOK, Goes, Opened
<1>11. LinksOK'
  BY <1>5, <1>8, <1>9, <1>10, LinksStay DEF IInv
<1>12. PageFileGoes
  BY <1>1, PageFacts DEF PageFileGoes
<1> QED  BY <1>1, <1>5, <1>7, <1>8, <1>9, <1>10, <1>11, <1>12, DiskCall DEF TypeOK

LEMMA InsertStep ==
    ASSUME IInv, NEW p \in Procs, Insert(p)
    PROVE  IInv'
<1>1. /\ call[p].op = "page" /\ call[p].place = "insert"
      /\ UNCHANGED <<link, data, mtime, clock, crashed, migrations>>
  BY DEF Insert, At, disk
<1>2. call[p] \in Calls /\ CallOK(p, call[p]) /\ PageCallOK(call[p]) /\ MakeOK(call[p])
  BY CallIs
<1>3. PICK c : c = [call[p] EXCEPT !.place = "ok"]
  OBVIOUS
<1>4. PICK e : e = [content |-> call[p].content, mtime |-> call[p].mtime, at |-> call[p].at]
  OBVIOUS
<1>5. cache' = e /\ Set(p, c)
  BY <1>3, <1>4 DEF Insert, Goto
<1>6. /\ c \in Calls /\ c.op = "page" /\ c.path = call[p].path /\ c.place = "ok"
      /\ c.before = call[p].before
  BY <1>1, <1>2, <1>3 DEF Calls
<1>7. CallOK(p, c) /\ OthersOK(c) /\ PageCallOK(c) /\ MakeOK(c) /\ Goes(p, c)
  BY <1>1, <1>2, <1>6 DEF CallOK, OthersOK, PageCallOK, MakeOK, Goes, Writing
<1>8. e \in Entries
  BY <1>2, <1>4 DEF Calls, Entries
<1>9. EntryOK(e)
  BY <1>1, <1>2, <1>4 DEF PageCallOK, EntryOK
<1>10. EntryOK(e)'
  BY <1>1, <1>9 DEF EntryOK
<1>11. TypeOK /\ CallsOK /\ LinksOK /\ StoresOK /\ PageOK /\ MakesOK /\ VersionsInOrder
  BY DEF IInv
<1>12. CallsOK' /\ call' \in [Procs -> Calls]
  BY <1>5, <1>7, <1>11, CallsStay
<1>13. LinksOK'
  BY <1>1, <1>5, <1>7, <1>11, LinksStay DEF LinksOK
<1>14. StoresOK'
  BY <1>1, <1>5, <1>6, <1>11, StoresStay
<1>15. PageFileGoes
  BY <1>1, PageFacts DEF PageFileGoes
<1>16. cache' \in Entries /\ EntryOK(cache)'
  BY <1>5, <1>8, <1>10
<1>17. PageOK'
  BY <1>5, <1>6, <1>7, <1>11, <1>15, <1>16, PageStays
<1>18. MakesOK' /\ VersionsInOrder'
  BY <1>1, <1>5, <1>6, <1>7, <1>11, MakesStay
<1>19. TypeOK'
  BY <1>1, <1>11, <1>12, <1>16 DEF TypeOK
<1> QED  BY <1>12, <1>13, <1>14, <1>17, <1>18, <1>19 DEF IInv

-----------------------------------------------------------------------------
(* A migration is generated. *)

LEMMA WriteStep ==
    ASSUME IInv, NEW p \in Procs, Write(p)
    PROVE  IInv'
<1>1. /\ call[p].op = "make" /\ call[p].place = "write"
      /\ UNCHANGED <<link, data, mtime, clock, cache, crashed>>
  BY DEF Write, At, disk
<1>2. call[p] \in Calls /\ CallOK(p, call[p]) /\ MakeOK(call[p])
  BY CallIs
<1>3. PICK c, n : /\ c = [call[p] EXCEPT !.place = "ok"]
                  /\ n = [version |-> call[p].version, by |-> p]
  OBVIOUS
<1>4. migrations' = migrations \cup {n} /\ Set(p, c)
  BY <1>3 DEF Write, Goto
<1>5. /\ c \in Calls /\ c.op = "make" /\ c.path = call[p].path /\ c.place = "ok"
      /\ c.before = call[p].before
  BY <1>1, <1>2, <1>3 DEF Calls
<1>6. n.by = p /\ n.version = call[p].version /\ n.version \in Nat /\ p # Old
  BY <1>2, <1>3, FilesAssumption DEF Calls
\* No command began when this migration was there.
<1>7. \A q \in Procs : p \notin call[q].before
  BY <1>1, <1>6 DEF IInv, MakesOK
<1>8. CallOK(p, c) /\ OthersOK(c) /\ PageCallOK(c) /\ Goes(p, c)
  BY <1>1, <1>2, <1>5, <1>7 DEF CallOK, OthersOK, PageCallOK, Goes, Writing
<1>9. TypeOK /\ CallsOK /\ LinksOK /\ StoresOK /\ PageOK /\ MakesOK /\ VersionsInOrder
  BY DEF IInv
<1>10. \A q \in Procs : call'[q] = IF q = p THEN c ELSE call[q]
  BY <1>4, <1>9, CallNow
<1>11. CallsOK' /\ call' \in [Procs -> Calls]
  BY <1>4, <1>8, <1>9, CallsStay
<1>12. LinksOK'
  BY <1>1, <1>4, <1>8, <1>9, LinksStay DEF LinksOK
<1>13. StoresOK'
  BY <1>1, <1>4, <1>5, <1>9, StoresStay
<1>14. PageFileGoes
  BY <1>1, PageFacts DEF PageFileGoes
<1>15. PageOK'
  BY <1>1, <1>4, <1>5, <1>8, <1>9, <1>14, PageStays
<1>16. TypeOK'
  <2>1. migrations' \subseteq [version : Nat, by : Procs \cup {Old}]
    BY <1>3, <1>4, <1>6, <1>9 DEF TypeOK
  <2> QED  BY <1>1, <1>9, <1>11, <2>1 DEF TypeOK
<1>17. \A q \in Procs : call[q].op = "make" /\ call[q].place = "ok" => call'[q] = call[q]
  BY <1>1, <1>10
<1>18. \A q \in Procs : call'[q].before = call[q].before
  BY <1>5, <1>10
<1>19. \A m \in migrations : m.by \in Procs \cup {Old}
  BY <1>9 DEF TypeOK
<1>20. MakesOK'
  <2>1. ASSUME NEW m \in migrations', m.by # Old
        PROVE  call'[m.by].op = "make" /\ call'[m.by].place = "ok"
    <3>1. CASE m = n
      BY <1>5, <1>6, <1>10, <3>1
    <3>2. CASE m \in migrations
      BY <1>9, <1>17, <1>19, <2>1, <3>2 DEF MakesOK
    <3> QED  BY <1>4, <3>1, <3>2
  <2>2. ASSUME NEW q \in Procs, NEW r \in call'[q].before \ {Old}
        PROVE  call'[r].op = "make" /\ call'[r].place = "ok"
    <3>1. r \in call[q].before \ {Old} /\ r \in Procs
      BY <1>9, <1>18 DEF TypeOK, Calls
    <3> QED  BY <1>9, <1>17, <3>1 DEF MakesOK
  <2>3. ASSUME NEW q \in Procs, call'[q].op = "make", call'[q].place = "write",
               NEW m \in migrations', m.by # Old, m.by \in call'[q].before,
               m.version <= MaxVersion
        PROVE  m.version < call'[q].version
    <3>1. call'[q] = call[q]
      BY <1>5, <1>10, <2>3
    <3>2. m \in migrations
      BY <1>4, <1>6, <1>7, <2>3, <3>1
    <3> QED  BY <1>9, <2>3, <3>1, <3>2 DEF MakesOK
  <2> QED  BY <2>1, <2>2, <2>3 DEF MakesOK
<1>21. VersionsInOrder'
  <2> SUFFICES ASSUME NEW k \in migrations', NEW m \in migrations',
                      k.by # Old, m.by \in Procs, k.by \in call'[m.by].before,
                      k.version <= MaxVersion, m.version <= MaxVersion
               PROVE  Precedes(k.version, m.version)
    BY DEF VersionsInOrder
  <2>1. k.by \in call[m.by].before
    BY <1>18
  <2>2. k \in migrations
    BY <1>4, <1>6, <1>7, <2>1
  <2>3. CASE m = n
    BY <1>1, <1>2, <1>6, <2>1, <2>2, <2>3 DEF MakeOK, Precedes
  <2>4. CASE m \in migrations
    BY <1>9, <2>1, <2>2, <2>4 DEF VersionsInOrder
  <2> QED  BY <1>4, <2>3, <2>4
<1> QED  BY <1>11, <1>12, <1>13, <1>15, <1>16, <1>20, <1>21 DEF IInv

-----------------------------------------------------------------------------
(* The steps of no call. *)

LEMMA OtherStep ==
    ASSUME IInv,
           \/ \E p, q \in Procs : MapRace(p, q)
           \/ \E path \in Paths : Delete(path)
           \/ RemoveMigration \/ MergeMigration
           \/ Tick
           \/ UNCHANGED vars
    PROVE  IInv'
<1>1. UNCHANGED <<data, mtime, cache, call>>
  BY DEF MapRace, Delete, RemoveMigration, MergeMigration, Tick, vars, disk
<1>2. TypeOK /\ CallsOK /\ LinksOK /\ StoresOK /\ PageOK /\ MakesOK /\ VersionsInOrder
  BY DEF IInv
<1>3. CallsOK' /\ StoresOK'
  BY <1>1, <1>2 DEF CallsOK, CallOK, OthersOK, StoresOK
<1>4. /\ link' \in [Paths -> Inodes \cup {None}] /\ link'[Page] = Old
      /\ \A path \in Paths : link'[path] \in {link[path], None}
  <2>1. CASE \E path \in Paths : Delete(path)
    BY <1>2, <2>1 DEF Delete, TypeOK, LinksOK
  <2>2. CASE UNCHANGED link
    BY <1>2, <2>2 DEF TypeOK, LinksOK
  <2> QED  BY <2>1, <2>2 DEF MapRace, RemoveMigration, MergeMigration, Tick, vars, disk
<1>5. LinksOK'
  BY <1>1, <1>2, <1>4 DEF LinksOK
<1>6. clock \in Nat /\ clock' \in Nat /\ clock <= clock'
  <2>1. clock \in Nat
    BY <1>2 DEF TypeOK
  <2>2. clock' = clock \/ clock' = clock + 1
    BY DEF MapRace, Delete, RemoveMigration, MergeMigration, Tick, vars, disk
  <2> QED  BY <2>1, <2>2
<1>7. PageOK'
  <2>1. PageFileGoes /\ mtime[Old] \in Nat /\ mtime[Old] <= clock
    BY <1>1, <1>6, PageFacts DEF PageFileGoes
  <2>2. cache # None => EntryOK(cache)'
    <3> SUFFICES ASSUME NEW e, e = cache, e # None PROVE EntryOK(e)'
      BY <1>1
    <3>1. e \in Entries /\ EntryOK(e)
      BY <1>2 DEF TypeOK, PageOK
    <3> QED  BY <1>2, <2>1, <3>1, EntryStays DEF Entries
  <2>3. ASSUME NEW p \in Procs, NEW c, c = call[p], c.op = "page", c.place = "insert"
        PROVE  EntryOK(c)'
    <3>1. c \in Calls /\ EntryOK(c)
      BY <1>2, <2>3 DEF TypeOK, PageOK
    <3> QED  BY <1>2, <2>1, <3>1, EntryStays DEF Calls
  <2>4. mtime'[Old] <= clock'
    BY <1>1, <1>6, <2>1
  <2> QED  BY <1>1, <1>2, <2>2, <2>3, <2>4 DEF PageOK
<1>8. \A m \in migrations' :
         m \in migrations \/ (m \in [version : Nat, by : {Old}] /\ m.by = Old)
  BY FilesAssumption DEF MapRace, Delete, RemoveMigration, MergeMigration, Tick, vars, disk
<1>9. MakesOK' /\ VersionsInOrder'
  BY <1>1, <1>2, <1>8, FilesAssumption DEF MakesOK, VersionsInOrder
<1>10. crashed' \in BOOLEAN
  BY <1>2 DEF MapRace, Delete, RemoveMigration, MergeMigration, Tick, vars, disk, TypeOK
<1>11. TypeOK'
  BY <1>1, <1>2, <1>4, <1>6, <1>8, <1>10 DEF TypeOK
<1> QED  BY <1>3, <1>5, <1>7, <1>9, <1>11 DEF IInv

-----------------------------------------------------------------------------
(* The invariant and what follows from it. *)

LEMMA InitIInv == Init => IInv
<1> SUFFICES ASSUME Init PROVE IInv
  OBVIOUS
<1>1. Idle \in Calls /\ Idle.op = "none" /\ Idle.place = "idle" /\ Idle.before = {}
  BY DEF Idle, Calls, Paths, Blocks, Empty
<1>2. \A p \in Procs : call[p] = Idle
  BY DEF Init
<1>3. call \in [Procs -> Calls]
  BY <1>1 DEF Init
<1>4. \A m \in migrations : m \in [version : Nat, by : Procs \cup {Old}] /\ m.by = Old
  <2>1. PICK vs \in SUBSET InitVersions : migrations = {[version |-> v, by |-> Old] : v \in vs}
    BY DEF Init
  <2>2. \A v \in vs : v \in Nat
    BY FilesAssumption
  <2> QED  BY <2>1, <2>2
<1>5. TypeOK
  <2>1. Empty \in Blocks /\ Whole(Old) \in Blocks
    BY DEF Empty, Whole, Blocks
  <2> QED  BY <1>3, <1>4, <2>1 DEF Init, TypeOK, Inodes
<1>6. CallsOK
  <2>1. \A p \in Procs : CallOK(p, Idle) /\ OthersOK(Idle)
    BY <1>1 DEF CallOK, OthersOK
  <2> QED  BY <1>2, <2>1 DEF CallsOK
<1>7. LinksOK
  BY DEF Init, LinksOK, Paths
<1>8. StoresOK
  BY <1>1, <1>2 DEF StoresOK
<1>9. PageOK
  BY <1>1, <1>2 DEF Init, PageOK, Inodes
<1>10. MakesOK /\ VersionsInOrder
  BY <1>1, <1>2, <1>4 DEF MakesOK, VersionsInOrder
<1> QED  BY <1>5, <1>6, <1>7, <1>8, <1>9, <1>10 DEF IInv

LEMMA NextIInv == IInv /\ [Next]_vars => IInv'
<1> SUFFICES ASSUME IInv, [Next]_vars PROVE IInv'
  OBVIOUS
<1>1. ASSUME NEW p \in Procs, Refuse(p) \/ Store(p) \/ Put(p) \/ Edit(p) \/ StartPage(p)
      PROVE  IInv'
  <2>1. Shared \in Paths \ {Page}
    BY FilesAssumption DEF Paths
  <2> QED  BY <1>1, <2>1, BeginStep
<1>2. ASSUME NEW p \in Procs, NEW path \in Paths \ {Page}, Get(p, path) PROVE IInv'
  BY <1>2, BeginStep
<1>3. ASSUME NEW p \in Procs, Open(p) PROVE IInv'
  BY <1>3, OpenStep
<1>4. ASSUME NEW p \in Procs, WriteBlock(p, "first", 1, "second") PROVE IInv'
  BY <1>4, WriteBlockStep
<1>5. ASSUME NEW p \in Procs, WriteBlock(p, "second", 2, "ok") PROVE IInv'
  BY <1>5, WriteBlockStep
<1>6. ASSUME NEW p \in Procs, CopyFails(p) \/ Remove(p) \/ RemoveFails(p) PROVE IInv'
  BY <1>6, FailStep, RemoveStep
<1>7. ASSUME NEW p \in Procs, Read(p) \/ ReadRest(p) PROVE IInv'
  BY <1>7, ReadStep
<1>8. ASSUME NEW p \in Procs, Stat(p) \/ Lookup(p) \/ Load(p) \/ Insert(p) PROVE IInv'
  BY <1>8, PageReadStep, InsertStep
<1>9. ASSUME NEW p \in Procs, StartMake(p) \/ Scan(p) \/ Write(p) PROVE IInv'
  BY <1>9, StartMakeStep, ScanStep, WriteStep
<1>10. ASSUME \/ \E p, q \in Procs : MapRace(p, q)
              \/ \E path \in Paths : Delete(path)
              \/ RemoveMigration \/ MergeMigration
              \/ Tick
              \/ UNCHANGED vars
       PROVE  IInv'
  BY <1>10, OtherStep
<1> QED
  BY <1>1, <1>2, <1>3, <1>4, <1>5, <1>6, <1>7, <1>8, <1>9, <1>10 DEF Next

\* The invariant holds of every state, however the steps of uploads, readers, pages
\* and commands interleave.
THEOREM Inductive == Spec => []IInv
<1>1. Init => IInv
  BY InitIInv
<1>2. IInv /\ [Next]_vars => IInv'
  BY NextIInv
<1> QED  BY <1>1, <1>2, PTL DEF Spec

\* Types.
THEOREM TypeCorrectness == Spec => []TypeOK
<1>1. IInv => TypeOK
  BY DEF IInv
<1> QED  BY <1>1, Inductive, PTL

\* UploadedFile.Store: what it answered for is on the disk, whole, unless it was
\* deleted, and is read whole; an upload that failed left nothing, unless os.Remove
\* failed too.
THEOREM UploadsWhole == Spec => []StoredIsWhole
<1>1. ASSUME IInv PROVE StoredIsWhole
  <2>1. ASSUME NEW p \in Procs, call[p].op = "store"
        PROVE  /\ call[p].place = "ok" /\ link[call[p].path] # None =>
                     data[link[call[p].path]] = Whole(p)
               /\ call[p].place = "error" => link[call[p].path] = None
    <3>1. call[p].path = p /\ p \in Paths /\ p # Page /\ p # Shared
      BY <1>1, <2>1, CallIs, FilesAssumption DEF CallOK, Paths
    <3>2. link[p] # None => link[p] = p /\ call[p].place \in Opened
      BY <1>1, <3>1, LinkedTo
    <3>3. call[p].place = "ok" => data[p] = Whole(p)
      BY <1>1, <2>1 DEF IInv, StoresOK
    <3> QED  BY <3>1, <3>2, <3>3 DEF Opened
  <2>2. ASSUME NEW p \in Procs, At(p, "get", "ok"), call[p].path # Shared
        PROVE  call[p].content = Whole(call[p].path)
    <3>1. call[p] \in Calls /\ OthersOK(call[p])
      BY <1>1, CallIs
    <3> QED  BY <2>2, <3>1 DEF OthersOK, At, Calls, Blocks, Whole
  <2> QED  BY <2>1, <2>2 DEF StoredIsWhole
<1> QED  BY <1>1, Inductive, PTL

\* GetHTMLContent: an entry with the time of the file and another content was read
\* in the tick in which the file was written.
THEOREM CacheIsFresh == Spec => []CacheFresh
<1>1. ASSUME IInv PROVE CacheFresh
  <2>1. link[Page] = Old
    BY <1>1, PageFacts
  <2> QED  BY <1>1, <2>1 DEF IInv, PageOK, EntryOK, CacheFresh
<1> QED  BY <1>1, Inductive, PTL

\* nextMigrationVersion: commands that run one after the other number their
\* migrations in that order.
THEOREM VersionsOrdered == Spec => []VersionsInOrder
<1>1. IInv => VersionsInOrder
  BY DEF IInv
<1> QED  BY <1>1, Inductive, PTL
==============================================================================
