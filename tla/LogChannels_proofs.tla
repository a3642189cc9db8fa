-------------------------- MODULE LogChannels_proofs --------------------------
(***************************************************************************)
(* Proofs about LogChannels, for any numbers of goroutines, names, Inits   *)
(* and builds: the type invariant, that a file that is open is one Close   *)
(* knows of, that a channel has one logger between two Inits, and when     *)
(* Channel panics.                                                         *)
(*                                                                         *)
(* The invariant says who may hold which logger.  One that a record can be *)
(* written with has its writer in the list, or Close was called (Owned);   *)
(* one that was only built has not (Known).  What a call returned since    *)
(* the last Init is still the channel's logger (CallOK).                   *)
(***************************************************************************)
EXTENDS LogChannels, TLAPS

Known(l) ==
    /\ l \in Loggers
    /\ l.id <= built
    /\ l.toFile => l.id # 0
Owned(l) ==
    /\ Known(l)
    /\ l.toFile => l.id \in writers \/ closed
\* A configuration is the first, which logs to files, or the application's.
Sane(c) ==
    /\ c \in Configs
    /\ c.era = 0 => c.toFile
    /\ c.era # 0 => c.toFile = toFile

CallOK(c) ==
    /\ c \in Calls
    /\ c.place \in {"build", "install", "panicked"} => c.name \in Names /\ Sane(c.cfg)
    /\ c.place = "install" => Known(c.logger) /\ c.logger.toFile = c.cfg.toFile
    /\ c.place \in {"holds", "report"} => Owned(c.logger)
    /\ c.place = "panicked" => ~c.cfg.toFile
    /\ c.own => /\ c.place = "holds"
                /\ c.name \in Names
                /\ c.era <= cfg.era
                /\ c.era = cfg.era => c.logger = channels[c.name]

SharedOK ==
    /\ Owned(base) /\ Owned(default)
    /\ Sane(cfg)
    /\ \A n \in Names : channels[n] # None => Owned(channels[n])
    /\ main.place = "install" => Known(main.logger)
    /\ main.place = "default" => Owned(main.logger)

IInv ==
    /\ TypeOK
    /\ SharedOK
    /\ \A g \in Goroutines : CallOK(call[g])
    /\ OpenFilesOwned
    /\ OneLogger

-----------------------------------------------------------------------------
(* Lemmas about what steps keep. *)

\* None is not a logger, a configuration or a name.
LEMMA NoneIsNothing == None \notin Loggers /\ None \notin Configs /\ None \notin Names
BY LogChannelsAssumption

\* What the shared state may do in a step: a writer leaves the list when Close is
\* called, a channel loses its logger when the Inits are one more.
Kept ==
    /\ toFile' = toFile
    /\ built <= built' /\ built' \in Nat
    /\ writers \subseteq writers' \/ closed'
    /\ closed => closed'
    /\ \/ cfg'.era = cfg.era /\ \A n \in Names : channels[n] # None => channels'[n] = channels[n]
       \/ cfg.era < cfg'.era
    /\ cfg'.era \in Nat

\* Loggers and calls stay as good as they were.
LEMMA GoodStays ==
    ASSUME TypeOK, Kept
    PROVE  /\ \A l : Known(l) => Known(l)'
           /\ \A l : Owned(l) => Owned(l)'
           /\ \A c : Sane(c) => Sane(c)'
           /\ \A c : CallOK(c) => CallOK(c)'
<1>1. ASSUME NEW l, Known(l) PROVE Known(l)'
  BY <1>1 DEF Known, Kept, TypeOK, Loggers
<1>2. ASSUME NEW l, Owned(l) PROVE Owned(l)'
  <2>1. Known(l)'
    BY <1>1, <1>2 DEF Owned
  <2>2. (l.toFile => l.id \in writers \/ closed)'
    BY <1>2 DEF Owned, Kept
  <2> QED  BY <2>1, <2>2 DEF Owned
<1>3. ASSUME NEW c, Sane(c) PROVE Sane(c)'
  BY <1>3 DEF Sane, Kept
<1>4. ASSUME NEW c, CallOK(c) PROVE CallOK(c)'
  <2>1. /\ c \in Calls
        /\ c.place = "panicked" => ~c.cfg.toFile
    BY <1>4 DEF CallOK
  <2>2. c.place \in {"build", "install", "panicked"} => c.name \in Names /\ Sane(c.cfg)'
    BY <1>4, <1>3 DEF CallOK
  <2>3. c.place = "install" => Known(c.logger)' /\ c.logger.toFile = c.cfg.toFile
    BY <1>4, <1>1 DEF CallOK
  <2>4. c.place \in {"holds", "report"} => Owned(c.logger)'
    BY <1>4, <1>2 DEF CallOK
  <2>5. ASSUME c.own
        PROVE  /\ c.place = "holds"
               /\ c.name \in Names
               /\ c.era <= cfg'.era
               /\ c.era = cfg'.era => c.logger = channels'[c.name]
    <3>1. /\ c.place = "holds" /\ c.name \in Names
          /\ c.era <= cfg.era
          /\ c.era = cfg.era => c.logger = channels[c.name]
      BY <1>4, <2>5 DEF CallOK
    <3>2. c.logger # None
      BY <1>4, <3>1, NoneIsNothing DEF CallOK, Owned, Known
    <3>3. c.era \in Nat /\ cfg.era \in Nat /\ cfg'.era \in Nat
      BY <2>1 DEF Calls, TypeOK, Configs, Kept
    <3>4. CASE cfg'.era = cfg.era /\ \A n \in Names : channels[n] # None => channels'[n] = channels[n]
      BY <3>1, <3>2, <3>3, <3>4
    <3>5. CASE cfg.era < cfg'.era
      BY <3>1, <3>3, <3>5
    <3> QED  BY <3>4, <3>5 DEF Kept
  <2> QED  BY <2>1, <2>2, <2>3, <2>4, <2>5 DEF CallOK
<1> QED  BY <1>1, <1>2, <1>3, <1>4

\* A step that changes one call keeps the invariant if it keeps the rest, and what it
\* returned, if it did, is the channel's logger now.
LEMMA OneCall ==
    ASSUME IInv, Kept, TypeOK', SharedOK', OpenFilesOwned',
           NEW g \in Goroutines, NEW c, Set(g, c), CallOK(c)',
           c.own => c.era = cfg'.era
    PROVE  IInv'
<1>1. \A h \in Goroutines : call'[h] = IF h = g THEN c ELSE call[h]
  BY DEF Set, IInv, TypeOK
<1>2. \A d : CallOK(d) => CallOK(d)'
  BY GoodStays DEF IInv
<1>3. \A h \in Goroutines : CallOK(call[h])'
  <2> TAKE h \in Goroutines
  <2>1. PICK d : d = call[h] /\ CallOK(d)'
    BY <1>2 DEF IInv
  <2>2. CASE h = g
    BY <1>1, <2>2
  <2>3. CASE h # g
    <3>1. call'[h] = d
      BY <1>1, <2>1, <2>3
    <3> QED  BY <2>1, <3>1
  <2> QED  BY <2>2, <2>3
<1>4. OneLogger'
  <2>1. \A h \in Goroutines :
          call'[h].own /\ call'[h].era = cfg'.era => call'[h].logger = channels'[call'[h].name]
    BY <1>3 DEF CallOK
  <2> QED  BY <1>1, <2>1 DEF IInv, OneLogger
<1> QED  BY <1>3, <1>4 DEF IInv

\* A step that changes nothing but one call.
LEMMA OnlyCall ==
    ASSUME IInv, NEW g \in Goroutines, NEW c, Set(g, c), CallOK(c),
           c.own => c.era = cfg.era,
           UNCHANGED <<toFile, cfg, base, default, logVars, built, main, closed, late>>
    PROVE  IInv'
<1>1. TypeOK'
  BY DEF IInv, TypeOK, CallOK, logVars, Set
<1>2. Kept
  BY DEF Kept, IInv, TypeOK, Configs, logVars
<1>3. SharedOK'
  BY DEF IInv, SharedOK, Owned, Known, Sane, logVars
<1>4. OpenFilesOwned'
  BY DEF IInv, OpenFilesOwned, logVars
<1>5. CallOK(c)'
  BY <1>2, GoodStays DEF IInv
<1> QED  BY <1>1, <1>2, <1>3, <1>4, <1>5, OneCall

\* So does a step that leaves the calls alone, if it keeps the rest.
LEMMA NoCall ==
    ASSUME IInv, Kept, UNCHANGED call, TypeOK', SharedOK', OpenFilesOwned'
    PROVE  IInv'
<1>1. \A g \in Goroutines : CallOK(call[g])'
  <2> TAKE g \in Goroutines
  <2>1. CallOK(call[g])
    BY DEF IInv
  <2>2. \A d : CallOK(d) => CallOK(d)'
    BY GoodStays DEF IInv
  <2> QED  BY <2>1, <2>2
<1>2. OneLogger'
  BY DEF IInv, OneLogger
<1> QED  BY <1>1, <1>2 DEF IInv

-----------------------------------------------------------------------------
(* The steps of the main goroutine. *)

LEMMA InitIInv == Init => IInv
<1> SUFFICES ASSUME Init PROVE IInv
  OBVIOUS
<1>1. Std \in Loggers /\ Idle \in Calls /\ cfg \in Configs
  BY DEF Init, Std, Loggers, Idle, Calls, Places, Configs
<1>2. TypeOK
  <2>1. channels \in [Names -> Loggers \cup {None}]
    BY DEF Init
  <2>2. main \in [place : {"idle", "install", "default", "done"}, logger : Loggers \cup {None}]
    BY DEF Init
  <2>3. built \in 0..MaxBuilt
    BY LogChannelsAssumption DEF Init
  <2>4. call \in [Goroutines -> Calls]
    BY <1>1 DEF Init
  <2>5. toFile \in BOOLEAN /\ closed \in BOOLEAN
    BY DEF Init
  <2>6. base \in Loggers /\ default \in Loggers
    BY <1>1 DEF Init
  <2>7. writers \subseteq Ids /\ open \subseteq Ids /\ late \subseteq Ids
    BY DEF Init
  <2> QED  BY <1>1, <2>1, <2>2, <2>3, <2>4, <2>5, <2>6, <2>7 DEF TypeOK
<1>3. Owned(base) /\ Owned(default)
  BY <1>1 DEF Init, Owned, Known, Std
<1>4. SharedOK
  BY <1>1, <1>3 DEF Init, SharedOK, Sane
<1>5. \A g \in Goroutines : CallOK(call[g])
  BY <1>1 DEF Init, CallOK, Idle
<1>6. OpenFilesOwned /\ OneLogger
  BY DEF Init, OpenFilesOwned, OneLogger, Idle
<1> QED  BY <1>2, <1>4, <1>5, <1>6 DEF IInv

\* A new logger has its own number.
LEMMA BuildIsKnown ==
    ASSUME TypeOK, built < MaxBuilt, NEW c \in BOOLEAN, built' = built + 1
    PROVE  /\ \A l : l = Build(c) => Known(l)' /\ l.toFile = c
           /\ built' \in 0..MaxBuilt
<1>1. built \in Nat /\ MaxBuilt \in Nat
  BY LogChannelsAssumption DEF TypeOK
<1>2. Build(c) \in Loggers /\ Build(c).id = built + 1 /\ Build(c).toFile = c
  BY <1>1 DEF Build, Loggers
<1>3. built + 1 <= built' /\ built + 1 # 0 /\ built' \in 0..MaxBuilt
  BY <1>1
<1> QED  BY <1>2, <1>3 DEF Known

LEMMA WriterInIds ==
    ASSUME TypeOK, NEW l, Known(l)
    PROVE  WriterOf(l) \subseteq Ids
<1>1. l.id \in Nat /\ built \in 0..MaxBuilt /\ MaxBuilt \in Nat
  BY LogChannelsAssumption DEF TypeOK, Known, Loggers
<1> QED  BY <1>1 DEF WriterOf, Ids, Known

LEMMA InitBuildStep == ASSUME IInv, InitBuild PROVE IInv'
<1>1. TypeOK /\ SharedOK /\ built < MaxBuilt /\ built' = built + 1 /\ toFile \in BOOLEAN
  BY DEF IInv, InitBuild, TypeOK
<1>2. PICK l : l = Build(toFile)
  OBVIOUS
<1>3. Known(l)' /\ built' \in 0..MaxBuilt
  BY <1>1, <1>2, BuildIsKnown
<1>4. main' = [place |-> "install", logger |-> l]
  BY <1>2 DEF InitBuild
<1>5. UNCHANGED <<toFile, cfg, base, default, logVars, call, closed, late>>
  BY DEF InitBuild
<1>6. l \in Loggers
  BY <1>3 DEF Known
<1>7. main' \in [place : {"idle", "install", "default", "done"}, logger : Loggers \cup {None}]
  BY <1>4, <1>6
<1>8. TypeOK'
  BY <1>1, <1>3, <1>5, <1>7 DEF TypeOK, logVars
<1>9. Kept
  BY <1>1, <1>5 DEF Kept, TypeOK, Configs, logVars
<1>10. SharedOK'
  <2>1. Owned(base)' /\ Owned(default)' /\ Sane(cfg)'
    BY <1>1, <1>5, <1>9, GoodStays DEF SharedOK
  <2>2. \A n \in Names : channels'[n] # None => Owned(channels[n])'
    BY <1>1, <1>5, <1>9, GoodStays DEF SharedOK, logVars
  <2> QED  BY <1>3, <1>4, <2>1, <2>2 DEF SharedOK
<1>11. OpenFilesOwned'
  BY <1>5 DEF IInv, OpenFilesOwned, logVars
<1> QED  BY <1>5, <1>8, <1>9, <1>10, <1>11, NoCall

LEMMA InitInstallStep == ASSUME IInv, InitInstall PROVE IInv'
<1>1. TypeOK /\ SharedOK /\ main.place = "install" /\ toFile \in BOOLEAN
  BY DEF IInv, InitInstall, TypeOK
<1>2. PICK l : l = main.logger
  OBVIOUS
<1>3. /\ cfg' = [toFile |-> toFile, era |-> cfg.era + 1]
      /\ base' = l
      /\ channels' = [n \in Names |-> None]
      /\ writers' = writers \cup WriterOf(l)
      /\ main' = [main EXCEPT !.place = "default"]
      /\ UNCHANGED <<toFile, default, open, built, call, closed, late>>
  BY <1>2 DEF InitInstall
<1>4. Known(l)
  BY <1>1, <1>2 DEF SharedOK
<1>5. cfg.era \in Nat /\ cfg' \in Configs /\ cfg'.era = cfg.era + 1 /\ cfg'.toFile = toFile
  BY <1>1, <1>3 DEF TypeOK, Configs
<1>6. main' \in [place : {"idle", "install", "default", "done"}, logger : Loggers \cup {None}]
  BY <1>1, <1>3 DEF TypeOK
<1>7. TypeOK'
  <2>1. base' \in Loggers
    BY <1>3, <1>4 DEF Known
  <2>2. writers' \subseteq Ids
    BY <1>1, <1>3, <1>4, WriterInIds DEF TypeOK
  <2> QED  BY <1>1, <1>3, <1>5, <1>6, <2>1, <2>2 DEF TypeOK
<1>8. Kept
  BY <1>1, <1>3, <1>5 DEF Kept, TypeOK
<1>9. Owned(l)'
  <2>1. Known(l)'
    BY <1>1, <1>4, <1>8, GoodStays
  <2>2. l.toFile => l.id \in writers'
    BY <1>3 DEF WriterOf
  <2> QED  BY <2>1, <2>2 DEF Owned
<1>10. SharedOK'
  <2>1. Owned(default)'
    BY <1>1, <1>3, <1>8, GoodStays DEF SharedOK
  <2>2. main'.place = "default" /\ main'.logger = l
    BY <1>1, <1>2, <1>3 DEF TypeOK
  <2>3. Sane(cfg)'
    BY <1>3, <1>5 DEF Sane
  <2>4. \A n \in Names : channels'[n] = None
    BY <1>3
  <2> QED  BY <1>3, <1>9, <2>1, <2>2, <2>3, <2>4 DEF SharedOK
<1>11. OpenFilesOwned'
  BY <1>3 DEF IInv, OpenFilesOwned
<1> QED  BY <1>3, <1>7, <1>8, <1>10, <1>11, NoCall

LEMMA InitDefaultStep == ASSUME IInv, InitDefault PROVE IInv'
<1>1. TypeOK /\ SharedOK /\ main.place = "default"
  BY DEF IInv, InitDefault
<1>2. PICK l : l = main.logger
  OBVIOUS
<1>3. /\ default' = l
      /\ main' = [place |-> "idle", logger |-> None]
      /\ UNCHANGED <<toFile, cfg, base, channels, writers, open, built, call, closed, late>>
  BY <1>2 DEF InitDefault, logVars
<1>4. Owned(l)
  BY <1>1, <1>2 DEF SharedOK
<1>5. main' \in [place : {"idle", "install", "default", "done"}, logger : Loggers \cup {None}]
  BY <1>3
<1>6. TypeOK'
  BY <1>1, <1>3, <1>4, <1>5 DEF TypeOK, Owned, Known
<1>7. Kept
  BY <1>1, <1>3 DEF Kept, TypeOK, Configs
<1>8. SharedOK'
  <2>1. Owned(l)' /\ Owned(base)' /\ Sane(cfg)'
    BY <1>1, <1>3, <1>4, <1>7, GoodStays DEF SharedOK
  <2>2. \A n \in Names : channels'[n] # None => Owned(channels[n])'
    BY <1>1, <1>3, <1>7, GoodStays DEF SharedOK
  <2>3. main'.place = "idle"
    BY <1>3
  <2> QED  BY <1>3, <2>1, <2>2, <2>3 DEF SharedOK
<1>9. OpenFilesOwned'
  BY <1>3 DEF IInv, OpenFilesOwned
<1> QED  BY <1>3, <1>6, <1>7, <1>8, <1>9, NoCall

LEMMA CloseStep == ASSUME IInv, Close PROVE IInv'
<1>1. TypeOK /\ SharedOK
  BY DEF IInv
<1>2. /\ open' = open \ writers
      /\ writers' = {}
      /\ main' = [main EXCEPT !.place = "done"]
      /\ closed' = TRUE
      /\ UNCHANGED <<toFile, cfg, base, default, channels, built, call, late>>
  BY DEF Close
<1>3. main' \in [place : {"idle", "install", "default", "done"}, logger : Loggers \cup {None}]
      /\ main'.place = "done"
  BY <1>1, <1>2 DEF TypeOK
<1>4. TypeOK'
  BY <1>1, <1>2, <1>3 DEF TypeOK
<1>5. Kept
  BY <1>1, <1>2 DEF Kept, TypeOK, Configs
<1>6. SharedOK'
  <2>1. Owned(base)' /\ Owned(default)' /\ Sane(cfg)'
    BY <1>1, <1>2, <1>5, GoodStays DEF SharedOK
  <2>2. \A n \in Names : channels'[n] # None => Owned(channels[n])'
    BY <1>1, <1>2, <1>5, GoodStays DEF SharedOK
  <2> QED  BY <1>3, <2>1, <2>2 DEF SharedOK
<1>7. OpenFilesOwned'
  BY <1>2 DEF IInv, OpenFilesOwned
<1> QED  BY <1>2, <1>4, <1>5, <1>6, <1>7, NoCall

-----------------------------------------------------------------------------
(* The steps of a goroutine. *)

\* Shared state that changes in what Kept allows only.
LEMMA SharedStays ==
    ASSUME TypeOK, SharedOK, Kept, UNCHANGED <<cfg, base, default, channels, main>>
    PROVE  SharedOK'
<1>1. Owned(base)' /\ Owned(default)' /\ Sane(cfg)'
  BY GoodStays DEF SharedOK
<1>2. \A n \in Names : channels'[n] # None => Owned(channels[n])'
  BY GoodStays DEF SharedOK
<1>3. /\ main'.place = "install" => Known(main.logger)'
      /\ main'.place = "default" => Owned(main.logger)'
  BY GoodStays DEF SharedOK
<1> QED  BY <1>1, <1>2, <1>3 DEF SharedOK

\* A record written with a logger that is owned.
LEMMA WriteStays ==
    ASSUME TypeOK, SharedOK, OpenFilesOwned, NEW l, Owned(l), WriteTo(l),
           UNCHANGED <<toFile, cfg, base, default, channels, writers, built, main, closed>>
    PROVE  Kept /\ SharedOK' /\ OpenFilesOwned' /\ open' \subseteq Ids /\ late' \subseteq Ids
<1>1. Kept
  BY DEF Kept, TypeOK, Configs
<1>2. WriterOf(l) \subseteq Ids
  BY WriterInIds DEF Owned
<1>3. open' \subseteq open \cup WriterOf(l) /\ late' \subseteq late \cup WriterOf(l)
  BY DEF WriteTo, WriterOf
<1>4. open' \subseteq Ids /\ late' \subseteq Ids
  BY <1>2, <1>3 DEF TypeOK
<1>5. OpenFilesOwned'
  BY DEF WriteTo, OpenFilesOwned, Owned
<1> QED  BY <1>1, <1>4, <1>5, SharedStays

\* A call that holds a logger, of a channel or not.
LEMMA HoldsOK ==
    ASSUME NEW l, Owned(l), cfg \in Configs
    PROVE  /\ CallOK([Idle EXCEPT !.place = "holds", !.logger = l])
           /\ \A n \in Names : channels[n] = l =>
                 CallOK([Idle EXCEPT !.place = "holds", !.name = n, !.own = TRUE,
                                     !.logger = l, !.era = cfg.era])
<1>1. l \in Loggers /\ cfg.era \in Nat
  BY DEF Owned, Known, Configs
<1>2. CallOK([Idle EXCEPT !.place = "holds", !.logger = l])
  <2> DEFINE c == [Idle EXCEPT !.place = "holds", !.logger = l]
  <2>1. c \in Calls /\ c.place = "holds" /\ c.logger = l /\ c.own = FALSE
    BY <1>1 DEF Idle, Calls, Places
  <2> HIDE DEF c
  <2>2. CallOK(c)
    BY <2>1 DEF CallOK
  <2> QED  BY <2>2 DEF c
<1>3. ASSUME NEW n \in Names, channels[n] = l
      PROVE  CallOK([Idle EXCEPT !.place = "holds", !.name = n, !.own = TRUE,
                                 !.logger = l, !.era = cfg.era])
  <2> DEFINE c == [Idle EXCEPT !.place = "holds", !.name = n, !.own = TRUE,
                               !.logger = l, !.era = cfg.era]
  <2>1. /\ c \in Calls /\ c.place = "holds" /\ c.logger = l
        /\ c.name = n /\ c.era = cfg.era
    BY <1>1 DEF Idle, Calls, Places
  <2> HIDE DEF c
  <2>2. CallOK(c)
    BY <1>1, <1>3, <2>1 DEF CallOK
  <2> QED  BY <2>2 DEF c
<1> QED  BY <1>2, <1>3

LEMMA LookupStep ==
    ASSUME IInv, NEW g \in Goroutines, NEW n \in Names, Lookup(g, n)
    PROVE  IInv'
<1>1. TypeOK /\ SharedOK /\ cfg \in Configs
  BY DEF IInv, TypeOK
<1>2. UNCHANGED <<toFile, cfg, base, default, logVars, built, main, closed, late>>
  BY DEF Lookup
<1>3. CASE channels[n] # None
  <2> DEFINE c == [Idle EXCEPT !.place = "holds", !.name = n, !.own = TRUE,
                               !.logger = channels[n], !.era = cfg.era]
  <2>1. CallOK(c)
    BY <1>1, <1>3, HoldsOK DEF SharedOK
  <2>2. Set(g, c) /\ c.era = cfg.era
    BY <1>3 DEF Lookup, Idle
  <2> QED  BY <1>2, <2>1, <2>2, OnlyCall
<1>4. CASE channels[n] = None
  <2> DEFINE c == [Idle EXCEPT !.place = "build", !.name = n, !.cfg = cfg]
  <2>1. /\ c \in Calls /\ c.place = "build" /\ c.name = n /\ c.cfg = cfg /\ c.own = FALSE
    BY <1>1 DEF Idle, Calls, Places
  <2>2. Set(g, c)
    BY <1>4 DEF Lookup
  <2> HIDE DEF c
  <2>3. CallOK(c)
    BY <1>1, <2>1 DEF CallOK, SharedOK
  <2> QED  BY <1>2, <2>1, <2>2, <2>3, OnlyCall
<1> QED  BY <1>3, <1>4

LEMMA BuildChannelStep ==
    ASSUME IInv, NEW g \in Goroutines, BuildChannel(g)
    PROVE  IInv'
<1>1. /\ TypeOK /\ SharedOK /\ built < MaxBuilt /\ built' = built + 1
      /\ CallOK(call[g]) /\ call[g].place = "build"
  BY DEF IInv, BuildChannel, At
<1>2. /\ call[g] \in Calls /\ call[g].name \in Names /\ Sane(call[g].cfg)
      /\ call[g].cfg.toFile \in BOOLEAN
  BY <1>1 DEF CallOK, Sane, Configs
<1>3. PICK l : l = Build(call[g].cfg.toFile)
  OBVIOUS
<1>4. Known(l)' /\ l.toFile = call[g].cfg.toFile /\ built' \in 0..MaxBuilt
  BY <1>1, <1>2, <1>3, BuildIsKnown
<1>5. UNCHANGED <<toFile, cfg, base, default, logVars, main, closed, late>>
  BY DEF BuildChannel
<1>0. PICK c : c = [call[g] EXCEPT !.place = "install", !.logger = l]
  OBVIOUS
<1>6. Set(g, c)
  BY <1>0, <1>3 DEF BuildChannel
<1>7. /\ c \in Calls /\ c.place = "install" /\ c.logger = l
      /\ c.name = call[g].name /\ c.cfg = call[g].cfg
  BY <1>0, <1>2, <1>4 DEF Calls, Places, Known
<1>8. ~c.own
  BY <1>0, <1>1, <1>2 DEF CallOK, Calls
<1>9. TypeOK'
  BY <1>1, <1>4, <1>5, <1>6, <1>7 DEF TypeOK, logVars, Set
<1>10. Kept
  BY <1>1, <1>5 DEF Kept, TypeOK, Configs, logVars
<1>11. SharedOK'
  BY <1>1, <1>5, <1>10, SharedStays DEF logVars
<1>12. OpenFilesOwned'
  BY <1>5 DEF IInv, OpenFilesOwned, logVars
<1>13. CallOK(c)'
  <2>1. Sane(c.cfg)'
    BY <1>1, <1>2, <1>7, <1>10, GoodStays
  <2> QED  BY <1>2, <1>4, <1>7, <1>8, <2>1 DEF CallOK
<1> QED  BY <1>6, <1>8, <1>9, <1>10, <1>11, <1>12, <1>13, OneCall

LEMMA BuildFailsStep ==
    ASSUME IInv, NEW g \in Goroutines, BuildFails(g)
    PROVE  IInv'
<1>1. TypeOK /\ SharedOK /\ CallOK(call[g]) /\ call[g].place = "build" /\ call[g] \in Calls
  BY DEF IInv, BuildFails, At, CallOK
<1> DEFINE c == [call[g] EXCEPT !.place = "report", !.logger = base]
<1>2. c \in Calls /\ c.place = "report" /\ c.logger = base
  BY <1>1 DEF Calls, Places, TypeOK
<1>3. ~c.own
  BY <1>1 DEF CallOK, Calls
<1>4. Set(g, c)
  BY DEF BuildFails
<1> HIDE DEF c
<1>5. CallOK(c)
  BY <1>1, <1>2, <1>3 DEF CallOK, SharedOK
<1> QED  BY <1>3, <1>4, <1>5, OnlyCall DEF BuildFails

LEMMA ReportStep ==
    ASSUME IInv, NEW g \in Goroutines, Report(g)
    PROVE  IInv'
<1>1. /\ TypeOK /\ SharedOK /\ OpenFilesOwned /\ CallOK(call[g]) /\ call[g].place = "report"
      /\ call[g] \in Calls
  BY DEF IInv, Report, At, CallOK
<1>2. PICK l : l = call[g].logger
  OBVIOUS
<1>3. Owned(l) /\ WriteTo(l)
  BY <1>1, <1>2 DEF CallOK, Report
<1>4. UNCHANGED <<toFile, cfg, base, default, channels, writers, built, main, closed>>
  BY DEF Report
<1>5. Kept /\ SharedOK' /\ OpenFilesOwned' /\ open' \subseteq Ids /\ late' \subseteq Ids
  BY <1>1, <1>3, <1>4, WriteStays
<1>0. PICK c : c = [call[g] EXCEPT !.place = "fallback", !.logger = None]
  OBVIOUS
<1>6. c \in Calls /\ c.place = "fallback"
  BY <1>0, <1>1 DEF Calls, Places
<1>7. ~c.own
  BY <1>0, <1>1 DEF CallOK, Calls
<1>8. Set(g, c)
  BY <1>0 DEF Report
<1>9. TypeOK'
  BY <1>1, <1>4, <1>5, <1>6, <1>8 DEF TypeOK, Set
<1>10. CallOK(c)'
  BY <1>6, <1>7 DEF CallOK
<1> QED  BY <1>5, <1>7, <1>8, <1>9, <1>10, OneCall

LEMMA FallbackStep ==
    ASSUME IInv, NEW g \in Goroutines, Fallback(g) \/ TakeDefault(g)
    PROVE  IInv'
<1>1. Owned(base) /\ Owned(default) /\ cfg \in Configs
  BY DEF IInv, SharedOK, TypeOK
<1>2. PICK l \in {base, default} : Set(g, [Idle EXCEPT !.place = "holds", !.logger = l])
  BY DEF Fallback, TakeDefault
<1>3. CallOK([Idle EXCEPT !.place = "holds", !.logger = l])
  BY <1>1, <1>2, HoldsOK
<1>4. ~[Idle EXCEPT !.place = "holds", !.logger = l].own
  BY DEF Idle
<1> QED  BY <1>2, <1>3, <1>4, OnlyCall DEF Fallback, TakeDefault

LEMMA DiscardStep ==
    ASSUME IInv, NEW g \in Goroutines, Discard(g)
    PROVE  IInv'
<1>1. PICK n : n = call[g].name
  OBVIOUS
<1>2. /\ SharedOK /\ CallOK(call[g]) /\ call[g] \in Calls /\ call[g].place = "install"
      /\ cfg \in Configs
  BY DEF IInv, TypeOK, Discard, At, CallOK
<1>3. n \in Names /\ channels[n] # None
  BY <1>1, <1>2 DEF CallOK, Discard
<1>4. UNCHANGED <<toFile, cfg, base, default, logVars, built, main, closed, late>>
  BY DEF Discard
<1>5. CASE call[g].logger.toFile
  <2> DEFINE c == [Idle EXCEPT !.place = "holds", !.name = n, !.own = TRUE,
                               !.logger = channels[n], !.era = cfg.era]
  <2>1. CallOK(c)
    BY <1>2, <1>3, HoldsOK DEF SharedOK
  <2>2. Set(g, c) /\ c.era = cfg.era
    BY <1>1, <1>5 DEF Discard, Idle
  <2> QED  BY <1>4, <2>1, <2>2, OnlyCall
<1>6. CASE ~call[g].logger.toFile
  <2> DEFINE c == [call[g] EXCEPT !.place = "panicked"]
  <2>1. c \in Calls /\ c.place = "panicked" /\ c.cfg = call[g].cfg /\ c.name = n
    BY <1>1, <1>2 DEF Calls, Places
  <2>2. ~c.own
    BY <1>2 DEF CallOK, Calls
  <2>3. Set(g, c)
    BY <1>6 DEF Discard
  <2> HIDE DEF c
  <2>4. CallOK(c)
    BY <1>2, <1>3, <1>6, <2>1, <2>2 DEF CallOK
  <2> QED  BY <1>4, <2>2, <2>3, <2>4, OnlyCall
<1> QED  BY <1>5, <1>6

LEMMA InstallChannelStep ==
    ASSUME IInv, NEW g \in Goroutines, InstallChannel(g)
    PROVE  IInv'
<1>1. PICK n, l : n = call[g].name /\ l = call[g].logger
  OBVIOUS
<1>2. /\ TypeOK /\ SharedOK /\ OpenFilesOwned /\ CallOK(call[g]) /\ call[g].place = "install"
  BY DEF IInv, InstallChannel, At
<1>3. n \in Names /\ Known(l) /\ cfg.era \in Nat /\ l \in Loggers
  BY <1>1, <1>2 DEF CallOK, TypeOK, Configs, Known
<1>4. /\ channels[n] = None
      /\ channels' = [channels EXCEPT ![n] = l]
      /\ writers' = writers \cup WriterOf(l)
      /\ UNCHANGED <<toFile, cfg, base, default, open, built, main, closed, late>>
  BY <1>1 DEF InstallChannel
<1>5. PICK c : c = [Idle EXCEPT !.place = "holds", !.name = n, !.own = TRUE,
                                !.logger = l, !.era = cfg.era]
  OBVIOUS
<1>6. Set(g, c)
  BY <1>1, <1>5 DEF InstallChannel
<1>7. /\ c \in Calls /\ c.place = "holds" /\ c.logger = l /\ c.name = n /\ c.era = cfg.era
  BY <1>3, <1>5 DEF Idle, Calls, Places
<1>8. channels' \in [Names -> Loggers \cup {None}] /\ channels'[n] = l
  BY <1>2, <1>3, <1>4 DEF TypeOK
<1>9. TypeOK'
  BY <1>2, <1>3, <1>4, <1>6, <1>7, <1>8, WriterInIds DEF TypeOK, Set
<1>10. Kept
  BY <1>2, <1>3, <1>4 DEF Kept, TypeOK
<1>11. Owned(l)'
  <2>1. Known(l)'
    BY <1>2, <1>3, <1>10, GoodStays
  <2>2. l.toFile => l.id \in writers'
    BY <1>4 DEF WriterOf
  <2> QED  BY <2>1, <2>2 DEF Owned
<1>12. SharedOK'
  <2>1. Owned(base)' /\ Owned(default)' /\ Sane(cfg)'
    BY <1>2, <1>4, <1>10, GoodStays DEF SharedOK
  <2>2. /\ main'.place = "install" => Known(main.logger)'
        /\ main'.place = "default" => Owned(main.logger)'
    BY <1>2, <1>4, <1>10, GoodStays DEF SharedOK
  <2>3. ASSUME NEW m \in Names, NEW k, k = channels'[m], k # None PROVE Owned(k)'
    <3>1. CASE m = n
      BY <1>8, <1>11, <2>3, <3>1
    <3>2. CASE m # n
      <4>1. k = channels[m]
        BY <1>2, <1>4, <2>3, <3>2 DEF TypeOK
      <4> QED  BY <1>2, <1>10, <2>3, <4>1, GoodStays DEF SharedOK
    <3> QED  BY <3>1, <3>2
  <2> QED  BY <1>4, <2>1, <2>2, <2>3 DEF SharedOK
<1>13. OpenFilesOwned'
  BY <1>2, <1>4 DEF OpenFilesOwned
<1>14. CallOK(c)'
  BY <1>3, <1>4, <1>7, <1>8, <1>11 DEF CallOK
<1>15. c.era = cfg'.era
  BY <1>4, <1>7
<1> QED  BY <1>6, <1>9, <1>10, <1>12, <1>13, <1>14, <1>15, OneCall

LEMMA WriteStep ==
    ASSUME IInv, NEW g \in Goroutines, Write(g)
    PROVE  IInv'
<1>1. TypeOK /\ SharedOK /\ OpenFilesOwned
  BY DEF IInv
<1>2. Owned(call[g].logger)
  BY DEF IInv, CallOK, Write, At
<1>3. /\ WriteTo(call[g].logger)
      /\ UNCHANGED <<toFile, cfg, base, default, channels, writers, built, main, call, closed>>
  BY DEF Write
<1>4. Kept /\ SharedOK' /\ OpenFilesOwned' /\ open' \subseteq Ids /\ late' \subseteq Ids
  BY <1>1, <1>2, <1>3, WriteStays
<1>5. TypeOK'
  BY <1>1, <1>3, <1>4 DEF TypeOK
<1> QED  BY <1>3, <1>4, <1>5, NoCall

LEMMA DropStep ==
    ASSUME IInv, NEW g \in Goroutines, Drop(g)
    PROVE  IInv'
<1>1. Idle \in Calls /\ Idle.place = "idle" /\ ~Idle.own
  BY DEF Idle, Calls, Places
<1>2. CallOK(Idle)
  BY <1>1 DEF CallOK
<1> QED  BY <1>1, <1>2, OnlyCall DEF Drop

LEMMA StutterStep == ASSUME IInv, UNCHANGED vars PROVE IInv'
<1>1. UNCHANGED <<toFile, cfg, base, default, channels, writers, open, built, main, call,
                  closed, late>>
  BY DEF vars, logVars
<1>2. TypeOK /\ SharedOK
  BY DEF IInv
<1>3. TypeOK'
  BY <1>1, <1>2 DEF TypeOK
<1>4. Kept
  BY <1>1, <1>2 DEF Kept, TypeOK, Configs
<1>5. SharedOK'
  BY <1>1, <1>2, <1>4, SharedStays
<1>6. OpenFilesOwned'
  BY <1>1 DEF IInv, OpenFilesOwned
<1> QED  BY <1>1, <1>3, <1>4, <1>5, <1>6, NoCall

-----------------------------------------------------------------------------
(* The theorems. *)

\* The invariant the others follow from.
THEOREM Inductive == Spec => []IInv
<1>1. Init => IInv
  BY InitIInv
<1>2. IInv /\ [Next]_vars => IInv'
  <2> SUFFICES ASSUME IInv, [Next]_vars PROVE IInv'
    OBVIOUS
  <2>1. CASE InitBuild
    BY <2>1, InitBuildStep
  <2>2. CASE InitInstall
    BY <2>2, InitInstallStep
  <2>3. CASE InitDefault
    BY <2>3, InitDefaultStep
  <2>4. CASE Close
    BY <2>4, CloseStep
  <2>5. ASSUME NEW g \in Goroutines,
               \/ \E n \in Names : Lookup(g, n)
               \/ BuildChannel(g)
               \/ BuildFails(g) \/ Report(g) \/ Fallback(g)
               \/ Discard(g)
               \/ InstallChannel(g)
               \/ TakeDefault(g) \/ Write(g) \/ Drop(g)
        PROVE  IInv'
    BY <2>5, LookupStep, BuildChannelStep, BuildFailsStep, ReportStep, FallbackStep,
       DiscardStep, InstallChannelStep, WriteStep, DropStep
  <2>6. CASE UNCHANGED vars
    BY <2>6, StutterStep
  <2> QED  BY <2>1, <2>2, <2>3, <2>4, <2>5, <2>6 DEF Next
<1> QED  BY <1>1, <1>2, PTL DEF Spec

\* The variables have their types.
THEOREM TypeCorrectness == Spec => []TypeOK
<1>1. IInv => TypeOK
  BY DEF IInv
<1> QED  BY <1>1, Inductive, PTL

\* No log file stays open that Close does not know of, but those of records written
\* after it (logs.go:172).
THEOREM CloseReachesAll == Spec => []OpenFilesOwned
<1>1. IInv => OpenFilesOwned
  BY DEF IInv
<1> QED  BY <1>1, Inductive, PTL

\* Between two Inits a channel has one logger, whoever won the race to make it
\* (logs.go:144-166).
THEOREM ChannelsAreOne == Spec => []OneLogger
<1>1. IInv => OneLogger
  BY DEF IInv
<1> QED  BY <1>1, Inductive, PTL

\* A goroutine that panics in Channel read a configuration without files that an
\* Init had set (logs.go:159).
THEOREM PanicsExplained == Spec => []PanicNeedsNoFile
<1>1. IInv => PanicNeedsNoFile
  <2> SUFFICES ASSUME IInv, NEW g \in Goroutines, call[g].place = "panicked"
               PROVE  ~call[g].cfg.toFile /\ ~toFile /\ call[g].cfg.era > 0
    BY DEF PanicNeedsNoFile, At
  <2>1. Sane(call[g].cfg) /\ ~call[g].cfg.toFile
    BY DEF IInv, CallOK
  <2>2. call[g].cfg.era \in Nat /\ call[g].cfg.era # 0
    BY <2>1 DEF Sane, Configs
  <2> QED  BY <2>1, <2>2 DEF Sane
<1> QED  BY <1>1, Inductive, PTL
=============================================================================
