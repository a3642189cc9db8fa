----------------------------- MODULE LogChannels -----------------------------
(***************************************************************************)
(* The logging facade (pkg/logs): one default logger, named channels made  *)
(* on first use and cached, each with a file that is opened by the first   *)
(* record of a day, and one Close at the end of the process.               *)
(*                                                                         *)
(* The main goroutine runs Init once in cli.Execute and again when a       *)
(* server builds its router; any goroutine may ask for a channel at any    *)
(* time ("Call it from anywhere").  A step is what the code does under one *)
(* lock, or between two.  A logger is known by the number of the build     *)
(* that made it, and so is the writer it holds if it has one.              *)
(***************************************************************************)
EXTENDS Naturals

CONSTANTS
    Goroutines,     \* those that log
    Names,          \* names of channels
    None,
    MaxInits,       \* calls of Init in one process
    MaxBuilt        \* bound of the model: calls of build

VARIABLES
    toFile,     \* Config.ToFile of the application
    cfg,        \* what the loggers are built from: ToFile, and how many Inits
    base,       \* the default logger
    default,    \* slog's default logger
    channels,   \* [Names -> logger or None]
    writers,    \* what Close is to close
    open,       \* writers whose file is open
    built,      \* number of builds
    main,       \* the main goroutine: place, and logger of an Init in progress
    call,       \* per goroutine: its call of Channel, or the logger it holds
    closed,     \* history: Close was called
    late        \* history: writers of records written since

logVars == <<channels, writers, open>>
vars == <<toFile, cfg, base, default, logVars, built, main, call, closed, late>>

Configs == [toFile : BOOLEAN, era : Nat]
Loggers == [id : Nat, toFile : BOOLEAN]
Places == {"idle", "build", "install", "report", "fallback", "holds", "panicked"}
Calls == [place : Places,
          name : Names \cup {None},
          cfg : Configs \cup {None},        \* current
          logger : Loggers \cup {None},
          era : Nat,                        \* history: Inits before it returned
          own : BOOLEAN]                    \* history: the channel's own logger
Idle == [place |-> "idle", name |-> None, cfg |-> None, logger |-> None, era |-> 0,
         own |-> FALSE]

ASSUME LogChannelsAssumption ==
    /\ None \notin Names \cup Configs \cup Loggers
    /\ MaxInits \in Nat
    /\ MaxBuilt \in Nat

Ids == 1..MaxBuilt
Std == [id |-> 0, toFile |-> FALSE]

TypeOK ==
    /\ toFile \in BOOLEAN
    /\ cfg \in Configs
    /\ base \in Loggers
    /\ default \in Loggers
    /\ channels \in [Names -> Loggers \cup {None}]
    /\ writers \subseteq Ids
    /\ open \subseteq Ids
    /\ built \in 0..MaxBuilt
    /\ main \in [place : {"idle", "install", "default", "done"},
                 logger : Loggers \cup {None}]
    /\ call \in [Goroutines -> Calls]
    /\ closed \in BOOLEAN
    /\ late \subseteq Ids

-----------------------------------------------------------------------------
At(g, place) == call[g].place = place

\* DefaultConfig logs to files, through slog's own logger.
Init ==
    /\ toFile \in BOOLEAN
    /\ cfg = [toFile |-> TRUE, era |-> 0]
    /\ base = Std
    /\ default = Std
    /\ channels = [n \in Names |-> None]
    /\ writers = {}
    /\ open = {}
    /\ built = 0
    /\ main = [place |-> "idle", logger |-> None]
    /\ call = [g \in Goroutines |-> Idle]
    /\ closed = FALSE
    /\ late = {}

\* build: a logger, and if it is to log to a file a writer that has not opened one.
Build(c) == [id |-> built + 1, toFile |-> c]
WriterOf(l) == IF l.toFile THEN {l.id} ELSE {}

\* dailyWriter.Write: the file stays open, or is closed since the day it was for is
\* over; unless that fails, today's is opened if need be.  Which day it is, and the
\* standard output, are not modelled.
WriteTo(l) ==
    IF l.toFile
    THEN /\ open' \in {open \cup {l.id}, open \ {l.id}}
         /\ late' = IF closed THEN late \cup {l.id} ELSE late
    ELSE UNCHANGED <<open, late>>

-----------------------------------------------------------------------------
(* Init, of the main goroutine. *)

InitBuild ==
    /\ main.place = "idle"
    /\ cfg.era < MaxInits
    /\ built < MaxBuilt
    /\ built' = built + 1
    /\ main' = [place |-> "install", logger |-> Build(toFile)]
    /\ UNCHANGED <<toFile, cfg, base, default, logVars, call, closed, late>>

\* The directory cannot be made: cli.Execute warns and goes on, a server gives up.
\* Either way nothing has changed, and InitBuild or Close is next.
InitInstallAnew ==
    /\ main.place = "install"
    /\ cfg' = [toFile |-> toFile, era |-> cfg.era + 1]
    /\ base' = main.logger
    /\ channels' = [n \in Names |-> None]
    /\ writers' = WriterOf(main.logger)
    /\ main' = [main EXCEPT !.place = "default"]
    /\ UNCHANGED <<toFile, default, open, built, call, closed, late>>
InitInstall ==
    /\ main.place = "install"
    /\ cfg' = [toFile |-> toFile, era |-> cfg.era + 1]
    /\ base' = main.logger
    /\ channels' = [n \in Names |-> None]
    /\ writers' = writers \cup WriterOf(main.logger)
    /\ main' = [main EXCEPT !.place = "default"]
    /\ UNCHANGED <<toFile, default, open, built, call, closed, late>>

\* slog.SetDefault, after the lock is released.
InitDefault ==
    /\ main.place = "default"
    /\ default' = main.logger
    /\ main' = [place |-> "idle", logger |-> None]
    /\ UNCHANGED <<toFile, cfg, base, logVars, built, call, closed, late>>

\* Close, deferred by cli.Execute.  Goroutines may be left that log.
Close ==
    /\ main.place = "idle"
    /\ open' = open \ writers
    /\ writers' = {}
    /\ main' = [main EXCEPT !.place = "done"]
    /\ closed' = TRUE
    /\ UNCHANGED <<toFile, cfg, base, default, channels, built, call, late>>

-----------------------------------------------------------------------------
(* Channel *)

Set(g, c) == call' = [call EXCEPT ![g] = c]

\* Under the read lock: the cached logger, or the configuration to build one.
Lookup(g, n) ==
    /\ At(g, "idle")
    /\ IF channels[n] # None
       THEN Set(g, [Idle EXCEPT !.place = "holds", !.name = n, !.own = TRUE,
                                !.logger = channels[n], !.era = cfg.era])
       ELSE Set(g, [Idle EXCEPT !.place = "build", !.name = n, !.cfg = cfg])
    /\ UNCHANGED <<toFile, cfg, base, default, logVars, built, main, closed, late>>

\* With no lock held.
BuildChannel(g) ==
    /\ At(g, "build")
    /\ built < MaxBuilt
    /\ built' = built + 1
    /\ Set(g, [call[g] EXCEPT !.place = "install",
                              !.logger = Build(call[g].cfg.toFile)])
    /\ UNCHANGED <<toFile, cfg, base, default, logVars, main, closed, late>>

\* The directory cannot be made: Logger() is told, then taken instead.
BuildFailsOn(g) ==
    /\ At(g, "build")
    /\ call[g].cfg.toFile
    /\ Set(g, [call[g] EXCEPT !.place = "panicked"])
    /\ UNCHANGED <<toFile, cfg, base, default, logVars, built, main, closed, late>>
BuildFails(g) ==
    /\ At(g, "build")
    /\ call[g].cfg.toFile
    /\ Set(g, [call[g] EXCEPT !.place = "report", !.logger = base])
    /\ UNCHANGED <<toFile, cfg, base, default, logVars, built, main, closed, late>>
Report(g) ==
    /\ At(g, "report")
    /\ WriteTo(call[g].logger)
    /\ Set(g, [call[g] EXCEPT !.place = "fallback", !.logger = None])
    /\ UNCHANGED <<toFile, cfg, base, default, channels, writers, built, main, closed>>
Fallback(g) ==
    /\ At(g, "fallback")
    /\ Set(g, [Idle EXCEPT !.place = "holds", !.logger = base])
    /\ UNCHANGED <<toFile, cfg, base, default, logVars, built, main, closed, late>>

\* Under the lock again.  Whoever finds the channel made discards its own logger:
\* closing the writer it does not have, when it was built without a file, panics.
Discard(g) ==
    LET n == call[g].name IN
    /\ At(g, "install")
    /\ channels[n] # None
    /\ IF call[g].logger.toFile
       THEN Set(g, [Idle EXCEPT !.place = "holds", !.name = n, !.own = TRUE,
                                !.logger = channels[n], !.era = cfg.era])
       ELSE Set(g, [call[g] EXCEPT !.place = "panicked"])
    /\ UNCHANGED <<toFile, cfg, base, default, logVars, built, main, closed, late>>
InstallUnchecked(g) ==
    LET n == call[g].name IN
    /\ At(g, "install")
    /\ channels' = [channels EXCEPT ![n] = call[g].logger]
    /\ writers' = writers \cup WriterOf(call[g].logger)
    /\ Set(g, [Idle EXCEPT !.place = "holds", !.name = n, !.own = TRUE,
                           !.logger = call[g].logger, !.era = cfg.era])
    /\ UNCHANGED <<toFile, cfg, base, default, open, built, main, closed, late>>
InstallChannel(g) ==
    LET n == call[g].name IN
    /\ At(g, "install")
    /\ channels[n] = None
    /\ channels' = [channels EXCEPT ![n] = call[g].logger]
    /\ writers' = writers \cup WriterOf(call[g].logger)
    /\ Set(g, [Idle EXCEPT !.place = "holds", !.name = n, !.own = TRUE,
                           !.logger = call[g].logger, !.era = cfg.era])
    /\ UNCHANGED <<toFile, cfg, base, default, open, built, main, closed, late>>

-----------------------------------------------------------------------------
(* Writing. *)

\* Logger() or slog.Default() instead of a channel.
TakeDefault(g) ==
    /\ At(g, "idle")
    /\ \E l \in {base, default} :
          Set(g, [Idle EXCEPT !.place = "holds", !.logger = l])
    /\ UNCHANGED <<toFile, cfg, base, default, logVars, built, main, closed, late>>

\* A record, through the logger that was taken, perhaps long ago.
Write(g) ==
    /\ At(g, "holds")
    /\ WriteTo(call[g].logger)
    /\ UNCHANGED <<toFile, cfg, base, default, channels, writers, built, main, call, closed>>
Drop(g) ==
    /\ At(g, "holds")
    /\ Set(g, Idle)
    /\ UNCHANGED <<toFile, cfg, base, default, logVars, built, main, closed, late>>

Next ==
    \/ InitBuild \/ InitInstall \/ InitDefault \/ Close
    \/ \E g \in Goroutines :
          \/ \E n \in Names : Lookup(g, n)
          \/ BuildChannel(g)
          \/ BuildFails(g) \/ Report(g) \/ Fallback(g)
          \/ Discard(g)
          \/ InstallChannel(g)
          \/ TakeDefault(g) \/ Write(g) \/ Drop(g)

Spec == Init /\ [][Next]_vars

-----------------------------------------------------------------------------
(* Properties. *)

\* "Close releases every open log file" (logs.go:172), whatever Inits, channels,
\* lost races and days came before: a file that is open is one that Close will
\* close, or that a record opened after Close.
OpenFilesOwned ==
    open \subseteq writers \cup late

\* Between two Inits every call of Channel for one name that succeeds returns one
\* logger, so that "calling this in a hot path does not reopen files".
OneLogger ==
    \A g, h \in Goroutines :
        /\ call[g].own /\ call[h].own
        /\ call[g].name = call[h].name /\ call[g].era = call[h].era
        => call[g].logger = call[h].logger

\* Channel panics in one case only: file logging was off in the configuration it
\* read, and another goroutine made the channel first.
PanicNeedsNoFile ==
    \A g \in Goroutines :
        At(g, "panicked") => ~call[g].cfg.toFile /\ ~toFile /\ call[g].cfg.era > 0
==============================================================================
