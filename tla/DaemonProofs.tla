---------------------------- MODULE DaemonProofs ----------------------------
(***************************************************************************)
(* The port that the daemon uses is the one it was given, for every command*)
(* line and every configuration file; and what a signal has stopped stays  *)
(* stopped, whatever the main goroutine, users and the tribe still do.     *)
(*                                                                         *)
(* The first rests on lemmas about the functions of module Settings: what  *)
(* is asked for is nothing but their result.  The second rests on the order*)
(* in which the modules are stopped.  Control is the first, and refuses to *)
(* load from then on; so nothing is loaded after its teardown, nothing     *)
(* subscribes after that, and nothing is left to spin when the scheduler   *)
(* has killed its tasks.                                                   *)
(***************************************************************************)
EXTENDS Daemon, TLAPS

---------------------------------------------------------------------------
(* The port *)

\* A setting that was given has a value.
LEMMA GivenIsOne ==
  ASSUME NEW S, S # {}
  PROVE  Given(S) \in S
BY DEF Given

\* What checkHostPortVals says of an address and a port setting.
LEMMA CheckedHost ==
  ASSUME NEW addr \in Addresses, NEW port \in Int
  PROVE  LET r == checkHostPortVals(addr, port) IN
         /\ r.ok => (r.inAddr <=> addr.port # Absent)
         /\ r.ok /\ r.inAddr => r.port = addr.port /\ port <= 0
         /\ ~r.inAddr => r.port = port
<1> DEFINE ok == \/ addr = NoAddress
                 \/ /\ isValidAddress(addr.host)
                    /\ addr.port \notin {Word, Hollow, Tangled}
                    /\ addr.port # Absent => port <= 0
           inAddr == ok /\ addr.port # Absent
           r == checkHostPortVals(addr, port)
<1>1. r = [ok |-> ok, inAddr |-> inAddr, port |-> IF inAddr THEN addr.port ELSE port]
  BY DEF checkHostPortVals
<1>2. ok /\ addr.port # Absent => port <= 0
  <2>1. NoAddress.port = Absent
    BY DEF NoAddress
  <2>2. QED
    BY <2>1
<1> HIDE DEF ok, r
<1>3. r.ok = ok /\ r.inAddr = inAddr /\ r.port = IF inAddr THEN addr.port ELSE port
  BY <1>1
<1>4. QED
  BY <1>2, <1>3 DEF r

\* The address that is left out is an address.
LEMMA NoAddressIsOne == NoAddress \in Addresses
BY DEF NoAddress, Addresses, Absent

\* A flag that replaces an address is an address.
LEMMA SetAddress ==
  ASSUME NEW addr \in Addresses, NEW flag, flag \subseteq Addresses
  PROVE  setVal(addr, flag) \in Addresses
BY GivenIsOne DEF setVal

\* The same of the flags; a port that is positive counts.
LEMMA CheckedFlags ==
  ASSUME NEW flags, flags.addr \subseteq Addresses, flags.port \subseteq Int
  PROVE  LET r == checkCmdLineFlags(flags)
             addr == setVal(NoAddress, flags.addr) IN
         /\ r.ok => (r.inAddr <=> addr.port # Absent)
         /\ r.ok /\ r.inAddr => r.port = addr.port
         /\ r.ok /\ flags.port # {} /\ Given(flags.port) > 0
              => ~r.inAddr /\ r.port = Given(flags.port)
<1> DEFINE addr == setVal(NoAddress, flags.addr)
           port == IF flags.port = {} \/ ~ParsesInt(flags.port) THEN 0 ELSE Given(flags.port)
           tls == checkTLSEnabled(setVal("", flags.cert), setVal("", flags.key))
           c == checkHostPortVals(addr, port)
           r == checkCmdLineFlags(flags)
<1>1. addr \in Addresses
  BY NoAddressIsOne, SetAddress
<1>2. r.ok = (c.ok /\ tls) /\ r.inAddr = c.inAddr /\ r.port = c.port
  BY DEF checkCmdLineFlags, checkHostPortVals
<1>3. flags.port # {} /\ Given(flags.port) > 0 => port = Given(flags.port) /\ ~(port <= 0)
  BY GivenIsOne DEF ParsesInt, Word
<1> HIDE DEF addr, port, tls, c, r
<1>4. port \in Int
  BY GivenIsOne DEF port
<1>5. /\ c.ok => (c.inAddr <=> addr.port # Absent)
      /\ c.ok /\ c.inAddr => c.port = addr.port /\ port <= 0
      /\ ~c.inAddr => c.port = port
  BY <1>1, <1>4, CheckedHost DEF c
<1>6. QED
  BY <1>2, <1>3, <1>5 DEF addr, r

\* The configuration after the file.
LEMMA ReadAddress ==
  ASSUME NEW file, \A f \in file : f.addr \subseteq Addresses
  PROVE  LET cfg == readConfig(getDefaultConfig, file) IN
         /\ cfg.addr = IF file = {} THEN NoAddress ELSE setVal(NoAddress, Given(file).addr)
         /\ cfg.addr \in Addresses
         /\ DOMAIN cfg = DOMAIN getDefaultConfig
<1> DEFINE cfg == readConfig(getDefaultConfig, file)
<1>1. CASE file = {}
  <2>1. cfg = getDefaultConfig
    BY <1>1 DEF readConfig
  <2>2. getDefaultConfig.addr = NoAddress
    BY DEF getDefaultConfig
  <2>3. QED
    BY <1>1, <2>1, <2>2, NoAddressIsOne
<1>2. CASE file # {}
  <2> DEFINE f == Given(file)
  <2>1. f.addr \subseteq Addresses
    BY <1>2, GivenIsOne
  <2>2. /\ cfg.addr = setVal(NoAddress, f.addr)
        /\ DOMAIN cfg = DOMAIN getDefaultConfig
    BY <1>2 DEF readConfig, getDefaultConfig
  <2>3. QED
    BY <1>2, <2>1, <2>2, NoAddressIsOne, SetAddress
<1>3. QED
  BY <1>1, <1>2

\* The same of the configuration.
LEMMA CheckedCfg ==
  ASSUME NEW cfg, cfg.addr \in Addresses
  PROVE  LET r == checkCfgSettings(cfg) IN
         r.ok => /\ r.inAddr <=> cfg.addr.port # Absent
                 /\ r.inAddr => r.port = cfg.addr.port
<1> DEFINE c == checkHostPortVals(cfg.addr, -1)
           r == checkCfgSettings(cfg)
<1>1. r.ok = (c.ok /\ checkTLSEnabled(cfg.cert, cfg.key)) /\ r.inAddr = c.inAddr /\ r.port = c.port
  BY DEF checkCfgSettings, checkHostPortVals
<1> HIDE DEF c, r
<1>2. c.ok => (c.inAddr <=> cfg.addr.port # Absent) /\ (c.inAddr => c.port = cfg.addr.port)
  BY CheckedHost DEF c
<1>3. QED
  BY <1>1, <1>2 DEF r

\* What the flags make of address and port.
LEMMA AppliedPort ==
  ASSUME NEW cfg, NEW flags, {"addr", "port"} \subseteq DOMAIN cfg
  PROVE  LET to == applyCmdLineFlags(cfg, flags)
             line == checkCmdLineFlags(flags)
             file == checkCfgSettings(cfg)
             addr == setVal(cfg.addr, flags.addr)
             port == setVal(cfg.port, flags.port)
         IN  /\ to.ok => /\ line.ok /\ file.ok
                         /\ ~(line.port > 0 /\ file.inAddr /\ ~line.inAddr)
             /\ to.cfg.port = IF line.inAddr THEN line.port
                              ELSE IF file.inAddr THEN file.port ELSE port
             /\ to.cfg.addr = IF line.inAddr \/ file.inAddr THEN addr
                              ELSE [addr EXCEPT !.port = port]
             /\ DOMAIN to.cfg = DOMAIN cfg
BY DEF applyCmdLineFlags

\* The configuration that the daemon is built from, when nothing was fatal.
LEMMA ConfiguredPort ==
  ASSUME NEW flags \in FlagSets, NEW file \in FileSets,
         Configured(flags, file).ok
  PROVE  LET cfg == Configured(flags, file).cfg
             replaced == /\ flags.addr # {} /\ Given(flags.addr).port = Absent
                         /\ file # {} /\ Given(file).addr # {}
                         /\ Given(Given(file).addr).port # Absent
         IN  /\ (cfg.addr.port = cfg.port) = ~replaced
             /\ flags.port # {} /\ Given(flags.port) > 0 => cfg.port = Given(flags.port)
<1> DEFINE base == readConfig(getDefaultConfig, file)
           to == applyCmdLineFlags(base, flags)
           c == Configured(flags, file)
           line == checkCmdLineFlags(flags)
           read == checkCfgSettings(base)
           addr == setVal(base.addr, flags.addr)
           port == setVal(base.port, flags.port)
<1>1. /\ flags.addr \subseteq Addresses
      /\ flags.port \subseteq Int
      /\ \A f \in file : f.addr \subseteq Addresses
  BY SettingsAssumption
<1>2. /\ base.addr = IF file = {} THEN NoAddress ELSE setVal(NoAddress, Given(file).addr)
      /\ base.addr \in Addresses
      /\ DOMAIN base = DOMAIN getDefaultConfig
  BY <1>1, ReadAddress
<1>3. {"addr", "port"} \subseteq DOMAIN base
  <2>1. {"addr", "port"} \subseteq DOMAIN getDefaultConfig
    BY DEF getDefaultConfig
  <2>2. QED
    BY <1>2, <2>1
<1>4. addr \in Addresses
  BY <1>1, <1>2, SetAddress
<1>5. /\ to.ok
      /\ c.cfg = [to.cfg EXCEPT !.procs = setMaxProcs(@)]
  BY DEF Configured
<1> HIDE DEF base, to, c, line, read, addr, port
<1>6. /\ line.ok => (line.inAddr <=> setVal(NoAddress, flags.addr).port # Absent)
      /\ line.ok /\ line.inAddr => line.port = setVal(NoAddress, flags.addr).port
      /\ line.ok /\ flags.port # {} /\ Given(flags.port) > 0
           => ~line.inAddr /\ line.port = Given(flags.port)
  BY <1>1, CheckedFlags DEF line
<1>7. read.ok => /\ read.inAddr <=> base.addr.port # Absent
                 /\ read.inAddr => read.port = base.addr.port
  BY <1>2, CheckedCfg DEF read
<1>8. /\ line.ok /\ read.ok
      /\ ~(line.port > 0 /\ read.inAddr /\ ~line.inAddr)
      /\ to.cfg.port = IF line.inAddr THEN line.port
                       ELSE IF read.inAddr THEN read.port ELSE port
      /\ to.cfg.addr = IF line.inAddr \/ read.inAddr THEN addr
                       ELSE [addr EXCEPT !.port = port]
      /\ DOMAIN to.cfg = DOMAIN base
  BY <1>3, <1>5, AppliedPort DEF to, line, read, addr, port
<1>9. c.cfg.port = to.cfg.port /\ c.cfg.addr = to.cfg.addr
  BY <1>3, <1>5, <1>8
<1>10. NoAddress.port = Absent
  BY DEF NoAddress
<1> DEFINE replaced == /\ flags.addr # {} /\ Given(flags.addr).port = Absent
                       /\ file # {} /\ Given(file).addr # {}
                       /\ Given(Given(file).addr).port # Absent
<1>11. replaced <=> /\ flags.addr # {} /\ ~line.inAddr /\ read.inAddr
  BY <1>2, <1>6, <1>7, <1>8, <1>10 DEF setVal
<1>12. (c.cfg.addr.port = c.cfg.port) = ~replaced
  <2> HIDE DEF replaced
  <2>1. CASE line.inAddr
    BY <2>1, <1>6, <1>8, <1>9, <1>10, <1>11 DEF addr, setVal
  <2>2. CASE ~line.inAddr /\ read.inAddr
    BY <2>2, <1>6, <1>7, <1>8, <1>9, <1>10, <1>11 DEF addr, setVal
  <2>3. CASE ~line.inAddr /\ ~read.inAddr
    <3>1. [addr EXCEPT !.port = port].port = port
      BY <1>4 DEF Addresses
    <3>2. QED
      BY <2>3, <3>1, <1>8, <1>9, <1>11
  <2>4. QED
    BY <2>1, <2>2, <2>3
<1>13. flags.port # {} /\ Given(flags.port) > 0 => c.cfg.port = Given(flags.port)
  BY <1>6, <1>8, <1>9 DEF port, setVal
<1>14. QED
  BY <1>12, <1>13 DEF c

\* What is being configured comes from the command lines and the files.
Asked ==
  \A a \in asked : \E flags \in FlagSets, file \in FileSets :
    a = [flags |-> flags, file |-> file, out |-> Configured(flags, file)]

\* Nothing is asked for at first.
LEMMA AskedInit == Init => Asked
BY DEF Init, Asked

\* Only Configure asks.
LEMMA AskedStep == Asked /\ [Next]_vars => Asked'
<1> SUFFICES ASSUME Asked, [Next]_vars
             PROVE  Asked'
  OBVIOUS
<1>1. CASE Configure
  <2>1. PICK flags \in FlagSets, file \in FileSets :
          asked' = {[flags |-> flags, file |-> file, out |-> Configured(flags, file)]}
    BY <1>1 DEF Configure
  <2>2. QED
    BY <2>1 DEF Asked
<1>2. CASE Build
  BY <1>2 DEF Build, Asked
<1>3. CASE UNCHANGED asked
  BY <1>3 DEF Asked
<1>4. QED
  BY <1>1, <1>2, <1>3 DEF Next, vars, Changes, Fatal, Signal, BuildFails, StartControl,
     Discover, Listen, ListenFails, StartScheduler, StartTribe, StartRest, Run, RunFails,
     SetTrust, SetTrustFails, Receive, StopControl, StopPlugins, Teardown, StopScheduler,
     StopTribe, WaitWorkers, StopRest, StopRestPanics, WaitHandlers, End, LoadPlugin,
     CreateTask, StopTask, BeginStart, FinishStart, SpinEnds, Collect, CopyLostTask,
     HandleNote, HandleEnd, TellEnd, Deliver, Watch, AddWatcher, LeaveWatch,
     CloseWatcher, ClientLeaves

\* The address and the port that applyCmdLineFlags leaves name the same port,
\* unless an address without one replaced the file's, and a positive port on
\* the command line is the port: for every command line and every file that
\* snapteld does not refuse.
THEOREM PortSafe == Spec => []PortIsTheOneGiven
<1>1. Asked => PortIsTheOneGiven
  <2> SUFFICES ASSUME Asked, NEW a \in asked, a.out.ok
               PROVE  LET cfg == a.out.cfg
                          replaced == /\ a.flags.addr # {} /\ Given(a.flags.addr).port = Absent
                                      /\ a.file # {} /\ Given(a.file).addr # {}
                                      /\ Given(Given(a.file).addr).port # Absent
                      IN  /\ (cfg.addr.port = cfg.port) = ~replaced
                          /\ a.flags.port # {} /\ Given(a.flags.port) > 0
                               => cfg.port = Given(a.flags.port)
    BY DEF PortIsTheOneGiven
  <2>1. PICK flags \in FlagSets, file \in FileSets :
          a = [flags |-> flags, file |-> file, out |-> Configured(flags, file)]
    BY DEF Asked
  <2>2. a.flags = flags /\ a.file = file /\ a.out = Configured(flags, file)
    BY <2>1
  <2>3. QED
    BY <2>2, ConfiguredPort
<1>2. QED
  BY <1>1, AskedInit, AskedStep, PTL DEF Spec

---------------------------------------------------------------------------
(* The stop *)

\* The fields that the invariant reads.
Used == {"main", "sig", "cfg", "started", "closing", "grpc", "loaded", "plugin",
         "stray", "task", "starting", "raced", "made", "serving"}

\* Where the signal goroutine is, in the order of its steps.
AfterScheduler == {"tribe", "workers", "rest", "handlers", "end"}
AfterTeardown == {"scheduler"} \cup AfterScheduler
AfterPlugins == {"teardown"} \cup AfterTeardown
AfterControl == {"plugins"} \cup AfterPlugins

\* The main goroutine: what it has not come to yet.
StartInv ==
  /\ d.main \in {"configure", "build"} => d.sig = "none"
  /\ d.main \in {"configure", "build", "control", "discover", "listen"} => ~d.closing
  /\ "main" \in d.starting => d.main = "spin task"
  /\ d.made => d.main \in {"run", "trust", "running"}
  /\ d.serving => d.main \in {"trust", "running"}
  /\ ~d.cfg.rest => ~d.serving /\ d.main # "run"

\* The signal goroutine: what stays stopped once it has stopped it.  Control
\* goes first, and is what keeps the rest from coming back.
StopInv ==
  /\ d.sig \in AfterControl => d.closing /\ ~d.started
  /\ d.sig \in AfterPlugins => ~d.grpc /\ (d.plugin => d.stray)
  /\ d.sig \in AfterTeardown => ~d.loaded
  /\ d.sig \in AfterScheduler => (d.task = "spinning" \/ d.starting # {} => d.raced)
  /\ d.sig = "handlers" \/ (d.sig = "end" /\ d.cfg.rest)
       => ~d.serving /\ d.main \in {"trust", "running"}

DaemonInv == Used \subseteq DOMAIN d /\ StartInv /\ StopInv

\* The daemon begins with nothing started.
LEMMA DaemonInit == Init => DaemonInv
BY DEF Init, Begun, DaemonInv, StartInv, StopInv, Used, AfterControl, AfterPlugins,
   AfterTeardown, AfterScheduler

\* Every step of a goroutine, a user or a client keeps it.
LEMMA DaemonStep == DaemonInv /\ [Next]_vars => DaemonInv'
<1> SUFFICES ASSUME DaemonInv, [Next]_vars
             PROVE  DaemonInv'
  OBVIOUS
<1> USE DEF DaemonInv, StartInv, StopInv, Used, AfterControl, AfterPlugins,
            AfterTeardown, AfterScheduler, Changes
<1>1. CASE Configure
  BY <1>1 DEF Configure
<1>2. CASE Build
  BY <1>2 DEF Build
<1>3. CASE StartControl
  BY <1>3 DEF StartControl
<1>4. CASE Discover
  BY <1>4 DEF Discover, Load
<1>5. CASE Listen
  BY <1>5 DEF Listen
<1>6. CASE StartScheduler
  BY <1>6 DEF StartScheduler
<1>7. CASE StartTribe
  BY <1>7 DEF StartTribe
<1>8. CASE StartRest
  BY <1>8 DEF StartRest
<1>9. CASE Run
  BY <1>9 DEF Run
<1>10. CASE SetTrust
  BY <1>10 DEF SetTrust
<1>11. CASE Receive
  BY <1>11 DEF Receive
<1>12. CASE StopControl
  BY <1>12 DEF StopControl
<1>13. CASE StopPlugins
  BY <1>13 DEF StopPlugins
<1>14. CASE Teardown
  BY <1>14 DEF Teardown
<1>15. CASE StopScheduler
  BY <1>15 DEF StopScheduler
<1>16. CASE StopTribe
  BY <1>16 DEF StopTribe
<1>17. CASE WaitWorkers
  BY <1>17 DEF WaitWorkers
<1>18. CASE StopRest
  BY <1>18 DEF StopRest
<1>19. CASE WaitHandlers
  BY <1>19 DEF WaitHandlers
<1>20. CASE LoadPlugin
  BY <1>20 DEF LoadPlugin, Load, Reachable
<1>21. CASE CreateTask
  BY <1>21 DEF CreateTask, Reachable
<1>22. CASE StopTask
  BY <1>22 DEF StopTask, Reachable
<1>23. CASE SpinEnds
  BY <1>23 DEF SpinEnds
<1>24. CASE Collect
  BY <1>24 DEF Collect
<1>25. CASE CopyLostTask
  BY <1>25 DEF CopyLostTask
<1>26. ASSUME NEW s \in {"term", "hup"}, Signal(s)
      PROVE  DaemonInv'
  BY <1>26 DEF Signal
<1>27. ASSUME NEW who \in {"main", "user"}, BeginStart(who)
      PROVE  DaemonInv'
  BY <1>27 DEF BeginStart, Reachable
<1>28. ASSUME NEW who \in {"main", "user"}, FinishStart(who)
      PROVE  DaemonInv'
  BY <1>28 DEF FinishStart
<1>29. CASE HandleNote
  BY <1>29 DEF HandleNote, Handing
<1>30. CASE HandleEnd
  BY <1>30 DEF HandleEnd
<1>31. CASE TellEnd
  BY <1>31 DEF TellEnd, Handing
<1>32. CASE Deliver
  BY <1>32 DEF Deliver
<1>33. ASSUME NEW c \in Clients, Watch(c)
      PROVE  DaemonInv'
  BY <1>33 DEF Watch
<1>34. ASSUME NEW c \in Clients, AddWatcher(c)
      PROVE  DaemonInv'
  BY <1>34 DEF AddWatcher
<1>35. ASSUME NEW c \in Clients, LeaveWatch(c)
      PROVE  DaemonInv'
  BY <1>35 DEF LeaveWatch
<1>36. ASSUME NEW c \in Clients, CloseWatcher(c)
      PROVE  DaemonInv'
  BY <1>36 DEF CloseWatcher
<1>37. CASE UNCHANGED d
  BY <1>37
<1> HIDE DEF DaemonInv, StartInv, StopInv, Used, AfterControl, AfterPlugins,
             AfterTeardown, AfterScheduler, Changes
<1>38. QED
  BY <1>1, <1>2, <1>3, <1>4, <1>5, <1>6, <1>7, <1>8, <1>9, <1>10, <1>11, <1>12,
     <1>13, <1>14, <1>15, <1>16, <1>17, <1>18, <1>19, <1>20, <1>21, <1>22,
     <1>23, <1>24, <1>25, <1>26, <1>27, <1>28, <1>29, <1>30, <1>31, <1>32,
     <1>33, <1>34, <1>35, <1>36, <1>37
  DEF Next, vars, Fatal, BuildFails, ListenFails, RunFails, SetTrustFails,
     StopRestPanics, End, ClientLeaves

\* Once startInterruptHandling has stopped the scheduler no task spins, and
\* when it has stopped all modules no plugin process and no listener is left -
\* but for the starts that were under way, which the statement names.
THEOREM StopSafe == Spec => []NothingOutlivesStop
<1>1. DaemonInv => NothingOutlivesStop
  BY DEF DaemonInv, StartInv, StopInv, AfterPlugins, AfterTeardown, AfterScheduler,
     NothingOutlivesStop
<1>2. QED
  BY <1>1, DaemonInit, DaemonStep, PTL DEF Spec
=============================================================================
