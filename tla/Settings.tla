------------------------------ MODULE Settings ------------------------------
(***************************************************************************)
(* The configuration of a daemon, as snapteld derives it from its defaults,*)
(* the configuration file and the command line, before it builds anything. *)
(*                                                                         *)
(* A setting that may be left out is a set: empty, or with its one value.  *)
(* An address is what stands before the colon and what stands after it.    *)
(* Numbers below zero name the texts that are not a port.                  *)
(***************************************************************************)
EXTENDS Integers, FiniteSets

Absent  == -1  \* no colon in the address
Word    == -2  \* a text strconv.Atoi does not accept
Hollow  == -3  \* the colon is the last character
Tangled == -4  \* net.SplitHostPort does not accept the address

CONSTANT NumCPU  \* runtime.NumCPU()

Addresses == [host : {"", "valid", "invalid"}, port : Int]
NoAddress == [host |-> "", port |-> Absent]

\* The value of a setting that was given.
Given(setting) == CHOOSE v \in setting : TRUE

\* The settings that the properties tell apart, with snapteld's defaults.
getDefaultConfig ==
  [addr |-> NoAddress, port |-> 8181, rest |-> TRUE, cert |-> "", key |-> "",
   level |-> 3, procs |-> 1, trust |-> 1, keyring |-> "none",
   discover |-> FALSE, tribe |-> FALSE]

\* setBoolVal, setStringVal: a flag replaces the setting when it is given.
setVal(field, flag) == IF flag = {} THEN field ELSE Given(flag)

\* setBoolVal with inverse: --disable-api.
setInverse(field, flag) == IF flag = {} THEN field ELSE ~Given(flag)

\* setIntVal: as setVal, after strconv.Atoi; a text it refuses is fatal.
ParsesInt(flag) == flag = {} \/ Given(flag) # Word

\* A host that is an IP address or that can be looked up.
isValidAddress(host) == host = "valid"

\* Mutant: the port of the address is not compared with the port setting.
checkHostPortOnce(addr, port) ==
  LET empty == addr = NoAddress
      ok == \/ empty
            \/ /\ isValidAddress(addr.host)
               /\ addr.port \notin {Word, Hollow, Tangled}
      inAddr == ok /\ addr.port # Absent
  IN  [ok |-> ok, inAddr |-> inAddr, port |-> IF inAddr THEN addr.port ELSE port]

\* Whether an address and a port setting go together, whether the address has
\* a port, and the port they come to.
checkHostPortVals(addr, port) ==
  LET empty == addr = NoAddress
      ok == \/ empty
            \/ /\ isValidAddress(addr.host)     \* a list of hosts is not valid
               /\ addr.port \notin {Word, Hollow, Tangled}
               /\ addr.port # Absent => port <= 0
      inAddr == ok /\ addr.port # Absent
  IN  [ok |-> ok, inAddr |-> inAddr, port |-> IF inAddr THEN addr.port ELSE port]

\* Certificate and key are given both or none.
checkTLSEnabled(cert, key) == (cert = "") = (key = "")

IsTLSEnabled(cfg) == cfg.cert # "" /\ cfg.key # ""

\* The flags, checked on their own.  cli.Context.Int of a text that is no
\* integer is 0.
checkCmdLineFlags(flags) ==
  LET addr == setVal(NoAddress, flags.addr)
      port == IF flags.port = {} \/ ~ParsesInt(flags.port) THEN 0 ELSE Given(flags.port)
      host == checkHostPortVals(addr, port)
  IN  [host EXCEPT !.ok = @ /\ checkTLSEnabled(setVal("", flags.cert),
                                               setVal("", flags.key))]

\* The configuration so far, checked on its own.  Config.portSetByConfig is
\* assigned nowhere but in the defaults, so the port of the file is not seen.
checkCfgSettings(cfg) ==
  LET host == checkHostPortVals(cfg.addr, -1)
  IN  [host EXCEPT !.ok = @ /\ checkTLSEnabled(cfg.cert, cfg.key)]

\* Config.UnmarshalJSON: the sections of the file have known names only.
UnmarshalJSON(f) == f.known

\* The file: what its keys give replaces the defaults.
readConfig(cfg, file) ==
  IF file = {} THEN cfg
  ELSE LET f == Given(file) IN
       [cfg EXCEPT !.addr = setVal(@, f.addr), !.port = setVal(@, f.port),
                   !.cert = setVal(@, f.cert), !.key = setVal(@, f.key),
                   !.tribe = setVal(@, f.tribe), !.discover = setVal(@, f.discover)]

\* A file that cannot be read or parsed, or that the schema refuses, is fatal.
ReadsConfig(file) ==
  file # {} => Given(file).readable /\ UnmarshalJSON(Given(file))

\* The schema the merged configuration is validated against.
ValidateSchema(cfg) ==
  cfg.port \in 1..65535 /\ cfg.level \in 1..5 /\ cfg.procs >= 1 /\ cfg.trust \in 0..2

\* The flags over the configuration.  When neither address has a port, the
\* address becomes address:port; otherwise the port is that of an address.
applyCmdLineFlags(cfg, flags) ==
  LET line == checkCmdLineFlags(flags)
      file == checkCfgSettings(cfg)
      addr == setVal(cfg.addr, flags.addr)
      port == setVal(cfg.port, flags.port)
      ok == /\ line.ok /\ file.ok
            /\ ParsesInt(flags.port) /\ ParsesInt(flags.level)
            /\ ~(line.port > 0 /\ file.inAddr /\ ~line.inAddr)
            /\ ~(file.port > 0 /\ line.inAddr /\ ~file.inAddr)
  IN  [ok |-> ok,
       cfg |-> [cfg EXCEPT
                  !.level = setVal(@, flags.level), !.procs = setVal(@, flags.procs),
                  !.trust = setVal(@, flags.trust), !.keyring = setVal(@, flags.keyring),
                  !.cert = setVal(@, flags.cert), !.key = setVal(@, flags.key),
                  !.discover = setVal(@, flags.discover),
                  !.tribe = setVal(@, flags.tribe),
                  !.rest = setInverse(@, flags.disabled),
                  !.port = IF line.inAddr THEN line.port
                           ELSE IF file.inAddr THEN file.port ELSE port,
                  !.addr = IF line.inAddr \/ file.inAddr THEN addr
                           ELSE [addr EXCEPT !.port = port]]]

validateLevelSettings(cfg) == cfg.level \in 1..5 /\ cfg.trust \in 0..2

\* GOMAXPROCS: at least one, at most the number of CPUs.
setMaxProcs(n) == IF n <= 0 THEN 1 ELSE IF n <= NumCPU THEN n ELSE NumCPU

\* All of it, up to the point where the modules are made; the directories for
\* the log and for temporary files are there.  Auto-discovery and the tribe
\* exclude TLS.
Configured(flags, file) ==
  LET applied == applyCmdLineFlags(readConfig(getDefaultConfig, file), flags)
      cfg == applied.cfg
  IN  [ok |-> /\ ReadsConfig(file) /\ applied.ok
              /\ ValidateSchema(cfg) /\ validateLevelSettings(cfg)
              /\ ~(cfg.discover /\ IsTLSEnabled(cfg))
              /\ ~(cfg.tribe /\ IsTLSEnabled(cfg)),
       cfg |-> [cfg EXCEPT !.procs = setMaxProcs(@)]]

\* Plugin trust 1 and 2 need keyrings that can be opened.
KeyringsOpen(cfg) == cfg.trust = 0 \/ cfg.keyring = "good"
=============================================================================
