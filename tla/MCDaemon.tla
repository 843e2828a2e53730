------------------------------ MODULE MCDaemon ------------------------------
(* A small instance of Daemon.                                              *)
EXTENDS Daemon

\* Addresses: left out, empty, without a port, with a good or a bad one, and
\* one that does not resolve.
Host(host, port) == [host |-> host, port |-> port]
Plain == Host("valid", Absent)
MCAddrs == {{}, {NoAddress}, {Plain}, {Host("valid", 9)}, {Host("invalid", 9)}}

Flag(addr, port, cert, discover, tribe, disabled, keyring) ==
  [addr |-> addr, port |-> port, cert |-> cert, key |-> cert, level |-> {},
   procs |-> {}, trust |-> {}, keyring |-> {keyring}, discover |-> {discover},
   tribe |-> {tribe}, disabled |-> disabled]

\* Every way to give address and port, then every set of modules.
MCFlagSets ==
  {Flag(a, p, {}, FALSE, FALSE, {}, "good") :
     a \in MCAddrs \cup {{Host("valid", x)} : x \in {Word, Hollow, Tangled}},
     p \in {{}, {Word}, {0}, {8}}}
  \cup {Flag({}, {}, {}, a, t, r, "good") : a, t \in BOOLEAN, r \in {{}, {TRUE}}}
  \cup {Flag({}, {}, {"cert"}, a, t, {}, "none") : a, t \in BOOLEAN}

File(addr, port, key, readable, known) ==
  {[addr |-> addr, port |-> port, cert |-> {}, key |-> key, tribe |-> {},
    discover |-> {}, readable |-> readable, known |-> known]}
MCFileSets ==
  {{}, File({}, {}, {"key"}, TRUE, TRUE), File({}, {}, {}, FALSE, TRUE),
   File({}, {}, {}, TRUE, FALSE)}
  \cup {File(a, p, {}, TRUE, TRUE) : a \in MCAddrs, p \in {{}, {7}}}

\* A plugin, its signature, a task, a directory and a file that is no program.
MCFiles ==
  {[dir |-> FALSE, suffix |-> "", executable |-> TRUE],
   [dir |-> FALSE, suffix |-> "asc", executable |-> FALSE],
   [dir |-> FALSE, suffix |-> "yaml", executable |-> FALSE],
   [dir |-> TRUE, suffix |-> "", executable |-> TRUE],
   [dir |-> FALSE, suffix |-> "", executable |-> FALSE]}
=============================================================================
