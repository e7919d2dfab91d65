---------------------------- MODULE SocketReport ----------------------------
(***************************************************************************)
(* createSSOutputFromNode (pkg/listening-sockets/listening-sockets.go) on  *)
(* one node: what ss prints for TCP and for UDP, and the addresses of lo,  *)
(* are read one after the other; then every line that is not of a loopback *)
(* address gets a row, and its process is looked up, first in /proc, then  *)
(* at the container runtime.  The node goes on meanwhile: processes exit,  *)
(* their numbers are used again, containers stop.                          *)
(***************************************************************************)
EXTENDS Selection

CONSTANTS
  Addresses,  \* local addresses, as ss prints them
  Pids,
  Containers,
  Host,       \* the owner of a process outside any container
  Gone,       \* the owner of a number that no process has
  NoPid,      \* a line that names no process
  NoPort,     \* a line without a numeric port
  NoName,     \* the empty names of a row
  TCPLists,   \* what ss -anpltH may print
  UDPLists,   \* what ss -anpluH may print
  OnLo        \* the addresses of lo, beyond the loopback range

\* An address by what the code looks at: whether it is of the loopback range,
\* how it is printed ("[addr]:port" for IPv6, "*:port", "addr%dev:port"), and
\* which substrings it has.
ASSUME AddressesAssumption ==
  Addresses \subseteq [ip : STRING, loopback : BOOLEAN,
                       form : {"plain", "brackets", "star", "zone"},
                       text : SUBSET {"127.0.0", "127.", "::1"}]

\* The star is no address.
ASSUME TextsAssumption ==
  \A a \in Addresses : a.form = "star" => a.text = {} /\ ~a.loopback /\ a \notin OnLo

ASSUME NamesAssumption ==
  /\ Host \notin Containers /\ Gone \notin Containers /\ Host # Gone
  /\ NoName \notin Containers
  /\ NoPid \notin Pids /\ NoPort \notin Nat

Line == [addr : Addresses, port : Nat \cup {NoPort}, pid : Pids \cup {NoPid}]

ASSUME ListsAssumption ==
  TCPLists \subseteq Seq(Line) /\ UDPLists \subseteq Seq(Line) /\ OnLo \subseteq Addresses

Owner == Containers \cup {Host, Gone}

VARIABLES
  proc,     \* the owner of each process number
  running,  \* the containers crictl ps lists
  reused,   \* the numbers that another process got after ss printed them
  tcp, udp, \* what ss printed, with the owner that the process had then
  lo,       \* what getLoopbackIPs returned
  lines,    \* the lines that are looked up, in the order they are
  id,       \* the container that the cgroup of the line's process names
  rows,     \* the details so far
  result,   \* what is returned
  stage

nodeVars == <<proc, running, reused>>
socketVars == <<nodeVars, tcp, udp, lo, lines, id, rows, result, stage>>

Seen == [proto : {"TCP", "UDP"}, line : Line, by : Owner]
Detail == [proto : {"TCP", "UDP"}, port : Nat, container : Containers \cup {NoName}]

SocketTypeOK ==
  /\ proc \in [Pids -> Owner]
  /\ running \in SUBSET Containers
  /\ reused \in SUBSET Pids
  /\ tcp \in Seq(Seen) /\ udp \in Seq(Seen) /\ lines \in Seq(Seen)
  /\ lo \in SUBSET Addresses
  /\ id \in Containers \cup {NoName}
  /\ rows \in Seq(Detail) /\ result \in Seq(Detail)
  /\ stage \in {"tcp", "udp", "lo", "cgroup", "crictl", "done", "failed", "panicked"}

SocketInit ==
  /\ running \in SUBSET Containers
  /\ proc \in [Pids -> running \cup {Host, Gone}]
  /\ reused = {}
  /\ tcp = <<>> /\ udp = <<>> /\ lines = <<>> /\ rows = <<>> /\ result = <<>>
  /\ lo = {}
  /\ id = NoName
  /\ stage = "tcp"

-----------------------------------------------------------------------------
(* The node (external)                                                     *)

Exit(p) ==
  /\ proc[p] # Gone
  /\ proc' = [proc EXCEPT ![p] = Gone]
  /\ UNCHANGED <<running, reused>>

Printed == {tcp[i].line.pid : i \in 1..Len(tcp)} \cup {udp[i].line.pid : i \in 1..Len(udp)}

\* A new process, in a container that runs or outside; it may get a number
\* that ss has printed for another.
Spawn(p) ==
  /\ proc[p] = Gone
  /\ \E o \in running \cup {Host} : proc' = [proc EXCEPT ![p] = o]
  /\ reused' = reused \cup ({p} \cap Printed)
  /\ UNCHANGED running

Stop(c) ==
  /\ c \in running
  /\ running' = running \ {c}
  /\ proc' = [p \in Pids |-> IF proc[p] = c THEN Gone ELSE proc[p]]
  /\ UNCHANGED reused

Node ==
  /\ stage \notin {"done", "failed", "panicked"}
  /\ (\E p \in Pids : Exit(p) \/ Spawn(p)) \/ \E c \in Containers : Stop(c)
  /\ UNCHANGED <<tcp, udp, lo, lines, id, rows, result, stage>>

-----------------------------------------------------------------------------
(* The commands on the node                                                *)

\* What ss prints: its lines are of processes that are there.
SSOutput(list, proto) ==
  [i \in 1..Len(list) |->
     [proto |-> proto, line |-> list[i],
      by |-> IF list[i].pid = NoPid THEN Host ELSE proc[list[i].pid]]]

Printable(list) == \A i \in 1..Len(list) : list[i].pid \in Pids => proc[list[i].pid] # Gone

ListTCP ==
  /\ stage = "tcp"
  /\ \E l \in TCPLists : Printable(l) /\ tcp' = SSOutput(l, "TCP")
  /\ stage' = "udp"
  /\ UNCHANGED <<nodeVars, udp, lo, lines, id, rows, result>>

ListUDP ==
  /\ stage = "udp"
  /\ \E l \in UDPLists : Printable(l) /\ udp' = SSOutput(l, "UDP")
  /\ stage' = "lo"
  /\ UNCHANGED <<nodeVars, tcp, lo, lines, id, rows, result>>

RunFails ==
  /\ stage \in {"tcp", "udp"}
  /\ stage' = "failed"
  /\ UNCHANGED <<nodeVars, tcp, udp, lo, lines, id, rows, result>>

\* net.ParseIP takes the address only when it is printed plainly: Trim removes
\* the first bracket and leaves the second.  Otherwise substrings decide.
isLoopbackEntry(e, ips) ==
  LET addr == e.line.addr
  IN  \/ "127.0.0" \in addr.text
      \/ /\ addr.form = "plain"
         /\ addr.loopback \/ addr \in ips
      \/ /\ addr.form # "plain"
         /\ "127." \in addr.text \/ "::1" \in addr.text

filterEntries(list, ips) == Select(list, {i \in 1..Len(list) : ~isLoopbackEntry(list[i], ips)})

\* getLoopbackIPs: an error leaves the map empty.  With it, what is to be
\* looked up is known: the lines of TCP, then those of UDP.
ListLo ==
  /\ stage = "lo"
  /\ lo' \in {{}, OnLo}
  /\ lines' = filterEntries(tcp, lo') \o filterEntries(udp, lo')
  /\ stage' = "cgroup"
  /\ UNCHANGED <<nodeVars, tcp, udp, id, rows, result>>

-----------------------------------------------------------------------------
(* toComDetails                                                            *)

Current == lines[Len(rows) + 1]

MoreLines == stage = "cgroup" /\ Len(rows) < Len(lines)

\* parseComDetail returns nil, which toComDetails dereferences.
NilDetail ==
  /\ MoreLines
  /\ Current.line.port = NoPort
  /\ stage' = "panicked"
  /\ UNCHANGED <<nodeVars, tcp, udp, lo, lines, id, rows, result>>

AddRow(name) ==
  /\ rows' = Append(rows, [proto |-> Current.proto, port |-> Current.line.port,
                           container |-> name])
  /\ stage' = "cgroup"
  /\ id' = NoName
  /\ UNCHANGED <<nodeVars, tcp, udp, lo, lines, result>>

\* Variant: the names are those of the line before.
AddRowLikeLast ==
  MoreLines /\ Current.line.port # NoPort
    /\ AddRow(IF rows = <<>> THEN NoName ELSE rows[Len(rows)].container)

\* Variant: a line whose container is not found is left out.
SkipLine ==
  /\ MoreLines /\ Current.line.port # NoPort
  /\ lines' = [i \in 1..Len(lines) - 1 |-> IF i <= Len(rows) THEN lines[i] ELSE lines[i + 1]]
  /\ UNCHANGED <<nodeVars, tcp, udp, lo, id, rows, result, stage>>

\* getContainerInfo fails before it knows a container: no process is named,
\* it is gone, it is of no container, or the command failed.
NoContainer == MoreLines /\ Current.line.port # NoPort /\ AddRow(NoName)

\* extractContainerID
ReadCgroup ==
  /\ MoreLines /\ Current.line.port # NoPort
  /\ Current.line.pid \in Pids
  /\ proc[Current.line.pid] \in Containers
  /\ id' = proc[Current.line.pid]
  /\ stage' = "crictl"
  /\ UNCHANGED <<nodeVars, tcp, udp, lo, lines, rows, result>>

\* extractContainerInfo: the runtime knows one such container, or none any
\* more, or the command failed.
AskRuntime ==
  /\ stage = "crictl"
  /\ \/ id \in running /\ AddRow(id)
     \/ AddRow(NoName)

RowsOf(proto) == Select(rows, {i \in 1..Len(rows) : rows[i].proto = proto})

\* The rows of UDP come first.
Return ==
  /\ stage = "cgroup" /\ Len(rows) = Len(lines)
  /\ result' = RowsOf("UDP") \o RowsOf("TCP")
  /\ stage' = "done"
  /\ UNCHANGED <<nodeVars, tcp, udp, lo, lines, id, rows>>

SocketNext ==
  \/ Node
  \/ ListTCP \/ ListUDP \/ RunFails \/ ListLo
  \/ NilDetail \/ NoContainer \/ ReadCgroup \/ AskRuntime
  \/ Return

SocketSpec == SocketInit /\ [][SocketNext]_socketVars

-----------------------------------------------------------------------------
(* Properties                                                              *)

\* Whether a line is of the loopback interface, as far as its addresses could
\* be listed; of addresses that are not printed plainly, what the code thinks.
\* (10.127.0.0 is an address of a host in a wide network, and taken for one of
\* loopback by its text.)
Local(e) ==
  IF e.line.addr.form \in {"plain", "star"}
  THEN e.line.addr.loopback \/ e.line.addr \in lo \/ "127.0.0" \in e.line.addr.text
  ELSE isLoopbackEntry(e, lo)

\* Every socket that listens to the outside has its row, in the order of ss and
\* UDP before TCP, whatever became of its process and of its container since:
\* a lookup that fails costs the names, never the port.
RowPerSocket ==
  LET outside == Select(udp, {i \in 1..Len(udp) : ~Local(udp[i])})
                   \o Select(tcp, {i \in 1..Len(tcp) : ~Local(tcp[i])})
  IN  stage = "done" =>
        /\ Len(result) = Len(outside)
        /\ \A i \in 1..Len(result) : /\ result[i].proto = outside[i].proto
                                     /\ result[i].port = outside[i].line.port

\* A container that is named for a socket is the one whose process ss saw, but
\* for a process number that has been used again between two commands.
NamesJustified ==
  \A i \in 1..Len(rows) :
    rows[i].container # NoName /\ lines[i].line.pid \notin reused
      => rows[i].container = lines[i].by

\* The comment above isLoopbackEntry: it "checks if an ss entry is listening on
\* a loopback interface or its aliases".
OnlyLoopbackDropped ==
  \A i \in 1..Len(tcp) :
    isLoopbackEntry(tcp[i], OnLo) => tcp[i].line.addr.loopback \/ tcp[i].line.addr \in OnLo

-----------------------------------------------------------------------------
(* The inductive invariant                                                 *)

\* What ss printed is true of the processes that are still there, but for the
\* numbers used again.
PrintedInv ==
  /\ \A i \in 1..Len(tcp) : tcp[i].proto = "TCP"
  /\ \A i \in 1..Len(udp) : udp[i].proto = "UDP"
  /\ \A i \in 1..Len(tcp) :
       tcp[i].line.pid \in Pids \ reused => proc[tcp[i].line.pid] \in {tcp[i].by, Gone}
  /\ \A i \in 1..Len(udp) :
       udp[i].line.pid \in Pids \ reused => proc[udp[i].line.pid] \in {udp[i].by, Gone}

\* The rows are those of the first lines; a container whose number was read is
\* the line's, if the number still says anything.
RowsInv ==
  /\ Len(rows) <= Len(lines)
  /\ \A i \in 1..Len(rows) : rows[i].proto = lines[i].proto /\ rows[i].port = lines[i].line.port
  /\ stage = "crictl" => Len(rows) < Len(lines) /\ id # NoName /\ Current.line.port # NoPort
  /\ stage = "crictl" /\ Current.line.pid \notin reused => id = Current.by

SocketInv ==
  /\ SocketTypeOK
  /\ PrintedInv
  /\ stage \in {"tcp", "udp", "lo", "failed"} => rows = <<>> /\ lines = <<>>
  /\ stage \in {"cgroup", "crictl", "done", "panicked"} =>
       lo \subseteq OnLo /\ lines = filterEntries(tcp, lo) \o filterEntries(udp, lo)
  /\ RowsInv
  /\ NamesJustified
  /\ stage = "done" => Len(rows) = Len(lines) /\ result = RowsOf("UDP") \o RowsOf("TCP")

=============================================================================
