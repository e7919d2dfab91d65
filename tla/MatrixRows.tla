----------------------------- MODULE MatrixRows -----------------------------
(***************************************************************************)
(* Matrices as rows of CSV (pkg/types/types.go): ToCSV writes them, and    *)
(* ParseToComMatrix reads those of the user's file of custom entries.  A   *)
(* row holds a port or a range of ports, told apart by a hyphen in its     *)
(* text.  A text is what its hyphens leave of it: numbers, Blank or a Word.*)
(***************************************************************************)
EXTENDS ExposedPorts, Selection

CONSTANTS
  Protocols,
  Protocol,     \* that of a port
  FromTable,    \* the source of a static entry,
  FromCluster,  \* of the range of the node ports
  FromFile,     \* and of what is in the file
  Blank,        \* an empty text
  Word          \* one that is no number

\* Who names an entry or a range: the index of a service, or one of these.
Sources == Nat \cup {FromTable, FromCluster, FromFile}

Text == Seq(Nat \cup {Blank, Word}) \ {<<>>}

Row == [protocol : Protocols, text : Text, source : Sources, group : Groups \cup {""},
        optional : BOOLEAN]

DynamicRange == [protocol : Protocols, minPort : Nat, maxPort : Nat, source : Sources,
                 optional : BOOLEAN]

ASSUME SourcesAssumption  ==
  /\ \A x \in {FromTable, FromCluster, FromFile} : x \notin Nat
  /\ FromTable # FromCluster /\ FromTable # FromFile /\ FromCluster # FromFile
ASSUME TextAssumption     == Blank \notin Nat /\ Word \notin Nat /\ Blank # Word

\* A port is a protocol with a number.
ASSUME ProtocolAssumption ==
  /\ {"TCP", "UDP"} \subseteq Protocols
  /\ Protocol \in [Ports -> Protocols]
  /\ \A p, q \in Ports : Protocol[p] = Protocol[q] /\ Number[p] = Number[q] => p = q

-----------------------------------------------------------------------------
(* Reading                                                                 *)

\* strconv.Atoi reads it.
IsNumber(cell) == cell \notin {Blank, Word}

\* ParsePortRangeHyphen accepts it; nobody asks for min <= max.
IsPortRange(text) == Len(text) = 2 /\ \A i \in 1..2 : IsNumber(text[i])

HasHyphen(row) == Len(row.text) > 1

HasPort(row) == ~HasHyphen(row) /\ row.text[1] # Blank

\* The errors of the two row parsers.  Rows without a port are skipped.
Malformed(row) ==
  \/ HasHyphen(row) /\ ~IsPortRange(row.text)
  \/ HasPort(row) /\ ~IsNumber(row.text[1])

parseDynamicRangeFromCSVRow(row) ==
  [protocol |-> row.protocol, minPort |-> row.text[1], maxPort |-> row.text[2],
   source |-> row.source, optional |-> row.optional]

parseComDetailsFromCSVRow(row) ==
  [group |-> row.group, source |-> row.source, optional |-> row.optional,
   port |-> CHOOSE p \in Ports : Protocol[p] = row.protocol /\ Number[p] = row.text[1]]

Each(s, Op(_)) == [i \in DOMAIN s |-> Op(s[i])]

\* The two lists parseCSVToComMatrix makes of rows none of which is malformed.
parseCSVToComMatrix(rows) ==
  LET withPort  == {i \in 1..Len(rows) : HasPort(rows[i])}
      withRange == {i \in 1..Len(rows) : HasHyphen(rows[i])}
  IN  [ports  |-> Each(Select(rows, withPort), parseComDetailsFromCSVRow),
       ranges |-> Each(Select(rows, withRange), parseDynamicRangeFromCSVRow)]

-----------------------------------------------------------------------------
(* Writing                                                                 *)

PortRow(entry) ==
  [protocol |-> Protocol[entry.port], text |-> <<Number[entry.port]>>,
   source |-> entry.source, group |-> entry.group, optional |-> entry.optional]

\* Variant: the bounds are written as ParsePortRangeSpace reads them.
RangeRowWithSpace(range) ==
  [protocol |-> range.protocol, text |-> <<Word>>,
   source |-> range.source, group |-> "", optional |-> range.optional]

\* A range under the headers of the ports: PortRangeString, no group.
RangeRow(range) ==
  [protocol |-> range.protocol, text |-> <<range.minPort, range.maxPort>>,
   source |-> range.source, group |-> "", optional |-> range.optional]

ToCSV(ports, ranges) == Each(ports, PortRow) \o Each(ranges, RangeRow)

=============================================================================
