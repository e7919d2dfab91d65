---------------------------- MODULE MergedOutput ----------------------------
(***************************************************************************)
(* writeMergedMatrix (cmd/generate/generate.go) for the formats of         *)
(* firewalls: the two matrices are merged, the dynamic ranges squashed,    *)
(* the entries separated by group, and every group gets a file of nft      *)
(* rules (pkg/types/types.go).                                             *)
(*                                                                         *)
(* The merge of the entries is ComMatrixMerge, the squashing RangeSquash;  *)
(* a file is the sets of its two rules, as they are printed.               *)
(***************************************************************************)
EXTENDS ComMatrixMerge, RangeSquash

CONSTANTS
  Group, Protocol, Port,  \* what a key stands for
  RangeProtocol,          \* the protocol of a class of ranges
  NoGroup                 \* the empty group

Filtered == {"TCP", "UDP"}

ASSUME KeyAssumption ==
  /\ DOMAIN Group = Keys /\ DOMAIN Protocol = Keys /\ DOMAIN Port = Keys
ASSUME RangeProtocolAssumption == DOMAIN RangeProtocol = Classes
\* Ports has what RulesLoad asks of a range.
ASSUME PortsOfRangesAssumption ==
  \A s \in Inputs : \A i \in 1..Len(s) : {s[i].minPort - 1, s[i].minPort} \subseteq Ports
\* GetDynamicRanges returns the node ports of both protocols, or an error.
ASSUME NodePortsAssumption ==
  \A s \in Inputs : \A p \in Filtered : \E i \in 1..Len(s) : RangeProtocol[s[i].class] = p

VARIABLES
  pools,  \* the groups the loop of WriteMatrixToFileByType has yet to come to
  files,  \* the rules written for a group
  stage   \* where writeMergedMatrix is

outVars == <<pools, files, stage>>

\* The list of ranges is that of m, or those of both matrices, which Merge
\* appends before it looks at the entries.
OutputInit ==
  /\ Init
  /\ SquashInit
  /\ m # Nil
  /\ pools = {}
  /\ files = [g \in {} |-> {}]
  /\ stage = "merge"

\* matrix.Merge(ssResult.SSCommMatrix), which is called when there is one.
MergeMatrices ==
  /\ stage = "merge"
  /\ Next
  /\ stage' = IF pc' = "done" THEN "squash" ELSE stage
  /\ UNCHANGED <<squashVars, pools, files>>

\* matrix.DynamicRanges.Squash()
SquashRanges ==
  /\ stage = "squash"
  /\ SquashNext
  /\ UNCHANGED <<vars, outVars>>

\* SeparateMatrixByGroup; an entry without a group is in none of them.
SeparateMatrixByGroup ==
  /\ stage = "squash" /\ squashPc = "done"
  /\ pools' = {Group[k] : k \in KeysOf(res)} \ {NoGroup}
  /\ stage' = "write"
  /\ UNCHANGED <<vars, squashVars, files>>

FlowsOfGroup(s, g) == {<<Protocol[k], Port[k]>> : k \in {j \in KeysOf(s) : Group[j] = g}}

Printed(r) == <<RangeProtocol[r.class], r.minPort, r.maxPort>>

\* Variant: a range is appended to the set of its protocol if that has a port.
RangesBesideEntries(g) ==
  LET entries == {f \in FlowsOfGroup(res, g) : f[1] \in Filtered}
  IN  [ports  |-> entries,
       ranges |-> {r \in {Printed(x) : x \in Range(merged)} : \E f \in entries : f[1] = r[1]}]

\* The elements of the sets of the two rules for group g: the ports of its
\* entries, and the ranges, which all groups share, with the bounds they have.
ToNFTables(g) ==
  [ports  |-> {f \in FlowsOfGroup(res, g) : f[1] \in Filtered},
   ranges |-> {r \in {Printed(x) : x \in Range(merged)} : r[1] \in Filtered}]

\* One turn of the loop over the groups, in the order of a map.  It ends with
\* the first file that cannot be rendered or written.
WriteMatrixToFile(g) ==
  /\ stage = "write" /\ g \in pools
  /\ \/ /\ files' = [h \in DOMAIN files \cup {g} |-> IF h = g THEN ToNFTables(g) ELSE files[h]]
        /\ pools' = pools \ {g}
        /\ UNCHANGED stage
     \/ /\ stage' = "failed"
        /\ UNCHANGED <<pools, files>>
  /\ UNCHANGED <<vars, squashVars>>

ReturnWritten ==
  /\ stage = "write" /\ pools = {}
  /\ stage' = "done"
  /\ UNCHANGED <<vars, squashVars, pools, files>>

OutputNext ==
  \/ MergeMatrices
  \/ SquashRanges
  \/ SeparateMatrixByGroup
  \/ \E g \in pools : WriteMatrixToFile(g)
  \/ ReturnWritten

OutputVars == <<vars, squashVars, outVars>>

OutputSpec == OutputInit /\ [][OutputNext]_OutputVars

-----------------------------------------------------------------------------
(* Properties                                                              *)

\* What nft accepts by the two sets of a file.
Accepts(rules) ==
  rules.ports \cup
    {f \in Filtered \X Ports : \E r \in rules.ranges : r[1] = f[1] /\ r[2] <= f[2] /\ f[2] <= r[3]}

\* nft loads a file if neither set is empty ("udp dport { }" is an error) and no
\* range is inverted.
Loads(rules) ==
  /\ \A p \in Filtered : (\E f \in rules.ports : f[1] = p) \/ (\E r \in rules.ranges : r[1] = p)
  /\ \A r \in rules.ranges : r[2] <= r[3]

\* The flows the two matrices have for a group, whoever saw them first.
FlowsOf(g) == FlowsOfGroup(m, g) \cup IF other = Nil THEN {} ELSE FlowsOfGroup(other, g)

\* The ports the ranges cover, before they are squashed.
RangesCover ==
  {f \in Filtered \X Ports : \E c \in Classes : RangeProtocol[c] = f[1] /\ Covered(input, c, f[2])}

\* README.md, "a separate file is generated per group": a run that ends has a
\* file for each group of either matrix, whose rules accept what one of the two
\* has for the group and what either's ranges cover, and drop everything else;
\* nothing of another group, and only two protocols, as nft is given no rule for
\* SCTP and what else a custom entry may name.
AcceptsExactly ==
  stage = "done" =>
    /\ DOMAIN files = {g \in {Group[k] : k \in Keys} \ {NoGroup} : FlowsOf(g) # {}}
    /\ \A g \in DOMAIN files :
         Accepts(files[g]) = {f \in FlowsOf(g) : f[1] \in Filtered} \cup RangesCover

\* The ranges nft would refuse, which nobody checks.
InvertedRanges ==
  {r \in Range(input) : RangeProtocol[r.class] \in Filtered /\ r.minPort > r.maxPort}

\* Some range that is not inverted begins before r and reaches up to it.
IsSwallowed(r) ==
  \E q \in Range(input) :
    /\ q.class = r.class
    /\ q.minPort < r.minPort
    /\ r.minPort <= q.maxPort + 1
    /\ q.minPort <= q.maxPort

\* An inverted range, of the user's file or of the cluster, is printed as it is
\* and nft refuses the file, unless Squash folds it into a range that begins
\* before it and reaches up to it.  Every file loads, also in a run that failed
\* at another, if all inverted ranges are folded away, so in particular if there
\* are none; and one loads only if a range covers the lower bound of each
\* inverted one, or the port before.  (In between, a range that begins at the
\* same port, the unstable sort decides.)
RulesLoad ==
  \A g \in DOMAIN files :
    /\ (\A r \in InvertedRanges : IsSwallowed(r)) => Loads(files[g])
    /\ Loads(files[g]) =>
         \A r \in InvertedRanges :
           Covered(input, r.class, r.minPort - 1) \/ Covered(input, r.class, r.minPort)

-----------------------------------------------------------------------------
(* The inductive invariant                                                 *)

\* The groups of the result, each of which has a file or has yet to get one,
\* and how the file was rendered.
OutputInv ==
  /\ IInv
  /\ SquashInv
  /\ PlacesInv
  /\ input \in Inputs
  /\ m # Nil
  /\ pc = "done" /\ other = Nil => res = m
  /\ stage \in {"merge", "squash", "write", "failed", "done"}
  /\ (stage = "merge") <=> (pc # "done")
  /\ stage \in {"merge", "squash"} => files = [g \in {} |-> {}]
  /\ stage \notin {"merge", "squash"} =>
       /\ squashPc = "done"
       /\ DOMAIN files \cup pools = {Group[k] : k \in KeysOf(res)} \ {NoGroup}
  /\ stage = "done" => pools = {}
  /\ \A g \in DOMAIN files : files[g] = ToNFTables(g)
  /\ AcceptsExactly /\ RulesLoad

=============================================================================
