---------------------------- MODULE CommatrixRun ----------------------------
(***************************************************************************)
(* Run of "oc commatrix generate" (cmd/generate/generate.go) from its      *)
(* flags to its files, run after run in one directory and one cluster: up  *)
(* to two sessions in the debug namespace, one after the other, and then   *)
(* the files, one after the other, over those of earlier runs.             *)
(*                                                                         *)
(* What is done in a session is in SSCollector and DHCPProbe, which        *)
(* implement the DebugSession used here; what is written is a file of the  *)
(* run, whole or truncated (os.WriteFile truncates, then writes).          *)
(***************************************************************************)
EXTENDS DebugSession, Sequences

CONSTANTS
  Formats,  \* the values of --format in use
  Pools,    \* names of node groups
  MaxRuns   \* bound: how often the command is run

ASSUME FormatsAssumption == Formats \subseteq {"csv", "json", "yaml", "nft", "butane", "mc"}
ASSUME MaxRunsAssumption == MaxRuns \in Nat

VARIABLES
  run,        \* the runs begun so far
  opt,        \* the flags of this run, and the platform it finds
  stage,      \* where Run is
  groups,     \* the groups of the entries of the matrix to be written
  todo,       \* the files to be written: one set after the other
  files,      \* the directory
  succeeded   \* the runs that returned nil

runVars == <<run, opt, stage, groups, todo, files, succeeded>>
vars    == <<sessionState, runVars>>

\* metal: the platform is one that is asked for DHCP.
Options == [format : Formats, openPorts : BOOLEAN, metal : BOOLEAN]

\* A file is named for what it holds and its format or group.
Fixed     == {<<"raw-ss-tcp", "">>, <<"raw-ss-udp", "">>, <<"matrix-diff-ss", "">>,
              <<"node-disruption-policy", "yaml">>}
FileNames == Fixed \cup ({"communication-matrix", "ss-generated-matrix"} \X Formats)
                   \cup (Formats \X Pools)

Content == [run : 1..MaxRuns, whole : BOOLEAN]

Ended   == {"idle", "ok", "failed", "killed"}
Running == {"facts", "dhcp", "matrix", "newCheck", "ss", "write"}

TypeOK ==
  /\ NsTypeOK
  /\ run \in 0..MaxRuns
  /\ opt \in Options
  /\ stage \in Ended \cup Running
  /\ work \in {"none", "ok", "err"}
  /\ groups \in SUBSET Pools
  /\ todo \in Seq(SUBSET FileNames)
  /\ DOMAIN files \subseteq FileNames
  /\ files \in [DOMAIN files -> Content]
  /\ succeeded \in SUBSET (1..run)

Init ==
  /\ SessionInit
  /\ run = 0
  /\ opt \in Options
  /\ stage = "idle"
  /\ groups = {}
  /\ todo = <<>>
  /\ files = [f \in {} |-> {}]
  /\ succeeded = {}

-----------------------------------------------------------------------------
(* The beginning                                                           *)

\* A rerun, perhaps with other flags.
Start ==
  /\ stage \in Ended
  /\ run < MaxRuns
  /\ run' = run + 1
  /\ opt' \in Options
  /\ stage' = "facts"
  /\ work' = "none"
  /\ groups' = {}
  /\ todo' = <<>>
  /\ UNCHANGED <<nsVars, files, succeeded>>

Goto(s) == stage' = s /\ UNCHANGED <<run, opt, groups, todo, files, succeeded>>

\* Validate and Complete, then the facts of the cluster, of which any may not
\* do; the DHCP session is held on BareMetal and None.
DetectFacts ==
  /\ stage = "facts"
  /\ \/ opt.metal /\ Goto("dhcp") /\ Begin
     \/ ~opt.metal /\ Goto("matrix") /\ UNCHANGED sessionState
     \/ Goto("failed") /\ UNCHANGED sessionState

\* generateMatrix
GenerateMatrix ==
  /\ stage = "matrix"
  /\ Goto("newCheck") \/ Goto("failed")
  /\ UNCHANGED sessionState

\* generateSS begins with NewCheck.
NewCheck ==
  /\ stage = "newCheck"
  /\ opt.openPorts
  /\ Goto("ss")
  /\ Begin

\* Variant: an error of the work is logged, as that of the deletion is.
OnlyAborted == pc = "aborted"

\* The session failed: in CreateNamespace, or in its work.  An error of its
\* deletion is only logged.
WorkFailed == pc = "aborted" \/ work = "err"

EndDHCP ==
  /\ stage = "dhcp"
  /\ pc \in {"aborted", "closed"}
  /\ Goto(IF WorkFailed THEN "failed" ELSE "matrix")
  /\ UNCHANGED sessionState

-----------------------------------------------------------------------------
(* The files                                                               *)

formatRequiresMerge == opt.format \in {"butane", "mc", "nft"}

\* WriteMatrixToFileByType for the formats with a file for every group of the
\* matrix, in the order of a map, and the patch after them.
MergedFiles(gs) ==
  <<{<<opt.format, g>> : g \in gs}>>
  \o IF opt.format = "nft" THEN <<>> ELSE <<{<<"node-disruption-policy", "yaml">>}>>

\* writeMatrix
MatrixFiles(withSS) ==
  <<{<<"communication-matrix", opt.format>>}>>
  \o IF ~withSS THEN <<>>
     ELSE <<{<<"raw-ss-tcp", "">>}, {<<"raw-ss-udp", "">>},
            {<<"ss-generated-matrix", opt.format>>}, {<<"matrix-diff-ss", "">>}>>

\* Variant: the files are begun before the session is over.
BeginWriteEarly ==
  /\ \/ stage = "newCheck" /\ ~opt.openPorts
     \/ stage = "ss" /\ pc \in {"deleting", "closed"} /\ ~WorkFailed
  /\ stage' = "write"
  /\ \/ /\ formatRequiresMerge
        /\ groups' \in SUBSET Pools
        /\ todo' = MergedFiles(groups')
     \/ /\ ~formatRequiresMerge
        /\ todo' = MatrixFiles(opt.openPorts)
        /\ UNCHANGED groups
  /\ UNCHANGED <<sessionState, run, opt, files, succeeded>>

\* Both results are in memory: writeMergedMatrix, on whatever groups the two
\* matrices name together, or writeMatrix begins.
BeginWrite ==
  /\ \/ stage = "newCheck" /\ ~opt.openPorts
     \/ stage = "ss" /\ pc \in {"aborted", "closed"} /\ ~WorkFailed
  /\ stage' = "write"
  /\ \/ /\ formatRequiresMerge
        /\ groups' \in SUBSET Pools
        /\ todo' = MergedFiles(groups')
     \/ /\ ~formatRequiresMerge
        /\ todo' = MatrixFiles(opt.openPorts)
        /\ UNCHANGED groups
  /\ UNCHANGED <<sessionState, run, opt, files, succeeded>>

SSFails ==
  /\ stage = "ss" /\ pc \in {"aborted", "closed"} /\ WorkFailed
  /\ Goto("failed")
  /\ UNCHANGED sessionState

Put(f, whole) ==
  files' = [g \in DOMAIN files \cup {f} |->
              IF g = f THEN [run |-> run, whole |-> whole] ELSE files[g]]

\* Variant: an error of WriteFile is not looked at.
WriteUnchecked(f) ==
  /\ stage = "write" /\ todo # <<>> /\ f \in Head(todo)
  /\ todo' = [todo EXCEPT ![1] = @ \ {f}]
  /\ Put(f, TRUE) \/ Put(f, FALSE) \/ UNCHANGED files
  /\ UNCHANGED <<sessionState, run, opt, stage, groups, succeeded>>

\* One WriteFile.  An error ends the run: the directory is not there (only the
\* default one is made), the version of the cluster the file is to be rendered
\* for could not be had, or the file was only written in part.
Write(f) ==
  /\ stage = "write" /\ todo # <<>> /\ f \in Head(todo)
  /\ \/ /\ Put(f, TRUE)
        /\ todo' = [todo EXCEPT ![1] = @ \ {f}]
        /\ UNCHANGED stage
     \/ /\ Put(f, FALSE) \/ UNCHANGED files
        /\ stage' = "failed"
        /\ todo' = <<>>
  /\ UNCHANGED <<sessionState, run, opt, groups, succeeded>>

\* The loop over the groups ends, and the next file is due.
NextFile ==
  /\ stage = "write" /\ todo # <<>> /\ Head(todo) = {}
  /\ todo' = Tail(todo)
  /\ UNCHANGED <<sessionState, run, opt, stage, groups, files, succeeded>>

Return ==
  /\ stage = "write" /\ todo = <<>>
  /\ stage' = "ok"
  /\ succeeded' = succeeded \cup {run}
  /\ UNCHANGED <<sessionState, run, opt, groups, todo, files>>

\* The process dies, perhaps with a session open or a file half written.
Kill ==
  /\ stage \in Running
  /\ stage' = "killed"
  /\ Crash \/ (pc \in Over /\ UNCHANGED sessionState)
  /\ \/ UNCHANGED files
     \/ stage = "write" /\ todo # <<>> /\ \E f \in Head(todo) : Put(f, FALSE)
  /\ todo' = <<>>
  /\ UNCHANGED <<run, opt, groups, succeeded>>

-----------------------------------------------------------------------------

WriteSome == \E f \in FileNames : Write(f)

\* The session that is open goes on; the cluster does so in any case.
SessionStep == InSession /\ UNCHANGED runVars

Next ==
  \/ Start \/ DetectFacts \/ GenerateMatrix \/ NewCheck
  \/ SessionStep
  \/ EndDHCP \/ SSFails \/ BeginWrite \/ WriteSome \/ NextFile \/ Return
  \/ Kill

Spec == Init /\ [][Next]_vars

\* Every call returns; a run need not be started, nor pods be made.
Fairness ==
  /\ WF_vars(DetectFacts) /\ WF_vars(GenerateMatrix) /\ WF_vars(NewCheck)
  /\ WF_vars(Call /\ UNCHANGED runVars)
  /\ WF_vars(EndDHCP) /\ WF_vars(SSFails)
  /\ WF_vars(BeginWrite) /\ WF_vars(WriteSome) /\ WF_vars(NextFile) /\ WF_vars(Return)

FairSpec == Spec /\ Fairness

-----------------------------------------------------------------------------
(* Properties                                                              *)

\* README.md, "The generated artifacts are", and below: one file per group for
\* the formats of firewalls, with a patch for two of them; else the matrix and,
\* with the open ports, the raw output, the second matrix and the difference.
Artifacts ==
  CASE opt.format = "nft"                     -> {"nft"} \X groups
    [] opt.format \in {"butane", "mc"}        -> ({opt.format} \X groups)
                                                   \cup {<<"node-disruption-policy", "yaml">>}
    [] opt.format \in {"csv", "json", "yaml"} ->
         {<<"communication-matrix", opt.format>>}
           \cup IF ~opt.openPorts THEN {}
                ELSE {<<"raw-ss-tcp", "">>, <<"raw-ss-udp", "">>,
                      <<"ss-generated-matrix", opt.format>>, <<"matrix-diff-ss", "">>}

\* A run that returns nil has written every artifact of its flags, whole:
\* none is left over from an earlier run, and no error of a write, of a
\* session or of the cluster is lost on the way up.
SuccessIsComplete ==
  stage = "ok" =>
    \A f \in Artifacts : f \in DOMAIN files /\ files[f] = [run |-> run, whole |-> TRUE]

\* Generation comes before writing: a run that has touched the directory has
\* ended its sessions, and those it held went well.  A failed session leaves
\* the files of earlier runs as they were.
FilesNeedWork ==
  (\E f \in DOMAIN files : files[f].run = run) =>
    /\ pc \in Over
    /\ opt.metal \/ opt.openPorts => pc = "closed" /\ work = "ok"

\* Every run comes to an end.
RunEnds == stage = "facts" ~> stage \in Ended

-----------------------------------------------------------------------------
(* The inductive invariant                                                 *)

ToWrite == UNION {todo[i] : i \in 1..Len(todo)}

\* What is no longer to be written has been.
WriteInv ==
  /\ stage = "write" => /\ ToWrite \subseteq Artifacts
                        /\ \A f \in Artifacts \ ToWrite :
                             f \in DOMAIN files /\ files[f] = [run |-> run, whole |-> TRUE]
                        /\ \A i, j \in 1..Len(todo) : todo[i] \cap todo[j] # {} => i = j
  /\ \A f \in DOMAIN files :
       /\ files[f].run \in 1..run
       /\ files[f].run \in succeeded => files[f].whole
       /\ files[f].run = run /\ stage = "write" => files[f].whole
       /\ files[f].run = run => stage \in {"write", "ok", "failed", "killed"}
  /\ stage \in Running => run \notin succeeded

\* Where a session may be at each stage.
StageInv ==
  /\ stage \in {"facts", "matrix", "newCheck", "write", "ok"} => pc \in Over
  /\ stage \in Ended => pc \in Over
  /\ stage # "idle" => run > 0
  /\ stage \in {"dhcp", "ss"} =>
       /\ pc \in Busy \cup {"aborted", "closed"}
       /\ pc \in {"deleting", "draining", "closed"} => work # "none"
  /\ ~opt.openPorts => stage # "ss"
  /\ stage \in {"matrix", "newCheck"} /\ opt.metal => pc = "closed" /\ work = "ok"
  /\ stage \in {"write", "ok"} /\ (opt.metal \/ opt.openPorts) => pc = "closed" /\ work = "ok"
  /\ pc = "creating" => \A n \in Nodes : pod[n] = "none"

IInv == TypeOK /\ ClusterInv /\ StageInv /\ WriteInv /\ FilesNeedWork /\ SuccessIsComplete

=============================================================================
