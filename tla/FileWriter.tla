----------------------------- MODULE FileWriter -----------------------------
(***************************************************************************)
(* write_generated_files (compiler/backend/code_writer.cpp), one file      *)
(* system call per step, over the output directory that successive runs of *)
(* the generator share.  Every call may fail and the process may die       *)
(* between any two of them.  One generator writes at a time; whoever reads *)
(* the directory sees every state.                                         *)
(***************************************************************************)
EXTENDS Naturals, FiniteSets, FiniteSetsExt

CONSTANTS
  File,        \* the relative paths a generator can emit, numbered in path order
  UnsafePath,  \* those that are empty, absolute or contain ".."
  MaxRuns      \* bound: how often the generator is run on the directory

ASSUME FileAssumption ==
  /\ File \subseteq Nat
  /\ IsFiniteSet(File)
  /\ UnsafePath \subseteq File
  /\ MaxRuns \in Nat

VARIABLES
  dest,       \* what each destination holds
  temp,       \* what each destination's ".sdkcc.tmp" holds
  run,        \* the number of the current or last run
  files,      \* the files that run writes
  remaining,  \* those it has not installed yet
  pc,         \* the next file system call of the run, "stopped" without one
  result      \* how the last run ended

vars == <<dest, temp, run, files, remaining, pc, result>>

-----------------------------------------------------------------------------
\* The content of a file: which run wrote it, and whether all of it is there.
Whole(r) == [run |-> r, whole |-> TRUE]
Torn(r)  == [run |-> r, whole |-> FALSE]
Absent   == [run |-> 0, whole |-> FALSE]

\* Mutant: they are not sorted, and come in another order.
CurrentUnsorted == Max(remaining)

\* The files are sorted by path and written in that order.
Current == Min(remaining)

Init ==
  /\ dest = [f \in File |-> Absent]
  /\ temp = [f \in File |-> Absent]
  /\ run = 0
  /\ files = {}
  /\ remaining = {}
  /\ pc = "stopped"
  /\ result = "none"

\* The run ends and reports `code`.
Stop(code) == pc' = "stopped" /\ result' = code

Start ==
  /\ pc = "stopped"
  /\ run < MaxRuns
  /\ run' = run + 1
  /\ files' \in SUBSET File
  /\ remaining' = files'
  /\ pc' = "root"
  /\ result' = "running"
  /\ UNCHANGED <<dest, temp>>

\* Mutant: the return after a failed create_directories is missing.
MakeRootGoesOn ==
  /\ pc = "root"
  /\ pc' = "file"
  /\ result' \in {"running", "E3001"}
  /\ UNCHANGED <<dest, temp, run, files, remaining>>

MakeRoot ==
  /\ pc = "root"
  /\ \/ pc' = "file" /\ UNCHANGED result
     \/ Stop("E3001")
  /\ UNCHANGED <<dest, temp, run, files, remaining>>

\* The head of the loop: the path check and the parent directories.
NextFile ==
  /\ pc = "file"
  /\ \/ remaining = {} /\ Stop("ok")
     \/ remaining # {} /\ Current \in UnsafePath /\ Stop("E3002")
     \/ remaining # {} /\ Current \notin UnsafePath /\ Stop("E3001")
     \/ remaining # {} /\ Current \notin UnsafePath /\ pc' = "open" /\ UNCHANGED result
  /\ UNCHANGED <<dest, temp, run, files, remaining>>

\* The temporary is truncated, whatever an earlier run left in it.
OpenTemp ==
  /\ pc = "open"
  /\ \/ /\ temp' = [temp EXCEPT ![Current] = Torn(run)]
        /\ pc' = "write"
        /\ UNCHANGED result
     \/ Stop("E3003") /\ UNCHANGED temp
  /\ UNCHANGED <<dest, run, files, remaining>>

\* Mutant: the state of the stream is not tested after the flush.
WriteTempUnchecked ==
  /\ pc = "write"
  /\ \/ temp' = [temp EXCEPT ![Current] = Whole(run)]
     \/ UNCHANGED temp
  /\ pc' = "rename"
  /\ UNCHANGED <<dest, run, files, remaining, result>>

\* write and flush; a failed one may have written a part.
WriteTemp ==
  /\ pc = "write"
  /\ \/ /\ temp' = [temp EXCEPT ![Current] = Whole(run)]
        /\ pc' = "rename"
        /\ UNCHANGED result
     \/ Stop("E3004") /\ UNCHANGED temp
  /\ UNCHANGED <<dest, run, files, remaining>>

\* rename replaces the destination in one step.
Installed ==
  /\ dest' = [dest EXCEPT ![Current] = temp[Current]]
  /\ temp' = [temp EXCEPT ![Current] = Absent]
  /\ remaining' = remaining \ {Current}
  /\ pc' = "file"
  /\ UNCHANGED result

Rename ==
  /\ pc = "rename"
  /\ \/ Installed
     \/ pc' = "remove" /\ UNCHANGED <<dest, temp, remaining, result>>
  /\ UNCHANGED <<run, files>>

\* After a failed rename the destination is removed, and whether that worked is
\* not looked at.
RemoveDestination ==
  /\ pc = "remove"
  /\ dest' \in {dest, [dest EXCEPT ![Current] = Absent]}
  /\ pc' = "retry"
  /\ UNCHANGED <<temp, run, files, remaining, result>>

\* Mutants: the fallback goes on with the next file after a second failure, or
\* tries until it works.
RenameAgainSkipping ==
  /\ pc = "retry"
  /\ \/ Installed
     \/ /\ remaining' = remaining \ {Current}
        /\ pc' = "file"
        /\ UNCHANGED <<dest, temp, result>>
  /\ UNCHANGED <<run, files>>

RenameAgainForever ==
  /\ pc = "retry"
  /\ \/ Installed
     \/ pc' = "rename" /\ UNCHANGED <<dest, temp, remaining, result>>
  /\ UNCHANGED <<run, files>>

RenameAgain ==
  /\ pc = "retry"
  /\ \/ Installed
     \/ Stop("E3005") /\ UNCHANGED <<dest, temp, remaining>>
  /\ UNCHANGED <<run, files>>

Crash ==
  /\ pc # "stopped"
  /\ Stop("crashed")
  /\ UNCHANGED <<dest, temp, run, files, remaining>>

Step ==
  \/ MakeRoot \/ NextFile \/ OpenTemp \/ WriteTemp
  \/ Rename \/ RemoveDestination \/ RenameAgain

Next == Start \/ Step \/ Crash

Spec == Init /\ [][Next]_vars

\* A running process takes its next step; nobody has to start it again.
FairSpec == Spec /\ WF_vars(Step)

-----------------------------------------------------------------------------
TypeOK ==
  LET Content == {Absent} \cup {Whole(r) : r \in 1..MaxRuns}
                          \cup {Torn(r) : r \in 1..MaxRuns}
  IN  /\ dest \in [File -> Content]
      /\ temp \in [File -> Content]
      /\ run \in 0..MaxRuns
      /\ files \subseteq File
      /\ remaining \subseteq files
      /\ pc \in {"stopped", "root", "file", "open", "write", "rename",
                 "remove", "retry"}
      /\ result \in {"none", "running", "ok", "crashed",
                     "E3001", "E3002", "E3003", "E3004", "E3005"}
      /\ pc # "stopped" <=> result = "running"

\* No reader of the output directory ever finds half a file, whichever write
\* failed, wherever the process died, and whatever temporaries earlier runs
\* left behind.
NeverTorn == \A f \in File : dest[f] # Absent => dest[f].whole

\* Success means that every file of the run is there with the content of this
\* run, that none has an unsafe path, and that no temporary of theirs is left,
\* not even one of an earlier run that failed.
SuccessIsComplete ==
  result = "ok" =>
    /\ files \cap UnsafePath = {}
    /\ \A f \in files : dest[f] = Whole(run) /\ temp[f] = Absent

\* A run that failed or is under way has replaced a prefix of its files in path
\* order, so that two failures at the same file leave the same directory. The
\* other files are what earlier runs left.
PrefixInstalled ==
  \A f \in files :
    /\ f \in remaining <=> dest[f].run # run
    /\ f \in remaining => \A g \in files \ remaining : g < f

\* A destination is removed only when its complete replacement lies beside it
\* as the temporary: old and new content are never lost together, whichever
\* call failed and whatever an earlier run left.
ReplacementKept ==
  [][\A f \in File :
       dest[f] # Absent /\ dest'[f] = Absent => temp'[f] = Whole(run)]_vars

\* The run that was started ends, with an answer or with a crash.
RunEnds == pc = "root" ~> pc = "stopped"

\* CODEGEN.md: "Files are written atomically": a destination goes from the old
\* content to the new one, with no other state between them.
ReplacedAtomically ==
  [][\A f \in File : dest[f] # Absent => dest'[f] # Absent]_vars
=============================================================================
