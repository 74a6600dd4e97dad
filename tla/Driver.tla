------------------------------- MODULE Driver -------------------------------
(***************************************************************************)
(* The generator as a program (compiler/cli/main.cpp and                   *)
(* compiler/driver.cpp): the arguments, the input file, which somebody may *)
(* edit at the same time, the stages that each stop the run when they      *)
(* fail, the installation of the files and the exit code.                  *)
(*                                                                         *)
(* The installation is FileWriter.  It is a function of the library too,   *)
(* and another program may call it with files of its own.                  *)
(***************************************************************************)
EXTENDS FileWriter, Sequences

CONSTANTS
  Emission,   \* the sets of files that the options make the generator emit
  ByteLimit,  \* max_document_bytes, in blocks
  MaxEdits    \* bound: how often the input file is edited

ASSUME DriverAssumption ==
  /\ Emission \subseteq SUBSET (File \ UnsafePath)
  /\ ByteLimit \in Nat /\ MaxEdits \in Nat

VARIABLES
  caller,     \* who uses the library: "main" or another "program"
  input,      \* the blocks of the input file, each the edit it comes from
  edits,      \* how often the file was edited
  phase,      \* what main or compile does next, "idle" without an invocation
  emitted,    \* the files that its options ask for
  size,       \* file_size of the input, when it was asked for
  bytes,      \* the buffer that the input is read into
  position,   \* how much of it was read
  edited,     \* whether the file was edited since
  hasErrors,  \* the diagnostics have an error
  exit        \* how the last invocation ended

invocation == <<phase, emitted, size, bytes, position, edited, hasErrors, exit>>
file == <<input, edits>>
driverVars == <<vars, caller, file, invocation>>

-----------------------------------------------------------------------------
\* What a block of the buffer holds before the read.
ZeroBlock == MaxEdits + 1

\* A file one block above the limit is as large as it need be.
Inputs(edit) == UNION {[1..n -> {edit}] : n \in 0 .. ByteLimit + 1}

DriverInit ==
  /\ Init
  /\ caller \in {"main", "program"}
  /\ input \in Inputs(0) /\ edits = 0
  /\ phase = "idle"
  /\ emitted = {}
  /\ size = 0 /\ bytes = <<>> /\ position = 0 /\ edited = FALSE
  /\ hasErrors = FALSE
  /\ exit = "none"

\* The invocation ends with an exit code, and with an error diagnostic or not.
Exit(code, errors) ==
  /\ phase' = "idle" /\ exit' = code /\ hasErrors' = errors

\* The file is written anew. An edit while the stages run is left out: they have
\* the text in memory, and it is the same to the next invocation.
Edit ==
  /\ phase \in {"idle", "open", "read"}
  /\ edits < MaxEdits
  /\ edits' = edits + 1
  /\ input' \in Inputs(edits')
  /\ edited' = (phase # "idle")
  /\ UNCHANGED <<vars, phase, emitted, size, bytes, position, hasErrors, exit>>

-----------------------------------------------------------------------------
\* parse_arguments: --help ends the program at once, also behind an option that was
\* wrong; any other error leads to exit code 2. Arguments that the command line
\* takes may still name no output, which compile refuses.
Invoke ==
  /\ phase = "idle" /\ run < MaxRuns
  /\ emitted' \in Emission
  /\ \/ \E errors \in BOOLEAN : Exit("help", errors)
     \/ Exit("2", TRUE)
     \/ Exit("1", TRUE)
     \/ phase' = "stat" /\ hasErrors' = FALSE /\ exit' = "none"
  /\ size' = 0 /\ bytes' = <<>> /\ position' = 0 /\ edited' = FALSE
  /\ UNCHANGED <<vars, file>>

\* E0002, E1000.
Stat ==
  /\ phase = "stat"
  /\ \/ Exit("1", TRUE) /\ UNCHANGED size
     \/ /\ Len(input) <= ByteLimit
        /\ size' = Len(input)
        /\ phase' = "open" /\ UNCHANGED <<hasErrors, exit>>
  /\ UNCHANGED <<vars, file, emitted, bytes, position, edited>>

\* E0003.
Open ==
  /\ phase = "open"
  /\ \/ Exit("1", TRUE) /\ UNCHANGED bytes
     \/ /\ bytes' = [i \in 1..size |-> ZeroBlock]
        /\ phase' = "read" /\ UNCHANGED <<hasErrors, exit>>
  /\ UNCHANGED <<vars, file, emitted, size, position, edited>>

\* Mutant: a read that gave a part is taken for the end of the file.
ReadShort ==
  /\ phase = "read"
  /\ \/ /\ position < size /\ position < Len(input)
        /\ position' = position + 1
        /\ bytes' = [bytes EXCEPT ![position'] = input[position']]
        /\ UNCHANGED <<phase, size, hasErrors, exit>>
     \/ /\ bytes' = SubSeq(bytes, 1, position) /\ size' = position
        /\ phase' = "parse" /\ UNCHANGED <<position, hasErrors, exit>>
  /\ UNCHANGED <<vars, file, emitted, edited>>

\* One block at a time. The end of the file before `size` is no error; the rest of
\* the buffer keeps its zeros. E0004.
Read ==
  /\ phase = "read"
  /\ \/ /\ position < size /\ position < Len(input)
        /\ position' = position + 1
        /\ bytes' = [bytes EXCEPT ![position'] = input[position']]
        /\ UNCHANGED <<phase, hasErrors, exit>>
     \/ /\ position = size \/ position >= Len(input)
        /\ phase' = "parse" /\ UNCHANGED <<bytes, position, hasErrors, exit>>
     \/ size > 0 /\ Exit("1", TRUE) /\ UNCHANGED <<bytes, position>>
  /\ UNCHANGED <<vars, file, emitted, size, edited>>

\* An empty text is refused (E1011), and neither libyaml nor simdjson takes a zero
\* byte in one.
Parsed == bytes # <<>> /\ \A i \in DOMAIN bytes : bytes[i] # ZeroBlock

\* A stage reports at least one error when it fails, and otherwise none.
Stage(name, next, possible) ==
  /\ phase = name
  /\ \/ possible /\ phase' = next /\ UNCHANGED <<hasErrors, exit>>
     \/ Exit("1", TRUE)
  /\ UNCHANGED <<vars, file, emitted, size, bytes, position, edited>>

Parse   == Stage("parse", "lower", Parsed)
Lower   == Stage("lower", "plan", TRUE)
Prepare == Stage("plan", "generate", TRUE)

\* The backends only build texts; then the files are written.
Generate ==
  /\ phase = "generate"
  /\ Start
  /\ files' = emitted
  /\ phase' = "write"
  /\ UNCHANGED <<file, emitted, size, bytes, position, edited, hasErrors, exit>>

Write ==
  /\ phase = "write"
  /\ Step
  /\ UNCHANGED <<file, invocation>>

\* Mutant: what write_generated_files returns is not looked at.
WrittenUnchecked ==
  /\ phase = "write" /\ pc = "stopped"
  /\ Exit("0", result # "ok")
  /\ UNCHANGED <<vars, file, emitted, size, bytes, position, edited>>

Written ==
  /\ phase = "write" /\ pc = "stopped"
  /\ IF result = "ok" THEN Exit("0", FALSE) ELSE Exit("1", TRUE)
  /\ UNCHANGED <<vars, file, emitted, size, bytes, position, edited>>

\* Whatever is being written stays as it is.
Abandoned == IF pc = "stopped" THEN UNCHANGED vars ELSE Crash

\* E0098, E0099: an exception inside of compile.
Throw ==
  /\ phase # "idle"
  /\ Abandoned
  /\ Exit("1", TRUE)
  /\ UNCHANGED <<file, emitted, size, bytes, position, edited>>

\* The process dies, at any point.
Die ==
  /\ phase # "idle"
  /\ Abandoned
  /\ Exit("killed", hasErrors)
  /\ UNCHANGED <<file, emitted, size, bytes, position, edited>>

Stages ==
  \/ Stat \/ Open \/ Read \/ Parse \/ Lower \/ Prepare \/ Generate
  \/ Write \/ Written

\* What main, or another program, does on its own once it was started.
Progress ==
  /\ \/ caller = "main" /\ Stages
     \/ caller = "program" /\ Step /\ UNCHANGED <<file, invocation>>
  /\ UNCHANGED caller

DriverNext ==
  \/ Progress
  \/ /\ \/ caller = "main" /\ (Edit \/ Invoke \/ Throw \/ Die)
        \/ caller = "program" /\ (Start \/ Crash) /\ UNCHANGED <<file, invocation>>
     /\ UNCHANGED caller

DriverSpec == DriverInit /\ [][DriverNext]_driverVars
FairDriverSpec == DriverSpec /\ WF_driverVars(Progress)

-----------------------------------------------------------------------------
DriverTypeOK ==
  /\ TypeOK
  /\ input \in Inputs(edits) /\ edits \in 0..MaxEdits
  /\ phase \in {"idle", "stat", "open", "read", "parse", "lower", "plan",
                "generate", "write"}
  /\ size \in 0..ByteLimit /\ position \in 0..size
  /\ Len(bytes) \in {0, size}
  /\ exit \in {"none", "help", "0", "1", "2", "killed"}
  /\ caller = "main" /\ pc # "stopped" => phase = "write"

\* The exit code can be relied on by the build that runs the generator: 0 means,
\* unless help was asked for, that all files of the options are installed and no
\* error was reported; another code never comes without an error that says why;
\* and the output directory is only touched while no stage has reported one.
ExitTold ==
  caller = "main" =>
    /\ exit = "0" => /\ ~hasErrors
                     /\ result = "ok" /\ files = emitted
                     /\ \A f \in files : dest[f] = Whole(run)
    /\ exit \in {"1", "2"} => hasErrors
    /\ pc # "stopped" => ~hasErrors

\* What is generated comes from the input file, also when it is edited while it
\* is read: the text is never longer than the limit and never padded, each of its
\* blocks was in the file, and an edit can mix or cut it only by coming in
\* between the question for the size and the end of the reading.
GeneratedFromInput ==
  phase \in {"lower", "plan", "generate", "write"} =>
    /\ Len(bytes) <= ByteLimit
    /\ \A i \in DOMAIN bytes : bytes[i] \in 0..edits
    /\ ~edited => bytes = input

\* An invocation that was started ends, and so does a run of the writer.
InvocationEnds == RunEnds /\ (phase = "stat" ~> phase = "idle")
=============================================================================
