---------------------------- MODULE DriverProofs ----------------------------
(***************************************************************************)
(* Proofs about the generator as a program, for every set of paths and of  *)
(* emitted files, every limit on the input, and any number of edits and of *)
(* invocations.                                                            *)
(*                                                                         *)
(* First of the file writer by itself: its invariant relates the next      *)
(* system call to the temporary of the file being written, which is        *)
(* complete from "rename" on, so that whatever is installed is complete as *)
(* well.  The driver only ever takes steps of the file writer, so what     *)
(* holds of the output directory is carried over.  GeneratedFromInput      *)
(* needs to know of every block of the buffer whether it was read already; *)
(* ExitTold that no error is known while a stage runs, and whose files are *)
(* written.                                                                *)
(***************************************************************************)
EXTENDS Driver, TLAPS, FiniteSetTheorems

Content == {Absent} \cup {Whole(r) : r \in Nat} \cup {Torn(r) : r \in Nat}

\* In these states of a run a file is being written.
Writing == {"open", "write", "rename", "remove", "retry"}

Shape ==
  /\ dest \in [File -> Content]
  /\ temp \in [File -> Content]
  /\ run \in Nat
  /\ files \subseteq File
  /\ remaining \subseteq files

\* The temporary that is about to be installed is complete.
TempReady ==
  /\ pc \in Writing => remaining # {} /\ Current \notin UnsafePath
  /\ pc \in {"rename", "remove", "retry"} => temp[Current] = Whole(run)

\* What this run replaced is complete, safe, and has no temporary left; what it
\* did not replace is from an earlier run.
InstalledSoFar ==
  /\ \A f \in files \ remaining :
       dest[f] = Whole(run) /\ temp[f] = Absent /\ f \notin UnsafePath
  /\ \A f \in File : dest[f].run <= run
  /\ \A f \in remaining : dest[f].run < run
  /\ \A f \in remaining, g \in files \ remaining : g < f
  /\ result = "ok" => remaining = {}

Inv == Shape /\ TempReady /\ NeverTorn /\ InstalledSoFar

-----------------------------------------------------------------------------
\* The next file is the first of the remaining ones in path order.
LEMMA CurrentIsFirst ==
  ASSUME remaining # {}, remaining \subseteq File
  PROVE  Current \in remaining /\ \A f \in remaining : Current <= f
<1> DEFINE UpTo(m) == {k \in remaining : k <= m}
           initial == {UpTo(m) : m \in remaining}
<1>1. IsFiniteSet(remaining) /\ remaining \subseteq Nat
  BY FileAssumption, FS_Subset
<1>2. initial \subseteq FiniteSubsetsOf(remaining) /\ initial # {}
  <2>1. ASSUME NEW m \in remaining
        PROVE  UpTo(m) \in FiniteSubsetsOf(remaining)
    <3>1. UpTo(m) \in SUBSET remaining
      OBVIOUS
    <3>2. IsFiniteSet(UpTo(m))
      BY <1>1, <3>1, FS_Subset
    <3> QED  BY <3>1, <3>2 DEF FiniteSubsetsOf
  <2> QED  BY <2>1
<1>3. PICK s \in initial :
        \A t \in initial : ~(<<t, s>> \in StrictSubsetOrdering(remaining))
  <2> HIDE DEF initial
  <2>1. IsWellFoundedOn(StrictSubsetOrdering(remaining),
                        FiniteSubsetsOf(remaining))
    BY FS_StrictSubsetOrderingWellFounded
  <2> QED  BY ONLY <1>2, <2>1, WFMin
<1>4. PICK m \in remaining : s = UpTo(m)
  BY <1>3
<1>5. ASSUME NEW f \in remaining, ~(m <= f) PROVE FALSE
  <2>1. UpTo(f) \subseteq UpTo(m) /\ m \notin UpTo(f) /\ m \in UpTo(m)
    <3>1. m \in Nat /\ f \in Nat /\ f < m
      BY <1>1, <1>5
    <3>2. \A k \in remaining : k <= f => k <= m
      BY <1>1, <3>1
    <3>3. UpTo(f) \subseteq UpTo(m)
      BY <3>2
    <3>4. m \notin UpTo(f) /\ m \in UpTo(m)
      BY <3>1, <1>5
    <3> QED  BY <3>3, <3>4
  <2>2. <<UpTo(f), s>> \in StrictSubsetOrdering(remaining)
    BY <1>4, <2>1 DEF StrictSubsetOrdering
  <2> QED  BY <1>3, <2>2
<1>6. \A f \in remaining : m <= f
  BY <1>5
<1> QED  BY <1>6 DEF Current, Min

LEMMA Contents ==
  \A r \in Nat : /\ Whole(r) \in Content /\ Torn(r) \in Content
                 /\ Whole(r).whole /\ ~Torn(r).whole
                 /\ Whole(r).run = r /\ Torn(r).run = r
                 /\ Absent \in Content /\ Absent.run = 0 /\ Whole(r) # Absent
  BY DEF Whole, Torn, Absent, Content

LEMMA InvInit == Init => Inv
  BY FileAssumption, Contents
  DEF Init, Inv, Shape, TempReady, Writing, NeverTorn, InstalledSoFar

\* A new run has replaced nothing, and every file is from an earlier run.
LEMMA StartKeeps == ASSUME Inv, Start PROVE Inv'
<1> USE FileAssumption DEF Inv, Start
<1>1. Shape' /\ TempReady' /\ NeverTorn'
  BY DEF Shape, TempReady, Writing, NeverTorn
<1>2. \A f \in File : dest[f].run \in Nat /\ dest[f].run <= run /\ run \in Nat
  BY Contents DEF InstalledSoFar, Shape, Content, Whole, Torn, Absent
<1>3. InstalledSoFar'
  BY <1>1, <1>2 DEF InstalledSoFar, Shape
<1> QED  BY <1>1, <1>3

\* A step that ends the run, or only moves to the next system call.
LEMMA StopKeeps ==
  ASSUME Inv, NEW code, code # "ok", Stop(code),
         UNCHANGED <<dest, temp, run, files, remaining>>
  PROVE  Inv'
  BY DEF Inv, Stop, Shape, TempReady, Writing, NeverTorn, InstalledSoFar, Current

\* A step that changes the temporary of the file being written.
LEMMA WriteKeeps ==
  ASSUME Inv, NEW c \in {Torn(run), Whole(run)},
         pc \in {"open", "write"},
         temp' = [temp EXCEPT ![Current] = c],
         \/ pc' = "write"
         \/ pc' = "rename" /\ c = Whole(run),
         UNCHANGED <<dest, run, files, remaining, result>>
  PROVE  Inv'
<1> USE FileAssumption DEF Inv
<1>1. remaining # {} /\ remaining \subseteq File
  BY DEF TempReady, Writing, Shape
<1>2. Current \in remaining /\ Current' = Current
  BY <1>1, CurrentIsFirst DEF Current
<1>3. Shape' /\ temp'[Current] = c
  BY <1>2, Contents DEF Shape
<1>4. TempReady'
  BY <1>2, <1>3 DEF TempReady, Writing
<1>5. NeverTorn'
  BY DEF NeverTorn
<1>6. InstalledSoFar'
  BY <1>2 DEF InstalledSoFar, Shape
<1> QED  BY <1>3, <1>4, <1>5, <1>6

\* A rename that succeeds, of the first or of the second attempt.
LEMMA InstalledKeeps ==
  ASSUME Inv, Installed, pc \in {"rename", "retry"}, UNCHANGED <<run, files>>
  PROVE  Inv'
<1> USE FileAssumption DEF Inv, Installed
<1>1. remaining # {} /\ remaining \subseteq File
  BY DEF TempReady, Writing, Shape
<1>2. Current \in remaining /\ \A f \in remaining : Current <= f
  BY <1>1, CurrentIsFirst
<1>3. temp[Current] = Whole(run) /\ Current \notin UnsafePath
      /\ Current \in File /\ run \in Nat
  BY <1>2 DEF TempReady, Writing, Shape
<1> HIDE DEF Current
<1>4. Shape' /\ TempReady'
  BY <1>2, <1>3, Contents DEF Shape, TempReady, Writing
<1>5. NeverTorn'
  BY <1>3, Contents DEF NeverTorn, Shape
<1>6. InstalledSoFar'
  <2>1. \A f \in File : /\ dest'[f] = IF f = Current THEN Whole(run) ELSE dest[f]
                        /\ temp'[f] = IF f = Current THEN Absent ELSE temp[f]
    BY <1>3 DEF Shape
  <2>2. files \subseteq File /\ remaining \subseteq files
        /\ remaining' = remaining \ {Current}
    BY DEF Shape
  <2>3. \A f \in remaining', g \in (files \ remaining)' : g < f
    BY <1>1, <1>2, <2>2 DEF InstalledSoFar
  <2>4. \A f \in (files \ remaining)' :
          dest'[f] = Whole(run) /\ temp'[f] = Absent /\ f \notin UnsafePath
    BY <1>3, <2>1, <2>2 DEF InstalledSoFar
  <2>5. /\ \A f \in File : dest'[f].run <= run
        /\ \A f \in remaining' : dest'[f].run < run
    BY <1>3, <2>1, <2>2, Contents DEF InstalledSoFar
  <2>6. result' = "ok" => remaining' = {}
    BY <2>2 DEF InstalledSoFar
  <2> QED  BY <2>3, <2>4, <2>5, <2>6 DEF InstalledSoFar
<1> QED  BY <1>4, <1>5, <1>6

LEMMA RemoveKeeps == ASSUME Inv, RemoveDestination PROVE Inv'
<1> USE FileAssumption DEF Inv, RemoveDestination
<1>1. remaining # {} /\ remaining \subseteq File
  BY DEF TempReady, Writing, Shape
<1>2. Current \in remaining /\ Current' = Current
  BY <1>1, CurrentIsFirst DEF Current
<1>3. Current \in File /\ run \in Nat /\ dest[Current].run < run
      /\ dest[Current].run \in Nat
  BY <1>2, Contents DEF Shape, InstalledSoFar, Content, Whole, Torn, Absent
<1>4. \A f \in File : f # Current => dest'[f] = dest[f]
  BY DEF Shape
<1>5. dest'[Current] \in {dest[Current], Absent}
  BY <1>3 DEF Shape
<1>6. Shape' /\ TempReady'
  BY <1>2, <1>3, Contents DEF Shape, TempReady, Writing
<1>7. NeverTorn'
  BY <1>4, <1>5 DEF NeverTorn
<1>8. InstalledSoFar'
  BY <1>2, <1>3, <1>4, <1>5, Contents DEF InstalledSoFar, Shape
<1> QED  BY <1>6, <1>7, <1>8

\* Every step of the generator keeps the invariant.
LEMMA InvNext == Inv /\ [Next]_vars => Inv'
<1> SUFFICES ASSUME Inv, [Next]_vars PROVE Inv'
  OBVIOUS
<1>1. CASE Start
  BY <1>1, StartKeeps
<1>2. CASE MakeRoot
  <2>1. CASE Stop("E3001")
    BY <1>2, <2>1, StopKeeps DEF MakeRoot
  <2>2. CASE pc' = "file" /\ UNCHANGED result
    BY <1>2, <2>2
    DEF MakeRoot, Inv, Shape, TempReady, Writing, NeverTorn, InstalledSoFar
  <2> QED  BY <1>2, <2>1, <2>2 DEF MakeRoot
<1>3. CASE NextFile
  <2>1. CASE remaining = {} /\ Stop("ok")
    BY <1>3, <2>1
    DEF NextFile, Stop, Inv, Shape, TempReady, Writing, NeverTorn, InstalledSoFar
  <2>2. CASE Stop("E3001") \/ Stop("E3002")
    BY <1>3, <2>2, StopKeeps DEF NextFile
  <2>3. CASE /\ remaining # {} /\ Current \notin UnsafePath
             /\ pc' = "open" /\ UNCHANGED result
    BY <1>3, <2>3
    DEF NextFile, Inv, Shape, TempReady, Writing, NeverTorn, InstalledSoFar, Current
  <2> QED  BY <1>3, <2>1, <2>2, <2>3 DEF NextFile
<1>4. CASE OpenTemp
  <2>1. CASE Stop("E3003") /\ UNCHANGED temp
    BY <1>4, <2>1, StopKeeps DEF OpenTemp
  <2>2. CASE ~(Stop("E3003") /\ UNCHANGED temp)
    BY <1>4, <2>2, WriteKeeps DEF OpenTemp
  <2> QED  BY <2>1, <2>2
<1>5. CASE WriteTemp
  <2>1. CASE Stop("E3004") /\ UNCHANGED temp
    BY <1>5, <2>1, StopKeeps DEF WriteTemp
  <2>2. CASE ~(Stop("E3004") /\ UNCHANGED temp)
    BY <1>5, <2>2, WriteKeeps DEF WriteTemp
  <2> QED  BY <2>1, <2>2
<1>6. CASE Rename
  <2>1. CASE Installed
    BY <1>6, <2>1, InstalledKeeps DEF Rename
  <2>2. CASE pc' = "remove" /\ UNCHANGED <<dest, temp, remaining, result>>
    BY <1>6, <2>2
    DEF Rename, Inv, Shape, TempReady, Writing, NeverTorn, InstalledSoFar, Current
  <2> QED  BY <1>6, <2>1, <2>2 DEF Rename
<1>7. CASE RemoveDestination
  BY <1>7, RemoveKeeps
<1>8. CASE RenameAgain
  <2>1. CASE Installed
    BY <1>8, <2>1, InstalledKeeps DEF RenameAgain
  <2>2. CASE Stop("E3005") /\ UNCHANGED <<dest, temp, remaining>>
    BY <1>8, <2>2, StopKeeps DEF RenameAgain
  <2> QED  BY <1>8, <2>1, <2>2 DEF RenameAgain
<1>9. CASE Crash
  BY <1>9, StopKeeps DEF Crash
<1>10. CASE UNCHANGED vars
  BY <1>10
  DEF vars, Inv, Shape, TempReady, Writing, NeverTorn, InstalledSoFar, Current
<1> QED
  BY <1>1, <1>2, <1>3, <1>4, <1>5, <1>6, <1>7, <1>8, <1>9, <1>10 DEF Next, Step

\* The invariant holds in every reachable state.
THEOREM WriterInvariant == Spec => []Inv
  BY InvInit, InvNext, PTL DEF Spec

-----------------------------------------------------------------------------
\* No destination ever holds half a file, for any set of paths, any number of
\* runs, failures and crashes.
THEOREM ReadersSeeWholeFiles == Spec => []NeverTorn
<1>1. Inv => NeverTorn
  BY DEF Inv
<1> QED  BY <1>1, WriterInvariant, PTL

\* A run that reports success installed all its files, and left no temporary.
THEOREM SuccessMeansInstalled == Spec => []SuccessIsComplete
<1>1. Inv => SuccessIsComplete
  BY DEF Inv, InstalledSoFar, SuccessIsComplete
<1> QED  BY <1>1, WriterInvariant, PTL

\* What a failed run leaves is a prefix of its files in path order.
THEOREM FailureLeavesPrefix == Spec => []PrefixInstalled
<1>1. Inv => PrefixInstalled
  <2> SUFFICES ASSUME Inv, NEW f \in files
               PROVE  /\ f \in remaining <=> dest[f].run # run
                      /\ f \in remaining => \A g \in files \ remaining : g < f
    BY DEF PrefixInstalled
  <2>1. run \in Nat /\ dest[f] \in Content
    BY DEF Inv, Shape
  <2>2. dest[f].run \in Nat
    BY <2>1, Contents DEF Content
  <2> QED  BY <2>1, <2>2, Contents DEF Inv, InstalledSoFar
<1> QED  BY <1>1, WriterInvariant, PTL

\* A destination is removed only beside its complete replacement.
LEMMA RemovalNext ==
  Inv /\ [Next]_vars =>
    [\A f \in File : dest[f] # Absent /\ dest'[f] = Absent => temp'[f] = Whole(run)]_vars
<1> SUFFICES ASSUME Inv, Next, NEW f \in File, dest[f] # Absent, dest'[f] = Absent
             PROVE  temp'[f] = Whole(run)
  OBVIOUS
<1>1. CASE Installed /\ (Rename \/ RenameAgain)
  <2>1. temp[Current] = Whole(run) /\ run \in Nat
    BY <1>1 DEF Inv, TempReady, Shape, Rename, RenameAgain
  <2>2. dest'[f] = IF f = Current THEN temp[Current] ELSE dest[f]
    BY <1>1 DEF Installed, Inv, Shape
  <2> QED  BY <2>1, <2>2, Contents
<1>2. CASE RemoveDestination
  <2>1. f = Current
    BY <1>2 DEF RemoveDestination, Inv, Shape
  <2> QED  BY <1>2, <2>1 DEF RemoveDestination, Inv, TempReady
<1>3. CASE UNCHANGED dest
  BY <1>3
<1> QED
  BY <1>1, <1>2, <1>3
  DEF Next, Step, Start, MakeRoot, NextFile, OpenTemp, WriteTemp, Rename,
      RenameAgain, Crash

\* In every behaviour of the generator old and new content are never lost together.
THEOREM RemovalKeepsReplacement == Spec => ReplacementKept
  BY RemovalNext, WriterInvariant, PTL DEF Spec, ReplacementKept

-----------------------------------------------------------------------------
\* A run that has not stopped was started.
Typed == TypeOK /\ (pc # "stopped" => run \in 1..MaxRuns)

\* What a file can hold, as the type invariant says it.
RunContent == {Absent} \cup {Whole(r) : r \in 1..MaxRuns} \cup {Torn(r) : r \in 1..MaxRuns}

LEMMA TypedInit == Init => Typed
  BY FileAssumption DEF Init, Typed, TypeOK

LEMMA TypedNext == Inv /\ Typed /\ [Next]_vars => Typed'
<1> SUFFICES ASSUME Inv, Typed, [Next]_vars PROVE Typed'
  OBVIOUS
<1>1. /\ dest \in [File -> RunContent] /\ temp \in [File -> RunContent]
      /\ run \in 0..MaxRuns /\ files \subseteq File /\ remaining \subseteq files
      /\ pc \in {"stopped", "root", "file", "open", "write", "rename", "remove", "retry"}
      /\ pc # "stopped" => run \in 1..MaxRuns
      /\ pc # "stopped" <=> result = "running"
      /\ MaxRuns \in Nat
  BY FileAssumption DEF Typed, TypeOK, RunContent
<1>2. /\ Absent \in RunContent
      /\ pc # "stopped" => Whole(run) \in RunContent /\ Torn(run) \in RunContent
  BY <1>1 DEF RunContent
<1>3. pc \in Writing => Current \in File
  BY CurrentIsFirst DEF Inv, TempReady, Shape
<1> HIDE DEF RunContent, Current
<1>4. dest' \in [File -> RunContent] /\ temp' \in [File -> RunContent]
  BY <1>1, <1>2, <1>3
  DEF Next, Step, Start, MakeRoot, NextFile, OpenTemp, WriteTemp, Rename, RemoveDestination,
      RenameAgain, Crash, Installed, Stop, Writing, vars
<1>5. /\ run' \in 0..MaxRuns /\ (pc' # "stopped" => run' \in 1..MaxRuns)
      /\ files' \subseteq File /\ remaining' \subseteq files'
  BY <1>1
  DEF Next, Step, Start, MakeRoot, NextFile, OpenTemp, WriteTemp, Rename, RemoveDestination,
      RenameAgain, Crash, Installed, Stop, vars
<1>6. /\ pc' \in {"stopped", "root", "file", "open", "write", "rename", "remove", "retry"}
      /\ pc' # "stopped" <=> result' = "running"
      /\ result' \in {"none", "running", "ok", "crashed",
                      "E3001", "E3002", "E3003", "E3004", "E3005"}
  BY <1>1
  DEF Typed, TypeOK, Next, Step, Start, MakeRoot, NextFile, OpenTemp, WriteTemp, Rename,
      RemoveDestination, RenameAgain, Crash, Installed, Stop, vars
<1> QED  BY <1>4, <1>5, <1>6 DEF Typed, TypeOK, RunContent

-----------------------------------------------------------------------------
\* Every block of the buffer was read from the file or is still zero, and how it
\* compares with a file that was not edited since it was asked for its size.
BufferRead ==
  /\ phase = "stat" => ~edited /\ size = 0
  /\ phase \in {"stat", "open"} => bytes = << >> /\ position = 0
  /\ phase = "open" => edited \/ size = Len(input)
  /\ phase = "read" => bytes \in [1..size -> 0..ZeroBlock]
  /\ phase \in {"read", "parse"} =>
       /\ \A i \in 1..size : IF i <= position THEN bytes[i] \in 0..edits
                                              ELSE bytes[i] = ZeroBlock
       /\ ~edited => size = Len(input) /\ \A i \in 1..position : bytes[i] = input[i]
  /\ phase = "parse" => bytes \in [1..size -> 0..ZeroBlock]
                        /\ (~edited => position = size)

\* While a stage runs no error is known, and what is being written is what the
\* options ask for. Another program has no invocation.
Outcome ==
  /\ caller = "program" => phase = "idle" /\ exit = "none"
  /\ phase # "idle" => ~hasErrors /\ exit = "none"
  /\ phase = "write" => files = emitted
  /\ exit = "0" => ~hasErrors /\ result = "ok" /\ files = emitted
  /\ exit \in {"1", "2"} => hasErrors

DriverInv ==
  /\ Inv
  /\ Typed
  /\ DriverTypeOK
  /\ BufferRead
  /\ GeneratedFromInput
  /\ Outcome

\* What is invariant of an invocation.
InvocationInv == DriverTypeOK /\ BufferRead /\ GeneratedFromInput /\ Outcome

-----------------------------------------------------------------------------
\* The blocks of the input file.
LEMMA InputBlocks ==
  ASSUME NEW x, NEW edit \in Nat, x \in Inputs(edit)
  PROVE  /\ Len(x) \in Nat /\ x \in [1..Len(x) -> {edit}]
         /\ \A i \in 1..Len(x) : x[i] = edit
<1>1. PICK n \in 0 .. ByteLimit + 1 : x \in [1..n -> {edit}]
  BY DEF Inputs
<1>2. n \in Nat
  BY DriverAssumption
<1> QED  BY <1>1, <1>2

\* The ranges that the invariant gives the variables of an invocation.
LEMMA Ranges ==
  ASSUME DriverInv
  PROVE  /\ edits \in Nat /\ edits <= MaxEdits /\ MaxEdits \in Nat
         /\ ZeroBlock \in Nat /\ ZeroBlock > MaxEdits
         /\ size \in Nat /\ size <= ByteLimit /\ ByteLimit \in Nat
         /\ position \in Nat /\ position <= size
         /\ Len(input) \in Nat /\ input \in [1..Len(input) -> {edits}]
         /\ \A i \in 1..Len(input) : input[i] = edits
  BY InputBlocks, DriverAssumption DEF DriverInv, DriverTypeOK, ZeroBlock

\* A step that leaves the buffer, and leads to a phase that promises no more.
LEMMA BufferKept ==
  ASSUME DriverInv, UNCHANGED <<file, size, bytes, position, edited>>,
         \/ phase' = phase
         \/ phase' \in {"idle", "plan", "generate", "write"}
              /\ (phase' # "idle" => phase \in {"lower", "plan", "generate"})
  PROVE  BufferRead' /\ GeneratedFromInput'
  BY DEF DriverInv, BufferRead, GeneratedFromInput, file, ZeroBlock

\* A step of an invocation that leaves the writer, the input file and the buffer.
LEMMA InvocationKept ==
  ASSUME DriverInv, Typed', UNCHANGED <<file, size, bytes, position, edited, caller>>,
         phase' \in {"idle", "plan", "generate", "write"},
         phase' # "idle" => phase \in {"lower", "plan", "generate"},
         exit' \in {"none", "help", "0", "1", "2", "killed"},
         caller = "main" /\ pc' # "stopped" => phase' = "write",
         Outcome'
  PROVE  InvocationInv'
<1>1. BufferRead' /\ GeneratedFromInput'
  BY BufferKept
<1>2. DriverTypeOK'
  BY DEF DriverInv, DriverTypeOK, Typed, file
<1> QED  BY <1>1, <1>2 DEF InvocationInv

LEMMA InvokeKeeps ==
  ASSUME DriverInv, Typed', Invoke, caller = "main", UNCHANGED caller PROVE InvocationInv'
<1>1. /\ UNCHANGED <<vars, file, caller>> /\ edited' = FALSE
      /\ size' = 0 /\ bytes' = << >> /\ position' = 0
      /\ \/ phase' = "idle" /\ exit' = "help"
         \/ phase' = "idle" /\ exit' \in {"1", "2"} /\ hasErrors' = TRUE
         \/ phase' = "stat" /\ hasErrors' = FALSE /\ exit' = "none"
  BY DEF Invoke, Exit
<1>2. pc = "stopped"
  BY DEF Invoke, DriverInv, DriverTypeOK
<1>3. DriverTypeOK'
  BY <1>1, <1>2, DriverAssumption DEF DriverInv, DriverTypeOK, Typed, file, vars
<1>4. BufferRead' /\ GeneratedFromInput'
  BY <1>1 DEF BufferRead, GeneratedFromInput
<1>5. Outcome'
  BY <1>1 DEF Outcome
<1> QED  BY <1>3, <1>4, <1>5 DEF InvocationInv

LEMMA EditKeeps ==
  ASSUME DriverInv, Typed', Edit, UNCHANGED caller PROVE InvocationInv'
<1>1. /\ phase \in {"idle", "open", "read"} /\ edits < MaxEdits
      /\ edits' = edits + 1 /\ input' \in Inputs(edits')
      /\ edited' = (phase # "idle")
      /\ UNCHANGED <<vars, phase, emitted, size, bytes, position, hasErrors, exit, caller>>
  BY DEF Edit
<1>2. edits' \in 0..MaxEdits
  BY <1>1, Ranges
<1>3. DriverTypeOK'
  BY <1>1, <1>2 DEF DriverInv, DriverTypeOK, Typed, vars
<1>4. BufferRead'
  <2>1. phase # "idle" => edited'
    BY <1>1
  <2>2. CASE phase = "idle"
    BY <1>1, <2>2 DEF BufferRead
  <2>3. CASE phase = "open"
    BY <1>1, <2>1, <2>3 DEF DriverInv, BufferRead
  <2>4. CASE phase = "read"
    <3>1. \A i \in 1..size : IF i <= position THEN bytes[i] \in 0..edits'
                                             ELSE bytes[i] = ZeroBlock
      BY <1>1, <2>4, Ranges DEF DriverInv, BufferRead
    <3>2. bytes \in [1..size -> 0..ZeroBlock]
      BY <2>4 DEF DriverInv, BufferRead
    <3> QED  BY <1>1, <2>1, <2>4, <3>1, <3>2 DEF BufferRead, ZeroBlock
  <2> QED  BY <1>1, <2>2, <2>3, <2>4
<1>5. GeneratedFromInput' /\ Outcome'
  BY <1>1 DEF DriverInv, GeneratedFromInput, Outcome, vars
<1> QED  BY <1>3, <1>4, <1>5 DEF InvocationInv

\* A stage that stops the invocation with an error.
LEMMA FailKeeps ==
  ASSUME DriverInv, Typed', Exit("1", TRUE), caller = "main",
         UNCHANGED <<file, caller>>, pc' = "stopped",
         size' \in 0..ByteLimit, position' \in 0..size', Len(bytes') \in {0, size'}
  PROVE  InvocationInv'
<1>1. phase' = "idle" /\ exit' = "1" /\ hasErrors' = TRUE
  BY DEF Exit
<1>2. DriverTypeOK'
  BY <1>1 DEF DriverInv, DriverTypeOK, Typed, file
<1>3. BufferRead' /\ GeneratedFromInput' /\ Outcome'
  BY <1>1 DEF BufferRead, GeneratedFromInput, Outcome
<1> QED  BY <1>2, <1>3 DEF InvocationInv

LEMMA StatKeeps ==
  ASSUME DriverInv, Typed', Stat, caller = "main", UNCHANGED caller PROVE InvocationInv'
<1>1. /\ phase = "stat" /\ UNCHANGED <<vars, file, emitted, bytes, position, edited, caller>>
      /\ ~edited /\ bytes = << >> /\ position = 0 /\ pc = "stopped"
  BY DEF Stat, DriverInv, BufferRead, DriverTypeOK
<1>2. CASE Exit("1", TRUE) /\ UNCHANGED size
  BY <1>1, <1>2, FailKeeps DEF DriverInv, DriverTypeOK, vars
<1>3. CASE /\ Len(input) <= ByteLimit /\ size' = Len(input)
           /\ phase' = "open" /\ UNCHANGED <<hasErrors, exit>>
  <2>1. size' \in 0..ByteLimit /\ position' \in 0..size' /\ Len(bytes') = 0
    BY <1>1, <1>3, Ranges
  <2>2. DriverTypeOK'
    BY <1>1, <1>3, <2>1 DEF DriverInv, DriverTypeOK, Typed, file, vars
  <2>3. BufferRead' /\ GeneratedFromInput'
    BY <1>1, <1>3 DEF BufferRead, GeneratedFromInput, file
  <2>4. Outcome'
    BY <1>1, <1>3 DEF DriverInv, Outcome
  <2> QED  BY <2>2, <2>3, <2>4 DEF InvocationInv
<1> QED  BY <1>2, <1>3 DEF Stat

LEMMA OpenKeeps ==
  ASSUME DriverInv, Typed', Open, caller = "main", UNCHANGED caller PROVE InvocationInv'
<1>1. /\ phase = "open"
      /\ UNCHANGED <<vars, file, emitted, size, position, edited, caller>>
      /\ (edited \/ size = Len(input)) /\ bytes = << >> /\ position = 0 /\ pc = "stopped"
  BY DEF Open, DriverInv, BufferRead, DriverTypeOK
<1>2. CASE Exit("1", TRUE) /\ UNCHANGED bytes
  BY <1>1, <1>2, FailKeeps DEF DriverInv, DriverTypeOK, vars
<1>3. CASE /\ bytes' = [i \in 1..size |-> ZeroBlock]
           /\ phase' = "read" /\ UNCHANGED <<hasErrors, exit>>
  <2>1. /\ bytes' \in [1..size -> 0..ZeroBlock] /\ Len(bytes') = size
        /\ \A i \in 1..size : bytes'[i] = ZeroBlock
    BY <1>3, Ranges
  <2>2. DriverTypeOK'
    BY <1>1, <1>3, <2>1 DEF DriverInv, DriverTypeOK, Typed, file, vars
  <2>3. BufferRead'
    BY <1>1, <1>3, <2>1, Ranges DEF BufferRead, file, ZeroBlock
  <2>4. GeneratedFromInput' /\ Outcome'
    BY <1>1, <1>3 DEF DriverInv, GeneratedFromInput, Outcome
  <2> QED  BY <2>2, <2>3, <2>4 DEF InvocationInv
<1> QED  BY <1>2, <1>3 DEF Open

LEMMA ReadKeeps ==
  ASSUME DriverInv, Typed', Read, caller = "main", UNCHANGED caller PROVE InvocationInv'
<1>1. /\ phase = "read"
      /\ UNCHANGED <<vars, file, emitted, size, edited, caller>>
      /\ pc = "stopped" /\ bytes \in [1..size -> 0..ZeroBlock]
      /\ \A i \in 1..size : IF i <= position THEN bytes[i] \in 0..edits
                                             ELSE bytes[i] = ZeroBlock
      /\ ~edited => size = Len(input) /\ \A i \in 1..position : bytes[i] = input[i]
      /\ Len(bytes) = size
  BY Ranges DEF Read, DriverInv, BufferRead, DriverTypeOK
<1>2. CASE Exit("1", TRUE) /\ UNCHANGED <<bytes, position>>
  BY <1>1, <1>2, FailKeeps DEF DriverInv, DriverTypeOK, vars
<1>3. CASE /\ position < size /\ position < Len(input)
           /\ position' = position + 1
           /\ bytes' = [bytes EXCEPT ![position'] = input[position']]
           /\ UNCHANGED <<phase, hasErrors, exit>>
  <2> DEFINE n == position + 1
  <2>1. n \in 1..size /\ n \in 1..Len(input) /\ position' = n
        /\ input[n] = edits /\ edits \in 0..ZeroBlock
    BY <1>3, Ranges
  <2>2. /\ bytes' = [bytes EXCEPT ![n] = input[n]]
        /\ bytes' \in [1..size -> 0..ZeroBlock] /\ Len(bytes') = size
        /\ \A i \in 1..size : bytes'[i] = IF i = n THEN input[n] ELSE bytes[i]
    BY <1>1, <1>3, <2>1, Ranges
  <2>3. \A i \in 1..size : IF i <= n THEN bytes'[i] \in 0..edits
                                    ELSE bytes'[i] = ZeroBlock
    BY <1>1, <2>1, <2>2, Ranges
  <2>4. ~edited => size = Len(input) /\ \A i \in 1..n : bytes'[i] = input[i]
    <3>1. \A i \in 1..n : i \in 1..size /\ (i = n \/ i \in 1..position)
      BY <2>1, Ranges
    <3> QED  BY <1>1, <2>2, <3>1
  <2> HIDE DEF n
  <2>5. n \in 0..size
    BY <2>1, Ranges
  <2>6. DriverTypeOK'
    BY <1>1, <1>3, <2>1, <2>2, <2>5 DEF DriverInv, DriverTypeOK, Typed, file, vars
  <2>7. BufferRead'
    BY <1>1, <1>3, <2>1, <2>2, <2>3, <2>4 DEF BufferRead, file, ZeroBlock
  <2>8. GeneratedFromInput' /\ Outcome'
    BY <1>1, <1>3 DEF DriverInv, GeneratedFromInput, Outcome
  <2> QED  BY <2>6, <2>7, <2>8 DEF InvocationInv
<1>4. CASE /\ position = size \/ position >= Len(input)
           /\ phase' = "parse" /\ UNCHANGED <<bytes, position, hasErrors, exit>>
  <2>1. DriverTypeOK'
    BY <1>1, <1>4 DEF DriverInv, DriverTypeOK, Typed, file, vars
  <2>2. ~edited => position = size
    BY <1>1, <1>4, Ranges
  <2>3. BufferRead'
    BY <1>1, <1>4, <2>2 DEF BufferRead, file, ZeroBlock
  <2>4. GeneratedFromInput' /\ Outcome'
    BY <1>1, <1>4 DEF DriverInv, GeneratedFromInput, Outcome
  <2> QED  BY <2>1, <2>3, <2>4 DEF InvocationInv
<1> QED  BY <1>2, <1>3, <1>4 DEF Read

LEMMA ParseKeeps ==
  ASSUME DriverInv, Typed', Parse, caller = "main", UNCHANGED caller PROVE InvocationInv'
<1>1. /\ phase = "parse"
      /\ UNCHANGED <<vars, file, emitted, size, bytes, position, edited, caller>>
      /\ pc = "stopped"
  BY DEF Parse, Stage, DriverInv, DriverTypeOK
<1>2. CASE Exit("1", TRUE)
  BY <1>1, <1>2, FailKeeps DEF DriverInv, DriverTypeOK, vars, file
<1>3. CASE Parsed /\ phase' = "lower" /\ UNCHANGED <<hasErrors, exit>>
  <2>1. /\ bytes \in [1..size -> 0..ZeroBlock] /\ Len(bytes) = size /\ DOMAIN bytes = 1..size
        /\ \A i \in 1..size : bytes[i] \in 0..edits
        /\ ~edited => size = Len(input) /\ \A i \in 1..size : bytes[i] = input[i]
    BY <1>1, <1>3, Ranges DEF DriverInv, BufferRead, Parsed
  <2>2. ~edited => bytes = input
    BY <2>1, Ranges
  <2>3. DriverTypeOK'
    BY <1>1, <1>3 DEF DriverInv, DriverTypeOK, Typed, file, vars
  <2>4. BufferRead'
    BY <1>1, <1>3 DEF BufferRead
  <2>5. GeneratedFromInput'
    BY <1>1, <1>3, <2>1, <2>2, Ranges DEF GeneratedFromInput, file
  <2>6. Outcome'
    BY <1>1, <1>3 DEF DriverInv, Outcome
  <2> QED  BY <2>3, <2>4, <2>5, <2>6 DEF InvocationInv
<1> QED  BY <1>2, <1>3 DEF Parse, Stage

\* lower_openapi and the planning stages.
LEMMA StageKeeps ==
  ASSUME DriverInv, Typed', Lower \/ Prepare, caller = "main", UNCHANGED caller
  PROVE  InvocationInv'
<1>1. /\ phase \in {"lower", "plan"} /\ pc = "stopped"
      /\ UNCHANGED <<vars, file, emitted, size, bytes, position, edited, caller>>
      /\ \/ Exit("1", TRUE)
         \/ phase' \in {"plan", "generate"} /\ UNCHANGED <<hasErrors, exit>>
  BY DEF Lower, Prepare, Stage, DriverInv, DriverTypeOK
<1>2. CASE Exit("1", TRUE)
  BY <1>1, <1>2, FailKeeps DEF DriverInv, DriverTypeOK, vars, file
<1>3. CASE phase' \in {"plan", "generate"} /\ UNCHANGED <<hasErrors, exit>>
  <2>1. Outcome'
    BY <1>1, <1>3 DEF DriverInv, Outcome
  <2> QED
    BY <1>1, <1>3, <2>1, InvocationKept DEF DriverInv, DriverTypeOK, vars
<1> QED  BY <1>1, <1>2, <1>3

LEMMA GenerateKeeps ==
  ASSUME DriverInv, Typed', Generate, caller = "main", UNCHANGED caller
  PROVE  InvocationInv'
<1>1. /\ phase = "generate" /\ phase' = "write" /\ files' = emitted
      /\ UNCHANGED <<file, emitted, size, bytes, position, edited, hasErrors, exit, caller>>
  BY DEF Generate
<1>2. Outcome'
  BY <1>1 DEF DriverInv, Outcome
<1> QED  BY <1>1, <1>2, InvocationKept DEF DriverInv, DriverTypeOK

\* No system call of the writer changes what files the run has to write.
LEMMA StepKeepsFiles == Step => files' = files
  BY DEF Step, MakeRoot, NextFile, OpenTemp, WriteTemp, Rename, RemoveDestination,
         RenameAgain

LEMMA WriteStepKeeps ==
  ASSUME DriverInv, Typed', Write, caller = "main", UNCHANGED caller
  PROVE  InvocationInv'
<1>1. /\ phase = "write" /\ files' = files
      /\ UNCHANGED <<file, phase, emitted, size, bytes, position, edited, hasErrors, exit,
                     caller>>
  BY StepKeepsFiles DEF Write, invocation
<1>2. BufferRead' /\ GeneratedFromInput'
  BY <1>1, BufferKept
<1>3. DriverTypeOK'
  BY <1>1 DEF DriverInv, DriverTypeOK, Typed, file
<1>4. Outcome'
  BY <1>1 DEF DriverInv, Outcome
<1> QED  BY <1>2, <1>3, <1>4 DEF InvocationInv

LEMMA WrittenKeeps ==
  ASSUME DriverInv, Typed', Written, caller = "main", UNCHANGED caller
  PROVE  InvocationInv'
<1>1. /\ phase = "write" /\ phase' = "idle" /\ pc = "stopped"
      /\ UNCHANGED <<vars, file, emitted, size, bytes, position, edited, caller>>
      /\ \/ result = "ok" /\ exit' = "0" /\ hasErrors' = FALSE
         \/ exit' = "1" /\ hasErrors' = TRUE
  BY DEF Written, Exit
<1>2. Outcome'
  BY <1>1 DEF DriverInv, Outcome, vars
<1> QED  BY <1>1, <1>2, InvocationKept DEF vars

\* An exception, or the death of the process.
LEMMA EndKeeps ==
  ASSUME DriverInv, Typed', Throw \/ Die, caller = "main", UNCHANGED caller
  PROVE  InvocationInv'
<1>1. /\ phase # "idle" /\ phase' = "idle" /\ pc' = "stopped"
      /\ UNCHANGED <<file, emitted, size, bytes, position, edited, caller>>
      /\ \/ exit' = "1" /\ hasErrors' = TRUE
         \/ exit' = "killed"
  BY DEF Throw, Die, Exit, Abandoned, Crash, Stop, vars
<1>2. Outcome'
  BY <1>1 DEF Outcome
<1> QED  BY <1>1, <1>2, InvocationKept

\* Another program writes its own files, and has no invocation.
LEMMA ProgramKeeps ==
  ASSUME DriverInv, Typed', caller = "program", UNCHANGED <<file, invocation, caller>>
  PROVE  InvocationInv'
<1>1. /\ phase = "idle" /\ exit = "none"
      /\ UNCHANGED <<file, phase, emitted, size, bytes, position, edited, hasErrors, exit,
                     caller>>
  BY DEF DriverInv, Outcome, invocation
<1>2. Outcome'
  BY <1>1 DEF Outcome
<1> QED  BY <1>1, <1>2, InvocationKept DEF DriverInv, DriverTypeOK

-----------------------------------------------------------------------------
\* Whatever the driver does, it does to the output directory only what a run of
\* the writer may do.
LEMMA WriterSteps == [DriverNext]_driverVars => [Next]_vars
<1>1. ASSUME DriverNext PROVE Next \/ UNCHANGED vars
  BY <1>1
  DEF DriverNext, Progress, Stages, Stat, Open, Read, Parse, Lower, Prepare, Stage, Generate,
      Write, Written, Edit, Invoke, Throw, Die, Abandoned, Next
<1> QED  BY <1>1 DEF driverVars

LEMMA DriverInvInit == DriverInit => DriverInv
<1> SUFFICES ASSUME DriverInit PROVE DriverInv
  OBVIOUS
<1>1. Inv /\ Typed
  BY InvInit, TypedInit DEF DriverInit
<1>2. DriverTypeOK
  BY <1>1, DriverAssumption DEF DriverInit, Init, DriverTypeOK, Typed
<1>3. BufferRead /\ GeneratedFromInput /\ Outcome
  BY DEF DriverInit, BufferRead, GeneratedFromInput, Outcome
<1> QED  BY <1>1, <1>2, <1>3 DEF DriverInv

\* Every step of an invocation, of another program, or of the file's editor keeps
\* the invariant.
THEOREM DriverInvNext == DriverInv /\ [DriverNext]_driverVars => DriverInv'
<1> SUFFICES ASSUME DriverInv, [DriverNext]_driverVars PROVE DriverInv'
  OBVIOUS
<1>1. Inv' /\ Typed'
  BY WriterSteps, InvNext, TypedNext DEF DriverInv
<1>2. InvocationInv'
  <2>1. CASE caller = "main" /\ Stages /\ UNCHANGED caller
    BY <1>1, <2>1, StatKeeps, OpenKeeps, ReadKeeps, ParseKeeps, StageKeeps, GenerateKeeps,
       WriteStepKeeps, WrittenKeeps DEF Stages
  <2>2. CASE caller = "main" /\ (Edit \/ Invoke \/ Throw \/ Die) /\ UNCHANGED caller
    BY <1>1, <2>2, EditKeeps, InvokeKeeps, EndKeeps
  <2>3. CASE caller = "program" /\ UNCHANGED <<file, invocation, caller>>
    BY <1>1, <2>3, ProgramKeeps
  <2>4. CASE UNCHANGED driverVars
    BY <1>1, <2>4
    DEF driverVars, vars, file, invocation, DriverInv, InvocationInv, DriverTypeOK, Typed,
        BufferRead, GeneratedFromInput, Outcome, ZeroBlock
  <2> QED  BY <2>1, <2>2, <2>3, <2>4 DEF DriverNext, Progress
<1> QED  BY <1>1, <1>2 DEF DriverInv, InvocationInv

LEMMA DriverInvAlways == DriverSpec => []DriverInv
  BY DriverInvInit, DriverInvNext, PTL DEF DriverSpec

-----------------------------------------------------------------------------
\* The driver is one of the programs that use the file writer: its behaviours are
\* behaviours of FileWriter, whoever calls the library.
THEOREM DriverImplementsWriter == DriverSpec => Spec
<1>1. DriverInit => Init
  BY DEF DriverInit
<1> QED  BY <1>1, WriterSteps, PTL DEF DriverSpec, Spec

\* What is proved of the writer holds for the program: no half file, success and
\* failure as promised, and no destination removed without its replacement.
THEOREM DirectorySafe ==
  DriverSpec => /\ [](NeverTorn /\ SuccessIsComplete /\ PrefixInstalled)
                /\ ReplacementKept
  BY DriverImplementsWriter, ReadersSeeWholeFiles, SuccessMeansInstalled,
     FailureLeavesPrefix, RemovalKeepsReplacement, PTL

\* Every variable of the driver stays within its type, and the directory is only
\* written by an invocation that reached that stage.
THEOREM DriverTypeCorrect == DriverSpec => []DriverTypeOK
<1>1. DriverInv => DriverTypeOK
  BY DEF DriverInv
<1> QED  BY <1>1, DriverInvAlways, PTL

\* The exit code of main can be relied on.
THEOREM ExitCodeTells == DriverSpec => []ExitTold
<1>1. DriverInv => ExitTold
  BY DEF DriverInv, Inv, InstalledSoFar, DriverTypeOK, Outcome, ExitTold
<1> QED  BY <1>1, DriverInvAlways, PTL

\* What is generated was in the input file.
THEOREM InputGenerated == DriverSpec => []GeneratedFromInput
<1>1. DriverInv => GeneratedFromInput
  BY DEF DriverInv
<1> QED  BY <1>1, DriverInvAlways, PTL
=============================================================================
