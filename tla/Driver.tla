-------------------------------- MODULE Driver --------------------------------
(***************************************************************************)
(* The compiler driver: one invocation after another over the same         *)
(* directory, with sources that are edited in between.  An invocation      *)
(* walks its arguments; each source goes through gcc's preprocessor to a   *)
(* .i file, through the compiler to a .s file and through gcc's assembler  *)
(* to a .o file, all under the source's name up to its first dot; at last  *)
(* gcc links.                                                              *)
(*                                                                         *)
(* A file is the sequence of the texts it was made from, an absent one is  *)
(* empty.  A command of gcc that fails removes what it was to write; one   *)
(* that cannot be started, or finds an input missing, leaves it.           *)
(***************************************************************************)
EXTENDS Integers, SequencesExt

CONSTANTS
  Path,            \* the sources
  Stem,            \* word of the command line -> the part before its first dot
  Text,
  Bad,             \* the texts the compiler refuses
  Arguments,       \* the command lines
  Library,         \* the words that begin with -l
  MaxInvocations

Skipped == {"--lex", "--parse", "--validate"}
Word == DOMAIN Stem \cup Skipped \cup Library \cup {"-c"}

\* A word is an option or has a stem, and an option is no source.
ASSUME DriverAssumption ==
  /\ Bad \subseteq Text
  /\ Path \subseteq DOMAIN Stem
  /\ Path \cap (Skipped \cup Library \cup {"-c", "-o"}) = {}
  /\ "-o" \notin Library
  /\ Arguments \subseteq Seq(Word)
  /\ MaxInvocations \in Nat

VARIABLES
  source,               \* path -> what it holds
  disk,                 \* what the driver writes: file -> what it holds
  step,                 \* "off", "arguments", "preprocess", "compile", "assemble", "exited"
  args, i,
  finalExecutableName, outputSpecified, isCFlagPresent, objectFileNames,
  status,               \* of the invocation
  trouble,              \* the worst of its commands: "none", "failed", "unstarted"
                        \* (not started, or stopped at once for a missing input)
  invocations

flags == <<finalExecutableName, outputSpecified, isCFlagPresent>>
vars == <<source, disk, step, args, i, flags, objectFileNames, status, trouble, invocations>>

Absent == <<>>
Preprocessed(word) == <<Stem[word], ".i">>
AsmFile(word) == <<Stem[word], ".s">>
ObjectFile(word) == <<Stem[word], ".o">>
Executable(name) == <<name, "">>

File ==
  {<<Stem[w], ext>> : w \in DOMAIN Stem, ext \in {".i", ".s", ".o", ""}} \cup
  {Executable(w) : w \in Word \cup {"a.out"}}

Init ==
  /\ source \in [Path -> {<<t>> : t \in Text}]
  /\ disk = [f \in File |-> Absent]
  /\ step = "off"
  /\ args = <<>> /\ i = 1
  /\ finalExecutableName = "a.out" /\ outputSpecified = FALSE /\ isCFlagPresent = FALSE
  /\ objectFileNames = <<>>
  /\ status = 0 /\ trouble = "none"
  /\ invocations = 0

\* Somebody changes a source, or removes it.
Edit ==
  /\ step = "exited"
  /\ \E p \in Path, t \in {<<t>> : t \in Text} \cup {Absent} : source' = [source EXCEPT ![p] = t]
  /\ step' = "off"
  /\ UNCHANGED <<disk, args, i, flags, objectFileNames, status, trouble, invocations>>

startProcess ==
  /\ step \in {"off", "exited"}
  /\ invocations < MaxInvocations
  /\ invocations' = invocations + 1
  /\ args' \in Arguments /\ i' = 1
  /\ step' = "arguments"
  /\ finalExecutableName' = "a.out" /\ outputSpecified' = FALSE /\ isCFlagPresent' = FALSE
  /\ objectFileNames' = <<>>
  /\ status' = 0 /\ trouble' = "none"
  /\ UNCHANGED <<source, disk>>

(***************************************************************************)
(* The arguments.                                                          *)
(***************************************************************************)
At(n) == step = "arguments" /\ i <= Len(args) /\ i' = i + n
TakesOutput == args[i] = "-o" /\ i < Len(args)
IsFlag(word) == word \in Skipped \cup Library \cup {"-c", finalExecutableName} \/ TakesOutput

CFlag ==
  /\ At(1) /\ args[i] = "-c"
  /\ isCFlagPresent' = TRUE
  /\ UNCHANGED <<source, disk, step, args, finalExecutableName, outputSpecified,
                 objectFileNames, status, trouble, invocations>>

Output ==
  /\ At(2) /\ TakesOutput
  /\ finalExecutableName' = args[i + 1]
  /\ outputSpecified' = TRUE
  /\ UNCHANGED <<source, disk, step, args, isCFlagPresent, objectFileNames, status, trouble,
                 invocations>>

\* Libraries are for the linker only; the rest means nothing.
Skip ==
  /\ At(1) /\ IsFlag(args[i]) /\ args[i] # "-c" /\ ~TakesOutput
  /\ UNCHANGED <<source, disk, step, args, flags, objectFileNames, status, trouble, invocations>>

Source ==
  /\ At(0) /\ ~IsFlag(args[i])
  /\ step' = "preprocess"
  /\ UNCHANGED <<source, disk, args, flags, objectFileNames, status, trouble, invocations>>

(***************************************************************************)
(* One source.                                                             *)
(***************************************************************************)
\* A command of gcc that makes a file from what is there; when the input is
\* missing it stops before it touches the file.
Command(file, content) ==
  \/ /\ content # Absent
     /\ disk' = [disk EXCEPT ![file] = content]
     /\ UNCHANGED trouble
  \/ /\ content # Absent
     /\ disk' = [disk EXCEPT ![file] = Absent]
     /\ trouble' = IF trouble = "none" THEN "failed" ELSE trouble
  \/ /\ trouble' = "unstarted"
     /\ UNCHANGED disk

Exit(code) == step' = "exited" /\ status' = code

commandForPreprocessing ==
  /\ step = "preprocess"
  /\ Command(Preprocessed(args[i]), IF args[i] \in Path THEN source[args[i]] ELSE Absent)
  /\ step' = "compile"
  /\ UNCHANGED <<source, args, i, flags, objectFileNames, status, invocations>>

\* Mutant: what the compiler refuses is reported, and goes on.
OnlyReported(text) == text = Absent

Refuses(text) == text = Absent \/ Range(text) \cap Bad # {}

\* Reads the .i file and writes the .s file, or stops the whole invocation.
compileFile ==
  /\ step = "compile"
  /\ LET text == disk[Preprocessed(args[i])] IN
     \/ /\ ~Refuses(text)
        /\ disk' = [disk EXCEPT ![AsmFile(args[i])] = text]
        /\ step' = "assemble"
        /\ UNCHANGED status
     \/ /\ Refuses(text)
        /\ Exit(1)
        /\ UNCHANGED disk
  /\ UNCHANGED <<source, args, i, flags, objectFileNames, trouble, invocations>>

\* Mutant: the count of objects stays.
LastOnly(file) == <<file>>

Collected(file) == Append(objectFileNames, file)

commandForObjectFile ==
  /\ step = "assemble"
  /\ Command(ObjectFile(args[i]), disk[AsmFile(args[i])])
  /\ objectFileNames' = Collected(ObjectFile(args[i]))
  /\ step' = "arguments" /\ i' = i + 1
  /\ UNCHANGED <<source, args, flags, status, invocations>>

(***************************************************************************)
(* After the last argument.                                                *)
(***************************************************************************)
executableNameToUse ==
  IF ~outputSpecified /\ Len(objectFileNames) = 1 THEN objectFileNames[1][1]
  ELSE finalExecutableName

Objects == [n \in DOMAIN objectFileNames |-> disk[objectFileNames[n]]]

\* Without objects gcc stops before it touches anything.
generateExecutableCommand ==
  /\ step = "arguments" /\ i > Len(args)
  /\ ~isCFlagPresent
  /\ IF Objects = <<>> THEN trouble' = "failed" /\ UNCHANGED disk
     ELSE Command(Executable(executableNameToUse),
                  IF Absent \in Range(Objects) THEN Absent ELSE FlattenSeq(Objects))
  /\ Exit(0)
  /\ UNCHANGED <<source, args, i, flags, objectFileNames, invocations>>

ObjectsOnly ==
  /\ step = "arguments" /\ i > Len(args)
  /\ isCFlagPresent
  /\ Exit(0)
  /\ UNCHANGED <<source, disk, args, i, flags, objectFileNames, trouble, invocations>>

Next ==
  \/ Edit \/ startProcess
  \/ CFlag \/ Output \/ Skip \/ Source
  \/ commandForPreprocessing \/ compileFile \/ commandForObjectFile
  \/ generateExecutableCommand \/ ObjectsOnly

Spec == Init /\ [][Next]_vars

(***************************************************************************)
(* What is expected.                                                       *)
(***************************************************************************)
Sources == FlattenSeq([n \in DOMAIN args |-> IF args[n] \in Path THEN <<args[n]>> ELSE <<>>])
Outputs == {n \in DOMAIN args : args[n] = "-o"}

ExecutableAsked ==
  IF Outputs # {} THEN args[Max(Outputs) + 1]
  ELSE IF Len(Sources) = 1 THEN Stem[Sources[1]] ELSE "a.out"

\* Known: two sources whose names agree up to the first dot share files.
Shared ==
  \E m, n \in DOMAIN Sources : Sources[m] # Sources[n] /\ Stem[Sources[m]] = Stem[Sources[n]]

\* Known: a source named as the executable is passed over, and so is an "-o"
\* behind an "-o".
PassedOver ==
  \E n \in DOMAIN args :
    \/ args[n] \in Path \cap {"a.out"}
    \/ args[n] \in Path \cup {"-o"} /\ n > 1 /\ args[n - 1] = "-o"

Made(file, content) == disk[file] = content \/ (trouble # "none" /\ disk[file] = Absent)

\* After an invocation that says it succeeded, no object and no executable is
\* an older one: each is made from the sources as they are or, when a command
\* has failed, is missing.  Known: unless a command could not be started or
\* stopped for a missing input, which leaves the older file.
\* (traverseCompilerArgs, compileFile, generateExecutableCommand)
UpToDate ==
  step = "exited" /\ status = 0 /\ Sources # <<>> /\ trouble # "unstarted" /\ ~Shared /\
  ~PassedOver =>
    /\ \A w \in Range(Sources) : Made(ObjectFile(w), source[w])
    /\ isCFlagPresent \/
       Made(Executable(ExecutableAsked),
            FlattenSeq([n \in DOMAIN Sources |-> source[Sources[n]]]))

\* Nothing that was refused gets into an assembly file, an object or an
\* executable, whatever is left in the directory and whatever fails.
\* (compileFile)
OnlyAccepted ==
  \A f \in File : f[2] # ".i" => \A n \in DOMAIN disk[f] : disk[f][n] \notin Bad
==============================================================================
