----------------------------- MODULE DriverProofs -----------------------------
(***************************************************************************)
(* Proofs about the driver, for any sources, command lines and number of   *)
(* invocations: nothing that was refused is assembled, and an invocation   *)
(* that says it succeeded leaves nothing that is out of date.              *)
(***************************************************************************)
EXTENDS Driver, SequenceLemmas

Steps == {"off", "arguments", "preprocess", "compile", "assemble", "exited"}
ObjectFiles == {ObjectFile(w) : w \in DOMAIN Stem}

\* Types; a word that reaches the compiler has a stem.
Types ==
  /\ source \in [Path -> Seq(Text)]
  /\ disk \in [File -> Seq(Text)]
  /\ step \in Steps
  /\ args \in Seq(Word) /\ i \in Nat \ {0}
  /\ finalExecutableName \in Word \cup {"a.out"}
  /\ objectFileNames \in Seq(ObjectFiles)
  /\ trouble \in {"none", "failed", "unstarted"}
  /\ step \in {"preprocess", "compile", "assemble"} => i \in DOMAIN args /\ args[i] \in DOMAIN Stem

\* The names of files are apart.
LEMMA Files ==
  ASSUME NEW w \in DOMAIN Stem
  PROVE  /\ Preprocessed(w) \in File /\ AsmFile(w) \in File /\ ObjectFile(w) \in File
         /\ Executable(Stem[w]) \in File
         /\ ObjectFile(w)[1] = Stem[w]
BY DEF Preprocessed, AsmFile, ObjectFile, Executable, File

LEMMA Executables ==
  ASSUME NEW w \in Word \cup {"a.out"}
  PROVE  Executable(w) \in File
BY DEF File, Executable

\* What a command does to the files, and to the trouble.
LEMMA CommandDoes ==
  ASSUME Types, NEW file \in File, NEW content \in Seq(Text), Command(file, content)
  PROVE  /\ disk' \in [File -> Seq(Text)]
         /\ trouble' \in {"none", "failed", "unstarted"}
         /\ trouble = "unstarted" => trouble' = "unstarted"
         /\ trouble # "none" => trouble' # "none"
         /\ \A f \in File : f # file => disk'[f] = disk[f]
         /\ disk'[file] \in {disk[file], content, Absent}
         /\ trouble' # "unstarted" =>
              \/ disk'[file] = content /\ content # Absent
              \/ disk'[file] = Absent /\ trouble' # "none"
<1>1. <<>> \in Seq(Text)
  BY EmptySeq
<1> QED BY <1>1 DEF Types, Command, Absent

\* The linked file's texts are those of the objects.
LEMMA LinkedTypes ==
  ASSUME Types
  PROVE  /\ Objects \in Seq(Seq(Text))
         /\ Len(Objects) = Len(objectFileNames)
         /\ FlattenSeq(Objects) \in Seq(Text)
<1>1. /\ Len(objectFileNames) \in Nat
      /\ DOMAIN objectFileNames = 1 .. Len(objectFileNames)
      /\ \A n \in DOMAIN objectFileNames : objectFileNames[n] \in File
  BY LenProperties, Files DEF Types, ObjectFiles
<1>2. Objects \in [1 .. Len(objectFileNames) -> Seq(Text)]
  BY <1>1 DEF Objects, Types
<1>3. Objects \in Seq(Seq(Text)) /\ Len(Objects) = Len(objectFileNames)
  BY <1>1, <1>2
<1> QED BY <1>3, FlattenLaidOut

LEMMA ExecutableTypes ==
  ASSUME Types
  PROVE  Executable(executableNameToUse) \in File
<1>1. CASE Len(objectFileNames) = 1
  <2>1. objectFileNames[1] \in ObjectFiles
    <3>1. 1 \in 1 .. Len(objectFileNames)
      BY <1>1
    <3> QED BY <3>1, ElementOfSeq DEF Types
  <2>2. PICK w \in DOMAIN Stem : objectFileNames[1] = ObjectFile(w)
    BY <2>1 DEF ObjectFiles
  <2>3. objectFileNames[1][1] = Stem[w]
    BY <2>2, Files
  <2> QED BY <2>3, Files, Executables DEF executableNameToUse, Types
<1>2. CASE Len(objectFileNames) # 1
  BY <1>2, Executables DEF executableNameToUse, Types
<1> QED BY <1>1, <1>2

LEMMA OneText ==
  ASSUME NEW t \in Text
  PROVE  <<t>> \in Seq(Text)
OBVIOUS

LEMMA TypesInit == Init => Types
<1> SUFFICES ASSUME Init PROVE Types
  OBVIOUS
<1>1. <<>> \in Seq(Text) /\ <<>> \in Seq(Word) /\ <<>> \in Seq(ObjectFiles)
  BY EmptySeq
<1>2. source \in [Path -> Seq(Text)]
  <2>1. {<<t>> : t \in Text} \subseteq Seq(Text)
    BY OneText
  <2> QED BY <2>1 DEF Init
<1>3. disk \in [File -> Seq(Text)]
  BY <1>1 DEF Init, Absent
<1> QED BY <1>1, <1>2, <1>3 DEF Init, Types, Steps

LEMMA TypesNext == Types /\ [Next]_vars => Types'
<1> SUFFICES ASSUME Types, [Next]_vars PROVE Types'
  OBVIOUS
<1> USE DEF Steps
<1>1. CASE Edit
  <2>1. {<<t>> : t \in Text} \cup {Absent} \subseteq Seq(Text)
    BY OneText, EmptySeq DEF Absent
  <2>2. source' \in [Path -> Seq(Text)]
    BY <1>1, <2>1 DEF Edit, Types
  <2> QED BY <1>1, <2>2 DEF Edit, Types, flags
<1>2. CASE startProcess
  <2>1. <<>> \in Seq(ObjectFiles)
    BY EmptySeq
  <2>2. args' \in Seq(Word)
    BY <1>2, DriverAssumption DEF startProcess
  <2> QED BY <1>2, <2>1, <2>2 DEF startProcess, Types
<1>3. CASE CFlag
  BY <1>3 DEF CFlag, At, Types
<1>4. CASE Output
  <2>1. i + 1 \in 1 .. Len(args)
    BY <1>4, LenProperties DEF Output, At, TakesOutput, Types
  <2>2. args[i + 1] \in Word
    BY <2>1, ElementOfSeq DEF Types
  <2> QED BY <1>4, <2>2 DEF Output, At, Types
<1>5. CASE Skip
  BY <1>5 DEF Skip, At, Types, flags
<1>6. CASE Source
  <2>1. i \in DOMAIN args /\ args[i] \in Word
    BY <1>6, LenProperties DEF Source, At, Types
  <2>2. args[i] \in DOMAIN Stem
    BY <1>6, <2>1 DEF Source, IsFlag, Word
  <2> QED BY <1>6, <2>1, <2>2 DEF Source, At, Types, flags
<1>7. CASE commandForPreprocessing
  <2>1. Preprocessed(args[i]) \in File
    BY <1>7, Files DEF commandForPreprocessing, Types
  <2>2. (IF args[i] \in Path THEN source[args[i]] ELSE Absent) \in Seq(Text)
    BY EmptySeq DEF Absent, Types
  <2>3. disk' \in [File -> Seq(Text)] /\ trouble' \in {"none", "failed", "unstarted"}
    BY <1>7, <2>1, <2>2, CommandDoes DEF commandForPreprocessing
  <2> QED BY <1>7, <2>3 DEF commandForPreprocessing, Types, flags
<1>8. CASE compileFile
  <2>1. Preprocessed(args[i]) \in File /\ AsmFile(args[i]) \in File
    BY <1>8, Files DEF compileFile, Types
  <2>2. disk[Preprocessed(args[i])] \in Seq(Text)
    BY <2>1 DEF Types
  <2>3. disk' \in [File -> Seq(Text)]
    BY <1>8, <2>1, <2>2 DEF compileFile, Types
  <2> QED BY <1>8, <2>3 DEF compileFile, Exit, Types, flags
<1>9. CASE commandForObjectFile
  <2>1. AsmFile(args[i]) \in File /\ ObjectFile(args[i]) \in File
    BY <1>9, Files DEF commandForObjectFile, Types
  <2>2. disk[AsmFile(args[i])] \in Seq(Text)
    BY <2>1 DEF Types
  <2>3. disk' \in [File -> Seq(Text)] /\ trouble' \in {"none", "failed", "unstarted"}
    BY <1>9, <2>1, <2>2, CommandDoes DEF commandForObjectFile
  <2>4. objectFileNames' \in Seq(ObjectFiles)
    <3>1. ObjectFile(args[i]) \in ObjectFiles
      BY <1>9 DEF commandForObjectFile, Types, ObjectFiles
    <3> QED BY <1>9, <3>1, AppendProperties DEF commandForObjectFile, Collected, Types
  <2> QED BY <1>9, <2>3, <2>4 DEF commandForObjectFile, Types, flags
<1>10. CASE generateExecutableCommand
  <2> DEFINE content == IF Absent \in Range(Objects) THEN Absent ELSE FlattenSeq(Objects)
  <2>1. content \in Seq(Text)
    BY LinkedTypes, EmptySeq DEF Absent
  <2>2. disk' \in [File -> Seq(Text)] /\ trouble' \in {"none", "failed", "unstarted"}
    <3>1. CASE Objects = <<>>
      BY <1>10, <3>1 DEF generateExecutableCommand, Types
    <3>2. CASE Objects # <<>>
      <4>1. Command(Executable(executableNameToUse), content)
        BY <1>10, <3>2 DEF generateExecutableCommand
      <4> HIDE DEF content
      <4> QED BY <4>1, <2>1, ExecutableTypes, CommandDoes
    <3> QED BY <3>1, <3>2
  <2> QED BY <1>10, <2>2 DEF generateExecutableCommand, Exit, Types, flags
<1>11. CASE ObjectsOnly
  BY <1>11 DEF ObjectsOnly, Exit, Types, flags
<1>12. CASE UNCHANGED vars
  BY <1>12 DEF vars, flags, Types
<1> QED
  BY <1>1, <1>2, <1>3, <1>4, <1>5, <1>6, <1>7, <1>8, <1>9, <1>10, <1>11, <1>12 DEF Next

\* Every state has the types above.
THEOREM TypesAlways == Spec => []Types
BY TypesInit, TypesNext, PTL DEF Spec

(***************************************************************************)
(* Nothing that was refused is assembled.                                  *)
(***************************************************************************)
Clean(content) == \A n \in DOMAIN content : content[n] \notin Bad

LEMMA CleanFiles ==
  OnlyAccepted <=> \A f \in File : f[2] # ".i" => Clean(disk[f])
BY DEF OnlyAccepted, Clean

LEMMA AbsentClean == Clean(Absent)
BY DEF Clean, Absent

\* What is linked of clean objects is clean.
LEMMA LinkedClean ==
  ASSUME NEW S, NEW parts \in Seq(Seq(S)), \A n \in DOMAIN parts : Clean(parts[n])
  PROVE  Clean(FlattenSeq(parts))
<1>1. FlattenSeq(parts) \in Seq(S)
  BY FlattenLaidOut
<1>2. PICK at : LaidOut(FlattenSeq(parts), at, parts)
  BY FlattenLaidOut
<1>3. ASSUME NEW p \in DOMAIN FlattenSeq(parts) PROVE FlattenSeq(parts)[p] \notin Bad
  <2>1. p \in 1 .. Len(FlattenSeq(parts))
    BY <1>1, LenProperties
  <2>2. PICK n \in 1 .. Len(parts) : \E k \in 1 .. Len(parts[n]) : p = at[n] + k
    BY <1>2, <2>1 DEF LaidOut
  <2>3. PICK k \in 1 .. Len(parts[n]) : p = at[n] + k
    BY <2>2
  <2>4. FlattenSeq(parts)[p] = parts[n][k]
    BY <1>2, <2>3 DEF LaidOut
  <2>5. n \in DOMAIN parts /\ parts[n] \in Seq(S)
    BY LenProperties
  <2>6. k \in DOMAIN parts[n]
    BY <2>5, LenProperties
  <2> QED BY <2>4, <2>5, <2>6 DEF Clean
<1> QED BY <1>3 DEF Clean

\* A command that makes a file of clean content keeps all files clean.
LEMMA CommandClean ==
  ASSUME Types, OnlyAccepted, NEW file \in File, NEW content \in Seq(Text), Command(file, content),
         file[2] # ".i" => Clean(content)
  PROVE  OnlyAccepted'
<1>1. ASSUME NEW f \in File, f[2] # ".i" PROVE Clean(disk'[f])
  <2>1. CASE f # file
    BY <1>1, <2>1, CommandDoes, CleanFiles
  <2>2. CASE f = file
    BY <1>1, <2>2, CommandDoes, CleanFiles, AbsentClean
  <2> QED BY <2>1, <2>2
<1> QED BY <1>1 DEF OnlyAccepted, Clean

LEMMA AcceptedNext == Types /\ OnlyAccepted /\ [Next]_vars => OnlyAccepted'
<1> SUFFICES ASSUME Types, OnlyAccepted, [Next]_vars PROVE OnlyAccepted'
  OBVIOUS
<1>1. CASE UNCHANGED disk
  BY <1>1 DEF OnlyAccepted
<1>2. CASE commandForPreprocessing
  <2> DEFINE content == IF args[i] \in Path THEN source[args[i]] ELSE Absent
  <2>1. Preprocessed(args[i]) \in File /\ Preprocessed(args[i])[2] = ".i"
    BY <1>2, Files DEF commandForPreprocessing, Types, Preprocessed
  <2>2. content \in Seq(Text)
    BY EmptySeq DEF Absent, Types
  <2>3. Command(Preprocessed(args[i]), content)
    BY <1>2 DEF commandForPreprocessing
  <2> HIDE DEF content
  <2> QED BY <2>1, <2>2, <2>3, CommandClean
<1>3. CASE compileFile
  <2>1. Preprocessed(args[i]) \in File /\ AsmFile(args[i]) \in File
    BY <1>3, Files DEF compileFile, Types
  <2>2. CASE Refuses(disk[Preprocessed(args[i])])
    BY <1>1, <1>3, <2>2 DEF compileFile
  <2>3. CASE ~Refuses(disk[Preprocessed(args[i])])
    <3>1. Clean(disk[Preprocessed(args[i])])
      BY <2>3 DEF Refuses, Clean, Range
    <3>2. disk' = [disk EXCEPT ![AsmFile(args[i])] = disk[Preprocessed(args[i])]]
      BY <1>3, <2>3 DEF compileFile
    <3>3. ASSUME NEW f \in File, f[2] # ".i" PROVE Clean(disk'[f])
      BY <2>1, <3>1, <3>2, <3>3, CleanFiles DEF Types
    <3> QED BY <3>3 DEF OnlyAccepted, Clean
  <2> QED BY <2>2, <2>3
<1>4. CASE commandForObjectFile
  <2>1. AsmFile(args[i]) \in File /\ ObjectFile(args[i]) \in File
    BY <1>4, Files DEF commandForObjectFile, Types
  <2>2. disk[AsmFile(args[i])] \in Seq(Text)
    BY <2>1 DEF Types
  <2>3. Clean(disk[AsmFile(args[i])])
    BY <2>1, CleanFiles DEF AsmFile
  <2>4. Command(ObjectFile(args[i]), disk[AsmFile(args[i])])
    BY <1>4 DEF commandForObjectFile
  <2> QED BY <2>1, <2>2, <2>3, <2>4, CommandClean
<1>5. CASE generateExecutableCommand
  <2> DEFINE content == IF Absent \in Range(Objects) THEN Absent ELSE FlattenSeq(Objects)
  <2>1. content \in Seq(Text)
    BY LinkedTypes, EmptySeq DEF Absent
  <2>2. ASSUME NEW n \in DOMAIN Objects PROVE Clean(Objects[n])
    <3>1. n \in DOMAIN objectFileNames /\ objectFileNames[n] \in ObjectFiles
      BY <2>2, LenProperties DEF Objects, Types
    <3>2. objectFileNames[n] \in File /\ objectFileNames[n][2] # ".i"
      BY <3>1, Files DEF ObjectFiles, ObjectFile
    <3> QED BY <3>1, <3>2, CleanFiles DEF Objects
  <2>3. Clean(content)
    BY <2>2, LinkedTypes, LinkedClean, AbsentClean
  <2>4. CASE Objects = <<>>
    BY <1>1, <1>5, <2>4 DEF generateExecutableCommand
  <2>5. CASE Objects # <<>>
    <3>1. Command(Executable(executableNameToUse), content)
      BY <1>5, <2>5 DEF generateExecutableCommand
    <3> HIDE DEF content
    <3> QED BY <2>1, <2>3, <3>1, ExecutableTypes, CommandClean
  <2> QED BY <2>4, <2>5
<1> QED
  BY <1>1, <1>2, <1>3, <1>4, <1>5
  DEF Next, vars, Edit, startProcess, CFlag, Output, Skip, Source, ObjectsOnly

\* Nothing that was refused gets into an assembly file, an object or an
\* executable, for any command lines and any failures.  (compileFile)
THEOREM OnlyAcceptedAlways == Spec => []OnlyAccepted
<1>1. Init => OnlyAccepted
  BY DEF Init, OnlyAccepted, Absent
<1>2. Types /\ OnlyAccepted /\ [Next]_vars => OnlyAccepted'
  BY AcceptedNext
<1> QED BY <1>1, <1>2, TypesAlways, PTL DEF Spec

(***************************************************************************)
(* The sources among the first words of a command line.                    *)
(***************************************************************************)
IfSource(word) == IF word \in Path THEN <<word>> ELSE <<>>
SourcesIn(words, n) == FlattenSeq([k \in 1 .. n |-> IfSource(words[k])])

LEMMA IfSourceTypes == \A word : IfSource(word) \in Seq(Path)
<1>1. \A word : word \in Path => <<word>> \in Seq(Path)
  OBVIOUS
<1> QED BY <1>1, EmptySeq DEF IfSource

LEMMA SourcesInTypes ==
  ASSUME NEW words, NEW n \in Nat
  PROVE  /\ [k \in 1 .. n |-> IfSource(words[k])] \in Seq(Seq(Path))
         /\ SourcesIn(words, n) \in Seq(Path)
<1>1. [k \in 1 .. n |-> IfSource(words[k])] \in [1 .. n -> Seq(Path)]
  BY IfSourceTypes
<1>2. [k \in 1 .. n |-> IfSource(words[k])] \in Seq(Seq(Path))
  BY <1>1
<1> QED BY <1>2, FlattenLaidOut DEF SourcesIn

LEMMA NoneAtFirst == \A words : SourcesIn(words, 0) = <<>>
<1>1. \A words : [k \in 1 .. 0 |-> IfSource(words[k])] = <<>>
  OBVIOUS
<1> QED BY <1>1, LaidOutEmpty DEF SourcesIn

LEMMA OneMore ==
  ASSUME NEW words, NEW n \in Nat
  PROVE  SourcesIn(words, n + 1) = SourcesIn(words, n) \o IfSource(words[n + 1])
<1> DEFINE few == [k \in 1 .. n |-> IfSource(words[k])]
           more == [k \in 1 .. n + 1 |-> IfSource(words[k])]
<1>1. few \in Seq(Seq(Path)) /\ more \in Seq(Seq(Path)) /\ IfSource(words[n + 1]) \in Seq(Path)
  BY SourcesInTypes, IfSourceTypes
<1>2. Len(few) = n /\ Len(more) = n + 1
  OBVIOUS
<1>3. /\ Append(few, IfSource(words[n + 1])) \in Seq(Seq(Path))
      /\ Len(Append(few, IfSource(words[n + 1]))) = n + 1
      /\ \A k \in 1 .. n : Append(few, IfSource(words[n + 1]))[k] = few[k]
      /\ Append(few, IfSource(words[n + 1]))[n + 1] = IfSource(words[n + 1])
  <2> HIDE DEF few
  <2> QED BY <1>1, <1>2, AppendProperties
<1>4. ASSUME NEW k \in 1 .. n + 1
      PROVE  Append(few, IfSource(words[n + 1]))[k] = more[k]
  <2>1. more[k] = IfSource(words[k])
    OBVIOUS
  <2>2. k \in 1 .. n => few[k] = IfSource(words[k])
    OBVIOUS
  <2> HIDE DEF few, more
  <2> QED BY <1>3, <2>1, <2>2
<1>5. Append(few, IfSource(words[n + 1])) = more
  <2> HIDE DEF few, more
  <2> QED BY <1>1, <1>2, <1>3, <1>4, SeqEqual
<1>6. FlattenSeq(Append(few, IfSource(words[n + 1]))) = FlattenSeq(few) \o IfSource(words[n + 1])
  <2> HIDE DEF few
  <2> QED BY <1>1, FlattenAppend
<1> QED BY <1>5, <1>6 DEF SourcesIn

LEMMA SourcesAreIn ==
  ASSUME args \in Seq(Word)
  PROVE  Sources = SourcesIn(args, Len(args))
BY LenProperties DEF Sources, SourcesIn, IfSource

\* They are the words that are paths, and no others.
LEMMA SourcesRange ==
  ASSUME NEW words, NEW n \in Nat
  PROVE  /\ \A k \in 1 .. n :
              words[k] \in Path =>
                \E m \in DOMAIN SourcesIn(words, n) : SourcesIn(words, n)[m] = words[k]
         /\ \A m \in DOMAIN SourcesIn(words, n) :
              \E k \in 1 .. n : words[k] \in Path /\ SourcesIn(words, n)[m] = words[k]
<1> DEFINE parts == [k \in 1 .. n |-> IfSource(words[k])]
<1>1. parts \in Seq(Seq(Path)) /\ Len(parts) = n
  <2>1. parts \in Seq(Seq(Path))
    BY SourcesInTypes, Zenon
  <2>2. Len(parts) = n
    OBVIOUS
  <2> QED BY <2>1, <2>2
<1>2. PICK at : LaidOut(SourcesIn(words, n), at, parts)
  <2> HIDE DEF parts
  <2>1. \E at : LaidOut(FlattenSeq(parts), at, parts)
    BY <1>1, FlattenLaidOut
  <2> QED BY <2>1 DEF SourcesIn, parts
<1>3. SourcesIn(words, n) \in Seq(Path)
  BY SourcesInTypes
<1>4. DOMAIN SourcesIn(words, n) = 1 .. Len(SourcesIn(words, n))
  BY <1>3, LenProperties
<1>5. \A k \in 1 .. n : parts[k] = IfSource(words[k])
  OBVIOUS
<1> HIDE DEF parts
<1>6. ASSUME NEW k \in 1 .. n, words[k] \in Path
      PROVE  \E m \in DOMAIN SourcesIn(words, n) : SourcesIn(words, n)[m] = words[k]
  <2>1. parts[k] = <<words[k]>>
    BY <1>5, <1>6 DEF IfSource
  <2>2. Len(parts[k]) = 1 /\ parts[k][1] = words[k]
    BY <2>1
  <2>3. /\ at[k] \in Nat /\ at[k + 1] \in Nat
        /\ at[k + 1] = at[k] + 1
        /\ SourcesIn(words, n)[at[k] + 1] = words[k]
    <3>1. k \in 1 .. Len(parts) /\ 1 \in 1 .. Len(parts[k])
      BY <1>1, <2>2
    <3>2. k \in 1 .. Len(parts) + 1 /\ k + 1 \in 1 .. Len(parts) + 1
      BY <3>1, <1>1
    <3>3. at[k] \in Nat /\ at[k + 1] \in Nat
      BY <1>2, <3>2 DEF LaidOut
    <3>4. at[k + 1] = at[k] + 1
      BY <1>2, <2>2, <3>1 DEF LaidOut
    <3>5. SourcesIn(words, n)[at[k] + 1] = parts[k][1]
      BY <1>2, <3>1 DEF LaidOut
    <3> QED BY <2>2, <3>3, <3>4, <3>5
  <2>4. at[k + 1] <= at[n + 1] /\ at[n + 1] = Len(SourcesIn(words, n))
    BY <1>1, <1>2 DEF LaidOut
  <2>5. at[k] + 1 \in DOMAIN SourcesIn(words, n)
    <3>1. Len(SourcesIn(words, n)) \in Nat
      BY <1>3, LenProperties
    <3> QED BY <2>3, <2>4, <1>4, <3>1
  <2> QED BY <2>3, <2>5
<1>7. ASSUME NEW m \in DOMAIN SourcesIn(words, n)
      PROVE  \E k \in 1 .. n : words[k] \in Path /\ SourcesIn(words, n)[m] = words[k]
  <2>1. PICK k \in 1 .. n : \E j \in 1 .. Len(parts[k]) : m = at[k] + j
    BY <1>1, <1>2, <1>4 DEF LaidOut
  <2>2. PICK j \in 1 .. Len(parts[k]) : m = at[k] + j
    BY <2>1
  <2>3. SourcesIn(words, n)[m] = parts[k][j]
    BY <1>1, <1>2, <2>2 DEF LaidOut
  <2>4. words[k] \in Path
    <3> SUFFICES ASSUME words[k] \notin Path PROVE FALSE
      OBVIOUS
    <3>1. parts[k] = <<>>
      BY <1>5 DEF IfSource
    <3>2. Len(parts[k]) = 0
      BY <3>1
    <3> QED BY <2>2, <3>2
  <2>5. parts[k] = <<words[k]>>
    BY <1>5, <2>4 DEF IfSource
  <2>6. j = 1
    BY <2>2, <2>5
  <2> QED BY <2>3, <2>4, <2>5, <2>6
<1> QED BY <1>6, <1>7

\* Unless sources share files, an object file belongs to one word.
LEMMA NoneShared ==
  ASSUME Types, ~Shared, NEW m \in 1 .. Len(args), NEW n \in 1 .. Len(args),
         args[m] \in Path, args[n] \in Path, ObjectFile(args[m]) = ObjectFile(args[n])
  PROVE  args[m] = args[n]
<1>1. Len(args) \in Nat
  BY LenProperties DEF Types
<1>2. Sources = SourcesIn(args, Len(args))
  BY SourcesAreIn DEF Types
<1>3. PICK a \in DOMAIN Sources : Sources[a] = args[m]
  BY <1>1, <1>2, SourcesRange
<1>4. PICK b \in DOMAIN Sources : Sources[b] = args[n]
  BY <1>1, <1>2, SourcesRange
<1>5. Stem[args[m]] = Stem[args[n]]
  BY DEF ObjectFile
<1> QED BY <1>3, <1>4, <1>5 DEF Shared

(***************************************************************************)
(* How far an invocation has come.  What is promised at its end is true of *)
(* the words behind it all the time.                                       *)
(***************************************************************************)
Working == step \in {"arguments", "preprocess", "compile", "assemble"}
Promised == trouble # "unstarted" /\ ~Shared /\ ~PassedOver

\* No command has run before there is an object.
NothingYet == step = "arguments" /\ objectFileNames = <<>> => trouble = "none"

\* The last "-o" so far is the one that counts.
NameSoFar ==
  /\ outputSpecified =>
       \E n \in 1 .. i - 2 :
         /\ args[n] = "-o" /\ finalExecutableName = args[n + 1]
         /\ \A m \in n + 1 .. i - 1 : args[m] # "-o"
  /\ ~outputSpecified =>
       finalExecutableName = "a.out" /\ \A m \in 1 .. i - 1 : args[m] # "-o"

Named == Working /\ Promised => NameSoFar

Collecting ==
  Working /\ Promised =>
    /\ objectFileNames =
         [k \in DOMAIN SourcesIn(args, i - 1) |-> ObjectFile(SourcesIn(args, i - 1)[k])]
    /\ \A k \in 1 .. i - 1 : args[k] \in Path => Made(ObjectFile(args[k]), source[args[k]])

\* The word in hand: what its .i and .s files hold.
InHand ==
  Promised =>
    /\ step = "compile" =>
         Made(Preprocessed(args[i]), IF args[i] \in Path THEN source[args[i]] ELSE Absent)
    /\ step = "assemble" => args[i] \in Path /\ disk[AsmFile(args[i])] = source[args[i]]

Progress ==
  /\ Types
  /\ Working => i <= Len(args) + 1
  /\ NothingYet /\ Named /\ Collecting /\ InHand

LEMMA ArgsTypes ==
  ASSUME Types
  PROVE  Len(args) \in Nat /\ DOMAIN args = 1 .. Len(args) /\ i \in Nat /\ i >= 1
BY LenProperties DEF Types

\* What is promised after a step was promised before it.
LEMMA PromisedBefore ==
  ASSUME Promised', args' = args, trouble = "unstarted" => trouble' = "unstarted"
  PROVE  Promised
BY DEF Promised, Shared, Sources, PassedOver

LEMMA SourceIsStem == \A w \in Path : w \in DOMAIN Stem
BY DriverAssumption

\* Neither a source nor an "-o" is taken for the executable.
LEMMA NotTheExecutable ==
  ASSUME Types, Named, Working, Promised, i <= Len(args), args[i] \in Path \cup {"-o"}
  PROVE  args[i] # finalExecutableName
<1>1. \A n \in DOMAIN args :
        /\ args[n] \notin Path \cap {"a.out"}
        /\ ~ (args[n] \in Path \cup {"-o"} /\ n > 1 /\ args[n - 1] = "-o")
  BY DEF Promised, PassedOver
<1>2. i \in DOMAIN args
  BY ArgsTypes
<1>3. CASE outputSpecified
  <2>1. PICK n \in 1 .. i - 2 : args[n] = "-o" /\ finalExecutableName = args[n + 1]
    BY <1>3 DEF Named, NameSoFar
  <2>2. n + 1 \in DOMAIN args /\ n + 1 > 1 /\ (n + 1) - 1 = n
    BY ArgsTypes
  <2>3. args[n + 1] \notin Path \cup {"-o"}
    BY <1>1, <2>1, <2>2
  <2> QED BY <2>1, <2>3
<1>4. CASE ~outputSpecified
  <2>1. finalExecutableName = "a.out"
    BY <1>4 DEF Named, NameSoFar
  <2> QED BY <1>1, <1>2, <2>1
<1> QED BY <1>3, <1>4

\* What is skipped is neither.
LEMMA SkippedIsNone ==
  ASSUME Types, Named, Promised, Skip
  PROVE  args[i] \notin Path \cup {"-o"}
<1>1. SUFFICES ASSUME args[i] \in Path \cup {"-o"} PROVE FALSE
  OBVIOUS
<1>2. args[i] # finalExecutableName
  BY <1>1, NotTheExecutable DEF Skip, At, Working
<1>3. args[i] \notin Skipped \cup Library \cup {"-c"}
  BY <1>1, DriverAssumption DEF Skipped
<1> QED BY <1>2, <1>3 DEF Skip, IsFlag

LEMMA NamedNext == Progress /\ [Next]_vars => Named'
<1> SUFFICES ASSUME Progress, [Next]_vars, Working', Promised'
             PROVE  NameSoFar'
  BY DEF Named
<1>1. Types /\ Named /\ InHand
  BY DEF Progress
<1>2. ASSUME Working, Promised, args' = args, i' = i \/ (i' = i + 1 /\ args[i] # "-o"),
             UNCHANGED <<finalExecutableName, outputSpecified>>
      PROVE  NameSoFar'
  <2>1. CASE outputSpecified
    <3>1. PICK n \in 1 .. i - 2 :
            /\ args[n] = "-o" /\ finalExecutableName = args[n + 1]
            /\ \A m \in n + 1 .. i - 1 : args[m] # "-o"
      BY <1>1, <1>2, <2>1 DEF Named, NameSoFar
    <3>2. n \in 1 .. i' - 2 /\ args'[n] = "-o" /\ finalExecutableName' = args'[n + 1]
      BY <1>1, <1>2, <3>1, ArgsTypes
    <3>3. \A m \in n + 1 .. i' - 1 : args'[m] # "-o"
      BY <1>1, <1>2, <3>1, ArgsTypes
    <3> QED BY <1>2, <2>1, <3>2, <3>3 DEF NameSoFar
  <2>2. CASE ~outputSpecified
    <3>1. finalExecutableName = "a.out" /\ \A m \in 1 .. i - 1 : args[m] # "-o"
      BY <1>1, <1>2, <2>2 DEF Named, NameSoFar
    <3>2. \A m \in 1 .. i' - 1 : args'[m] # "-o"
      BY <1>1, <1>2, <3>1, ArgsTypes
    <3> QED BY <1>2, <2>2, <3>1, <3>2 DEF NameSoFar
  <2> QED BY <2>1, <2>2
<1>3. CASE startProcess
  <2>1. i' = 1 /\ finalExecutableName' = "a.out" /\ ~outputSpecified'
    BY <1>3 DEF startProcess
  <2>2. \A m \in 1 .. i' - 1 : args'[m] # "-o"
    BY <2>1
  <2> QED BY <2>1, <2>2 DEF NameSoFar
<1>4. CASE Output
  <2>1. /\ i' = i + 2 /\ outputSpecified' /\ finalExecutableName' = args[i + 1] /\ args' = args
        /\ args[i] = "-o" /\ i < Len(args)
    BY <1>4 DEF Output, At, TakesOutput
  <2>2. i + 1 \in DOMAIN args /\ i + 1 > 1 /\ (i + 1) - 1 = i
    BY <1>1, <2>1, ArgsTypes
  <2>3. args'[i + 1] # "-o"
    BY <2>1, <2>2 DEF Promised, PassedOver
  <2>4. i \in 1 .. i' - 2 /\ \A m \in i + 1 .. i' - 1 : args'[m] # "-o"
    BY <1>1, <2>1, <2>3, ArgsTypes
  <2> QED BY <2>1, <2>4 DEF NameSoFar
<1>5. CASE CFlag
  <2>1. Promised
    BY <1>5, PromisedBefore DEF CFlag
  <2> QED BY <1>2, <1>5, <2>1 DEF CFlag, At, Working
<1>6. CASE Skip
  <2>1. Promised
    BY <1>6, PromisedBefore DEF Skip
  <2>2. args[i] # "-o"
    BY <1>1, <1>6, <2>1, SkippedIsNone
  <2> QED BY <1>2, <1>6, <2>1, <2>2 DEF Skip, At, Working, flags
<1>7. CASE Source
  <2>1. Promised
    BY <1>7, PromisedBefore DEF Source
  <2>2. i' = i
    BY <1>1, <1>7, ArgsTypes DEF Source, At
  <2>3. Working /\ args' = args /\ UNCHANGED <<finalExecutableName, outputSpecified>>
    BY <1>7 DEF Source, At, Working, flags
  <2> QED BY <1>2, <2>1, <2>2, <2>3, Zenon
<1>8. CASE commandForPreprocessing
  <2>1. Promised
    BY <1>8, PromisedBefore DEF commandForPreprocessing, Command
  <2>2. Working /\ args' = args /\ i' = i /\ UNCHANGED <<finalExecutableName, outputSpecified>>
    BY <1>8 DEF commandForPreprocessing, Working, flags
  <2> QED BY <1>2, <2>1, <2>2
<1>9. CASE compileFile
  <2>1. Promised
    BY <1>9, PromisedBefore DEF compileFile
  <2>2. Working /\ args' = args /\ i' = i /\ UNCHANGED <<finalExecutableName, outputSpecified>>
    BY <1>9 DEF compileFile, Working, flags
  <2> QED BY <1>2, <2>1, <2>2
<1>10. CASE commandForObjectFile
  <2>1. Promised
    BY <1>10, PromisedBefore DEF commandForObjectFile, Command
  <2>2. args[i] \in Path
    BY <1>1, <1>10, <2>1 DEF commandForObjectFile, InHand
  <2>3. args[i] # "-o"
    BY <2>2, DriverAssumption
  <2>4. Working /\ args' = args /\ i' = i + 1 /\ UNCHANGED <<finalExecutableName, outputSpecified>>
    BY <1>10 DEF commandForObjectFile, Working, flags
  <2> QED BY <1>2, <2>1, <2>3, <2>4
<1>11. CASE Edit \/ generateExecutableCommand \/ ObjectsOnly
  BY <1>11 DEF Edit, generateExecutableCommand, ObjectsOnly, Exit, Working
<1>12. CASE UNCHANGED vars
  <2>1. Promised
    BY <1>12, PromisedBefore DEF vars
  <2>2. Working /\ args' = args /\ i' = i /\ UNCHANGED <<finalExecutableName, outputSpecified>>
    BY <1>12 DEF vars, flags, Working
  <2> QED BY <1>2, <2>1, <2>2
<1> QED
  BY <1>3, <1>4, <1>5, <1>6, <1>7, <1>8, <1>9, <1>10, <1>11, <1>12 DEF Next

\* A word that is no source adds none.
LEMMA NoSource ==
  ASSUME NEW words, NEW n \in Nat, words[n + 1] \notin Path
  PROVE  SourcesIn(words, n + 1) = SourcesIn(words, n)
<1>1. IfSource(words[n + 1]) = <<>>
  BY DEF IfSource
<1>2. SourcesIn(words, n) \in Seq(Path)
  BY SourcesInTypes
<1>3. SourcesIn(words, n) \o <<>> = SourcesIn(words, n)
  BY <1>2, ConcatEmptySeq
<1>4. SourcesIn(words, n + 1) = SourcesIn(words, n) \o IfSource(words[n + 1])
  BY OneMore
<1> QED BY <1>1, <1>3, <1>4

\* A step that leaves the objects so far as they are, behind words that are no
\* sources.
LEMMA CollectingKept ==
  ASSUME Types, Types', Collecting, Working, Promised, args' = args,
         UNCHANGED <<source, objectFileNames>>,
         NEW n \in 0 .. 2, i' = i + n, \A k \in i .. i + n - 1 : args[k] \notin Path,
         i + n - 1 <= Len(args),
         \A k \in 1 .. i - 1 : args[k] \in Path => disk'[ObjectFile(args[k])] = disk[ObjectFile(args[k])],
         trouble # "none" => trouble' # "none"
  PROVE  Collecting'
<1>1. i \in Nat /\ i >= 1
  BY ArgsTypes
<1>2. SourcesIn(args, i + n - 1) = SourcesIn(args, i - 1)
  <2>1. CASE n = 0
    <3>1. i + n - 1 = i - 1
      BY <1>1, <2>1
    <3> QED BY <3>1
  <2>2. CASE n = 1
    <3>1. i - 1 \in Nat /\ (i - 1) + 1 = i /\ i + n - 1 = i /\ i \in i .. i + n - 1
      BY <1>1, <2>2
    <3>2. args[i] \notin Path
      BY <3>1
    <3>3. SourcesIn(args, (i - 1) + 1) = SourcesIn(args, i - 1)
      BY <3>1, <3>2, NoSource
    <3> QED BY <3>1, <3>3
  <2>3. CASE n = 2
    <3>1. /\ i - 1 \in Nat /\ (i - 1) + 1 = i /\ i + n - 1 = i + 1
          /\ i \in i .. i + n - 1 /\ i + 1 \in i .. i + n - 1
      BY <1>1, <2>3
    <3>2. args[i] \notin Path /\ args[i + 1] \notin Path
      BY <3>1
    <3>3. SourcesIn(args, (i - 1) + 1) = SourcesIn(args, i - 1)
      BY <3>1, <3>2, NoSource
    <3>4. SourcesIn(args, i + 1) = SourcesIn(args, i)
      BY <1>1, <3>2, NoSource
    <3> QED BY <3>1, <3>3, <3>4
  <2> QED BY <2>1, <2>2, <2>3
<1>3. i' - 1 = i + n - 1
  BY <1>1
<1>4. objectFileNames' =
        [k \in DOMAIN SourcesIn(args', i' - 1) |-> ObjectFile(SourcesIn(args', i' - 1)[k])]
  BY <1>2, <1>3 DEF Collecting
<1>5. ASSUME NEW k \in 1 .. i' - 1, args'[k] \in Path
      PROVE  \/ disk'[ObjectFile(args'[k])] = source'[args'[k]]
             \/ trouble' # "none" /\ disk'[ObjectFile(args'[k])] = Absent
  <2>1. k \in 1 .. i - 1
    BY <1>1, <1>3, <1>5
  <2>2. Made(ObjectFile(args[k]), source[args[k]])
    BY <1>5, <2>1 DEF Collecting
  <2> QED BY <1>5, <2>1, <2>2 DEF Made
<1> QED BY <1>4, <1>5 DEF Collecting, Made, ObjectFile

\* The object of the word in hand.
LEMMA CollectingMore ==
  ASSUME Types, Types', Collecting, InHand, Promised, Promised', commandForObjectFile, i <= Len(args)
  PROVE  Collecting'
<1> DEFINE few == SourcesIn(args, i - 1)
           more == SourcesIn(args, i)
           w == args[i]
<1>1. i - 1 \in Nat /\ (i - 1) + 1 = i /\ i \in 1 .. Len(args) /\ Len(args) \in Nat
  BY ArgsTypes
<1>2. w \in Path /\ disk[AsmFile(w)] = source[w]
  BY DEF InHand, commandForObjectFile
<1>3. few \in Seq(Path) /\ more = few \o <<w>>
  <2>1. SourcesIn(args, (i - 1) + 1) = SourcesIn(args, i - 1) \o IfSource(args[(i - 1) + 1])
    BY <1>1, OneMore
  <2> QED BY <1>1, <1>2, <2>1, SourcesInTypes DEF IfSource
<1>4. /\ more \in Seq(Path) /\ Len(more) = Len(few) + 1 /\ Len(few) \in Nat
      /\ \A k \in 1 .. Len(few) : more[k] = few[k]
      /\ more[Len(few) + 1] = w
  <2>1. <<w>> \in Seq(Path) /\ Len(<<w>>) = 1 /\ <<w>>[1] = w
    BY <1>2
  <2> HIDE DEF few, w
  <2>2. Len(few) \in Nat
    BY <1>3, LenProperties
  <2> HIDE DEF more
  <2> QED BY <1>3, <2>1, <2>2, ConcatProperties
<1>5. objectFileNames = [k \in DOMAIN few |-> ObjectFile(few[k])]
  BY DEF Collecting, Working, commandForObjectFile
<1>6. objectFileNames' = Append(objectFileNames, ObjectFile(w))
  BY DEF commandForObjectFile, Collected
<1>7. objectFileNames' = [k \in DOMAIN more |-> ObjectFile(more[k])]
  <2> HIDE DEF few, more, w
  <2>1. DOMAIN few = 1 .. Len(few) /\ DOMAIN more = 1 .. Len(few) + 1
    BY <1>3, <1>4, LenProperties
  <2>2. Len(objectFileNames) = Len(few)
    BY <1>4, <1>5, <2>1
  <2>3. objectFileNames' \in Seq(ObjectFiles) /\ ObjectFile(w) \in ObjectFiles
    BY <1>2, SourceIsStem DEF Types, ObjectFiles
  <2>4. /\ Len(objectFileNames') = Len(few) + 1
        /\ \A k \in 1 .. Len(few) : objectFileNames'[k] = objectFileNames[k]
        /\ objectFileNames'[Len(few) + 1] = ObjectFile(w)
    BY <1>6, <2>2, <2>3, AppendProperties DEF Types
  <2>5. DOMAIN objectFileNames' = 1 .. Len(few) + 1
    BY <2>3, <2>4, LenProperties
  <2>6. objectFileNames' = [k \in DOMAIN objectFileNames' |-> objectFileNames'[k]]
    BY <2>3, LenProperties
  <2>7. ASSUME NEW k \in 1 .. Len(few) + 1 PROVE objectFileNames'[k] = ObjectFile(more[k])
    <3>1. CASE k = Len(few) + 1
      BY <3>1, <2>4, <1>4
    <3>2. CASE k # Len(few) + 1
      <4>1. k \in 1 .. Len(few)
        BY <3>2, <1>4
      <4> QED BY <4>1, <2>1, <2>4, <1>4, <1>5
    <3> QED BY <3>1, <3>2
  <2> QED BY <2>1, <2>5, <2>6, <2>7
<1>8. AsmFile(w) \in File /\ ObjectFile(w) \in File
  BY <1>2, SourceIsStem, Files
<1>9. /\ \A f \in File : f # ObjectFile(w) => disk'[f] = disk[f]
      /\ trouble # "none" => trouble' # "none"
      /\ disk'[ObjectFile(w)] = source[w] \/ (trouble' # "none" /\ disk'[ObjectFile(w)] = Absent)
  <2>1. disk[AsmFile(w)] \in Seq(Text)
    BY <1>8 DEF Types
  <2>2. Command(ObjectFile(w), disk[AsmFile(w)])
    BY DEF commandForObjectFile
  <2>3. trouble' # "unstarted"
    BY DEF Promised
  <2> HIDE DEF w
  <2> QED BY <1>2, <1>8, <2>1, <2>2, <2>3, CommandDoes
<1>10. source' = source /\ args' = args /\ i' - 1 = i
  BY <1>1 DEF commandForObjectFile
<1>11. ASSUME NEW k \in 1 .. i' - 1, args'[k] \in Path
       PROVE  \/ disk'[ObjectFile(args'[k])] = source'[args'[k]]
              \/ trouble' # "none" /\ disk'[ObjectFile(args'[k])] = Absent
  <2>1. k \in 1 .. i /\ args[k] \in Path
    BY <1>10, <1>11
  <2>2. CASE ObjectFile(args[k]) = ObjectFile(w)
    <3>1. k \in 1 .. Len(args)
      BY <2>1, <1>1
    <3>2. args[k] = w
      BY <1>1, <1>2, <2>1, <2>2, <3>1, NoneShared DEF Promised
    <3> QED BY <3>2, <1>9, <1>10
  <2>3. CASE ObjectFile(args[k]) # ObjectFile(w)
    <3>1. k \in 1 .. i - 1
      BY <2>1, <2>3, <1>1
    <3>2. Made(ObjectFile(args[k]), source[args[k]])
      BY <2>1, <3>1 DEF Collecting, Working, commandForObjectFile
    <3>3. disk'[ObjectFile(args[k])] = disk[ObjectFile(args[k])]
      BY <2>1, <2>3, <1>9, SourceIsStem, Files
    <3> QED BY <3>2, <3>3, <1>9, <1>10 DEF Made
  <2> QED BY <2>2, <2>3
<1>12. objectFileNames' =
         [k \in DOMAIN SourcesIn(args', i' - 1) |-> ObjectFile(SourcesIn(args', i' - 1)[k])]
  BY <1>7, <1>10
<1> QED BY <1>11, <1>12 DEF Collecting, Made, ObjectFile

LEMMA CollectingNext == Progress /\ Types' /\ [Next]_vars => Collecting'
<1> SUFFICES ASSUME Progress, Types', [Next]_vars, Working', Promised' PROVE Collecting'
  BY DEF Collecting
<1>1. Types /\ Named /\ Collecting /\ InHand /\ i \in Nat /\ i >= 1 /\ Len(args) \in Nat
  BY ArgsTypes DEF Progress
<1>2. ASSUME Working, Promised, args' = args, i' = i, i <= Len(args) + 1,
             UNCHANGED <<source, objectFileNames>>,
             \A k \in 1 .. i - 1 :
               args[k] \in Path => disk'[ObjectFile(args[k])] = disk[ObjectFile(args[k])],
             trouble # "none" => trouble' # "none"
      PROVE  Collecting'
  <2> DEFINE n == 0
  <2>1. n \in 0 .. 2 /\ i' = i + n /\ i + n - 1 <= Len(args) /\ ~ (\E k \in i .. i + n - 1 : TRUE)
    BY <1>1, <1>2
  <2> HIDE DEF n
  <2> QED BY <1>1, <1>2, <2>1, CollectingKept
<1>3. CASE startProcess
  <2>1. i' - 1 = 0 /\ objectFileNames' = <<>>
    BY <1>3 DEF startProcess
  <2>2. SourcesIn(args', i' - 1) = <<>>
    BY <2>1, NoneAtFirst
  <2>3. objectFileNames' =
          [k \in DOMAIN SourcesIn(args', i' - 1) |-> ObjectFile(SourcesIn(args', i' - 1)[k])]
    BY <2>1, <2>2
  <2>4. ~ (\E k \in 1 .. i' - 1 : TRUE)
    BY <2>1
  <2> QED BY <2>3, <2>4 DEF Collecting, ObjectFile
<1>4. CASE CFlag
  <2>1. Promised
    BY <1>4, PromisedBefore DEF CFlag
  <2>2. /\ Working /\ args' = args /\ UNCHANGED <<source, objectFileNames>>
        /\ i' = i + 1 /\ i <= Len(args) /\ args[i] = "-c" /\ disk' = disk /\ trouble' = trouble
    BY <1>4 DEF CFlag, At, Working
  <2>3. \A k \in i .. i + 1 - 1 : args[k] \notin Path
    BY <1>1, <2>2, DriverAssumption
  <2>4. 1 \in 0 .. 2 /\ i + 1 - 1 <= Len(args)
    BY <1>1, <2>2
  <2> QED BY <1>1, <2>1, <2>2, <2>3, <2>4, CollectingKept
<1>5. CASE Output
  <2>1. Promised
    BY <1>5, PromisedBefore DEF Output
  <2>2. /\ Working /\ args' = args /\ UNCHANGED <<source, objectFileNames>>
        /\ i' = i + 2 /\ i < Len(args) /\ args[i] = "-o" /\ disk' = disk /\ trouble' = trouble
    BY <1>5 DEF Output, At, TakesOutput, Working
  <2>3. i + 1 \in DOMAIN args /\ i + 1 > 1 /\ (i + 1) - 1 = i
    BY <1>1, <2>2, ArgsTypes
  <2>4. args[i + 1] \notin Path
    BY <2>1, <2>2, <2>3 DEF Promised, PassedOver
  <2>5. \A k \in i .. i + 2 - 1 : args[k] \notin Path
    BY <1>1, <2>2, <2>4, DriverAssumption
  <2>6. 2 \in 0 .. 2 /\ i + 2 - 1 <= Len(args)
    BY <1>1, <2>2
  <2> QED BY <1>1, <2>1, <2>2, <2>5, <2>6, CollectingKept
<1>6. CASE Skip
  <2>1. Promised
    BY <1>6, PromisedBefore DEF Skip
  <2>2. /\ Working /\ args' = args /\ UNCHANGED <<source, objectFileNames>>
        /\ i' = i + 1 /\ i <= Len(args) /\ disk' = disk /\ trouble' = trouble
    BY <1>6 DEF Skip, At, Working
  <2>3. args[i] \notin Path
    BY <1>1, <1>6, <2>1, SkippedIsNone
  <2>4. \A k \in i .. i + 1 - 1 : args[k] \notin Path
    BY <1>1, <2>3
  <2>5. 1 \in 0 .. 2 /\ i + 1 - 1 <= Len(args)
    BY <1>1, <2>2
  <2> QED BY <1>1, <2>1, <2>2, <2>4, <2>5, CollectingKept
<1>7. CASE Source
  <2>1. Promised
    BY <1>7, PromisedBefore DEF Source
  <2>2. /\ Working /\ args' = args /\ UNCHANGED <<source, objectFileNames>>
        /\ i' = i /\ i <= Len(args) + 1 /\ disk' = disk /\ trouble' = trouble
    BY <1>1, <1>7 DEF Source, At, Working
  <2> QED BY <1>2, <2>1, <2>2
<1>8. CASE commandForPreprocessing
  <2> DEFINE content == IF args[i] \in Path THEN source[args[i]] ELSE Absent
  <2>1. Promised
    BY <1>8, PromisedBefore DEF commandForPreprocessing, Command
  <2>2. /\ Working /\ args' = args /\ UNCHANGED <<source, objectFileNames>>
        /\ i' = i /\ i \in DOMAIN args /\ Command(Preprocessed(args[i]), content)
        /\ args[i] \in DOMAIN Stem
    BY <1>1, <1>8 DEF commandForPreprocessing, Working, Types
  <2>3. Preprocessed(args[i]) \in File /\ content \in Seq(Text)
    BY <1>1, <2>2, Files, EmptySeq DEF Absent, Types
  <2> HIDE DEF content
  <2>4. /\ \A f \in File : f # Preprocessed(args[i]) => disk'[f] = disk[f]
        /\ trouble # "none" => trouble' # "none"
    BY <1>1, <2>2, <2>3, CommandDoes
  <2>5. \A w \in Path : disk'[ObjectFile(w)] = disk[ObjectFile(w)]
    <3>1. \A w \in Path : ObjectFile(w) # Preprocessed(args[i])
      BY DEF ObjectFile, Preprocessed
    <3> QED BY <3>1, <2>4, SourceIsStem, Files
  <2>6. i <= Len(args) + 1
    BY <1>1, <2>2, ArgsTypes
  <2> QED BY <1>2, <2>1, <2>2, <2>4, <2>5, <2>6
<1>9. CASE compileFile
  <2>1. Promised
    BY <1>9, PromisedBefore DEF compileFile
  <2>2. /\ Working /\ args' = args /\ UNCHANGED <<source, objectFileNames, trouble>>
        /\ i' = i /\ i \in DOMAIN args
    BY <1>1, <1>9 DEF compileFile, Working, Types
  <2>3. disk' = [disk EXCEPT ![AsmFile(args[i])] = disk[Preprocessed(args[i])]] \/ disk' = disk
    BY <1>9 DEF compileFile
  <2>4. \A w \in Path : disk'[ObjectFile(w)] = disk[ObjectFile(w)]
    <3>1. \A w \in Path : ObjectFile(w) # AsmFile(args[i])
      BY DEF ObjectFile, AsmFile
    <3> QED BY <1>1, <3>1, <2>3, SourceIsStem, Files DEF Types
  <2>5. i <= Len(args) + 1
    BY <1>1, <2>2, ArgsTypes
  <2> QED BY <1>2, <2>1, <2>2, <2>4, <2>5
<1>10. CASE commandForObjectFile
  <2>1. Promised
    BY <1>10, PromisedBefore DEF commandForObjectFile, Command
  <2>2. i <= Len(args)
    BY <1>1, <1>10, ArgsTypes DEF commandForObjectFile, Types
  <2> QED BY <1>1, <1>10, <2>1, <2>2, CollectingMore
<1>11. CASE Edit \/ generateExecutableCommand \/ ObjectsOnly
  BY <1>11 DEF Edit, generateExecutableCommand, ObjectsOnly, Exit, Working
<1>12. CASE UNCHANGED vars
  <2>1. Promised
    BY <1>12, PromisedBefore DEF vars
  <2>2. /\ Working /\ args' = args /\ UNCHANGED <<source, objectFileNames>>
        /\ i' = i /\ disk' = disk /\ trouble' = trouble
    BY <1>12 DEF vars, Working
  <2>3. i <= Len(args) + 1
    BY <2>2 DEF Progress
  <2> QED BY <1>2, <2>1, <2>2, <2>3
<1> QED
  BY <1>3, <1>4, <1>5, <1>6, <1>7, <1>8, <1>9, <1>10, <1>11, <1>12 DEF Next

\* The word in hand, through its three commands.
LEMMA InHandNext == Progress /\ [Next]_vars => InHand'
<1> SUFFICES ASSUME Progress, [Next]_vars, Promised'
             PROVE  /\ step' = "compile" =>
                         \/ disk'[Preprocessed(args'[i'])] =
                              IF args'[i'] \in Path THEN source'[args'[i']] ELSE Absent
                         \/ trouble' # "none" /\ disk'[Preprocessed(args'[i'])] = Absent
                    /\ step' = "assemble" =>
                         args'[i'] \in Path /\ disk'[AsmFile(args'[i'])] = source'[args'[i']]
  BY DEF InHand, Made, Preprocessed, AsmFile
<1>1. Types /\ InHand
  BY DEF Progress
<1>2. CASE step' \notin {"compile", "assemble"}
  BY <1>2
<1>3. CASE commandForPreprocessing
  <2> DEFINE content == IF args[i] \in Path THEN source[args[i]] ELSE Absent
  <2>1. /\ args' = args /\ UNCHANGED source /\ i' = i /\ step' = "compile"
        /\ Command(Preprocessed(args[i]), content) /\ args[i] \in DOMAIN Stem
    BY <1>1, <1>3 DEF commandForPreprocessing, Types
  <2>2. Preprocessed(args[i]) \in File /\ content \in Seq(Text)
    BY <1>1, <2>1, Files, EmptySeq DEF Absent, Types
  <2>3. trouble' # "unstarted"
    BY DEF Promised
  <2>4. \/ disk'[Preprocessed(args[i])] = content
        \/ trouble' # "none" /\ disk'[Preprocessed(args[i])] = Absent
    <3> HIDE DEF content
    <3> QED BY <1>1, <2>1, <2>2, <2>3, CommandDoes
  <2> QED BY <2>1, <2>4
<1>4. CASE compileFile /\ step' = "assemble"
  <2> DEFINE text == disk[Preprocessed(args[i])]
  <2>1. Promised
    BY <1>4, PromisedBefore DEF compileFile
  <2>2. /\ args' = args /\ i' = i /\ source' = source /\ step = "compile"
        /\ ~Refuses(text) /\ disk' = [disk EXCEPT ![AsmFile(args[i])] = text]
    BY <1>4 DEF compileFile, Exit
  <2>3. Made(Preprocessed(args[i]), IF args[i] \in Path THEN source[args[i]] ELSE Absent)
    BY <1>1, <2>1, <2>2 DEF InHand
  <2>4. text # Absent
    BY <2>2 DEF Refuses
  <2>5. args[i] \in Path /\ text = source[args[i]]
    BY <2>3, <2>4 DEF Made
  <2>6. AsmFile(args[i]) \in File
    BY <2>5, SourceIsStem, Files
  <2> QED BY <1>1, <1>4, <2>2, <2>5, <2>6 DEF Types
<1>5. CASE UNCHANGED vars
  <2>1. Promised
    BY <1>5, PromisedBefore DEF vars
  <2> QED BY <1>1, <1>5, <2>1 DEF vars, InHand, Made
<1> QED
  BY <1>2, <1>3, <1>4, <1>5
  DEF Next, Edit, startProcess, CFlag, Output, Skip, Source, At, compileFile,
      commandForObjectFile, generateExecutableCommand, ObjectsOnly, Exit

LEMMA NothingYetNext == Progress /\ [Next]_vars => NothingYet'
<1> SUFFICES ASSUME Progress, [Next]_vars PROVE NothingYet'
  OBVIOUS
<1>1. Types /\ NothingYet
  BY DEF Progress
<1>2. CASE commandForObjectFile
  <2>1. ObjectFile(args[i]) \in ObjectFiles
    BY <1>1, <1>2 DEF commandForObjectFile, Types, ObjectFiles
  <2>2. objectFileNames' # <<>>
    BY <1>1, <1>2, <2>1, AppendProperties DEF commandForObjectFile, Collected, Types
  <2> QED BY <2>2 DEF NothingYet
<1>3. CASE ~commandForObjectFile
  BY <1>1, <1>3
  DEF Next, vars, Edit, startProcess, CFlag, Output, Skip, Source, At, commandForPreprocessing,
      compileFile, generateExecutableCommand, ObjectsOnly, Exit, NothingYet
<1> QED BY <1>2, <1>3

LEMMA WithinNext == Progress /\ [Next]_vars /\ Working' => i' <= Len(args') + 1
<1> SUFFICES ASSUME Progress, [Next]_vars, Working' PROVE i' <= Len(args') + 1
  OBVIOUS
<1>1. /\ Types /\ i \in Nat /\ i >= 1 /\ Len(args) \in Nat /\ DOMAIN args = 1 .. Len(args)
      /\ Working => i <= Len(args) + 1
  BY ArgsTypes DEF Progress
<1>2. CASE startProcess
  <2>1. args' \in Seq(Word) /\ i' = 1
    BY <1>2, DriverAssumption DEF startProcess
  <2>2. Len(args') \in Nat
    BY <2>1, LenProperties
  <2> QED BY <2>1, <2>2
<1>3. CASE CFlag \/ Output \/ Skip \/ Source
  BY <1>1, <1>3 DEF CFlag, Output, Skip, Source, At, TakesOutput
<1>4. CASE commandForPreprocessing \/ compileFile \/ commandForObjectFile
  <2>1. i \in DOMAIN args
    BY <1>1, <1>4 DEF Types, commandForPreprocessing, compileFile, commandForObjectFile
  <2>2. args' = args /\ i' \in {i, i + 1}
    BY <1>4 DEF commandForPreprocessing, compileFile, commandForObjectFile
  <2> QED BY <1>1, <2>1, <2>2
<1>5. CASE UNCHANGED vars
  BY <1>1, <1>5 DEF vars, Working
<1> QED
  BY <1>2, <1>3, <1>4, <1>5
  DEF Next, Edit, generateExecutableCommand, ObjectsOnly, Exit, Working

LEMMA ProgressInit == Init => Progress
<1> SUFFICES ASSUME Init PROVE Progress
  OBVIOUS
<1>1. Types
  BY TypesInit
<1> QED BY <1>1 DEF Init, Progress, Working, NothingYet, Named, Collecting, InHand

LEMMA ProgressNext == Progress /\ [Next]_vars => Progress'
<1>1. Progress /\ [Next]_vars => Types'
  BY TypesNext DEF Progress
<1> QED BY <1>1, NamedNext, CollectingNext, InHandNext, NothingYetNext, WithinNext DEF Progress

(***************************************************************************)
(* The end of an invocation.                                               *)
(***************************************************************************)
\* The name the executable gets is the one that was asked for.
LEMMA NameIsAsked ==
  ASSUME Progress, Promised, step = "arguments", i > Len(args)
  PROVE  executableNameToUse = ExecutableAsked
<1>1. /\ Types /\ Named /\ Collecting /\ Working /\ DOMAIN args = 1 .. Len(args)
      /\ Len(args) \in Nat /\ i = Len(args) + 1 /\ i - 1 = Len(args)
  BY ArgsTypes DEF Progress, Working
<1>2. Sources = SourcesIn(args, i - 1) /\ Sources \in Seq(Path)
  BY <1>1, SourcesAreIn, SourcesInTypes DEF Types
<1>3. objectFileNames = [k \in DOMAIN Sources |-> ObjectFile(Sources[k])]
  BY <1>1, <1>2 DEF Collecting
<1>4. CASE outputSpecified
  <2>1. PICK n \in 1 .. i - 2 :
          /\ args[n] = "-o" /\ finalExecutableName = args[n + 1]
          /\ \A m \in n + 1 .. i - 1 : args[m] # "-o"
    BY <1>1, <1>4 DEF Named, NameSoFar
  <2>2. n \in Outputs /\ \A m \in Outputs : m \in Nat /\ n >= m
    BY <1>1, <2>1 DEF Outputs
  <2>3. Max(Outputs) = n
    <3>1. Max(Outputs) \in Outputs /\ \A m \in Outputs : Max(Outputs) >= m
      BY <2>2, Zenon DEF Max
    <3>2. PICK max \in Outputs : max = Max(Outputs) /\ \A m \in Outputs : max >= m
      BY <3>1
    <3>3. max \in Nat /\ n \in Nat /\ n >= max /\ max >= n
      BY <2>2, <3>2
    <3> QED BY <3>2, <3>3
  <2> QED BY <1>4, <2>1, <2>2, <2>3 DEF ExecutableAsked, executableNameToUse
<1>5. CASE ~outputSpecified
  <2>1. finalExecutableName = "a.out" /\ Outputs = {}
    BY <1>1, <1>5 DEF Named, NameSoFar, Outputs
  <2>2. Len(objectFileNames) = Len(Sources)
    BY <1>2, <1>3, LenProperties
  <2>3. Len(Sources) = 1 => objectFileNames[1][1] = Stem[Sources[1]]
    <3> SUFFICES ASSUME Len(Sources) = 1 PROVE objectFileNames[1][1] = Stem[Sources[1]]
      OBVIOUS
    <3>1. 1 \in DOMAIN Sources
      BY <1>2, LenProperties
    <3> QED BY <1>3, <3>1 DEF ObjectFile
  <2> QED BY <1>5, <2>1, <2>2, <2>3 DEF ExecutableAsked, executableNameToUse
<1> QED BY <1>4, <1>5

\* If no object is missing, the objects are the sources as they are.
LEMMA ObjectsAreSources ==
  ASSUME Progress, Promised, step = "arguments", i > Len(args)
  PROVE  /\ \A w \in Range(Sources) : w \in Path /\ Made(ObjectFile(w), source[w])
         /\ Sources # <<>> => Objects # <<>>
         /\ Absent \notin Range(Objects) =>
              Objects = [n \in DOMAIN Sources |-> source[Sources[n]]]
<1>1. /\ Types /\ Collecting /\ Working /\ DOMAIN args = 1 .. Len(args)
      /\ Len(args) \in Nat /\ i = Len(args) + 1 /\ i - 1 = Len(args)
  BY ArgsTypes DEF Progress, Working
<1>2. Sources = SourcesIn(args, i - 1) /\ Sources \in Seq(Path)
  BY <1>1, SourcesAreIn, SourcesInTypes DEF Types
<1>3. objectFileNames = [k \in DOMAIN Sources |-> ObjectFile(Sources[k])]
  BY <1>1, <1>2 DEF Collecting
<1>4. \A m \in DOMAIN Sources : Sources[m] \in Path /\ Made(ObjectFile(Sources[m]), source[Sources[m]])
  <2> SUFFICES ASSUME NEW m \in DOMAIN Sources
               PROVE  Sources[m] \in Path /\ Made(ObjectFile(Sources[m]), source[Sources[m]])
    OBVIOUS
  <2>1. PICK k \in 1 .. i - 1 : args[k] \in Path /\ Sources[m] = args[k]
    <3>1. i - 1 \in Nat
      BY <1>1
    <3> QED BY <1>2, <3>1, SourcesRange
  <2> QED BY <1>1, <2>1 DEF Collecting
<1>5. Objects = [n \in DOMAIN Sources |-> disk[ObjectFile(Sources[n])]]
  BY <1>3 DEF Objects
<1>6. Sources # <<>> => Objects # <<>>
  <2>1. DOMAIN Objects = DOMAIN Sources
    BY <1>5
  <2>2. Sources # <<>> => 1 \in DOMAIN Sources
    BY <1>2, EmptySeq, LenProperties
  <2>3. DOMAIN <<>> = {}
    OBVIOUS
  <2> QED BY <2>1, <2>2, <2>3
<1>7. ASSUME Absent \notin Range(Objects), NEW n \in DOMAIN Sources
      PROVE  disk[ObjectFile(Sources[n])] = source[Sources[n]]
  <2>1. disk[ObjectFile(Sources[n])] # Absent
    BY <1>5, <1>7 DEF Range
  <2> QED BY <1>4, <2>1 DEF Made
<1> QED BY <1>4, <1>5, <1>6, <1>7 DEF Range

LEMMA UpToDateNext == Progress /\ UpToDate /\ [Next]_vars => UpToDate'
<1> SUFFICES ASSUME Progress, UpToDate, [Next]_vars,
                    step' = "exited", status' = 0, Sources' # <<>>, Promised'
             PROVE  /\ \A w \in Range(Sources') :
                         \/ disk'[ObjectFile(w)] = source'[w]
                         \/ trouble' # "none" /\ disk'[ObjectFile(w)] = Absent
                    /\ \/ isCFlagPresent'
                       \/ disk'[Executable(ExecutableAsked')] =
                            FlattenSeq([n \in DOMAIN Sources' |-> source'[Sources'[n]]])
                       \/ trouble' # "none" /\ disk'[Executable(ExecutableAsked')] = Absent
  BY DEF UpToDate, Promised, Made, ObjectFile, Executable
<1>1. Types /\ NothingYet
  BY DEF Progress
<1>2. CASE ObjectsOnly
  <2>1. /\ Promised /\ source' = source /\ disk' = disk /\ args' = args /\ trouble' = trouble
        /\ step = "arguments" /\ i > Len(args) /\ isCFlagPresent'
    BY <1>2, PromisedBefore DEF ObjectsOnly, flags
  <2>2. Sources' = Sources
    BY <2>1 DEF Sources
  <2>3. \A w \in Range(Sources) : Made(ObjectFile(w), source[w])
    BY <2>1, ObjectsAreSources
  <2> QED BY <2>1, <2>2, <2>3 DEF Made
<1>3. CASE generateExecutableCommand
  <2> DEFINE content == IF Absent \in Range(Objects) THEN Absent ELSE FlattenSeq(Objects)
             program == Executable(executableNameToUse)
  <2>1. /\ source' = source /\ args' = args /\ step = "arguments" /\ i > Len(args)
    BY <1>3 DEF generateExecutableCommand
  <2>2. Sources' = Sources /\ ExecutableAsked' = ExecutableAsked
    BY <2>1 DEF Sources, ExecutableAsked, Outputs
  <2>3. content \in Seq(Text) /\ program \in File
    BY <1>1, LinkedTypes, EmptySeq, ExecutableTypes DEF Absent
  <2>4. Promised
    <3>1. CASE Objects = <<>>
      <4>1. objectFileNames = <<>>
        BY <1>1, <3>1, LinkedTypes, EmptySeq DEF Types
      <4>2. trouble # "unstarted"
        BY <1>1, <2>1, <4>1 DEF NothingYet
      <4> QED BY <2>1, <4>2 DEF Promised, Shared, Sources, PassedOver
    <3>2. CASE Objects # <<>>
      BY <1>3, <3>2, <2>1, PromisedBefore DEF generateExecutableCommand, Command
    <3> QED BY <3>1, <3>2
  <2>5. /\ \A w \in Range(Sources) : w \in Path /\ Made(ObjectFile(w), source[w])
        /\ Objects # <<>>
        /\ Absent \notin Range(Objects) =>
             Objects = [n \in DOMAIN Sources |-> source[Sources[n]]]
    BY <2>1, <2>2, <2>4, ObjectsAreSources
  <2>6. executableNameToUse = ExecutableAsked
    BY <2>1, <2>4, NameIsAsked
  <2>7. Command(program, content) /\ trouble' # "unstarted"
    BY <1>3, <2>5 DEF generateExecutableCommand, Promised
  <2>8. /\ \A f \in File : f # program => disk'[f] = disk[f]
        /\ trouble # "none" => trouble' # "none"
        /\ \/ disk'[program] = content /\ content # Absent
           \/ disk'[program] = Absent /\ trouble' # "none"
    <3> HIDE DEF content, program
    <3> QED BY <1>1, <2>3, <2>7, CommandDoes
  <2>9. ASSUME NEW w \in Range(Sources)
        PROVE  \/ disk'[ObjectFile(w)] = source'[w]
               \/ trouble' # "none" /\ disk'[ObjectFile(w)] = Absent
    <3>1. w \in Path /\ ObjectFile(w) \in File /\ ObjectFile(w) # program
      BY <2>5, SourceIsStem, Files DEF ObjectFile, Executable
    <3>2. disk'[ObjectFile(w)] = disk[ObjectFile(w)]
      <4> HIDE DEF program
      <4> QED BY <2>8, <3>1
    <3> QED BY <2>1, <2>5, <2>8, <3>2 DEF Made
  <2>10. \/ disk'[Executable(ExecutableAsked)] =
              FlattenSeq([n \in DOMAIN Sources |-> source[Sources[n]]])
         \/ trouble' # "none" /\ disk'[Executable(ExecutableAsked)] = Absent
    BY <2>5, <2>6, <2>8
  <2> QED BY <2>1, <2>2, <2>9, <2>10
<1>4. CASE UNCHANGED vars
  <2>1. Promised
    BY <1>4, PromisedBefore DEF vars
  <2> QED BY <1>4, <2>1
      DEF vars, flags, UpToDate, Promised, Made, ExecutableAsked, Sources, Outputs, Executable
<1> QED
  BY <1>2, <1>3, <1>4
  DEF Next, Edit, startProcess, CFlag, Output, Skip, Source, At, commandForPreprocessing,
      compileFile, Exit, commandForObjectFile

\* An invocation that says it succeeded leaves objects and an executable of the
\* sources as they are, or none where a command has failed, for any command
\* line and whatever the directory held.
\* (traverseCompilerArgs, compileFile, generateExecutableCommand)
THEOREM UpToDateAlways == Spec => []UpToDate
<1>1. Init => UpToDate
  BY DEF Init, UpToDate
<1>2. Spec => []Progress
  BY ProgressInit, ProgressNext, PTL DEF Spec
<1> QED BY <1>1, <1>2, UpToDateNext, PTL DEF Spec

=============================================================================
