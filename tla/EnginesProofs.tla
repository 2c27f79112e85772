---------------------------- MODULE EnginesProofs ----------------------------
(***************************************************************************)
(* Theorems of Engines, for any requests, runs, file names and number of   *)
(* crashes.                                                                *)
(***************************************************************************)
EXTENDS Engines, TLAPS

(* Where a run stands tells what it was asked for.                          *)
PathInv ==
    \A r \in Runs :
        /\ pc[r] \in {"combine", "optimize"} => Format(r) = "COMBINEDPDF"
        /\ pc[r] = "optimize" => Optimizes(r)
        /\ pc[r] = "extract" => Format(r) = "TXT"
        /\ pc[r] = "read" => Format(r) # "other"
        /\ pc[r] \in {"idle", "check", "convert", "reconvert"} => stem[r] = "in"
        /\ pc[r] \notin {"cleanup", "ended"} => answer[r] = NoAnswer

NothingInv == \A r \in Runs : answer[r].text = "nothing" => Format(r) = "COMBINEDPDF"

(* A run that is alone shares its files with no other one.                  *)
AloneInv ==
    \A r, q \in Runs : alone[r] /\ Active(r) /\ Shares(r, q) => ~Active(q)

(* Such a run reads only what was made of the whole of its own image, and   *)
(* its input stays.                                                         *)
ReadsItsImage(r) ==
    /\ pc[r] = "check" => files[InputFile(r)] \in {Image(JobOf[r]), Empty}
    /\ pc[r] \in Commands => \A n \in Reads(r) : files[n] = Image(JobOf[r])
    /\ pc[r] \in Commands \cup {"read", "cleanup"} =>
          files[InputFile(r)] = Image(JobOf[r])
    /\ pc[r] = "read" /\ ~errorFlag[r] => files[FileToDeliver(r)] = Image(JobOf[r])
    /\ pc[r] = "cleanup" /\ ~errorFlag[r] => answer[r].status = "done"

ImageInv == \A r \in Runs : alone[r] /\ ~crashed[r] => ReadsItsImage(r)

(* A file that should not stay belongs to a run that has not ended well.    *)
Layer(n) == n[3] = "ocr" \/ <<n[2], n[3]>> = <<"pdf", "input">>

Owes(r) ==
    IF pc[r] \in {"check", "convert", "reconvert"} THEN {InputFile(r)} ELSE FilesToDelete(r)

OwedInv ==
    \A n \in Names : files[n] # NoFile /\ ~Layer(n) =>
        \E r \in Runs : Base(r) = n[1] /\ n \in Owes(r) /\ pc[r] # "idle" /\ ~EndedWell(r)

SandwichInv ==
    /\ SandwichTypeOK /\ PathInv /\ NothingInv /\ AloneInv /\ ImageInv /\ OwedInv
    /\ WholeIfAlone

-----------------------------------------------------------------------------
(* Names, formats and contents.                                             *)
LEMMA Formats ==
  ASSUME SandwichTypeOK, NEW r \in Runs
  PROVE  /\ Request(r) \in Requests
         /\ Format(r) \in {"COMBINEDPDF", "OCRLAYERONLY", "TXT", "other"}
BY JobAssumption DEF SandwichTypeOK, Request, Requests, Format

LEMMA FileNames ==
  ASSUME SandwichTypeOK, NEW r \in Runs
  PROVE  /\ InputFile(r) \in Names
         /\ \A s \in Suffixes : File(r, s) \in Names
BY DEF SandwichTypeOK, InputFile, File, Names, Stems, Suffixes

LEMMA StepTables ==
  /\ AfterSandwich["COMBINEDPDF"] = "combine"
  /\ AfterSandwich["OCRLAYERONLY"] = "read"
  /\ AfterSandwich["TXT"] = "extract"
  /\ \A s \in Commands : ReadSuffixes[s] \subseteq Suffixes /\ WrittenSuffix[s] \in Suffixes
  /\ ReadSuffixes["convert"] = {"input"} /\ ReadSuffixes["reconvert"] = {"input"}
  /\ ReadSuffixes["sandwich"] = {"input"} /\ ReadSuffixes["combine"] = {"ocr", "input"}
  /\ ReadSuffixes["optimize"] = {"comb"} /\ ReadSuffixes["extract"] = {"ocr"}
  /\ WrittenSuffix["convert"] = "input" /\ WrittenSuffix["reconvert"] = "input"
  /\ WrittenSuffix["sandwich"] = "ocr" /\ WrittenSuffix["combine"] = "comb"
  /\ WrittenSuffix["optimize"] = "compr" /\ WrittenSuffix["extract"] = "txt"
BY DEF AfterSandwich, ReadSuffixes, WrittenSuffix, Commands, Suffixes

LEMMA Delivered ==
  ASSUME SandwichTypeOK, NEW r \in Runs, Format(r) # "other"
  PROVE  /\ FileToDeliver(r) \in Names
         /\ Format(r) = "COMBINEDPDF" =>
               FileToDeliver(r) = File(r, IF Optimizes(r) THEN "compr" ELSE "comb")
         /\ Format(r) = "OCRLAYERONLY" => FileToDeliver(r) = File(r, "ocr")
         /\ Format(r) = "TXT" => FileToDeliver(r) = File(r, "txt")
<1>1. CASE Format(r) = "COMBINEDPDF"
  <2>1. FileToDeliver(r) = File(r, IF Optimizes(r) THEN "compr" ELSE "comb")
    BY <1>1 DEF FileToDeliver
  <2> QED
    BY <1>1, <2>1, FileNames DEF Suffixes
<1>2. CASE Format(r) = "OCRLAYERONLY"
  <2>1. FileToDeliver(r) = File(r, "ocr")
    BY <1>2 DEF FileToDeliver
  <2> QED
    BY <1>2, <2>1, FileNames DEF Suffixes
<1>3. CASE Format(r) = "TXT"
  <2>1. FileToDeliver(r) = File(r, "txt")
    BY <1>3 DEF FileToDeliver
  <2> QED
    BY <1>3, <2>1, FileNames DEF Suffixes
<1> QED
  BY <1>1, <1>2, <1>3, Formats

LEMMA ProgramNames ==
  ASSUME SandwichTypeOK, NEW r \in Runs, pc[r] \in Commands
  PROVE  Reads(r) \subseteq Names /\ Writes(r) \in Names /\ Writes(r)[1] = Base(r)
<1>1. Reads(r) \subseteq Names
  BY FileNames, StepTables DEF Reads
<1>2. WrittenSuffix[pc[r]] \in Suffixes
  BY StepTables
<1>3. stem[r] \in Stems /\ "pdf" \in Stems
  BY DEF SandwichTypeOK, Stems
<1> QED
  BY <1>1, <1>2, <1>3 DEF Writes, Names

LEMMA MadeContents ==
  ASSUME NEW S \in SUBSET Contents
  PROVE  Made(S) \in Contents /\ HalfMade(S) \in Contents
<1>1. UNION {c.of : c \in S} \in SUBSET Jobs
  BY DEF Contents
<1>2. (\A c \in S : c.whole) \in BOOLEAN
  OBVIOUS
<1>3. Made(S) \in Contents
  BY <1>1, <1>2 DEF Made, Contents
<1> QED
  BY <1>3 DEF HalfMade, Contents

LEMMA MadeOfImage ==
  ASSUME NEW j \in Jobs, NEW S, S = {Image(j)}
  PROVE  Made(S) = Image(j)
<1>1. UNION {c.of : c \in S} = {j}
  BY DEF Image
<1>2. (\A c \in S : c.whole) = TRUE
  BY DEF Image
<1> QED
  BY <1>1, <1>2 DEF Made, Image

LEMMA ImageContents ==
  ASSUME NEW j \in Jobs
  PROVE  Image(j) \in Contents /\ Empty \in Contents /\ Image(j) # NoFile /\ Empty # NoFile
<1>1. Image(j) \in Contents
  BY DEF Image, Contents
<1>2. Empty \in Contents
  BY DEF Empty, Contents
<1> QED
  BY <1>1, <1>2, NoFileAssumption

LEMMA AnswerTypes ==
  /\ NoAnswer \in Answers /\ Failed(TRUE) \in Answers /\ Failed(FALSE) \in Answers
  /\ \A c \in Contents : Done(c) \in Answers
BY DEF NoAnswer, Failed, Done, Answers

-----------------------------------------------------------------------------
(* What a step does to the files, and that it is about its own run.         *)
LEMMA ProgramEnds ==
  ASSUME SandwichTypeOK, NEW r \in Runs, pc[r] \in Commands, Readable(r)
  PROVE  Made(Sources(r)) \in Contents /\ HalfMade(Sources(r)) \in Contents
<1>1. Reads(r) \subseteq Names
  BY ProgramNames
<1>2. Sources(r) \in SUBSET Contents
  BY <1>1 DEF SandwichTypeOK, Readable, Sources
<1> QED
  BY <1>2, MadeContents

LEMMA FilesType ==
  ASSUME SandwichTypeOK, NEW r \in Runs, SandwichStep(r)
  PROVE  /\ files' \in [Names -> Contents \cup {NoFile}]
         /\ \A n \in Names : n[1] # Base(r) => files'[n] = files[n]
<1> USE DEF SandwichTypeOK
<1>1. CASE SaveImage(r) \/ SaveFails(r)
  <2>1. \E c \in Contents \cup {NoFile} :
            files' = files \/ files' = [files EXCEPT ![InputFile(r)] = c]
    BY <1>1, ImageContents, JobAssumption DEF SaveImage, SaveFails
  <2> QED
    BY <2>1, FileNames DEF InputFile
<1>2. CASE StartCommand(r)
  <2>1. \E c \in Contents : files' = files \/ files' = [files EXCEPT ![Writes(r)] = c]
    BY <1>2, ProgramEnds, ImageContents, JobAssumption DEF StartCommand
  <2> QED
    BY <1>2, <2>1, ProgramNames DEF StartCommand
<1>3. ASSUME Finishes(r) \/ Breaks(r) PROVE /\ files' \in [Names -> Contents \cup {NoFile}]
         /\ \A n \in Names : n[1] # Base(r) => files'[n] = files[n]
  <2>1. pc[r] \in Commands
    BY <1>3 DEF Finishes, Breaks
  <2>2. CASE Finishes(r)
    BY <2>1, <2>2, ProgramEnds, ProgramNames DEF Finishes
  <2> QED
    BY <1>3, <2>2 DEF Breaks
<1>4. CASE Cleanup(r)
  <2>1. \A n \in FilesToDelete(r) : n[1] = Base(r)
    BY DEF FilesToDelete, InputFile, File
  <2> QED
    BY <1>4, <2>1 DEF Cleanup
<1>5. ASSUME UNCHANGED files PROVE /\ files' \in [Names -> Contents \cup {NoFile}]
         /\ \A n \in Names : n[1] # Base(r) => files'[n] = files[n]
  BY <1>5
<1> QED
  BY <1>1, <1>2, <1>3, <1>4, <1>5 DEF SandwichStep, AcceptImage, RejectImage, ArgsPanic,
     ConvertSucceeds, ConvertFails, ReconvertFails, SandwichSucceeds, FormatUnknown,
     SandwichFails, CombineSucceeds, OptimizeSucceeds, CombineFails, ExtractSucceeds,
     ExtractFails, ReadResult, ReadFails, SandwichCrashes, OrphanEnds

LEMMA OwnStep ==
  ASSUME SandwichTypeOK, NEW q \in Runs, SandwichStep(q)
  PROVE  /\ request' = request
         /\ \A r \in Runs \ {q} :
               /\ pc'[r] = pc[r] /\ running'[r] = running[r] /\ crashed'[r] = crashed[r]
               /\ stem'[r] = stem[r] /\ errorFlag'[r] = errorFlag[r]
               /\ answer'[r] = answer[r] /\ (alone'[r] => alone[r])
<1> USE DEF SandwichTypeOK, SandwichStep, SaveImage, SaveFails, AcceptImage, RejectImage,
     ArgsPanic, StartCommand, ConvertSucceeds, ConvertFails, ReconvertFails,
     SandwichSucceeds, FormatUnknown, SandwichFails, CombineSucceeds, OptimizeSucceeds,
     CombineFails, ExtractSucceeds, ExtractFails, ReadResult, ReadFails, Cleanup,
     SandwichCrashes, OrphanEnds, Goto, Abort, Fail, Finishes, Breaks
<1>1. request' = request
  OBVIOUS
<1>2. ASSUME NEW r \in Runs \ {q} PROVE pc'[r] = pc[r] /\ stem'[r] = stem[r]
  OBVIOUS
<1>3. ASSUME NEW r \in Runs \ {q} PROVE running'[r] = running[r]
  OBVIOUS
<1>4. ASSUME NEW r \in Runs \ {q} PROVE crashed'[r] = crashed[r]
  OBVIOUS
<1>5. ASSUME NEW r \in Runs \ {q} PROVE errorFlag'[r] = errorFlag[r]
  OBVIOUS
<1>6. ASSUME NEW r \in Runs \ {q} PROVE answer'[r] = answer[r]
  OBVIOUS
<1>7. ASSUME NEW r \in Runs \ {q} PROVE alone'[r] => alone[r]
  BY DEF Enter
<1> QED
  BY <1>1, <1>2, <1>3, <1>4, <1>5, <1>6, <1>7

LEMMA SandwichTypeStep ==
  ASSUME SandwichTypeOK, PathInv, NEW r \in Runs, SandwichStep(r)
  PROVE  SandwichTypeOK'
<1>1. files' \in [Names -> Contents \cup {NoFile}]
  BY FilesType
<1>2. request' \in [Jobs -> Requests] /\ crashes' \in 0..MaxCrashes
  <2>1. CASE SandwichCrashes(r)
    BY <2>1, FlagsAssumption DEF SandwichTypeOK, SandwichCrashes
  <2>2. CASE ~SandwichCrashes(r)
    <3>1. UNCHANGED <<request, crashes>>
      BY <2>2 DEF SandwichStep, SaveImage, SaveFails, AcceptImage, RejectImage,
         ArgsPanic, StartCommand, ConvertSucceeds, ConvertFails, ReconvertFails,
         SandwichSucceeds, FormatUnknown, SandwichFails, CombineSucceeds,
         OptimizeSucceeds, CombineFails, ExtractSucceeds, ExtractFails, ReadResult,
         ReadFails, Cleanup, OrphanEnds
    <3> QED
      BY <3>1 DEF SandwichTypeOK
  <2> QED
    BY <2>1, <2>2
<1>3. alone' \in [Runs -> BOOLEAN]
  <2>1. alone' = alone \/ Enter(r)
    BY DEF SandwichStep, SaveImage, SaveFails, AcceptImage, RejectImage,
         ArgsPanic, StartCommand, ConvertSucceeds, ConvertFails, ReconvertFails,
         SandwichSucceeds, FormatUnknown, SandwichFails, CombineSucceeds,
         OptimizeSucceeds, CombineFails, ExtractSucceeds, ExtractFails, ReadResult,
         ReadFails, Cleanup, SandwichCrashes, OrphanEnds
  <2> QED
    BY <2>1 DEF SandwichTypeOK, Enter
<1>4. stem' \in [Runs -> Stems]
  <2>1. stem' = stem \/ stem' = [stem EXCEPT ![r] = "pdf"]
    BY DEF SandwichStep, SaveImage, SaveFails, AcceptImage, RejectImage,
         ArgsPanic, StartCommand, ConvertSucceeds, ConvertFails, ReconvertFails,
         SandwichSucceeds, FormatUnknown, SandwichFails, CombineSucceeds,
         OptimizeSucceeds, CombineFails, ExtractSucceeds, ExtractFails, ReadResult,
         ReadFails, Cleanup, SandwichCrashes, OrphanEnds
  <2> QED
    BY <2>1 DEF SandwichTypeOK, Stems
<1>5. errorFlag' \in [Runs -> BOOLEAN]
  <2>1. errorFlag' = errorFlag \/ errorFlag' = [errorFlag EXCEPT ![r] = TRUE]
    BY DEF SandwichStep, SaveImage, SaveFails, AcceptImage, RejectImage,
         ArgsPanic, StartCommand, ConvertSucceeds, ConvertFails, ReconvertFails,
         SandwichSucceeds, FormatUnknown, SandwichFails, CombineSucceeds,
         OptimizeSucceeds, CombineFails, ExtractSucceeds, ExtractFails, ReadResult,
         ReadFails, Cleanup, SandwichCrashes, OrphanEnds,
         Fail
  <2> QED
    BY <2>1 DEF SandwichTypeOK
<1>6. crashed' \in [Runs -> BOOLEAN]
  <2>1. crashed' = crashed \/ crashed' = [crashed EXCEPT ![r] = TRUE]
    BY DEF SandwichStep, SaveImage, SaveFails, AcceptImage, RejectImage,
         ArgsPanic, StartCommand, ConvertSucceeds, ConvertFails, ReconvertFails,
         SandwichSucceeds, FormatUnknown, SandwichFails, CombineSucceeds,
         OptimizeSucceeds, CombineFails, ExtractSucceeds, ExtractFails, ReadResult,
         ReadFails, Cleanup, SandwichCrashes, OrphanEnds
  <2> QED
    BY <2>1 DEF SandwichTypeOK
<1>7. running' \in [Runs -> BOOLEAN]
  <2>1. running' = running \/ running' = [running EXCEPT ![r] = TRUE] \/ running' = [running EXCEPT ![r] = FALSE]
    BY DEF SandwichStep, SaveImage, SaveFails, AcceptImage, RejectImage,
         ArgsPanic, StartCommand, ConvertSucceeds, ConvertFails, ReconvertFails,
         SandwichSucceeds, FormatUnknown, SandwichFails, CombineSucceeds,
         OptimizeSucceeds, CombineFails, ExtractSucceeds, ExtractFails, ReadResult,
         ReadFails, Cleanup, SandwichCrashes, OrphanEnds,
         Finishes, Breaks
  <2> QED
    BY <2>1 DEF SandwichTypeOK
<1>8. answer' \in [Runs -> Answers]
  <2>1. \E a \in Answers : answer' = [answer EXCEPT ![r] = a] \/ answer' = answer
    <3>1. CASE ReadResult(r)
      <4>1. FileToDeliver(r) \in Names
        BY <3>1, Delivered DEF PathInv, ReadResult, At
      <4>2. files[FileToDeliver(r)] \in Contents
        BY <3>1, <4>1 DEF SandwichTypeOK, ReadResult
      <4> QED
        BY <3>1, <4>2, AnswerTypes DEF ReadResult
    <3> QED
      BY <3>1, AnswerTypes DEF SandwichStep, SaveImage, SaveFails, AcceptImage,
     RejectImage, ArgsPanic, StartCommand, ConvertSucceeds, ConvertFails, ReconvertFails,
     SandwichSucceeds, FormatUnknown, SandwichFails, CombineSucceeds, OptimizeSucceeds,
     CombineFails, ExtractSucceeds, ExtractFails, ReadFails, Cleanup,
     SandwichCrashes, OrphanEnds, Fail, Abort
  <2> QED
    BY <2>1 DEF SandwichTypeOK
<1>9. pc' \in [Runs -> Commands \cup {"idle", "check", "read", "cleanup", "ended"}]
  <2>1. CASE SandwichSucceeds(r)
    <3>1. AfterSandwich[Format(r)] \in {"combine", "read", "extract"}
      BY <2>1, Formats, StepTables DEF SandwichSucceeds
    <3> QED
      BY <2>1, <3>1 DEF SandwichSucceeds, Goto, SandwichTypeOK, Commands
  <2>2. CASE ~SandwichSucceeds(r)
    <3>1. \E s \in Commands \cup {"idle", "check", "read", "cleanup", "ended"} :
              pc' = [pc EXCEPT ![r] = s] \/ pc' = pc
      BY <2>2 DEF Commands, SandwichStep, SaveImage, SaveFails, AcceptImage, RejectImage,
         ArgsPanic, StartCommand, ConvertSucceeds, ConvertFails, ReconvertFails,
         FormatUnknown, SandwichFails, CombineSucceeds,
         OptimizeSucceeds, CombineFails, ExtractSucceeds, ExtractFails, ReadResult,
         ReadFails, Cleanup, SandwichCrashes, OrphanEnds, Fail, Abort, Goto
    <3> QED
      BY <3>1 DEF SandwichTypeOK
  <2> QED
    BY <2>1, <2>2
<1>10. \A q \in Runs : running'[q] => pc'[q] \in Commands
  <2>1. ASSUME NEW q \in Runs \ {r} PROVE running'[q] => pc'[q] \in Commands
    BY OwnStep DEF SandwichTypeOK
  <2>2. running'[r] => pc'[r] \in Commands
    BY DEF SandwichTypeOK, SandwichStep, SaveImage, SaveFails, AcceptImage,
     RejectImage, ArgsPanic, StartCommand, ConvertSucceeds, ConvertFails, ReconvertFails,
     SandwichSucceeds, FormatUnknown, SandwichFails, CombineSucceeds, OptimizeSucceeds,
     CombineFails, ExtractSucceeds, ExtractFails, ReadResult, ReadFails, Cleanup,
     SandwichCrashes, OrphanEnds, Fail, Abort, Goto, Finishes, Breaks, At, Commands
  <2> QED
    BY <2>1, <2>2
<1> QED
  BY <1>1, <1>2, <1>3, <1>4, <1>5, <1>6, <1>7, <1>8, <1>9, <1>10 DEF SandwichTypeOK

LEMMA SameFormat ==
  ASSUME request' = request
  PROVE  \A r \in Runs : /\ Request(r)' = Request(r) /\ Format(r)' = Format(r)
                         /\ Optimizes(r)' = Optimizes(r) /\ Keeps(r)' = Keeps(r)
BY DEF Request, Format, Optimizes, Keeps

-----------------------------------------------------------------------------
LEMMA PathStep ==
  ASSUME SandwichTypeOK, PathInv, NothingInv, NEW q \in Runs, SandwichStep(q)
  PROVE  PathInv' /\ NothingInv'
<1> DEFINE OnPath(r) ==
        /\ pc[r] \in {"combine", "optimize"} => Format(r) = "COMBINEDPDF"
        /\ pc[r] = "optimize" => Optimizes(r)
        /\ pc[r] = "extract" => Format(r) = "TXT"
        /\ pc[r] = "read" => Format(r) # "other"
        /\ pc[r] \in {"idle", "check", "convert", "reconvert"} => stem[r] = "in"
        /\ pc[r] \notin {"cleanup", "ended"} => answer[r] = NoAnswer
        /\ answer[r].text = "nothing" => Format(r) = "COMBINEDPDF"
<1>1. \A r \in Runs : OnPath(r)
  BY DEF PathInv, NothingInv
<1>2. request' = request
  BY OwnStep
<1>3. \A r \in Runs : Format(r)' = Format(r) /\ Optimizes(r)' = Optimizes(r)
  BY <1>2, SameFormat
<1>4. ASSUME NEW r \in Runs \ {q} PROVE OnPath(r)'
  <2>1. pc'[r] = pc[r] /\ stem'[r] = stem[r] /\ answer'[r] = answer[r]
    BY OwnStep
  <2> QED
    BY <1>1, <1>3, <2>1
<1>5. OnPath(q)'
  <2> USE <1>1, <1>3
  <2>1. CASE \/ SaveImage(q) \/ AcceptImage(q) \/ ArgsPanic(q) \/ StartCommand(q)
             \/ ConvertSucceeds(q) \/ ConvertFails(q) \/ SandwichCrashes(q) \/ OrphanEnds(q)
    BY <2>1 DEF SandwichTypeOK, SaveImage, AcceptImage, ArgsPanic, StartCommand,
         ConvertSucceeds, ConvertFails, SandwichCrashes, OrphanEnds, At, Goto, Commands
  <2>2. CASE SaveFails(q) \/ RejectImage(q)
    BY <2>2 DEF SandwichTypeOK, SaveFails, RejectImage, Abort, Goto, Failed
  <2>3. CASE SandwichSucceeds(q)
    BY <2>3, Formats, StepTables DEF SandwichTypeOK, SandwichSucceeds, At, Goto
  <2>4. CASE ReconvertFails(q) \/ FormatUnknown(q) \/ SandwichFails(q)
    BY <2>4 DEF SandwichTypeOK, ReconvertFails, FormatUnknown, SandwichFails, Fail, Goto,
         Failed
  <2>5. CASE CombineFails(q)
    BY <2>5 DEF SandwichTypeOK, CombineFails, Fail, Goto, At
  <2>6. CASE CombineSucceeds(q) \/ OptimizeSucceeds(q)
    BY <2>6 DEF SandwichTypeOK, CombineSucceeds, OptimizeSucceeds, Goto, At, Optimizes
  <2>7. CASE ExtractSucceeds(q) \/ ExtractFails(q)
    BY <2>7 DEF SandwichTypeOK, ExtractSucceeds, ExtractFails, Goto, At
  <2>8. CASE ReadResult(q) \/ ReadFails(q)
    BY <2>8 DEF SandwichTypeOK, ReadResult, ReadFails, Goto, At, Failed, Done
  <2>9. CASE Cleanup(q)
    BY <2>9 DEF SandwichTypeOK, Cleanup, Goto, At
  <2> QED
    BY <2>1, <2>2, <2>3, <2>4, <2>5, <2>6, <2>7, <2>8, <2>9 DEF SandwichStep
<1>6. \A r \in Runs : OnPath(r)'
  BY <1>4, <1>5
<1> QED
  BY <1>6 DEF PathInv, NothingInv

(* A run that is not active can only enter.                                 *)
LEMMA InactiveEnters ==
  ASSUME SandwichTypeOK, NEW q \in Runs, SandwichStep(q), ~Active(q)
  PROVE  SaveImage(q) \/ SaveFails(q)
BY DEF SandwichTypeOK, Active, SandwichStep, AcceptImage, RejectImage, ArgsPanic,
     StartCommand, ConvertSucceeds, ConvertFails, ReconvertFails, SandwichSucceeds,
     FormatUnknown, SandwichFails, CombineSucceeds, OptimizeSucceeds, CombineFails,
     ExtractSucceeds, ExtractFails, ReadResult, ReadFails, Cleanup, SandwichCrashes,
     OrphanEnds, At, Finishes, Breaks, Commands

LEMMA ActiveStep ==
  ASSUME SandwichTypeOK, NEW q \in Runs, SandwichStep(q)
  PROVE  /\ \A r \in Runs \ {q} : Active(r)' = Active(r)
         /\ Active(q) => alone'[q] = alone[q]
<1>1. \A r \in Runs \ {q} : Active(r)' = Active(r)
  BY OwnStep DEF Active
<1>2. ASSUME Active(q) PROVE alone'[q] = alone[q]
  <2>1. ~SaveImage(q) /\ ~SaveFails(q)
    BY <1>2 DEF Active, SaveImage, SaveFails, At
  <2> QED
    BY <2>1 DEF SandwichStep, AcceptImage, RejectImage, ArgsPanic, StartCommand,
     ConvertSucceeds, ConvertFails, ReconvertFails, SandwichSucceeds, FormatUnknown,
     SandwichFails, CombineSucceeds, OptimizeSucceeds, CombineFails, ExtractSucceeds,
     ExtractFails, ReadResult, ReadFails, Cleanup, SandwichCrashes, OrphanEnds, Fail
<1> QED
  BY <1>1, <1>2

LEMMA AloneStep ==
  ASSUME SandwichTypeOK, AloneInv, NEW q \in Runs, SandwichStep(q)
  PROVE  AloneInv'
<1> SUFFICES ASSUME NEW r \in Runs, NEW x \in Runs, alone'[r], Active(r)', Active(x)',
                    Shares(r, x)
             PROVE  FALSE
  BY DEF AloneInv, Shares
<1>1. \A y \in Runs \ {q} : Active(y)' = Active(y) /\ (alone'[y] => alone[y])
  BY ActiveStep, OwnStep
<1>2. r # x /\ Shares(x, r)
  BY DEF Shares
<1>3. CASE Active(q)
  <2>1. Active(r) /\ Active(x) /\ alone[r]
    BY <1>1, <1>3, ActiveStep
  <2> QED
    BY <2>1 DEF AloneInv
<1>4. CASE ~Active(q)
  <2>1. Enter(q)
    BY <1>4, InactiveEnters DEF SaveImage, SaveFails
  <2>2. CASE r = q
    BY <1>1, <1>2, <2>1, <2>2 DEF Enter
  <2>3. CASE x = q
    BY <1>1, <1>2, <2>1, <2>3 DEF Enter
  <2>4. CASE r # q /\ x # q
    BY <1>1, <2>4 DEF AloneInv
  <2> QED
    BY <2>2, <2>3, <2>4
<1> QED
  BY <1>3, <1>4

-----------------------------------------------------------------------------
(* The files of a run that is alone.                                        *)
LEMMA OthersKeepOut ==
  ASSUME SandwichTypeOK, AloneInv, NEW r \in Runs, NEW q \in Runs, r # q,
         SandwichStep(q), alone'[r], Active(r)
  PROVE  \A n \in Names : n[1] = Base(r) => files'[n] = files[n]
<1>1. alone[r]
  BY OwnStep
<1>2. CASE Base(q) = Base(r)
  <2>1. Shares(r, q) /\ Shares(q, r)
    BY <1>2 DEF Shares
  <2>2. Enter(q)
    BY <1>1, <2>1, InactiveEnters DEF AloneInv, SaveImage, SaveFails
  <2> QED
    BY <2>1, <2>2 DEF Enter
<1>3. CASE Base(q) # Base(r)
  BY <1>3, FilesType
<1> QED
  BY <1>2, <1>3

LEMMA ReadNames ==
  ASSUME NEW r \in Runs
  PROVE  /\ pc[r] \in {"convert", "reconvert", "sandwich"} => Reads(r) = {File(r, "input")}
         /\ pc[r] = "combine" => Reads(r) = {File(r, "ocr"), File(r, "input")}
         /\ pc[r] = "optimize" => Reads(r) = {File(r, "comb")}
         /\ pc[r] = "extract" => Reads(r) = {File(r, "ocr")}
         /\ pc[r] \in {"convert", "reconvert"} => Writes(r) = <<Base(r), "pdf", "input">>
         /\ pc[r] = "sandwich" => Writes(r) = File(r, "ocr")
         /\ pc[r] = "combine" => Writes(r) = File(r, "comb")
         /\ pc[r] = "optimize" => Writes(r) = File(r, "compr")
         /\ pc[r] = "extract" => Writes(r) = File(r, "txt")
<1>1. pc[r] \in Commands => Reads(r) = {File(r, s) : s \in ReadSuffixes[pc[r]]}
  BY DEF Reads
<1>2. /\ pc[r] \in {"convert", "reconvert", "sandwich"} => Reads(r) = {File(r, "input")}
      /\ pc[r] = "combine" => Reads(r) = {File(r, "ocr"), File(r, "input")}
      /\ pc[r] = "optimize" => Reads(r) = {File(r, "comb")}
      /\ pc[r] = "extract" => Reads(r) = {File(r, "ocr")}
  BY <1>1, StepTables DEF Commands
<1> QED
  BY <1>2, StepTables DEF Writes, File

LEMMA WritesElsewhere ==
  ASSUME PathInv, NEW r \in Runs, pc[r] \in Commands
  PROVE  Writes(r) \notin Reads(r) /\ Writes(r) # InputFile(r)
<1>1. pc[r] \in {"convert", "reconvert"} => stem[r] = "in"
  BY DEF PathInv
<1> QED
  BY <1>1, ReadNames DEF File, InputFile, Commands

LEMMA MadeWhole ==
  ASSUME SandwichTypeOK, NEW r \in Runs, pc[r] \in Commands, ReadsItsImage(r)
  PROVE  Made(Sources(r)) = Image(JobOf[r])
<1>1. Reads(r) # {}
  BY ReadNames DEF Commands
<1>2. \A n \in Reads(r) : files[n] = Image(JobOf[r])
  BY DEF ReadsItsImage
<1>3. Sources(r) = {Image(JobOf[r])}
  BY <1>1, <1>2 DEF Sources
<1> QED
  BY <1>3, MadeOfImage, JobAssumption

LEMMA EndsWhole ==
  ASSUME SandwichTypeOK, PathInv, NEW r \in Runs, pc[r] \in Commands,
         ReadsItsImage(r), Finishes(r)
  PROVE  /\ files'[Writes(r)] = Image(JobOf[r])
         /\ \A n \in Reads(r) \cup {InputFile(r)} : files'[n] = Image(JobOf[r])
<1>1. files' = [files EXCEPT ![Writes(r)] = Image(JobOf[r])]
  BY MadeWhole DEF Finishes
<1>2. Writes(r) \in Names /\ Reads(r) \subseteq Names /\ InputFile(r) \in Names
  BY ProgramNames, FileNames
<1>3. \A n \in Reads(r) \cup {InputFile(r)} : files[n] = Image(JobOf[r])
  BY DEF ReadsItsImage
<1> QED
  BY <1>1, <1>2, <1>3, WritesElsewhere DEF SandwichTypeOK

(* A step of another run.                                                   *)
LEMMA ReadsOnOthers ==
  ASSUME SandwichTypeOK, PathInv, AloneInv, NEW r \in Runs, NEW q \in Runs, r # q,
         SandwichStep(q), alone'[r], ~crashed'[r], ReadsItsImage(r)
  PROVE  ReadsItsImage(r)'
<1>1. /\ pc'[r] = pc[r] /\ crashed'[r] = crashed[r] /\ stem'[r] = stem[r]
      /\ errorFlag'[r] = errorFlag[r] /\ answer'[r] = answer[r] /\ request' = request
  BY OwnStep
<1>2. CASE pc[r] \in {"idle", "ended"}
  BY <1>1, <1>2 DEF ReadsItsImage, Commands
<1>3. CASE pc[r] \notin {"idle", "ended"}
  <2>1. \A n \in Names : n[1] = Base(r) => files'[n] = files[n]
    BY <1>1, <1>3, OthersKeepOut DEF Active
  <2>2. InputFile(r)' = InputFile(r) /\ (\A s : File(r, s)' = File(r, s))
    BY <1>1 DEF InputFile, File
  <2>3. Reads(r)' = Reads(r) /\ FileToDeliver(r)' = FileToDeliver(r)
    BY <1>1, <2>2, SameFormat DEF Reads, FileToDeliver
  <2>4. InputFile(r) \in Names /\ InputFile(r)[1] = Base(r)
    BY FileNames DEF InputFile
  <2>5. pc[r] \in Commands => \A n \in Reads(r) : n \in Names /\ n[1] = Base(r)
    BY ProgramNames DEF Reads, File
  <2>6. pc[r] = "read" => FileToDeliver(r) \in Names /\ FileToDeliver(r)[1] = Base(r)
    <3> SUFFICES ASSUME pc[r] = "read"
                 PROVE  FileToDeliver(r) \in Names /\ FileToDeliver(r)[1] = Base(r)
      OBVIOUS
    <3>1. Format(r) # "other"
      BY DEF PathInv
    <3>2. \E s \in Suffixes : FileToDeliver(r) = File(r, s)
      BY <3>1, Delivered, Formats DEF Suffixes
    <3> QED
      BY <3>2, FileNames DEF File
  <2>7. files'[InputFile(r)] = files[InputFile(r)]
    BY <2>1, <2>4
  <2>8. pc[r] \in Commands => \A n \in Reads(r) : files'[n] = files[n]
    BY <2>1, <2>5
  <2>9. pc[r] = "read" => files'[FileToDeliver(r)] = files[FileToDeliver(r)]
    BY <2>1, <2>6
  <2> QED
    BY <1>1, <2>2, <2>3, <2>7, <2>8, <2>9 DEF ReadsItsImage
<1> QED
  BY <1>2, <1>3

(* A step of the run itself.                                                *)
LEMMA ReadsOn ==
  ASSUME SandwichTypeOK, PathInv, NEW r \in Runs, SandwichStep(r), ~crashed'[r],
         alone[r] /\ ~crashed[r] => ReadsItsImage(r), alone'[r]
  PROVE  ReadsItsImage(r)'
<1> USE DEF SandwichTypeOK
<1>1. CASE SaveImage(r)
  <2>1. pc'[r] = "check"
    BY <1>1 DEF SaveImage, Goto
  <2>2. files'[InputFile(r)] \in {Image(JobOf[r]), Empty}
    BY <1>1, FileNames DEF SaveImage
  <2> QED
    BY <2>1, <2>2 DEF ReadsItsImage, InputFile, Commands
<1>2. CASE SaveFails(r) \/ RejectImage(r)
  <2>1. pc'[r] = "ended"
    BY <1>2 DEF SaveFails, RejectImage, Abort, Goto
  <2> QED
    BY <2>1 DEF ReadsItsImage, Commands
<1>3. CASE ArgsPanic(r) \/ SandwichCrashes(r)
  BY <1>3 DEF ArgsPanic, SandwichCrashes
<1>4. CASE OrphanEnds(r)
  BY <1>4 DEF OrphanEnds
<1>5. CASE /\ ~SaveImage(r) /\ ~SaveFails(r) /\ ~ArgsPanic(r) /\ ~SandwichCrashes(r)
           /\ ~OrphanEnds(r) /\ ~RejectImage(r)
  <2>1. alone[r] /\ ~crashed[r]
    BY <1>5 DEF SandwichStep, AcceptImage, StartCommand, ConvertSucceeds, ConvertFails,
       ReconvertFails, SandwichSucceeds, FormatUnknown, SandwichFails, CombineSucceeds,
       OptimizeSucceeds, CombineFails, ExtractSucceeds, ExtractFails, ReadResult,
       ReadFails, Cleanup, Fail, At
  <2>2. ReadsItsImage(r)
    BY <2>1
  <2>3. InputFile(r)' = InputFile(r) /\ InputFile(r) \in Names
    BY FileNames DEF InputFile
  <2>4. request' = request
    BY OwnStep
  <2>5. CASE AcceptImage(r)
    <3>1. files' = files /\ stem' = stem /\ pc'[r] \in {"convert", "sandwich"}
      BY <2>5 DEF AcceptImage, Goto
    <3>2. files[InputFile(r)] = Image(JobOf[r])
      <4>1. files[InputFile(r)] # Empty
        BY <2>5 DEF AcceptImage, HasType, Empty
      <4> QED
        BY <2>2, <2>5, <4>1 DEF ReadsItsImage, AcceptImage, At
    <3>3. stem[r] = "in"
      BY <2>5 DEF PathInv, AcceptImage, At
    <3>4. Reads(r)' = {File(r, "input")'}
      BY <3>1, StepTables DEF Reads
    <3>5. File(r, "input")' = InputFile(r)
      BY <3>1, <3>3 DEF File, InputFile
    <3> QED
      BY <2>3, <3>1, <3>2, <3>4, <3>5 DEF ReadsItsImage
  <2>6. CASE StartCommand(r)
    <3>1. pc[r] \in Commands /\ pc' = pc /\ stem' = stem /\ errorFlag' = errorFlag
      BY <2>6 DEF StartCommand
    <3>2. \A n \in Names : n # Writes(r) => files'[n] = files[n]
      BY <2>6, <3>1, ProgramNames DEF StartCommand
    <3>3. \A n \in Reads(r) \cup {InputFile(r)} : files'[n] = Image(JobOf[r])
      BY <2>2, <2>3, <3>1, <3>2, ProgramNames, WritesElsewhere DEF ReadsItsImage
    <3>4. Reads(r)' = Reads(r)
      BY <3>1 DEF Reads, File
    <3> QED
      BY <2>3, <3>1, <3>3, <3>4 DEF ReadsItsImage, Commands
  <2>7. ASSUME Finishes(r), pc[r] \in Commands, stem' = stem,
               pc'[r] \in Commands => Reads(r)' \subseteq Reads(r) \cup {Writes(r)},
               pc'[r] = "read" => FileToDeliver(r)' = Writes(r),
               pc'[r] \in Commands \cup {"read"}
        PROVE  ReadsItsImage(r)'
    <3>1. \A n \in Reads(r) \cup {Writes(r), InputFile(r)} : files'[n] = Image(JobOf[r])
      BY <2>2, <2>7, EndsWhole
    <3> QED
      BY <2>3, <2>7, <3>1 DEF ReadsItsImage, Commands
  <2>8. CASE ConvertSucceeds(r)
    <3>1. /\ Finishes(r) /\ pc[r] \in {"convert", "reconvert"} /\ pc'[r] = "sandwich"
          /\ stem'[r] = "pdf"
      BY <2>8 DEF ConvertSucceeds, At, Goto
    <3>2. /\ files'[Writes(r)] = Image(JobOf[r])
          /\ files'[InputFile(r)] = Image(JobOf[r])
      BY <2>2, <3>1, EndsWhole DEF Commands
    <3>3. Writes(r) = <<Base(r), "pdf", "input">>
      BY <3>1, ReadNames
    <3>4. File(r, "input")' = Writes(r)
      BY <3>1, <3>3 DEF File
    <3>5. Reads(r)' = {File(r, "input")'}
      BY <3>1, StepTables DEF Reads
    <3> QED
      BY <2>3, <3>1, <3>2, <3>4, <3>5 DEF ReadsItsImage
  <2>9. CASE SandwichSucceeds(r)
    <3>1. Finishes(r) /\ pc[r] = "sandwich" /\ stem' = stem /\ Format(r) # "other"
          /\ pc'[r] = AfterSandwich[Format(r)]
      BY <2>9 DEF SandwichSucceeds, At, Goto
    <3>2. Reads(r) = {File(r, "input")} /\ Writes(r) = File(r, "ocr")
      BY <3>1, ReadNames
    <3>3. \A s : File(r, s)' = File(r, s)
      BY <3>1 DEF File
    <3>4. pc'[r] \in {"combine", "read", "extract"}
      BY <3>1, Formats, StepTables
    <3>5. pc'[r] # "read" => Reads(r)' \subseteq Reads(r) \cup {Writes(r)}
      <4>1. pc'[r] # "read" => Reads(r)' \subseteq {File(r, "ocr"), File(r, "input")}
        BY <3>3, <3>4, StepTables DEF Reads
      <4> QED
        BY <3>2, <4>1
    <3>6. pc'[r] = "read" => FileToDeliver(r)' = File(r, "ocr")
      <4>1. pc'[r] = "read" => Format(r) = "OCRLAYERONLY"
        <5> HIDE DEF SandwichTypeOK
        <5>1. Format(r) \in {"COMBINEDPDF", "OCRLAYERONLY", "TXT"}
          BY <3>1, Formats
        <5>2. /\ AfterSandwich["COMBINEDPDF"] = "combine"
              /\ AfterSandwich["TXT"] = "extract"
          BY StepTables
        <5> QED
          BY <3>1, <5>1, <5>2
      <4>2. FileToDeliver(r)' = FileToDeliver(r)
        BY <2>4, <3>3, SameFormat DEF FileToDeliver
      <4> QED
        BY <4>1, <4>2, Delivered
    <3> QED
      BY <2>7, <3>1, <3>2, <3>4, <3>5, <3>6 DEF Commands
  <2>10. CASE CombineSucceeds(r)
    <3>1. /\ Finishes(r) /\ pc[r] = "combine" /\ stem' = stem
          /\ pc'[r] = IF Request(r).optimize THEN "optimize" ELSE "read"
      BY <2>10 DEF CombineSucceeds, At, Goto
    <3>2. Writes(r) = File(r, "comb") /\ Format(r) = "COMBINEDPDF"
      BY <3>1, ReadNames DEF PathInv
    <3>3. \A s : File(r, s)' = File(r, s)
      BY <3>1 DEF File
    <3>4. pc'[r] = "optimize" => Reads(r)' = {File(r, "comb")}
      BY <3>3, StepTables DEF Reads
    <3>5. pc'[r] = "read" => FileToDeliver(r)' = File(r, "comb")
      <4>1. pc'[r] = "read" => ~Optimizes(r)
        BY <3>1 DEF Optimizes
      <4>2. FileToDeliver(r)' = FileToDeliver(r)
        BY <2>4, <3>3, SameFormat DEF FileToDeliver
      <4> QED
        BY <3>2, <4>1, <4>2, Delivered
    <3> QED
      BY <2>7, <3>1, <3>2, <3>4, <3>5 DEF Commands
  <2>11. CASE OptimizeSucceeds(r) \/ ExtractSucceeds(r)
    <3>1. /\ Finishes(r) /\ pc[r] \in {"optimize", "extract"} /\ stem' = stem
          /\ pc'[r] = "read"
      BY <2>11 DEF OptimizeSucceeds, ExtractSucceeds, At, Goto
    <3>2. \A s : File(r, s)' = File(r, s)
      BY <3>1 DEF File
    <3>3. FileToDeliver(r)' = FileToDeliver(r)
      BY <2>4, <3>2, SameFormat DEF FileToDeliver
    <3>4. FileToDeliver(r) = Writes(r)
      <4>1. CASE pc[r] = "optimize"
        BY <4>1, ReadNames, Delivered DEF PathInv
      <4>2. CASE pc[r] = "extract"
        BY <4>2, ReadNames, Delivered DEF PathInv
      <4> QED
        BY <3>1, <4>1, <4>2
    <3> QED
      BY <2>7, <3>1, <3>3, <3>4 DEF Commands
  <2>12. CASE ConvertFails(r)
    <3>1. files' = files /\ stem' = stem /\ pc[r] = "convert" /\ pc'[r] = "reconvert"
      BY <2>12 DEF ConvertFails, Breaks, At, Goto
    <3>2. Reads(r)' = Reads(r)
      BY <3>1, StepTables DEF Reads, File
    <3> QED
      BY <2>2, <2>3, <3>1, <3>2 DEF ReadsItsImage, Commands
  <2>13. ASSUME pc[r] \in Commands, Finishes(r) \/ Breaks(r), errorFlag'[r],
                pc'[r] \in {"cleanup", "read"}
         PROVE  ReadsItsImage(r)'
    <3>1. files'[InputFile(r)] = Image(JobOf[r])
      <4>1. CASE Finishes(r)
        BY <2>2, <2>13, <4>1, EndsWhole
      <4>2. CASE Breaks(r)
        BY <2>2, <2>13, <4>2 DEF Breaks, ReadsItsImage
      <4> QED
        BY <2>13, <4>1, <4>2
    <3> QED
      BY <2>3, <2>13, <3>1 DEF ReadsItsImage, Commands
  <2>14. CASE ReconvertFails(r) \/ FormatUnknown(r) \/ SandwichFails(r) \/ CombineFails(r)
    BY <2>13, <2>14 DEF ReconvertFails, FormatUnknown, SandwichFails, CombineFails, Fail,
       At, Goto, Commands
  <2>15. CASE ExtractFails(r)
    BY <2>13, <2>15 DEF ExtractFails, At, Goto, Commands
  <2>16. CASE ReadResult(r)
    <3>1. /\ pc[r] = "read" /\ pc'[r] = "cleanup" /\ files' = files
          /\ answer'[r].status = "done"
      BY <2>16 DEF ReadResult, At, Goto, Done
    <3> QED
      BY <2>2, <2>3, <3>1 DEF ReadsItsImage, Commands
  <2>17. CASE ReadFails(r)
    <3>1. /\ pc[r] = "read" /\ pc'[r] = "cleanup" /\ files' = files
          /\ errorFlag' = errorFlag /\ files[FileToDeliver(r)] = NoFile
      BY <2>17 DEF ReadFails, At, Goto
    <3>2. errorFlag[r]
      BY <2>2, <3>1, ImageContents, JobAssumption DEF ReadsItsImage
    <3> QED
      BY <2>2, <2>3, <3>1, <3>2 DEF ReadsItsImage, Commands
  <2>18. CASE Cleanup(r)
    <3>1. pc'[r] = "ended"
      BY <2>18 DEF Cleanup, Goto
    <3> QED
      BY <3>1 DEF ReadsItsImage, Commands
  <2> QED
    BY <1>5, <2>5, <2>6, <2>8, <2>9, <2>10, <2>11, <2>12, <2>14, <2>15, <2>16, <2>17,
       <2>18 DEF SandwichStep
<1> QED
  BY <1>1, <1>2, <1>3, <1>4, <1>5

LEMMA ImageStep ==
  ASSUME SandwichTypeOK, PathInv, AloneInv, ImageInv, NEW q \in Runs, SandwichStep(q)
  PROVE  ImageInv'
<1> SUFFICES ASSUME NEW r \in Runs, alone'[r], ~crashed'[r] PROVE ReadsItsImage(r)'
  BY DEF ImageInv
<1>1. CASE r = q
  BY <1>1, ReadsOn DEF ImageInv
<1>2. CASE r # q
  <2>1. alone[r] /\ ~crashed[r]
    BY <1>2, OwnStep
  <2> QED
    BY <1>2, <2>1, ReadsOnOthers DEF ImageInv
<1> QED
  BY <1>1, <1>2

LEMMA WholeStep ==
  ASSUME SandwichTypeOK, PathInv, ImageInv, WholeIfAlone, NEW q \in Runs, SandwichStep(q)
  PROVE  WholeIfAlone'
<1> SUFFICES ASSUME NEW r \in Runs, alone'[r], answer'[r].status = "done", ~errorFlag'[r]
             PROVE  answer'[r].content = Image(JobOf[r])
  BY DEF WholeIfAlone
<1>1. CASE r = q /\ ReadResult(q)
  <2>1. /\ pc[r] = "read" /\ ~crashed[r] /\ alone[r] /\ ~errorFlag[r]
        /\ answer'[r] = Done(files[FileToDeliver(r)])
    BY <1>1 DEF SandwichTypeOK, ReadResult, At
  <2> QED
    BY <2>1 DEF ImageInv, ReadsItsImage, Done
<1>2. CASE r # q
  <2>1. alone[r] /\ answer'[r] = answer[r] /\ errorFlag'[r] = errorFlag[r]
    BY <1>2, OwnStep
  <2> QED
    BY <2>1 DEF WholeIfAlone
<1>3. CASE r = q /\ ~ReadResult(q)
  <2>1. answer'[r].status = "done" => answer'[r] = answer[r]
    BY <1>3 DEF SandwichTypeOK, SandwichStep, SaveImage, SaveFails, AcceptImage, RejectImage,
         ArgsPanic, StartCommand, ConvertSucceeds, ConvertFails, ReconvertFails,
         SandwichSucceeds, FormatUnknown, SandwichFails, CombineSucceeds,
         OptimizeSucceeds, CombineFails, ExtractSucceeds, ExtractFails, ReadFails,
         Cleanup, SandwichCrashes, OrphanEnds, Fail, Abort, Failed
  <2>2. ~errorFlag[r]
    BY <1>3 DEF SandwichTypeOK, SandwichStep, SaveImage, SaveFails, AcceptImage, RejectImage,
         ArgsPanic, StartCommand, ConvertSucceeds, ConvertFails, ReconvertFails,
         SandwichSucceeds, FormatUnknown, SandwichFails, CombineSucceeds,
         OptimizeSucceeds, CombineFails, ExtractSucceeds, ExtractFails, ReadFails,
         Cleanup, SandwichCrashes, OrphanEnds, Fail
  <2>3. alone[r]
    <3>1. Active(r)
      BY <1>3, <2>1, InactiveEnters DEF PathInv, NoAnswer, SaveImage, SaveFails, At,
         Abort, Failed, SandwichTypeOK
    <3> QED
      BY <1>3, <3>1, ActiveStep
  <2> QED
    BY <2>1, <2>2, <2>3 DEF WholeIfAlone
<1> QED
  BY <1>1, <1>2, <1>3

-----------------------------------------------------------------------------
(* Who has to remove a file.                                                *)
LEMMA DerivedFiles ==
  ASSUME SandwichTypeOK, NEW r \in Runs
  PROVE  /\ Format(r) = "COMBINEDPDF" => File(r, "comb") \in FilesToDelete(r)
         /\ Optimizes(r) => File(r, "compr") \in FilesToDelete(r)
         /\ Format(r) = "TXT" => File(r, "txt") \in FilesToDelete(r)
         /\ InputFile(r) \in FilesToDelete(r)
<1>1. Format(r) = "COMBINEDPDF" => "comb" \in Derived(r)
  BY DEF Derived
<1>2. Optimizes(r) => "compr" \in Derived(r)
  BY DEF Derived, Optimizes
<1>3. Format(r) = "TXT" => "txt" \in Derived(r)
  BY DEF Derived
<1> QED
  BY <1>1, <1>2, <1>3 DEF FilesToDelete

(* What a program writes is a layer or owed by its run.                     *)
LEMMA WritesOwed ==
  ASSUME SandwichTypeOK, PathInv, NEW r \in Runs, pc[r] \in Commands
  PROVE  Layer(Writes(r)) \/ Writes(r) \in Owes(r)
<1>1. CASE pc[r] \in {"convert", "reconvert", "sandwich"}
  BY <1>1, ReadNames DEF Layer, File
<1>2. CASE pc[r] \in {"combine", "optimize", "extract"}
  BY <1>2, ReadNames, DerivedFiles DEF Owes, PathInv
<1> QED
  BY <1>1, <1>2 DEF Commands

(* A run owes what it owed, unless it removes it and ends well.             *)
LEMMA OwesOn ==
  ASSUME SandwichTypeOK, NEW r \in Runs, SandwichStep(r), pc[r] # "idle",
         NEW n \in Owes(r) \cap Names, files'[n] # NoFile
  PROVE  n \in Owes(r)' /\ pc'[r] # "idle" /\ ~EndedWell(r)'
<1>1. request' = request
  BY OwnStep
<1>2. stem'[r] = stem[r] => FilesToDelete(r)' = FilesToDelete(r)
  BY <1>1, SameFormat DEF FilesToDelete, InputFile, File, Derived
<1>3. InputFile(r)' = InputFile(r) /\ InputFile(r) \in FilesToDelete(r)'
  BY <1>1 DEF FilesToDelete, InputFile
<1>4. CASE Cleanup(r)
  <2>1. /\ pc[r] = "cleanup" /\ pc'[r] = "ended" /\ stem'[r] = stem[r]
        /\ errorFlag' = errorFlag
    BY <1>4 DEF SandwichTypeOK, Cleanup, At, Goto
  <2>2. n \in FilesToDelete(r)
    BY <2>1 DEF Owes
  <2>3. ~EndedWell(r)'
    <3>1. Keeps(r) \/ errorFlag[r]
      BY <1>4, <2>2 DEF Cleanup
    <3> QED
      BY <1>1, <2>1, <3>1, SameFormat DEF EndedWell
  <2> QED
    BY <1>2, <2>1, <2>2, <2>3 DEF Owes
<1>5. CASE ~Cleanup(r)
  <2>1. ~SaveImage(r) /\ ~SaveFails(r)
    BY DEF SaveImage, SaveFails, At
  <2>2. CASE SandwichSucceeds(r)
    <3>1. pc'[r] \in {"combine", "read", "extract"} /\ pc[r] = "sandwich" /\ stem' = stem
      BY <2>2, Formats, StepTables DEF SandwichTypeOK, SandwichSucceeds, At, Goto
    <3> QED
      BY <1>2, <3>1 DEF Owes, EndedWell
  <2>3. CASE ~SandwichSucceeds(r)
    <3>1. pc'[r] # "idle"
      BY <1>5, <2>1, <2>3 DEF SandwichTypeOK, SandwichStep,
       AcceptImage, RejectImage, ArgsPanic, StartCommand, ConvertSucceeds, ConvertFails,
       ReconvertFails, FormatUnknown, SandwichFails, CombineSucceeds, OptimizeSucceeds,
       CombineFails, ExtractSucceeds, ExtractFails, ReadResult, ReadFails,
       SandwichCrashes, OrphanEnds, Fail, Abort, Goto
    <3>2. pc'[r] = "ended" => answer'[r].status = "error"
      <4>1. pc[r] # "ended"
        BY <2>1, InactiveEnters DEF Active
      <4> QED
        BY <1>5, <2>1, <2>3, <4>1 DEF SandwichTypeOK, SandwichStep,
       AcceptImage, RejectImage, ArgsPanic, StartCommand, ConvertSucceeds, ConvertFails,
       ReconvertFails, FormatUnknown, SandwichFails, CombineSucceeds, OptimizeSucceeds,
       CombineFails, ExtractSucceeds, ExtractFails, ReadResult, ReadFails,
       SandwichCrashes, OrphanEnds, Fail, Abort, Goto,
       Failed
    <3>3. pc[r] \notin {"check", "convert", "reconvert"} =>
              pc'[r] \notin {"check", "convert", "reconvert"} /\ stem'[r] = stem[r]
      BY <1>5, <2>1, <2>3 DEF SandwichTypeOK, SandwichStep, At,
       AcceptImage, RejectImage, ArgsPanic, StartCommand, ConvertSucceeds, ConvertFails,
       ReconvertFails, FormatUnknown, SandwichFails, CombineSucceeds, OptimizeSucceeds,
       CombineFails, ExtractSucceeds, ExtractFails, ReadResult, ReadFails,
       SandwichCrashes, OrphanEnds, Fail, Abort, Goto
    <3>4. n \in Owes(r)'
      <4>1. CASE pc[r] \in {"check", "convert", "reconvert"}
        BY <1>3, <4>1 DEF Owes
      <4>2. CASE pc[r] \notin {"check", "convert", "reconvert"}
        BY <1>2, <3>3, <4>2 DEF Owes
      <4> QED
        BY <4>1, <4>2
    <3> QED
      BY <3>1, <3>2, <3>4 DEF EndedWell
  <2> QED
    BY <2>2, <2>3
<1> QED
  BY <1>4, <1>5

LEMMA NewFiles ==
  ASSUME SandwichTypeOK, NEW q \in Runs, SandwichStep(q), NEW n \in Names,
         files[n] = NoFile, files'[n] # NoFile
  PROVE  \/ (SaveImage(q) \/ SaveFails(q)) /\ n = InputFile(q)
         \/ pc[q] \in Commands /\ n = Writes(q)
<1> USE DEF SandwichTypeOK
<1>1. CASE SaveImage(q) \/ SaveFails(q)
  BY <1>1, FileNames DEF SaveImage, SaveFails
<1>2. CASE StartCommand(q)
  BY <1>2 DEF StartCommand
<1>3. CASE Finishes(q) \/ Breaks(q)
  BY <1>3 DEF Finishes, Breaks
<1>4. CASE Cleanup(q)
  BY <1>4 DEF Cleanup
<1>5. files' # files
  OBVIOUS
<1> QED
  BY <1>1, <1>2, <1>3, <1>4, <1>5 DEF SandwichStep, AcceptImage, RejectImage, ArgsPanic,
     ConvertSucceeds, ConvertFails, ReconvertFails, SandwichSucceeds, FormatUnknown,
     SandwichFails, CombineSucceeds, OptimizeSucceeds, CombineFails, ExtractSucceeds,
     ExtractFails, ReadResult, ReadFails, SandwichCrashes, OrphanEnds

LEMMA OwedStep ==
  ASSUME SandwichTypeOK, PathInv, OwedInv, NEW q \in Runs, SandwichStep(q)
  PROVE  OwedInv'
<1> SUFFICES ASSUME NEW n \in Names, files'[n] # NoFile, ~Layer(n)
             PROVE  \E r \in Runs : /\ Base(r) = n[1] /\ n \in Owes(r)' /\ pc'[r] # "idle"
                                    /\ ~EndedWell(r)'
  BY DEF OwedInv, Layer
<1>1. ASSUME NEW r \in Runs \ {q}
      PROVE  /\ Owes(r)' = Owes(r) /\ pc'[r] = pc[r] /\ EndedWell(r)' = EndedWell(r)
  <2>1. /\ pc'[r] = pc[r] /\ stem'[r] = stem[r] /\ errorFlag'[r] = errorFlag[r]
        /\ answer'[r] = answer[r] /\ crashed'[r] = crashed[r] /\ request' = request
    BY OwnStep
  <2>2. /\ Format(r)' = Format(r) /\ Optimizes(r)' = Optimizes(r) /\ Keeps(r)' = Keeps(r)
    BY <2>1, SameFormat
  <2>3. FilesToDelete(r)' = FilesToDelete(r) /\ InputFile(r)' = InputFile(r)
    BY <2>1, <2>2 DEF FilesToDelete, InputFile, File, Derived
  <2> QED
    BY <2>1, <2>2, <2>3 DEF Owes, EndedWell
<1>2. CASE files[n] # NoFile
  <2>1. PICK r \in Runs : /\ Base(r) = n[1] /\ n \in Owes(r) /\ pc[r] # "idle"
                          /\ ~EndedWell(r)
    BY <1>2 DEF OwedInv
  <2>2. CASE r = q
    BY <2>1, <2>2, OwesOn
  <2>3. CASE r # q
    BY <1>1, <2>1, <2>3
  <2> QED
    BY <2>2, <2>3
<1>3. CASE files[n] = NoFile
  <2>1. CASE (SaveImage(q) \/ SaveFails(q)) /\ n = InputFile(q)
    <3>1. pc'[q] = "check" \/ (pc'[q] = "ended" /\ answer'[q].status = "error")
      BY <2>1 DEF SandwichTypeOK, SaveImage, SaveFails, Abort, Goto, Failed
    <3>2. InputFile(q)' = n /\ n \in FilesToDelete(q)'
      BY <2>1 DEF FilesToDelete, InputFile
    <3> QED
      BY <2>1, <3>1, <3>2 DEF Owes, EndedWell, InputFile
  <2>2. CASE pc[q] \in Commands /\ n = Writes(q)
    <3>1. n \in Owes(q) /\ n[1] = Base(q) /\ pc[q] # "idle"
      BY <2>2, WritesOwed, ProgramNames DEF Commands
    <3> QED
      BY <3>1, OwesOn
  <2> QED
    BY <1>3, <2>1, <2>2, NewFiles
<1> QED
  BY <1>2, <1>3

-----------------------------------------------------------------------------
LEMMA SandwichInvStep ==
  ASSUME SandwichInv, NEW q \in Runs, SandwichStep(q)
  PROVE  SandwichInv'
<1>1. /\ SandwichTypeOK /\ PathInv /\ NothingInv /\ AloneInv /\ ImageInv /\ OwedInv
      /\ WholeIfAlone
  BY DEF SandwichInv
<1>2. SandwichTypeOK'
  BY <1>1, SandwichTypeStep
<1>3. PathInv' /\ NothingInv'
  BY <1>1, PathStep
<1>4. AloneInv'
  BY <1>1, AloneStep
<1>5. ImageInv'
  BY <1>1, ImageStep
<1>6. OwedInv'
  BY <1>1, OwedStep
<1>7. WholeIfAlone'
  BY <1>1, WholeStep
<1> QED
  BY <1>2, <1>3, <1>4, <1>5, <1>6, <1>7 DEF SandwichInv

LEMMA SandwichInvStutter ==
  ASSUME SandwichInv, UNCHANGED sandwichVars
  PROVE  SandwichInv'
<1> USE DEF sandwichVars
<1>1. SandwichTypeOK' = SandwichTypeOK
  BY DEF SandwichTypeOK
<1>2. /\ \A r \in Runs : Format(r)' = Format(r) /\ Optimizes(r)' = Optimizes(r)
      /\ \A r \in Runs : Keeps(r)' = Keeps(r)
  BY SameFormat
<1>3. PathInv => PathInv'
  BY <1>2 DEF PathInv
<1>4. NothingInv => NothingInv'
  BY <1>2 DEF NothingInv
<1>5. AloneInv => AloneInv'
  BY DEF AloneInv, Active, Shares
<1>6. \A r \in Runs : ReadsItsImage(r) <=> ReadsItsImage(r)'
  <2>1. \A r \in Runs : /\ Reads(r)' = Reads(r) /\ FileToDeliver(r)' = FileToDeliver(r)
                        /\ InputFile(r)' = InputFile(r)
    BY <1>2 DEF Reads, File, FileToDeliver, InputFile
  <2> QED
    BY <2>1 DEF ReadsItsImage
<1>7. ImageInv => ImageInv'
  BY <1>6 DEF ImageInv
<1>8. \A r \in Runs : Owes(r)' = Owes(r) /\ EndedWell(r)' = EndedWell(r)
  <2>1. \A r \in Runs : FilesToDelete(r)' = FilesToDelete(r) /\ InputFile(r)' = InputFile(r)
    BY <1>2 DEF FilesToDelete, Derived, File, InputFile
  <2> QED
    BY <1>2, <2>1 DEF Owes, EndedWell
<1>9. OwedInv => OwedInv'
  BY <1>8 DEF OwedInv, Layer
<1>10. WholeIfAlone => WholeIfAlone'
  BY DEF WholeIfAlone
<1> QED
  BY <1>1, <1>3, <1>4, <1>5, <1>7, <1>9, <1>10 DEF SandwichInv

LEMMA SandwichInvInit ==
  ASSUME SandwichInit
  PROVE  SandwichInv
<1>1. SandwichTypeOK
  BY KindsAssumption, FlagsAssumption, AnswerTypes
     DEF SandwichInit, SandwichTypeOK, Stems, Commands
<1>2. PathInv /\ NothingInv /\ AloneInv
  BY DEF SandwichInit, PathInv, NothingInv, AloneInv, Active, NoAnswer
<1>3. ImageInv
  BY DEF SandwichInit, ImageInv, ReadsItsImage, Commands
<1>4. OwedInv /\ WholeIfAlone
  BY DEF SandwichInit, OwedInv, WholeIfAlone, NoAnswer
<1> QED
  BY <1>1, <1>2, <1>3, <1>4 DEF SandwichInv

-----------------------------------------------------------------------------
TesseractInv == TesseractTypeOK /\ \A t \in Scans : tanswer[t].text # "nothing"

LEMMA TesseractEnds ==
  ASSUME TesseractInv, NEW t \in Scans, TEnd(t, Failed(TRUE))
  PROVE  /\ tpc' \in [Scans -> {"idle", "args", "exec", "read", "ended", "dead"}]
         /\ tanswer' \in [Scans -> Answers]
         /\ \A s \in Scans : tanswer'[s].text # "nothing"
<1>1. Failed(TRUE) \in Answers /\ Failed(TRUE).text # "nothing"
  BY AnswerTypes DEF Failed
<1> QED
  BY <1>1 DEF TesseractInv, TesseractTypeOK, TEnd, TGoto

LEMMA TesseractInvStep ==
  ASSUME TesseractInv, NEW t \in Scans, TesseractStep(t)
  PROVE  TesseractInv'
<1>1. /\ Image(ScanOf[t]) \in Contents /\ Empty \in Contents
  BY ImageContents, ScanAssumption
<1>2. TesseractTypeOK
  BY DEF TesseractInv
<1>3. CASE TSaveImage(t)
  BY <1>1, <1>3 DEF TSaveImage, TesseractInv, TesseractTypeOK, TGoto
<1>4. CASE TSaveFails(t)
  <2>1. /\ input' \in [Scans -> Contents \cup {NoFile}]
        /\ outfile' \in [Scans -> Contents \cup {NoFile}]
    BY <1>1, <1>2, <1>4 DEF TSaveFails, TesseractTypeOK
  <2> QED
    BY <1>4, <2>1, TesseractEnds DEF TSaveFails, TesseractInv, TesseractTypeOK
<1>5. CASE TArgs(t) \/ TArgsPanic(t)
  BY <1>5 DEF TArgs, TArgsPanic, TesseractInv, TesseractTypeOK, TGoto
<1>6. CASE TArgsFail(t) \/ TNoOutfile(t)
  <2>1. /\ input' \in [Scans -> Contents \cup {NoFile}]
        /\ outfile' \in [Scans -> Contents \cup {NoFile}]
        /\ TEnd(t, Failed(TRUE))
    BY <1>2, <1>6 DEF TArgsFail, TNoOutfile, TesseractTypeOK
  <2> QED
    BY <2>1, TesseractEnds DEF TesseractInv, TesseractTypeOK
<1>7. CASE TExec(t)
  <2>1. Made({input[t]}) \in Contents
    BY <1>2, <1>7, MadeContents DEF TExec, TesseractTypeOK
  <2> QED
    BY <1>7, <2>1 DEF TExec, TesseractInv, TesseractTypeOK, TGoto
<1>8. CASE TExecFails(t)
  <2>1. HalfMade({input[t]} \ {NoFile}) \in Contents
    BY <1>2, MadeContents DEF TesseractTypeOK
  <2>2. /\ input' \in [Scans -> Contents \cup {NoFile}]
        /\ outfile' \in [Scans -> Contents \cup {NoFile}]
    BY <1>2, <1>8, <2>1 DEF TExecFails, TesseractTypeOK
  <2> QED
    BY <1>8, <2>2, TesseractEnds DEF TExecFails, TesseractInv, TesseractTypeOK
<1>9. CASE TReadOutfile(t)
  <2>1. Done(outfile[t]) \in Answers /\ Done(outfile[t]).text # "nothing"
    BY <1>2, <1>9, AnswerTypes DEF TReadOutfile, Done, TesseractTypeOK
  <2> QED
    BY <1>9, <2>1 DEF TReadOutfile, TEnd, TGoto, TesseractInv, TesseractTypeOK
<1> QED
  BY <1>3, <1>4, <1>5, <1>6, <1>7, <1>8, <1>9 DEF TesseractStep

(* The program of a preprocessor has an input.                              *)
PassInv ==
    /\ PreprocessTypeOK /\ PrepTidy
    /\ \A p \in Passes : ppc[p] = "exec" => tmpIn[p] # NoFile

LEMMA PassInvStep ==
  ASSUME PassInv, NEW p \in Passes, PreprocessStep(p)
  PROVE  PassInv'
<1> USE DEF PassInv, PreprocessTypeOK, PrepTidy, PGoto, PReturn
<1>1. Empty \in Contents /\ image[p] # NoFile
  BY ImageContents, PassAssumption, NoFileAssumption
<1>2. CASE SaveInput(p)
  BY <1>1, <1>2 DEF SaveInput
<1>3. CASE SaveInputFails(p)
  BY <1>1, <1>3 DEF SaveInputFails
<1>4. CASE Exec(p)
  <2>1. Made({tmpIn[p]}) \in Contents /\ HalfMade({tmpIn[p]}) \in Contents
    BY <1>4, MadeContents DEF Exec
  <2>2. \E c \in Contents \cup {NoFile}, x \in {"ok", "failed"} :
            /\ tmpOut' = [tmpOut EXCEPT ![p] = c]
            /\ exitCode' = [exitCode EXCEPT ![p] = x]
    BY <1>4, <2>1 DEF Exec
  <2> QED
    BY <1>4, <2>2 DEF Exec
<1>5. CASE ReadOutput(p) \/ NoOutput(p)
  BY <1>5 DEF ReadOutput, NoOutput
<1>6. CASE RemoveFiles(p) \/ PreprocessKilled(p)
  BY <1>6 DEF RemoveFiles, PreprocessKilled
<1> QED
  BY <1>2, <1>3, <1>4, <1>5, <1>6 DEF PreprocessStep

Inv == SandwichInv /\ TesseractInv /\ PassInv

LEMMA Invariance == Spec => []Inv
<1>1. Init => Inv
  <2> SUFFICES ASSUME Init PROVE Inv
    OBVIOUS
  <2>1. SandwichInv
    BY SandwichInvInit DEF Init
  <2>2. TesseractInv
    BY AnswerTypes DEF Init, TesseractInit, TesseractInv, TesseractTypeOK, NoAnswer
  <2>3. PassInv
    BY ImageContents, PassAssumption
       DEF Init, PreprocessInit, PassInv, PreprocessTypeOK, PrepTidy
  <2> QED
    BY <2>1, <2>2, <2>3 DEF Inv
<1>2. Inv /\ [Next]_vars => Inv'
  <2> SUFFICES ASSUME Inv, [Next]_vars PROVE Inv'
    OBVIOUS
  <2>1. UNCHANGED tesseractVars => TesseractInv'
    BY DEF Inv, TesseractInv, TesseractTypeOK, tesseractVars
  <2>2. UNCHANGED preprocessVars => PassInv'
    BY DEF Inv, PassInv, PreprocessTypeOK, PrepTidy, preprocessVars
  <2>3. UNCHANGED sandwichVars => SandwichInv'
    BY SandwichInvStutter DEF Inv
  <2>4. CASE \E r \in Runs : SandwichStep(r) /\ UNCHANGED <<tesseractVars, preprocessVars>>
    BY <2>1, <2>2, <2>4, SandwichInvStep DEF Inv
  <2>5. CASE \E t \in Scans : TesseractStep(t) /\ UNCHANGED <<sandwichVars, preprocessVars>>
    BY <2>2, <2>3, <2>5, TesseractInvStep DEF Inv
  <2>6. CASE \E p \in Passes : PreprocessStep(p) /\ UNCHANGED <<sandwichVars, tesseractVars>>
    BY <2>1, <2>3, <2>6, PassInvStep DEF Inv
  <2>7. CASE UNCHANGED vars
    BY <2>1, <2>2, <2>3, <2>7 DEF Inv, vars
  <2> QED
    BY <2>4, <2>5, <2>6, <2>7 DEF Next
<1> QED
  BY <1>1, <1>2, PTL DEF Spec

-----------------------------------------------------------------------------
(* Type correctness of the engines and the preprocessors.                   *)
THEOREM TypeCorrect == Spec => []TypeOK
<1>1. Inv => TypeOK
  BY DEF Inv, SandwichInv, TesseractInv, PassInv, TypeOK
<1> QED
  BY <1>1, Invariance, PTL

(* Whoever has its files to itself and ends without the error flag delivers *)
(* the whole of its own image, whatever crashed or failed there before      *)
(* (sandwich_engine.go:201-216, 301-488).                                   *)
THEOREM AnswersAreWhole == Spec => []WholeIfAlone
<1>1. Inv => WholeIfAlone
  BY DEF Inv, SandwichInv
<1> QED
  BY <1>1, Invariance, PTL

(* Only a failure of pdftk or gs is answered as an error without a text     *)
(* (sandwich_engine.go:412-416, 437-441; tesseract_engine.go:97-130).       *)
THEOREM ErrorsAreNamed == Spec => []NamedErrors
<1>1. Inv => NamedErrors
  BY DEF Inv, SandwichInv, NothingInv, TesseractInv, NamedErrors
<1> QED
  BY <1>1, Invariance, PTL

(* Where all runs ended well only layers and converted inputs stay          *)
(* (sandwich_engine.go:310-342): every other file is owed by a run that     *)
(* has yet to end or did not end well.                                      *)
THEOREM OnlyLayersStay == Spec => []OnlyLayersLeft
<1>1. Inv => OnlyLayersLeft
  <2> SUFFICES ASSUME Inv, NEW n \in Names, files[n] # NoFile,
                      \A r \in Runs : Base(r) = n[1] => pc[r] = "idle" \/ EndedWell(r)
               PROVE  n[3] = "ocr" \/ <<n[2], n[3]>> = <<"pdf", "input">>
    BY DEF OnlyLayersLeft
  <2>1. OwedInv
    BY DEF Inv, SandwichInv
  <2>2. Layer(n)
    BY <2>1 DEF OwedInv
  <2> QED
    BY <2>2 DEF Layer
<1> QED
  BY <1>1, Invariance, PTL

(* A preprocessor that is not killed leaves no temporary file               *)
(* (convert-pdf.go:28-45, stroke_width_transform.go:19-36).                 *)
THEOREM PassesAreTidy == Spec => []PrepTidy
<1>1. Inv => PrepTidy
  BY DEF Inv, PassInv
<1> QED
  BY <1>1, Invariance, PTL

(* The input of a run that was alone and failed stays for debugging         *)
(* (sandwich_engine.go:310-326).                                            *)
THEOREM InputsAreKept == Spec => KeepsFailedInput
<1> DEFINE Kept == \A r \in Runs :
                      /\ alone[r] /\ answer[r].status = "error"
                      /\ pc[r] = "cleanup" /\ pc'[r] = "ended"
                      => files'[InputFile(r)] # NoFile
<1>1. Inv /\ [Next]_vars => [Kept]_vars
  <2> SUFFICES ASSUME Inv, Next, NEW r \in Runs, alone[r], answer[r].status = "error",
                      pc[r] = "cleanup", pc'[r] = "ended"
               PROVE  files'[InputFile(r)] # NoFile
    BY DEF vars
  <2>1. SandwichTypeOK /\ ImageInv
    BY DEF Inv, SandwichInv
  <2>2. PICK q \in Runs : SandwichStep(q)
    BY DEF Next, sandwichVars
  <2>3. SandwichStep(r)
    BY <2>1, <2>2, OwnStep
  <2>4. Cleanup(r)
    BY <2>1, <2>3 DEF SandwichTypeOK, SandwichStep, SaveImage, SaveFails, AcceptImage,
       RejectImage, ArgsPanic, StartCommand, ConvertSucceeds, ConvertFails,
       ReconvertFails, SandwichSucceeds, FormatUnknown, SandwichFails, CombineSucceeds,
       OptimizeSucceeds, CombineFails, ExtractSucceeds, ExtractFails, ReadResult,
       ReadFails, SandwichCrashes, OrphanEnds, At, Commands
  <2>5. errorFlag[r] /\ files[InputFile(r)] = Image(JobOf[r])
    BY <2>1, <2>4 DEF ImageInv, ReadsItsImage, Cleanup, At
  <2>6. files'[InputFile(r)] = files[InputFile(r)]
    BY <2>1, <2>4, <2>5, FileNames DEF Cleanup
  <2> QED
    BY <2>5, <2>6, ImageContents, JobAssumption
<1> QED
  BY <1>1, Invariance, PTL DEF Spec, KeepsFailedInput

-----------------------------------------------------------------------------
(* The contract of the sandwich engine.  A run that has not entered is      *)
(* alone and unflagged, one that cleans up has an answer.                   *)
RunInv ==
    \A r \in Runs :
        /\ pc[r] = "idle" => alone[r] /\ ~errorFlag[r]
        /\ pc[r] \in {"cleanup", "ended"} =>
              answer[r] \in {Failed(TRUE), Failed(FALSE)} \cup {Done(c) : c \in Contents}

LEMMA RunInvStep ==
  ASSUME SandwichTypeOK, PathInv, RunInv, NEW q \in Runs, SandwichStep(q)
  PROVE  RunInv'
<1> DEFINE RunsWell(r) ==
        /\ pc[r] = "idle" => alone[r] /\ ~errorFlag[r]
        /\ pc[r] \in {"cleanup", "ended"} =>
              answer[r] \in {Failed(TRUE), Failed(FALSE)} \cup {Done(c) : c \in Contents}
<1>1. \A r \in Runs : RunsWell(r)
  BY DEF RunInv
<1>2. ASSUME NEW r \in Runs \ {q} PROVE RunsWell(r)'
  <2>1. pc'[r] = pc[r] /\ errorFlag'[r] = errorFlag[r] /\ answer'[r] = answer[r]
    BY OwnStep
  <2>2. pc[r] = "idle" /\ alone[r] => alone'[r]
    BY <1>2 DEF SandwichTypeOK, SandwichStep, SaveImage, SaveFails, Enter, Active,
       AcceptImage, RejectImage, ArgsPanic, StartCommand, ConvertSucceeds, ConvertFails,
       ReconvertFails, SandwichSucceeds, FormatUnknown, SandwichFails, CombineSucceeds,
       OptimizeSucceeds, CombineFails, ExtractSucceeds, ExtractFails, ReadResult,
       ReadFails, Cleanup, SandwichCrashes, OrphanEnds
  <2> QED
    BY <1>1, <2>1, <2>2
<1>3. RunsWell(q)'
  <2> USE <1>1
  <2>1. CASE \/ SaveImage(q) \/ AcceptImage(q) \/ ArgsPanic(q) \/ StartCommand(q)
             \/ ConvertSucceeds(q) \/ ConvertFails(q) \/ OrphanEnds(q)
    BY <2>1 DEF SandwichTypeOK, SaveImage, AcceptImage, ArgsPanic, StartCommand,
         ConvertSucceeds, ConvertFails, OrphanEnds, Finishes, Breaks, At, Goto, Commands
  <2>2. CASE SandwichCrashes(q)
    BY <2>2 DEF SandwichTypeOK, SandwichCrashes, Active
  <2>3. CASE SaveFails(q) \/ RejectImage(q)
    BY <2>3 DEF SandwichTypeOK, SaveFails, RejectImage, Abort, At, Goto
  <2>4. CASE \/ ReconvertFails(q) \/ FormatUnknown(q) \/ SandwichFails(q)
             \/ CombineFails(q)
    BY <2>4 DEF SandwichTypeOK, ReconvertFails, FormatUnknown, SandwichFails,
         CombineFails, Fail, At, Goto
  <2>5. CASE \/ CombineSucceeds(q) \/ OptimizeSucceeds(q) \/ ExtractSucceeds(q)
             \/ ExtractFails(q)
    BY <2>5 DEF SandwichTypeOK, CombineSucceeds, OptimizeSucceeds, ExtractSucceeds,
         ExtractFails, At, Goto
  <2>6. CASE SandwichSucceeds(q)
    BY <2>6, Formats, StepTables DEF SandwichTypeOK, SandwichSucceeds, At, Goto
  <2>7. CASE ReadResult(q)
    <3>1. files[FileToDeliver(q)] \in Contents
      BY <2>7, Delivered DEF SandwichTypeOK, PathInv, ReadResult, At
    <3> QED
      BY <2>7, <3>1 DEF SandwichTypeOK, ReadResult, At, Goto
  <2>8. CASE ReadFails(q) \/ Cleanup(q)
    BY <2>8 DEF SandwichTypeOK, ReadFails, Cleanup, At, Goto
  <2> QED
    BY <2>1, <2>2, <2>3, <2>4, <2>5, <2>6, <2>7, <2>8 DEF SandwichStep
<1>4. \A r \in Runs : RunsWell(r)'
  BY <1>2, <1>3
<1> QED
  BY <1>4 DEF RunInv

-----------------------------------------------------------------------------
States == [r \in Runs |-> RunState(r)]
Returned(r) == IF pc[r] = "ended" THEN answer[r] ELSE NoAnswer
Results == [r \in Runs |-> Returned(r)]
Disturbed == {r \in Runs : ~alone[r]}
Flawed == {r \in Runs : errorFlag[r]}

(* A step changes what the contract sees of its own run only.               *)
LEMMA OnlyOwnState ==
  ASSUME SandwichTypeOK, NEW q \in Runs, SandwichStep(q)
  PROVE  /\ States' = [States EXCEPT ![q] = RunState(q)']
         /\ Results' = [Results EXCEPT ![q] = Returned(q)']
         /\ RunState(q)' = RunState(q) => States' = States
         /\ Returned(q)' = Returned(q) => Results' = Results
         /\ Flawed' = IF errorFlag'[q] THEN Flawed \cup {q} ELSE Flawed \ {q}
<1>1. \A r \in Runs \ {q} : /\ RunState(r)' = RunState(r) /\ Returned(r)' = Returned(r)
                            /\ errorFlag'[r] = errorFlag[r]
  BY OwnStep DEF RunState, Returned
<1> QED
  BY <1>1 DEF States, Results, Flawed

(* Who enters meets the active runs in its files.                           *)
LEMMA EntersContract ==
  ASSUME SandwichTypeOK, RunInv, NEW q \in Runs, pc[q] = "idle", Enter(q)
  PROVE  Disturbed' = Disturbed \cup Sandwich!Met(q) \cup {x \in {q} : Sandwich!Met(q) # {}}
<1>1. \A x \in Runs : Active(x) <=> RunState(x) \in {"working", "orphan"}
  BY DEF Active, RunState
<1>2. Sandwich!Met(q) = {x \in Runs : Shares(q, x) /\ Active(x)}
  BY <1>1 DEF Sandwich!Met
<1>3. alone[q] /\ ~Shares(q, q)
  BY DEF RunInv, Shares
<1>4. \A x \in Runs \ {q} : alone'[x] <=> alone[x] /\ x \notin Sandwich!Met(q)
  BY <1>2 DEF Enter
<1>5. alone'[q] <=> Sandwich!Met(q) = {}
  BY <1>2 DEF Enter
<1> QED
  BY <1>2, <1>3, <1>4, <1>5 DEF Disturbed

LEMMA SandwichContractStep ==
  ASSUME SandwichTypeOK, PathInv, WholeIfAlone, RunInv, NEW q \in Runs, SandwichStep(q)
  PROVE  [Sandwich!Next]_(Sandwich!contractVars)
<1>0. /\ States' = [States EXCEPT ![q] = RunState(q)']
      /\ Results' = [Results EXCEPT ![q] = Returned(q)']
      /\ RunState(q)' = RunState(q) => States' = States
      /\ Returned(q)' = Returned(q) => Results' = Results
      /\ States[q] = RunState(q)
  BY OnlyOwnState DEF States
<1>1. CASE SaveImage(q)
  <2>1. /\ RunState(q) = "idle" /\ RunState(q)' = "working"
        /\ Returned(q)' = Returned(q) /\ Flawed' = Flawed
    BY <1>1 DEF SandwichTypeOK, SaveImage, At, Goto, RunState, Returned, Flawed
  <2>2. Disturbed' = Disturbed \cup Sandwich!Met(q) \cup {x \in {q} : Sandwich!Met(q) # {}}
    BY <1>1, EntersContract DEF SaveImage, At
  <2>3. Sandwich!Begin(q)
    BY <1>0, <2>1, <2>2 DEF Sandwich!Begin, Sandwich!Enters, States, Results,
       Returned, Disturbed, Flawed
  <2> QED
    BY <2>3 DEF Sandwich!Next
<1>2. CASE SaveFails(q)
  <2>1. /\ RunState(q) = "idle" /\ RunState(q)' = "returned"
        /\ Returned(q)' = Failed(TRUE) /\ Flawed' = Flawed
    BY <1>2 DEF SandwichTypeOK, SaveFails, Abort, At, Goto, RunState, Returned, Flawed
  <2>2. Disturbed' = Disturbed \cup Sandwich!Met(q) \cup {x \in {q} : Sandwich!Met(q) # {}}
    BY <1>2, EntersContract DEF SaveFails, At
  <2>3. Sandwich!Refuse(q)
    BY <1>0, <2>1, <2>2 DEF Sandwich!Refuse, Sandwich!Enters, States, Results,
       Returned, Disturbed, Flawed
  <2> QED
    BY <2>3 DEF Sandwich!Next
<1>3. ASSUME ~SaveImage(q), ~SaveFails(q) PROVE Disturbed' = Disturbed
  BY <1>3 DEF SandwichStep, AcceptImage, RejectImage, ArgsPanic,
     StartCommand, ConvertSucceeds, ConvertFails, ReconvertFails, SandwichSucceeds,
     FormatUnknown, SandwichFails, CombineSucceeds, OptimizeSucceeds, CombineFails,
     ExtractSucceeds, ExtractFails, ReadResult, ReadFails, Cleanup, SandwichCrashes,
     OrphanEnds, Fail, Disturbed
<1> DEFINE Works == \/ AcceptImage(q) \/ StartCommand(q) \/ ConvertSucceeds(q)
                    \/ ConvertFails(q) \/ SandwichSucceeds(q) \/ CombineSucceeds(q)
                    \/ OptimizeSucceeds(q) \/ ExtractSucceeds(q) \/ ReadResult(q)
                    \/ ReadFails(q)
<1>4. CASE Works
  <2>1. RunState(q)' = RunState(q) /\ Returned(q)' = Returned(q)
    <3>1. CASE SandwichSucceeds(q)
      BY <3>1, Formats, StepTables DEF SandwichTypeOK, SandwichSucceeds, At, Goto, RunState, Returned
    <3>2. CASE ~SandwichSucceeds(q)
      BY <1>4, <3>2 DEF SandwichTypeOK, AcceptImage, StartCommand, ConvertSucceeds, ConvertFails,
         CombineSucceeds, OptimizeSucceeds, ExtractSucceeds, ReadResult, ReadFails, At,
         Goto, Commands, RunState, Returned
    <3> QED
      BY <3>1, <3>2
  <2>2. Flawed' = Flawed /\ ~SaveImage(q) /\ ~SaveFails(q)
    BY <1>4 DEF AcceptImage, StartCommand, ConvertSucceeds, ConvertFails,
       SandwichSucceeds, CombineSucceeds, OptimizeSucceeds, ExtractSucceeds, ReadResult,
       ReadFails, SaveImage, SaveFails, At, Commands, Flawed
  <2>3. UNCHANGED Sandwich!contractVars
    BY <1>0, <1>3, <2>1, <2>2 DEF Sandwich!contractVars, States, Results,
       Returned, Disturbed, Flawed
  <2> QED
    BY <2>3
<1>5. CASE \/ ReconvertFails(q) \/ FormatUnknown(q) \/ SandwichFails(q) \/ CombineFails(q)
           \/ ExtractFails(q)
  <2>1. /\ RunState(q) = "working" /\ RunState(q)' = "working"
        /\ Returned(q)' = Returned(q) /\ errorFlag'[q]
        /\ ~SaveImage(q) /\ ~SaveFails(q)
    BY <1>5 DEF SandwichTypeOK, ReconvertFails, FormatUnknown, SandwichFails, CombineFails,
       ExtractFails, Fail, At, Goto, RunState, Returned, SaveImage, SaveFails
  <2>2. Flawed' = Flawed \cup {q}
    <3>1. Flawed' = IF errorFlag'[q] THEN Flawed \cup {q} ELSE Flawed \ {q}
      BY OnlyOwnState
    <3> QED
      BY <2>1, <3>1, Zenon
  <2>3. RunState(q)' = RunState(q)
    BY <2>1
  <2>4. /\ States' = States /\ Results' = Results /\ Disturbed' = Disturbed
        /\ Flawed' = Flawed \cup {q} /\ States[q] = "working"
    BY <1>0, <1>3, <2>1, <2>2, <2>3
  <2>5. Sandwich!Flaw(q)
    BY <2>4 DEF Sandwich!Flaw, States, Results, Returned, Disturbed, Flawed
  <2> QED
    BY <2>5 DEF Sandwich!Next
<1>6. CASE RejectImage(q)
  <2>1. /\ RunState(q) = "working" /\ RunState(q)' = "returned"
        /\ Returned(q)' = Failed(TRUE) /\ Flawed' = Flawed
        /\ ~SaveImage(q) /\ ~SaveFails(q)
    BY <1>6 DEF SandwichTypeOK, RejectImage, Abort, At, Goto, RunState, Returned,
       SaveImage, SaveFails, Flawed
  <2>2. Sandwich!Return(q)
    BY <1>0, <1>3, <2>1 DEF Sandwich!Return, States, Results,
       Returned, Disturbed, Flawed
  <2> QED
    BY <2>2 DEF Sandwich!Next
<1>7. CASE Cleanup(q)
  <2>1. /\ RunState(q) = "working" /\ RunState(q)' = "returned"
        /\ Returned(q)' = answer[q] /\ Flawed' = Flawed
        /\ ~SaveImage(q) /\ ~SaveFails(q)
    BY <1>7 DEF SandwichTypeOK, Cleanup, At, Goto, RunState, Returned, SaveImage,
       SaveFails, Flawed
  <2>2. answer[q] \in {Failed(TRUE), Failed(FALSE)} \cup {Done(c) : c \in Contents}
    BY <1>7 DEF RunInv, Cleanup, At
  <2>3. q \notin Disturbed \cup Flawed =>
            answer[q] \in {Failed(TRUE), Failed(FALSE)} \cup {Done(Image(JobOf[q]))}
    <3>1. SUFFICES ASSUME NEW c \in Contents, answer[q] = Done(c), alone[q], ~errorFlag[q]
                   PROVE  answer[q] = Done(Image(JobOf[q]))
      BY <2>2 DEF Disturbed, Flawed
    <3>2. answer[q].status = "done" /\ answer[q].content = c
      BY <3>1 DEF Done
    <3> QED
      BY <3>1, <3>2 DEF WholeIfAlone
  <2>4. Sandwich!Return(q)
    BY <1>0, <1>3, <2>1, <2>2, <2>3 DEF Sandwich!Return, States, Results,
       Returned, Disturbed, Flawed
  <2> QED
    BY <2>4 DEF Sandwich!Next
<1>8. CASE ArgsPanic(q) \/ SandwichCrashes(q) \/ OrphanEnds(q)
  <2>1. /\ \/ RunState(q) = "working" /\ RunState(q)' \in {"dead", "orphan"}
           \/ RunState(q) = "orphan" /\ RunState(q)' = "dead"
        /\ Returned(q)' = Returned(q) /\ Flawed' = Flawed
        /\ ~SaveImage(q) /\ ~SaveFails(q)
    BY <1>8 DEF SandwichTypeOK, ArgsPanic, SandwichCrashes, OrphanEnds, Finishes, Breaks, Active, At,
       Commands, RunState, Returned, SaveImage, SaveFails, Flawed
  <2>2. Sandwich!Die(q)
    BY <1>0, <1>3, <2>1 DEF Sandwich!Die, States, Results,
       Returned, Disturbed, Flawed
  <2> QED
    BY <2>2 DEF Sandwich!Next
<1> QED
  BY <1>1, <1>2, <1>4, <1>5, <1>6, <1>7, <1>8 DEF SandwichStep

-----------------------------------------------------------------------------
(* The contract of tesseract: an image that was saved whole is read whole.  *)
ScanInv ==
    \A t \in Scans :
        /\ tpc[t] \notin {"ended"} => tanswer[t] = NoAnswer
        /\ tpc[t] = "read" /\ input[t] = Image(ScanOf[t]) =>
              outfile[t] \in {Image(ScanOf[t]), NoFile}

ScanStates == [t \in Scans |-> ScanState(t)]
ScanFlawed == {t \in Scans : tpc[t] # "idle" /\ input[t] # Image(ScanOf[t])}

LEMMA ScanInvStep ==
  ASSUME TesseractTypeOK, ScanInv, NEW t \in Scans, TesseractStep(t)
  PROVE  ScanInv'
<1> USE DEF TesseractTypeOK, ScanInv, TGoto, TEnd
<1>1. CASE TSaveImage(t) \/ TSaveFails(t)
  BY <1>1 DEF TSaveImage, TSaveFails
<1>2. CASE TArgs(t) \/ TArgsFail(t) \/ TArgsPanic(t)
  BY <1>2 DEF TArgs, TArgsFail, TArgsPanic
<1>3. CASE TExec(t)
  <2>1. input[t] = Image(ScanOf[t]) => Made({input[t]}) = Image(ScanOf[t])
    BY MadeOfImage, ScanAssumption
  <2>2. input' = input /\ tanswer' = tanswer
    BY <1>3 DEF TExec
  <2>3. \A s \in Scans \ {t} : tpc'[s] = tpc[s] /\ outfile'[s] = outfile[s]
    BY <1>3 DEF TExec
  <2>4. tpc[t] = "exec" /\ tpc'[t] = "read" /\ outfile'[t] \in {Made({input[t]}), NoFile}
    BY <1>3 DEF TExec
  <2> QED
    BY <2>1, <2>2, <2>3, <2>4
<1>4. CASE TExecFails(t)
  BY <1>4 DEF TExecFails
<1>5. CASE TReadOutfile(t) \/ TNoOutfile(t)
  BY <1>5 DEF TReadOutfile, TNoOutfile
<1> QED
  BY <1>1, <1>2, <1>3, <1>4, <1>5 DEF TesseractStep

LEMMA TesseractContractStep ==
  ASSUME TesseractTypeOK, ScanInv, NEW t \in Scans, TesseractStep(t)
  PROVE  [Tesseract!Next]_(Tesseract!contractVars)
<1>0. /\ Tesseract!Met(t) = {} /\ ScanStates[t] = ScanState(t)
      /\ \A s \in Scans \ {t} : tpc'[s] = tpc[s] /\ input'[s] = input[s]
      /\ \A s \in Scans \ {t} : ScanState(s)' = ScanState(s)
  BY DEF TesseractTypeOK, Tesseract!Met, ScanStates, ScanState, TesseractStep, TSaveImage,
     TSaveFails, TArgs, TArgsFail, TArgsPanic, TExec, TExecFails, TReadOutfile,
     TNoOutfile, TEnd, TGoto
<1>1. ScanStates' = [ScanStates EXCEPT ![t] = ScanState(t)']
  BY <1>0 DEF ScanStates
<1>2. ASSUME tpc[t] = "idle", tpc'[t] # "idle"
      PROVE  ScanFlawed' \in {ScanFlawed, ScanFlawed \cup {t}}
  BY <1>0, <1>2 DEF ScanFlawed
<1>3. ASSUME tpc[t] # "idle", tpc'[t] # "idle", input' = input
      PROVE  ScanFlawed' = ScanFlawed
  BY <1>0, <1>3 DEF ScanFlawed
<1>4. CASE TSaveImage(t)
  <2>1. /\ tpc[t] = "idle" /\ tpc'[t] = "args" /\ UNCHANGED tanswer
        /\ ScanState(t) = "idle" /\ ScanState(t)' = "working"
    BY <1>4 DEF TesseractTypeOK, TSaveImage, TGoto, ScanState
  <2>2. Tesseract!Begin(t)
    BY <1>0, <1>1, <1>2, <2>1 DEF Tesseract!Begin, Tesseract!Enters, ScanStates, ScanFlawed
  <2> QED
    BY <2>2 DEF Tesseract!Next
<1>5. CASE TSaveFails(t)
  <2>1. /\ tpc[t] = "idle" /\ tpc'[t] = "ended"
        /\ tanswer' = [tanswer EXCEPT ![t] = Failed(TRUE)]
        /\ ScanState(t) = "idle" /\ ScanState(t)' = "returned"
    BY <1>5 DEF TesseractTypeOK, TSaveFails, TEnd, TGoto, ScanState
  <2>2. Tesseract!Refuse(t)
    BY <1>0, <1>1, <1>2, <2>1 DEF Tesseract!Refuse, Tesseract!Enters, ScanStates, ScanFlawed
  <2> QED
    BY <2>2 DEF Tesseract!Next
<1>6. CASE TArgs(t) \/ TExec(t)
  <2>1. /\ tpc[t] # "idle" /\ tpc'[t] # "idle" /\ UNCHANGED <<input, tanswer>>
        /\ ScanState(t)' = ScanState(t)
    BY <1>6 DEF TesseractTypeOK, TArgs, TExec, TGoto, ScanState
  <2>2. ScanStates' = ScanStates
    BY <1>0, <2>1 DEF ScanStates
  <2>3. UNCHANGED Tesseract!contractVars
    BY <1>3, <2>1, <2>2 DEF Tesseract!contractVars, ScanStates, ScanFlawed
  <2> QED
    BY <2>3
<1>7. CASE TArgsPanic(t)
  <2>1. /\ tpc[t] # "idle" /\ tpc'[t] # "idle" /\ UNCHANGED <<input, tanswer>>
        /\ ScanState(t) = "working" /\ ScanState(t)' = "dead"
    BY <1>7 DEF TesseractTypeOK, TArgsPanic, TGoto, ScanState
  <2>2. Tesseract!Die(t)
    BY <1>0, <1>1, <1>3, <2>1 DEF Tesseract!Die, ScanStates, ScanFlawed
  <2> QED
    BY <2>2 DEF Tesseract!Next
<1>8. CASE TArgsFail(t) \/ TExecFails(t) \/ TNoOutfile(t)
  <2>1. /\ tpc[t] # "idle" /\ tpc'[t] # "idle" /\ UNCHANGED input
        /\ tanswer' = [tanswer EXCEPT ![t] = Failed(TRUE)]
        /\ ScanState(t) = "working" /\ ScanState(t)' = "returned"
    BY <1>8 DEF TesseractTypeOK, TArgsFail, TExecFails, TNoOutfile, TEnd, TGoto, ScanState
  <2>2. Tesseract!Return(t)
    BY <1>0, <1>1, <1>3, <2>1 DEF Tesseract!Return, ScanStates, ScanFlawed
  <2> QED
    BY <2>2 DEF Tesseract!Next
<1>9. CASE TReadOutfile(t)
  <2>1. /\ tpc[t] = "read" /\ tpc'[t] # "idle" /\ UNCHANGED input
        /\ outfile[t] \in Contents
        /\ tanswer' = [tanswer EXCEPT ![t] = Done(outfile[t])]
        /\ ScanState(t) = "working" /\ ScanState(t)' = "returned"
    BY <1>9 DEF TesseractTypeOK, TReadOutfile, TEnd, TGoto, ScanState
  <2>2. t \notin ScanFlawed => outfile[t] = Image(ScanOf[t])
    BY <1>9, <2>1 DEF ScanInv, ScanFlawed, TReadOutfile
  <2>3. Tesseract!Return(t)
    BY <1>0, <1>1, <1>3, <2>1, <2>2 DEF Tesseract!Return, ScanStates, ScanFlawed
  <2> QED
    BY <2>3 DEF Tesseract!Next
<1> QED
  BY <1>4, <1>5, <1>6, <1>7, <1>8, <1>9 DEF TesseractStep

-----------------------------------------------------------------------------
ContractInv == Inv /\ RunInv /\ ScanInv

LEMMA ContractInvariant == Spec => []ContractInv
<1>1. Init => RunInv /\ ScanInv
  BY DEF Init, SandwichInit, TesseractInit, RunInv, ScanInv
<1>2. ContractInv /\ [Next]_vars => RunInv' /\ ScanInv'
  <2> SUFFICES ASSUME ContractInv, [Next]_vars PROVE RunInv' /\ ScanInv'
    OBVIOUS
  <2>1. /\ SandwichTypeOK /\ PathInv /\ TesseractTypeOK /\ RunInv /\ ScanInv
    BY DEF ContractInv, Inv, SandwichInv, TesseractInv
  <2>2. RunInv'
    <3>1. UNCHANGED sandwichVars => RunInv'
      BY <2>1 DEF RunInv, sandwichVars
    <3> QED
      BY <2>1, <3>1, RunInvStep DEF Next, vars
  <2>3. ScanInv'
    <3>1. UNCHANGED tesseractVars => ScanInv'
      BY <2>1 DEF ScanInv, tesseractVars
    <3> QED
      BY <2>1, <3>1, ScanInvStep DEF Next, vars
  <2> QED
    BY <2>2, <2>3
<1>3. Inv /\ RunInv /\ ScanInv <=> ContractInv
  BY DEF ContractInv
<1> QED
  BY <1>1, <1>2, <1>3, Invariance, PTL DEF Spec

(* Both engines keep their contract, whatever the runs, formats, programs   *)
(* and crashes: one return, and an undisturbed run in which nothing failed  *)
(* returns an error or the whole of its own image                           *)
(* (sandwich_engine.go:164-216, tesseract_engine.go:97-130).                *)
THEOREM EngineContractIsKept == Spec => KeepsEngineContract
<1>1. Init => Sandwich!Init /\ Tesseract!Init
  <2>1. Init => Sandwich!Init
    BY DEF Init, SandwichInit, Sandwich!Init, RunState
  <2>2. Init => Tesseract!Init
    BY DEF Init, TesseractInit, Tesseract!Init, ScanState
  <2> QED
    BY <2>1, <2>2
<1>2. ContractInv /\ [Next]_vars => [Sandwich!Next]_(Sandwich!contractVars)
  <2> SUFFICES ASSUME ContractInv, [Next]_vars
               PROVE  [Sandwich!Next]_(Sandwich!contractVars)
    OBVIOUS
  <2>1. UNCHANGED sandwichVars => UNCHANGED Sandwich!contractVars
    BY DEF sandwichVars, Sandwich!contractVars, RunState
  <2>2. SandwichTypeOK /\ PathInv /\ WholeIfAlone /\ RunInv
    BY DEF ContractInv, Inv, SandwichInv
  <2> QED
    BY <2>1, <2>2, SandwichContractStep DEF Next, vars
<1>3. ContractInv /\ [Next]_vars => [Tesseract!Next]_(Tesseract!contractVars)
  <2> SUFFICES ASSUME ContractInv, [Next]_vars
               PROVE  [Tesseract!Next]_(Tesseract!contractVars)
    OBVIOUS
  <2>1. UNCHANGED tesseractVars => UNCHANGED Tesseract!contractVars
    BY DEF tesseractVars, Tesseract!contractVars, ScanState
  <2>2. TesseractTypeOK /\ ScanInv
    BY DEF ContractInv, Inv, TesseractInv
  <2> QED
    BY <2>1, <2>2, TesseractContractStep DEF Next, vars
<1> QED
  BY <1>1, <1>2, <1>3, ContractInvariant, PTL
  DEF Spec, KeepsEngineContract, Sandwich!Spec, Tesseract!Spec
=============================================================================
