--------------------------- MODULE SandwichEngine ---------------------------
(***************************************************************************)
(* SandwichEngine.ProcessRequest.  The temporary files of a run are named  *)
(* after the request id, so runs of one id meet in the same files: a       *)
(* request that was redelivered while its first run still works or after   *)
(* it crashed, and requests whose clients chose the same req_id.           *)
(***************************************************************************)
EXTENDS EngineFiles

CONSTANTS
    Runs,         \* calls of ProcessRequest
    JobOf,        \* JobOf[r]: the request run r works on
    IdOf,         \* IdOf[j]: RequestID of job j
    NoId,         \* the empty RequestID
    SourceOf,     \* SourceOf[j]: "bytes", "base64" or "url"
    Kinds,        \* what clients may ask for: see Requests
    SaveFiles,    \* the flag save_files of the worker
    Converter,    \* the flag tiff2pdf_converter: "convert", "tiff2pdf", "none"
    MaxCrashes    \* bound on the crashes of one behaviour

(* EngineArgs may be missing; the type is that of the image.                *)
Requests == [args : BOOLEAN, type : {"PDF", "TIFF", "UNKNOWN"}, optimize : BOOLEAN,
             format : {"COMBINEDPDF", "OCRLAYERONLY", "TXT", "other"}]

ASSUME JobAssumption == JobOf \in [Runs -> Jobs]
ASSUME KindsAssumption == Kinds \subseteq Requests
ASSUME FlagsAssumption == SaveFiles \in BOOLEAN /\ MaxCrashes \in Nat

VARIABLES
    request,    \* request[j]: what job j asks for
    files,      \* the temporary files
    pc,         \* where the run stands
    running,    \* running[r]: the external program of r's present step runs
    crashed,    \* crashed[r]: the process of r is gone
    stem,       \* inputFilename: the input, "in", or its conversion, "pdf"
    errorFlag,
    answer,     \* what the worker makes of the result of r
    alone,      \* history: no other run used the files of r while r did
    crashes     \* crashes so far

sandwichVars == <<request, files, pc, running, crashed, stem, errorFlag,
                  answer, alone, crashes>>

(* createTempFileName gives the file of an image that came as bytes its     *)
(* directory; base64 and URLs are saved under the bare request id.          *)
Base(r) ==
    LET j == JobOf[r]
    IN  IF IdOf[j] = NoId THEN <<"tmp", r>>
        ELSE <<IF SourceOf[j] = "bytes" THEN "tmp" ELSE "cwd", IdOf[j]>>

(* The file names: a stem, and for each stem what was derived from it.      *)
Stems == {"in", "pdf"}
Suffixes == {"input", "ocr", "comb", "compr", "txt"}
Names == {Base(r) : r \in Runs} \X Stems \X Suffixes
File(r, suffix) == <<Base(r), stem[r], suffix>>
InputFile(r) == <<Base(r), "in", "input">>

Commands == {"convert", "reconvert", "sandwich", "combine", "optimize", "extract"}

SandwichTypeOK ==
    /\ request \in [Jobs -> Requests]
    /\ files \in [Names -> Contents \cup {NoFile}]
    /\ pc \in [Runs -> Commands \cup {"idle", "check", "read", "cleanup", "ended"}]
    /\ running \in [Runs -> BOOLEAN]
    /\ crashed \in [Runs -> BOOLEAN]
    /\ stem \in [Runs -> Stems]
    /\ errorFlag \in [Runs -> BOOLEAN]
    /\ answer \in [Runs -> Answers]
    /\ alone \in [Runs -> BOOLEAN]
    /\ crashes \in 0..MaxCrashes
    /\ \A r \in Runs : running[r] => pc[r] \in Commands

SandwichInit ==
    /\ request \in [Jobs -> Kinds]
    /\ files = [n \in Names |-> NoFile]
    /\ pc = [r \in Runs |-> "idle"]
    /\ running = [r \in Runs |-> FALSE]
    /\ crashed = [r \in Runs |-> FALSE]
    /\ stem = [r \in Runs |-> "in"]
    /\ errorFlag = [r \in Runs |-> FALSE]
    /\ answer = [r \in Runs |-> NoAnswer]
    /\ alone = [r \in Runs |-> TRUE]
    /\ crashes = 0

-----------------------------------------------------------------------------
Request(r) == request[JobOf[r]]

(* A run is active until it ends; a crash may leave its program running.    *)
Active(r) == pc[r] \notin {"idle", "ended"} /\ (crashed[r] => running[r])
Shares(r, q) == q # r /\ Base(q) = Base(r)

At(r, step) == pc[r] = step /\ ~crashed[r]
Goto(r, step) == pc' = [pc EXCEPT ![r] = step]

(* ProcessRequest returns before or after processImageFile; the latter      *)
(* cleans up in a deferred function, unless errorFlag is set.               *)
Abort(r) == Goto(r, "ended") /\ answer' = [answer EXCEPT ![r] = Failed(TRUE)]
Fail(r, err) ==
    /\ Goto(r, "cleanup")
    /\ errorFlag' = [errorFlag EXCEPT ![r] = TRUE]
    /\ answer' = [answer EXCEPT ![r] = Failed(err)]

(* History: from now on r and the active runs of its name share files.      *)
Enter(r) ==
    alone' = [q \in Runs |->
                IF q = r THEN \A x \in Runs : Shares(r, x) => ~Active(x)
                ELSE alone[q] /\ ~(Shares(r, q) /\ Active(q))]

(* The image is saved.  A download the server answers with an error status  *)
(* leaves an empty file and no error.                                       *)
SaveImage(r) ==
    /\ At(r, "idle")
    /\ \E c \in {Image(JobOf[r])} \cup {e \in {Empty} : SourceOf[JobOf[r]] = "url"} :
        files' = [files EXCEPT ![InputFile(r)] = c]
    /\ Goto(r, "check")
    /\ Enter(r)
    /\ UNCHANGED <<request, running, crashed, stem, errorFlag, answer, crashes>>

(* It cannot be saved, decoded or downloaded; a file may be left.           *)
SaveFails(r) ==
    /\ At(r, "idle")
    /\ files' = files \/ files' = [files EXCEPT ![InputFile(r)] = Empty]
    /\ Abort(r)
    /\ Enter(r)
    /\ UNCHANGED <<request, running, crashed, stem, errorFlag, crashes>>

(* Without EngineArgs NewSandwichEngineArgs leaves every field empty.       *)
Format(r) == IF Request(r).args THEN Request(r).format ELSE "other"
Optimizes(r) == Format(r) = "COMBINEDPDF" /\ Request(r).optimize
Converts(r) == Request(r).args /\ Converter # "none"
Keeps(r) == Request(r).args /\ SaveFiles

(* detectFileType looks at what the file holds by now.                      *)
HasType(r, types) ==
    /\ files[InputFile(r)] # NoFile
    /\ \E j \in files[InputFile(r)].of : request[j].type \in types

AcceptImage(r) ==
    /\ At(r, "check")
    /\ \/ HasType(r, {"TIFF"}) /\ Converts(r) /\ Goto(r, "convert")
       \/ HasType(r, {"TIFF"}) /\ ~Converts(r) /\ Goto(r, "sandwich")
       \/ HasType(r, {"PDF"}) /\ Goto(r, "sandwich")
    /\ UNCHANGED <<request, files, running, crashed, stem, errorFlag, answer,
                   alone, crashes>>

(* It is gone, empty or of no known type, or the EngineArgs are malformed.  *)
RejectImage(r) ==
    /\ At(r, "check")
    /\ ~HasType(r, {"PDF", "TIFF"}) \/ Request(r).args
    /\ Abort(r)
    /\ UNCHANGED <<request, files, running, crashed, stem, errorFlag, alone, crashes>>

(* config_vars of another JSON type than an object are not an error but a   *)
(* panic.                                                                   *)
ArgsPanic(r) ==
    /\ At(r, "check") /\ HasType(r, {"PDF", "TIFF"})
    /\ Request(r).args
    /\ crashed' = [crashed EXCEPT ![r] = TRUE]
    /\ UNCHANGED <<request, files, pc, running, stem, errorFlag, answer, alone, crashes>>

-----------------------------------------------------------------------------
(* The external programs, by the step of processImageFile that runs them:   *)
(* convert and tiff2pdf, pdfsandwich, pdftk, gs, pdftotext.                 *)
ReadSuffixes ==
    [convert |-> {"input"}, reconvert |-> {"input"}, sandwich |-> {"input"},
     combine |-> {"ocr", "input"}, optimize |-> {"comb"}, extract |-> {"ocr"}]
WrittenSuffix ==
    [convert |-> "input", reconvert |-> "input", sandwich |-> "ocr",
     combine |-> "comb", optimize |-> "compr", extract |-> "txt"]

Reads(r) == {File(r, s) : s \in ReadSuffixes[pc[r]]}
Writes(r) == <<Base(r), IF pc[r] \in {"convert", "reconvert"} THEN "pdf" ELSE stem[r],
               WrittenSuffix[pc[r]]>>
Readable(r) == \A n \in Reads(r) : files[n] # NoFile
Sources(r) == {files[n] : n \in Reads(r)}

(* A program starts and may have written a part of its output.              *)
StartCommand(r) ==
    /\ pc[r] \in Commands /\ ~crashed[r] /\ ~running[r]
    /\ running' = [running EXCEPT ![r] = TRUE]
    /\ \/ UNCHANGED files
       \/ /\ Readable(r)
          /\ files' = [files EXCEPT ![Writes(r)] = HalfMade(Sources(r))]
    /\ UNCHANGED <<request, pc, crashed, stem, errorFlag, answer, alone, crashes>>

(* It ends: well, with its output written, or badly, leaving what is there. *)
Finishes(r) ==
    /\ running[r] /\ Readable(r)
    /\ running' = [running EXCEPT ![r] = FALSE]
    /\ files' = [files EXCEPT ![Writes(r)] = Made(Sources(r))]
(* Faulty variant: a program that fails is not waited for.                  *)
BreaksUnawaited(r) == running[r] /\ UNCHANGED <<running, files>>

Breaks(r) ==
    /\ running[r]
    /\ running' = [running EXCEPT ![r] = FALSE]
    /\ UNCHANGED files

ConvertSucceeds(r) ==
    /\ At(r, "convert") \/ At(r, "reconvert")
    /\ Finishes(r)
    /\ Goto(r, "sandwich")
    /\ stem' = [stem EXCEPT ![r] = "pdf"]
    /\ UNCHANGED <<request, crashed, errorFlag, answer, alone, crashes>>

(* The other converter is tried.                                            *)
ConvertFails(r) ==
    /\ At(r, "convert") /\ Breaks(r)
    /\ Goto(r, "reconvert")
    /\ UNCHANGED <<request, crashed, stem, errorFlag, answer, alone, crashes>>

(* Faulty variant: the error of the first converter is returned, nil.       *)
ReconvertFailsUnnamed(r) ==
    /\ At(r, "reconvert") /\ Breaks(r)
    /\ Fail(r, FALSE)
    /\ UNCHANGED <<request, crashed, stem, alone, crashes>>

ReconvertFails(r) ==
    /\ At(r, "reconvert") /\ Breaks(r)
    /\ Fail(r, TRUE)
    /\ UNCHANGED <<request, crashed, stem, alone, crashes>>

AfterSandwich ==
    [COMBINEDPDF |-> "combine", OCRLAYERONLY |-> "read", TXT |-> "extract"]

SandwichSucceeds(r) ==
    /\ At(r, "sandwich") /\ Finishes(r)
    /\ Format(r) # "other"
    /\ Goto(r, AfterSandwich[Format(r)])
    /\ UNCHANGED <<request, crashed, stem, errorFlag, answer, alone, crashes>>

(* The output format is looked at only now.                                 *)
FormatUnknown(r) ==
    /\ At(r, "sandwich") /\ Finishes(r)
    /\ Format(r) = "other"
    /\ Fail(r, TRUE)
    /\ UNCHANGED <<request, crashed, stem, alone, crashes>>

(* Faulty variant: the failure is only logged.                              *)
SandwichFailsLogged(r) ==
    /\ At(r, "sandwich") /\ (Breaks(r) \/ Finishes(r))
    /\ Format(r) # "other"
    /\ Goto(r, AfterSandwich[Format(r)])
    /\ UNCHANGED <<request, crashed, stem, errorFlag, answer, alone, crashes>>

(* pdfsandwich fails or its time is up, which counts even when it has just  *)
(* finished.                                                                *)
SandwichFails(r) ==
    /\ At(r, "sandwich") /\ (Breaks(r) \/ Finishes(r))
    /\ Fail(r, TRUE)
    /\ UNCHANGED <<request, crashed, stem, alone, crashes>>

CombineSucceeds(r) ==
    /\ At(r, "combine") /\ Finishes(r)
    /\ Goto(r, IF Request(r).optimize THEN "optimize" ELSE "read")
    /\ UNCHANGED <<request, crashed, stem, errorFlag, answer, alone, crashes>>

OptimizeSucceeds(r) ==
    /\ At(r, "optimize") /\ Finishes(r)
    /\ Goto(r, "read")
    /\ UNCHANGED <<request, crashed, stem, errorFlag, answer, alone, crashes>>

(* Faulty variant: the error flag is forgotten.                             *)
CombineFailsUnflagged(r) ==
    /\ At(r, "combine") \/ At(r, "optimize")
    /\ Breaks(r)
    /\ Goto(r, "cleanup")
    /\ answer' = [answer EXCEPT ![r] = Failed(FALSE)]
    /\ UNCHANGED <<request, crashed, stem, errorFlag, alone, crashes>>

(* pdftk or gs fails: the error returned is the one of pdfsandwich, nil.    *)
CombineFails(r) ==
    /\ At(r, "combine") \/ At(r, "optimize")
    /\ Breaks(r)
    /\ Fail(r, FALSE)
    /\ UNCHANGED <<request, crashed, stem, alone, crashes>>

ExtractSucceeds(r) ==
    /\ At(r, "extract") /\ Finishes(r)
    /\ Goto(r, "read")
    /\ UNCHANGED <<request, crashed, stem, errorFlag, answer, alone, crashes>>

(* pdftotext fails: that is noted, and the text file read all the same.     *)
ExtractFails(r) ==
    /\ At(r, "extract") /\ Breaks(r)
    /\ errorFlag' = [errorFlag EXCEPT ![r] = TRUE]
    /\ Goto(r, "read")
    /\ UNCHANGED <<request, crashed, stem, answer, alone, crashes>>

-----------------------------------------------------------------------------
FileToDeliver(r) ==
    File(r, [COMBINEDPDF |-> IF Optimizes(r) THEN "compr" ELSE "comb",
             OCRLAYERONLY |-> "ocr", TXT |-> "txt"][Format(r)])

ReadResult(r) ==
    /\ At(r, "read") /\ files[FileToDeliver(r)] # NoFile
    /\ answer' = [answer EXCEPT ![r] = Done(files[FileToDeliver(r)])]
    /\ Goto(r, "cleanup")
    /\ UNCHANGED <<request, files, running, crashed, stem, errorFlag, alone, crashes>>

(* The file is missing, which is an error but no reason to keep the input.  *)
ReadFails(r) ==
    /\ At(r, "read") /\ files[FileToDeliver(r)] = NoFile
    /\ answer' = [answer EXCEPT ![r] = Failed(TRUE)]
    /\ Goto(r, "cleanup")
    /\ UNCHANGED <<request, files, running, crashed, stem, errorFlag, alone, crashes>>

(* Faulty variant: only the file that is delivered is listed.               *)
DerivedDelivered(r) ==
    [COMBINEDPDF |-> IF Optimizes(r) THEN {"compr"} ELSE {"comb"},
     OCRLAYERONLY |-> {}, TXT |-> {"txt"}, other |-> {}][Format(r)]

(* filesToDelete: neither the layer of pdfsandwich nor a converted input.   *)
Derived(r) ==
    [COMBINEDPDF |-> IF Optimizes(r) THEN {"comb", "compr"} ELSE {"comb"},
     OCRLAYERONLY |-> {}, TXT |-> {"txt"}, other |-> {}][Format(r)]
FilesToDelete(r) == {InputFile(r)} \cup {File(r, s) : s \in Derived(r)}

Cleanup(r) ==
    /\ At(r, "cleanup")
    /\ files' = [n \in Names |->
                    IF n \in FilesToDelete(r) /\ ~Keeps(r) /\ ~errorFlag[r]
                    THEN NoFile ELSE files[n]]
    /\ Goto(r, "ended")
    /\ UNCHANGED <<request, running, crashed, stem, errorFlag, answer, alone, crashes>>

-----------------------------------------------------------------------------
(* Fault: the process is killed; its external program may live on ...       *)
SandwichCrashes(r) ==
    /\ Active(r) /\ ~crashed[r] /\ crashes < MaxCrashes
    /\ crashes' = crashes + 1
    /\ crashed' = [crashed EXCEPT ![r] = TRUE]
    /\ running' = running \/ running' = [running EXCEPT ![r] = FALSE]
    /\ UNCHANGED <<request, files, pc, stem, errorFlag, answer, alone>>

(* ... and end later.                                                       *)
OrphanEnds(r) ==
    /\ crashed[r]
    /\ Finishes(r) \/ Breaks(r)
    /\ UNCHANGED <<request, pc, crashed, stem, errorFlag, answer, alone, crashes>>

SandwichStep(r) ==
    \/ SaveImage(r) \/ SaveFails(r) \/ AcceptImage(r) \/ RejectImage(r) \/ ArgsPanic(r)
    \/ StartCommand(r)
    \/ ConvertSucceeds(r) \/ ConvertFails(r) \/ ReconvertFails(r)
    \/ SandwichSucceeds(r) \/ FormatUnknown(r) \/ SandwichFails(r)
    \/ CombineSucceeds(r) \/ OptimizeSucceeds(r) \/ CombineFails(r)
    \/ ExtractSucceeds(r) \/ ExtractFails(r)
    \/ ReadResult(r) \/ ReadFails(r) \/ Cleanup(r)
    \/ SandwichCrashes(r) \/ OrphanEnds(r)
=============================================================================
