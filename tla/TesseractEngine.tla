--------------------------- MODULE TesseractEngine ---------------------------
(***************************************************************************)
(* TesseractEngine.ProcessRequest.  Every run has a file name of its own   *)
(* and meets nobody; what counts is the answer and what stays on the disk. *)
(***************************************************************************)
EXTENDS EngineFiles

CONSTANTS
    Scans,      \* calls of ProcessRequest
    ScanOf      \* ScanOf[t]: the request t works on

ASSUME ScanAssumption == ScanOf \in [Scans -> Jobs]

VARIABLES
    tpc,        \* where the run stands
    input,      \* its input file
    outfile,    \* its .txt, .hocr or .json file
    tanswer     \* what the worker makes of its result

tesseractVars == <<tpc, input, outfile, tanswer>>

TesseractTypeOK ==
    /\ tpc \in [Scans -> {"idle", "args", "exec", "read", "ended", "dead"}]
    /\ input \in [Scans -> Contents \cup {NoFile}]
    /\ outfile \in [Scans -> Contents \cup {NoFile}]
    /\ tanswer \in [Scans -> Answers]

TesseractInit ==
    /\ tpc = [t \in Scans |-> "idle"]
    /\ input = [t \in Scans |-> NoFile]
    /\ outfile = [t \in Scans |-> NoFile]
    /\ tanswer = [t \in Scans |-> NoAnswer]

-----------------------------------------------------------------------------
TGoto(t, step) == tpc' = [tpc EXCEPT ![t] = step]
TEnd(t, a) == TGoto(t, "ended") /\ tanswer' = [tanswer EXCEPT ![t] = a]

(* The image is saved; a download that the server refuses leaves an empty   *)
(* file, base64 that cannot be decoded none, and neither is an error.       *)
TSaveImage(t) ==
    /\ tpc[t] = "idle"
    /\ \E c \in {Image(ScanOf[t]), Empty, NoFile} : input' = [input EXCEPT ![t] = c]
    /\ TGoto(t, "args")
    /\ UNCHANGED <<outfile, tanswer>>

TSaveFails(t) ==
    /\ tpc[t] = "idle"
    /\ \E c \in {Empty, NoFile} : input' = [input EXCEPT ![t] = c]
    /\ TEnd(t, Failed(TRUE))
    /\ UNCHANGED outfile

(* NewTesseractEngineArgs never sets saveFiles, and only with saveFiles the *)
(* files are removed.                                                       *)
TArgs(t) ==
    /\ tpc[t] = "args"
    /\ TGoto(t, "exec")
    /\ UNCHANGED <<input, outfile, tanswer>>

TArgsFail(t) ==
    /\ tpc[t] = "args"
    /\ TEnd(t, Failed(TRUE))
    /\ UNCHANGED <<input, outfile>>

(* config_vars that are no JSON object make the worker panic.               *)
TArgsPanic(t) ==
    /\ tpc[t] = "args"
    /\ TGoto(t, "dead")
    /\ UNCHANGED <<input, outfile, tanswer>>

(* tesseract ends well; a config variable may have it write no file of the  *)
(* three extensions looked for.                                             *)
TExec(t) ==
    /\ tpc[t] = "exec" /\ input[t] # NoFile
    /\ \E c \in {Made({input[t]}), NoFile} : outfile' = [outfile EXCEPT ![t] = c]
    /\ TGoto(t, "read")
    /\ UNCHANGED <<input, tanswer>>

(* Faulty variant: that tesseract failed is only logged.                    *)
TExecFailsLogged(t) ==
    /\ tpc[t] = "exec"
    /\ \E c \in {HalfMade({input[t]} \ {NoFile}), NoFile} :
        outfile' = [outfile EXCEPT ![t] = c]
    /\ TGoto(t, "read")
    /\ UNCHANGED <<input, tanswer>>

TExecFails(t) ==
    /\ tpc[t] = "exec"
    /\ \E c \in {HalfMade({input[t]} \ {NoFile}), NoFile} :
        outfile' = [outfile EXCEPT ![t] = c]
    /\ TEnd(t, Failed(TRUE))
    /\ UNCHANGED input

TReadOutfile(t) ==
    /\ tpc[t] = "read" /\ outfile[t] # NoFile
    /\ TEnd(t, Done(outfile[t]))
    /\ UNCHANGED <<input, outfile>>

TNoOutfile(t) ==
    /\ tpc[t] = "read" /\ outfile[t] = NoFile
    /\ TEnd(t, Failed(TRUE))
    /\ UNCHANGED <<input, outfile>>

TesseractStep(t) ==
    \/ TSaveImage(t) \/ TSaveFails(t) \/ TArgs(t) \/ TArgsFail(t) \/ TArgsPanic(t)
    \/ TExec(t) \/ TExecFails(t) \/ TReadOutfile(t) \/ TNoOutfile(t)
=============================================================================
