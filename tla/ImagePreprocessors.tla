------------------------- MODULE ImagePreprocessors -------------------------
(***************************************************************************)
(* The preprocess functions of convert-pdf and stroke-width-transform: the *)
(* image goes through two temporary files of its own and an external       *)
(* program, gs or DetectText.                                              *)
(***************************************************************************)
EXTENDS EngineFiles

CONSTANTS
    Passes,     \* calls of preprocess
    PassOf      \* PassOf[p]: the request whose image p works on

ASSUME PassAssumption == PassOf \in [Passes -> Jobs]

VARIABLES
    ppc,        \* where the call stands
    tmpIn,      \* tmpFileNameInput
    tmpOut,     \* tmpFileNameOutput
    exitCode,   \* how the program ended: "none", "ok" or "failed"
    image,      \* ImgBytes of the request
    outcome     \* what preprocess returned: "none", "nil", "err"; or "killed"

preprocessVars == <<ppc, tmpIn, tmpOut, exitCode, image, outcome>>

PreprocessTypeOK ==
    /\ ppc \in [Passes -> {"idle", "exec", "read", "defer", "ended"}]
    /\ tmpIn \in [Passes -> Contents \cup {NoFile}]
    /\ tmpOut \in [Passes -> Contents \cup {NoFile}]
    /\ exitCode \in [Passes -> {"none", "ok", "failed"}]
    /\ image \in [Passes -> Contents]
    /\ outcome \in [Passes -> {"none", "nil", "err", "killed"}]

PreprocessInit ==
    /\ ppc = [p \in Passes |-> "idle"]
    /\ tmpIn = [p \in Passes |-> NoFile]
    /\ tmpOut = [p \in Passes |-> NoFile]
    /\ exitCode = [p \in Passes |-> "none"]
    /\ image = [p \in Passes |-> Image(PassOf[p])]
    /\ outcome = [p \in Passes |-> "none"]

-----------------------------------------------------------------------------
PGoto(p, step) == ppc' = [ppc EXCEPT ![p] = step]
PReturn(p, e) == PGoto(p, "defer") /\ outcome' = [outcome EXCEPT ![p] = e]

SaveInput(p) ==
    /\ ppc[p] = "idle"
    /\ tmpIn' = [tmpIn EXCEPT ![p] = image[p]]
    /\ PGoto(p, "exec")
    /\ UNCHANGED <<tmpOut, exitCode, image, outcome>>

SaveInputFails(p) ==
    /\ ppc[p] = "idle"
    /\ \E c \in {Empty, NoFile} : tmpIn' = [tmpIn EXCEPT ![p] = c]
    /\ PReturn(p, "err")
    /\ UNCHANGED <<tmpOut, exitCode, image>>

(* The program writes its output, or fails with a part of it or none; that  *)
(* it failed is only logged.                                                *)
Exec(p) ==
    /\ ppc[p] = "exec"
    /\ \/ /\ tmpOut' = [tmpOut EXCEPT ![p] = Made({tmpIn[p]})]
          /\ exitCode' = [exitCode EXCEPT ![p] = "ok"]
       \/ /\ \E c \in {HalfMade({tmpIn[p]}), NoFile} : tmpOut' = [tmpOut EXCEPT ![p] = c]
          /\ exitCode' = [exitCode EXCEPT ![p] = "failed"]
    /\ PGoto(p, "read")
    /\ UNCHANGED <<tmpIn, image, outcome>>

ReadOutput(p) ==
    /\ ppc[p] = "read" /\ tmpOut[p] # NoFile
    /\ image' = [image EXCEPT ![p] = tmpOut[p]]
    /\ PReturn(p, "nil")
    /\ UNCHANGED <<tmpIn, tmpOut, exitCode>>

NoOutput(p) ==
    /\ ppc[p] = "read" /\ tmpOut[p] = NoFile
    /\ PReturn(p, "err")
    /\ UNCHANGED <<tmpIn, tmpOut, exitCode, image>>

(* Faulty variant: the output file is not removed.                          *)
RemoveInputOnly(p) ==
    /\ ppc[p] = "defer"
    /\ tmpIn' = [tmpIn EXCEPT ![p] = NoFile]
    /\ PGoto(p, "ended")
    /\ UNCHANGED <<tmpOut, exitCode, image, outcome>>

(* The deferred functions remove both files.                                *)
RemoveFiles(p) ==
    /\ ppc[p] = "defer"
    /\ tmpIn' = [tmpIn EXCEPT ![p] = NoFile]
    /\ tmpOut' = [tmpOut EXCEPT ![p] = NoFile]
    /\ PGoto(p, "ended")
    /\ UNCHANGED <<exitCode, image, outcome>>

(* Fault: the process is killed.                                            *)
PreprocessKilled(p) ==
    /\ ppc[p] \in {"exec", "read", "defer"}
    /\ outcome' = [outcome EXCEPT ![p] = "killed"]
    /\ PGoto(p, "ended")
    /\ UNCHANGED <<tmpIn, tmpOut, exitCode, image>>

PreprocessStep(p) ==
    \/ SaveInput(p) \/ SaveInputFails(p) \/ Exec(p) \/ ReadOutput(p) \/ NoOutput(p)
    \/ RemoveFiles(p) \/ PreprocessKilled(p)
=============================================================================
