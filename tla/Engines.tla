------------------------------- MODULE Engines -------------------------------
(***************************************************************************)
(* What runs on the machine of a worker or a preprocessor: sandwich        *)
(* engines that may share files, tesseract engines and preprocessors that  *)
(* do not.                                                                 *)
(***************************************************************************)
EXTENDS SandwichEngine, TesseractEngine, ImagePreprocessors

vars == <<sandwichVars, tesseractVars, preprocessVars>>

(* Type invariant of the three.                                             *)
TypeOK == SandwichTypeOK /\ TesseractTypeOK /\ PreprocessTypeOK

Init == SandwichInit /\ TesseractInit /\ PreprocessInit

Next ==
    \/ \E r \in Runs : SandwichStep(r) /\ UNCHANGED <<tesseractVars, preprocessVars>>
    \/ \E t \in Scans : TesseractStep(t) /\ UNCHANGED <<sandwichVars, preprocessVars>>
    \/ \E p \in Passes : PreprocessStep(p) /\ UNCHANGED <<sandwichVars, tesseractVars>>

Spec == Init /\ [][Next]_vars

-----------------------------------------------------------------------------
(* A result that was answered without the error flag, by a run that had its *)
(* files to itself, is the whole of the image of its own request, whatever  *)
(* earlier runs of the same id left behind when they failed or crashed.     *)
WholeIfAlone ==
    \A r \in Runs :
        alone[r] /\ answer[r].status = "done" /\ ~errorFlag[r]
            => answer[r].content = Image(JobOf[r])

(* Only a failure of pdftk or gs is answered as an error without a text;    *)
(* every other error of either engine reaches the client with a message.    *)
NamedErrors ==
    /\ \A r \in Runs : answer[r].text = "nothing" => Format(r) = "COMBINEDPDF"
    /\ \A t \in Scans : tanswer[t].text # "nothing"

(* When all runs of a name ended well, what they leave are the layers of    *)
(* pdfsandwich and the converted inputs, the files nothing ever removes.    *)
EndedWell(r) ==
    /\ pc[r] = "ended" /\ answer[r].status = "done"
    /\ ~errorFlag[r] /\ ~Keeps(r) /\ ~crashed[r]

OnlyLayersLeft ==
    \A n \in Names :
        /\ \A r \in Runs : Base(r) = n[1] => pc[r] = "idle" \/ EndedWell(r)
        /\ files[n] # NoFile
        => n[3] = "ocr" \/ <<n[2], n[3]>> = <<"pdf", "input">>

(* Of a run that had its files to itself and failed in processImageFile the *)
(* input stays for debugging: the clean-up never takes it.                  *)
KeepsFailedInput ==
    [][\A r \in Runs :
          /\ alone[r] /\ answer[r].status = "error"
          /\ pc[r] = "cleanup" /\ pc'[r] = "ended"
          => files'[InputFile(r)] # NoFile]_vars

(* A preprocessor leaves no temporary file, whichever way it returns, unless *)
(* it is killed.                                                            *)
PrepTidy ==
    \A p \in Passes :
        ppc[p] = "ended" /\ outcome[p] # "killed" => tmpIn[p] = NoFile /\ tmpOut[p] = NoFile

(* Both engines keep what a worker builds on (EngineContract): ProcessRequest *)
(* returns once or the process is gone, and an undisturbed run in which     *)
(* nothing failed returns an error or the whole of its own image            *)
(* (sandwich_engine.go:164-216, tesseract_engine.go:97-130).  Of tesseract, *)
(* which meets nobody, only the image can be flawed: a refused download is  *)
(* no error.                                                                *)
RunState(r) ==
    CASE pc[r] = "idle" -> "idle"
      [] pc[r] = "ended" -> "returned"
      [] OTHER -> IF ~crashed[r] THEN "working"
                  ELSE IF running[r] THEN "orphan" ELSE "dead"

Sandwich == INSTANCE EngineContract WITH
    Partners <- [r \in Runs |-> {q \in Runs : Shares(r, q)}],
    Errors <- {Failed(TRUE), Failed(FALSE)},
    Dones <- {Done(c) : c \in Contents},
    Own <- [r \in Runs |-> Done(Image(JobOf[r]))],
    NoResult <- NoAnswer,
    state <- [r \in Runs |-> RunState(r)],
    result <- [r \in Runs |-> IF pc[r] = "ended" THEN answer[r] ELSE NoAnswer],
    disturbed <- {r \in Runs : ~alone[r]},
    flawed <- {r \in Runs : errorFlag[r]}

ScanState(t) ==
    CASE tpc[t] = "ended" -> "returned"
      [] tpc[t] \in {"args", "exec", "read"} -> "working"
      [] OTHER -> tpc[t]

Tesseract == INSTANCE EngineContract WITH
    Runs <- Scans,
    Partners <- [t \in Scans |-> {}],
    Errors <- {Failed(TRUE)},
    Dones <- {Done(c) : c \in Contents},
    Own <- [t \in Scans |-> Done(Image(ScanOf[t]))],
    NoResult <- NoAnswer,
    state <- [t \in Scans |-> ScanState(t)],
    result <- tanswer,
    disturbed <- {},
    flawed <- {t \in Scans : tpc[t] # "idle" /\ input[t] # Image(ScanOf[t])}

KeepsEngineContract == Sandwich!Spec /\ Tesseract!Spec

(* Tesseract's output file is deleted "when we are done"                    *)
(* (tesseract_engine.go:215).  It never is: nothing sets saveFiles.         *)
OutputDeleted ==
    \A t \in Scans : tpc[t] = "ended" /\ tanswer[t].status = "done" => outfile[t] = NoFile
=============================================================================
