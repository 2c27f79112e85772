----------------------------- MODULE EngineFiles -----------------------------
(***************************************************************************)
(* What the OCR engines and the preprocessors share: temporary files, the  *)
(* external programs that work on them, and the answer a run ends with.    *)
(*                                                                         *)
(* Of the content of a file two things are kept: the requests whose image  *)
(* went into it, and whether it was written to its end.                    *)
(***************************************************************************)
EXTENDS Integers, FiniteSets

CONSTANTS
    Jobs,       \* the OCR requests; a job stands for its image, too
    NoFile      \* the content of a file that does not exist

Contents == [of : SUBSET Jobs, whole : BOOLEAN]

ASSUME NoFileAssumption == NoFile \notin Contents

(* The image of job j, as it was sent; and an empty file.                   *)
Image(j) == [of |-> {j}, whole |-> TRUE]
Empty == [of |-> {}, whole |-> FALSE]

(* What a program makes of the files with the contents S, in the end and    *)
(* while it is still writing.                                               *)
Made(S) == [of |-> UNION {c.of : c \in S}, whole |-> \A c \in S : c.whole]
HalfMade(S) == [Made(S) EXCEPT !.whole = FALSE]

-----------------------------------------------------------------------------
Answers == [status : {"none", "done", "error"},
            text : {"none", "result", "message", "nothing"},
            content : Contents \cup {NoFile}]

NoAnswer == [status |-> "none", text |-> "none", content |-> NoFile]
Done(c) == [status |-> "done", text |-> "result", content |-> c]

(* resultForDelivery makes a text of an error; without one it passes on     *)
(* what the engine gave it.                                                 *)
Failed(err) == [status |-> "error", text |-> IF err THEN "message" ELSE "nothing",
                content |-> NoFile]
=============================================================================
