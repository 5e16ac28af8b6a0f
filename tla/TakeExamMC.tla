----------------------------- MODULE TakeExamMC -----------------------------
(* TLC instance of TakeExam.                                               *)
EXTENDS TakeExam
=============================================================================
