--------------------------- MODULE ExamAttemptMC ---------------------------
(* TLC instance of ExamAttempt: model values and the sheets.               *)
EXTENDS ExamAttempt, TLC

CONSTANTS right, wrong, blank

\* Document ids, request slots and polls are interchangeable.
Interchangeable == Permutations(Attempts) \cup Permutations(Requests) \cup Permutations(Workers)

OneSheet   == {blank, right}
TwoSheets  == {blank, right, wrong}
ScoreOne   == blank :> 0 @@ right :> 1
ScoreTwo   == blank :> 0 @@ right :> 1 @@ wrong :> 0
=============================================================================
