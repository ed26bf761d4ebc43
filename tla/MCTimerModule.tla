----------------------------- MODULE MCTimerModule -----------------------------
(***************************************************************************)
(* Control words for the model checker: one that pauses or stops, one that *)
(* resumes, one that starts one-shot, and one that starts with every mode. *)
(***************************************************************************)
EXTENDS TimerModule

MCWords ==
  { {}, {"NORMAL"}, {"START", "NORMAL"},
    {"START", "NORMAL", "CONTINUOUS", "SCALE"} }
=============================================================================
