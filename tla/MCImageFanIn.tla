---------------------------- MODULE MCImageFanIn ----------------------------
(***************************************************************************)
(* Two images and a limit of one: the second image waits for the first.    *)
(***************************************************************************)
EXTENDS ImageFanIn

MCLimits == {0, 2}

MCScenarios == {{"redis", "db", "late"}, {"redis", "retune", "stall"},
                {"crash", "enqueue"}, {"cancel", "db"}, {"redeliver"}, {"reparse"}}
=============================================================================
