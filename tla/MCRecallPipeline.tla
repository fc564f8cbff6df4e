-------------------------- MODULE MCRecallPipeline --------------------------
(* The instance of RecallPipeline for TLC: the kinds of record that differ. *)
EXTENDS RecallPipeline

Plain == [user |-> "u", project |-> Empty, pinned |-> FALSE, saved |-> FALSE,
          importance |-> 2, runes |-> 4, matches |-> TRUE, hidden |-> FALSE, chunk |-> 0]

SomeProfiles ==
  {Plain,
   [Plain EXCEPT !.pinned = TRUE, !.runes = 16, !.chunk = 1],
   [Plain EXCEPT !.saved = TRUE, !.project = "p", !.importance = 0, !.runes = 5],
   [Plain EXCEPT !.matches = FALSE, !.project = "p", !.runes = 0, !.importance = 4,
                 !.chunk = 3],
   [Plain EXCEPT !.hidden = TRUE, !.project = "p", !.chunk = 4],
   [Plain EXCEPT !.user = "v", !.project = "p", !.pinned = TRUE, !.chunk = 4],
   [Plain EXCEPT !.importance = 404, !.runes = 12]}

SomeTopKs == {-1, 0, 1, 2, 51}
=============================================================================
