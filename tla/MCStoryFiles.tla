---------------------------- MODULE MCStoryFiles ----------------------------
(* Instances of StoryFiles for TLC. *)
EXTENDS StoryFiles

MCBad == 99
\* What happens after a hazard the properties except is not followed.
Clean == ~overtaken /\ ~bare
=============================================================================
