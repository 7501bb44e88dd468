--------------------------- MODULE MCStoryServer ---------------------------
(* Instances of StoryServer for TLC. *)
EXTENDS StoryServer, TLC

\* Two names outside of a-z and 0-9 have one slug.
MCSlugOf == [n \in Names |-> n]
\* A start finds a turn in the draft that a refresh finds gone, and a story
\* may be made of a draft that has one turn twice.
MCVersions == <<<<2>>, <<1, 1>>>>
MCInbox == {1}
=============================================================================
