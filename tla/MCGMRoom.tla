------------------------------ MODULE MCGMRoom ------------------------------
(* A small instance of GMRoom for TLC: the answers are a good one, and one for
   each way an answer can be bad. *)
EXTENDS GMRoom

MCStrings == {"", " ", "x", " x", "y"}
MCTrimmedTo == [s \in MCStrings |-> CASE s = " x" -> "x" [] s = " " -> "" [] OTHER -> s]
MCSeed == [location |-> "x", facts |-> <<"x">>, threads |-> <<"x">>]

Patch(revealed, add, remove) ==
  [location |-> " ", revealed |-> revealed, add |-> add, remove |-> remove, summary |-> ""]

Good == [schema |-> "story-gm-output.v1", lineage |-> TRUE, filled |-> TRUE, long |-> TRUE,
         meta |-> FALSE, choices |-> <<"A", "B", "C">>, answer |-> FALSE,
         patch |-> Patch(<<" x", "y">>, <<" x", "x">>, <<"x", "y">>)]

Outputs ==
  {Good,
   [Good EXCEPT !.patch = Patch(<<"y", " ">>, <<>>, <<" x">>)],
   [Good EXCEPT !.choices = <<"A", "A", "B">>],
   [Good EXCEPT !.meta = TRUE],
   [Good EXCEPT !.schema = "story-question-answer.v1", !.answer = TRUE]}

\* Whole, in a fence, after a stray brace, cut off, no JSON, nothing.
Texts == {Whole, <<"f">> \o Whole \o <<"f">>, <<"p", "{", "p", "}">> \o Whole \o <<"p">>,
          SubSeq(Whole, 1, 5), <<"p", "{">>, <<>>}

MCAnswers == {[text |-> Whole, output |-> o] : o \in Outputs}
             \cup {[text |-> t, output |-> Good] : t \in Texts}

=============================================================================
