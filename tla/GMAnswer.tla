------------------------------ MODULE GMAnswer ------------------------------
(***************************************************************************)
(* What becomes of the text a GM provider returns: how a provider finds    *)
(* the JSON object in it, what makes the object a turn or an answer, and   *)
(* what its patch does to the state of the story (story_gm_json.go,        *)
(* story_gm_validate.go, Generate of the three providers).                 *)
(*                                                                         *)
(* A text is a sequence of pieces: "{" and "}", "m" for members of an      *)
(* object, "p" for prose, "f" for a line of back quotes.  Braces inside a  *)
(* JSON string are part of "m".  What the object says is given beside the  *)
(* text, as the record the whole object unmarshals to.                     *)
(***************************************************************************)
EXTENDS Naturals, Sequences, SequencesExt

CONSTANTS
  Strings,     \* the strings that lists of a state and a patch hold
  Empty,       \* the empty string
  TrimmedTo,   \* strings.TrimSpace, on Strings
  ChoiceIds    \* the ids of choices

ASSUME AnswerAssumption ==
  /\ {"A", "B", "C", "D"} \subseteq ChoiceIds
  /\ Empty \in Strings
  /\ TrimmedTo \in [Strings -> Strings]
  /\ TrimmedTo[Empty] = Empty
  /\ \A s \in Strings : TrimmedTo[TrimmedTo[s]] = TrimmedTo[s]

----------------------------------------------------------------------------
(* What is written and read *)

StatePatch ==
  [location : Strings, revealed : Seq(Strings), add : Seq(Strings), remove : Seq(Strings),
   summary : Strings]

\* The two that are asked for, and any other.
Schemas == {"story-gm-output.v1", "story-question-answer.v1", ""}

Output ==
  [schema : Schemas, lineage : BOOLEAN, filled : BOOLEAN, long : BOOLEAN, meta : BOOLEAN,
   choices : Seq(ChoiceIds), patch : StatePatch, answer : BOOLEAN]

StoryState == [location : Strings, facts : Seq(Strings), threads : Seq(Strings)]

----------------------------------------------------------------------------
(* extractJSONText *)

Opened(s, i, k) ==
  Cardinality({n \in i..k : s[n] = "{"}) - Cardinality({n \in i..k : s[n] = "}"})

\* s[i..k] is where the object that starts at i is closed for the first time.
ClosedAt(s, i, k) ==
  /\ s[i] = "{" /\ i < k
  /\ Opened(s, i, k) = 0
  /\ \A n \in i..(k - 1) : Opened(s, i, n) > 0

\* json.Valid, of a text that is an object: nothing stands between its braces
\* but members and objects.
IsObject(s) == s # <<>> /\ ClosedAt(s, 1, Len(s)) /\ Range(s) \subseteq {"{", "}", "m"}

\* Lines of back quotes around the text are taken off; one of them alone is
\* left, and the search for a brace steps over it.
Unfenced(s) ==
  IF Len(s) >= 3 /\ s[1] = "f" /\ s[Len(s)] = "f" THEN SubSeq(s, 2, Len(s) - 1) ELSE s

Objects(s) ==
  {w \in (1..Len(s)) \X (1..Len(s)) : ClosedAt(s, w[1], w[2]) /\ IsObject(SubSeq(s, w[1], w[2]))}

NoObject == <<>>

\* The first object of the text that is valid, <<>> if there is none.  An
\* object that is cut off is stepped over, and one inside it is found.
ExtractJSONText(raw) ==
  LET s == Unfenced(raw)
      found == Objects(s)
  IN IF found = {} THEN NoObject
     ELSE LET w == CHOOSE v \in found : \A u \in found : v[1] <= u[1]
          IN SubSeq(s, w[1], w[2])

----------------------------------------------------------------------------
(* The providers: an outcome is an error with the text that is kept of it, *)
(* or an output                                                            *)

\* The object the prompt asks for: members, and in one of them the turn.
Whole == <<"{", "m", "{", "m", "}", "m", "}">>

NoPatch == [location |-> Empty, revealed |-> <<>>, add |-> <<>>, remove |-> <<>>, summary |-> Empty]

\* What an object that is only a part of the output unmarshals to.
Blank == [schema |-> "", lineage |-> FALSE, filled |-> FALSE, long |-> FALSE, meta |-> FALSE,
          choices |-> <<>>, patch |-> NoPatch, answer |-> FALSE]

Meaning(text, output) == IF text = Whole THEN output ELSE Blank

Fails(raw) == [error |-> TRUE, raw |-> raw # <<>>, output |-> Blank]
Returns(output) == [error |-> FALSE, raw |-> TRUE, output |-> output]

\* codexCLIProvider.Generate: the last message of a process.  The process
\* fails with what it printed, or its message is JSON from end to end.
CodexGenerates(ok, text, output) ==
  IF ok /\ IsObject(text) THEN Returns(Meaning(text, output)) ELSE Fails(text)

\* hermesAPIProvider.Generate: an answer over HTTP.  A call that fails leaves
\* no text; the JSON is searched for in the message.
HermesGenerates(ok, text, output) ==
  CASE ~ok -> Fails(<<>>)
    [] ok /\ ExtractJSONText(text) = NoObject -> Fails(text)
    [] OTHER -> Returns(Meaning(ExtractJSONText(text), output))

\* mockGMProvider.Generate: a scene put together from the state and the
\* player's own words, so that only those can bring a term that is refused.
MockGenerates(output) ==
  Returns([output EXCEPT !.lineage = TRUE, !.filled = TRUE, !.long = TRUE, !.answer = TRUE,
                         !.choices = <<"A", "B", "C", "D">>])

\* newGMProvider: every other name is the mock.
Generates(provider, ok, text, output) ==
  CASE provider = "codex_cli" -> CodexGenerates(ok, text, output)
    [] provider = "hermes_api" -> HermesGenerates(ok, text, output)
    [] OTHER -> MockGenerates(output)

----------------------------------------------------------------------------
(* ValidateGMOutput, and the check at the head of applyQuestionOutput *)

NotBlank(s) == TrimmedTo[s] # Empty
AnyNotBlank(list) == \E i \in DOMAIN list : NotBlank(list[i])

HasEffectiveStatePatchUpdate(p) ==
  NotBlank(p.location) \/ NotBlank(p.summary) \/ AnyNotBlank(p.add) \/ AnyNotBlank(p.remove)

\* A choice stands for its id; one whose text, intent or hint is too short
\* has the id Empty here, and is refused like one without an id.
ValidChoices(choices) ==
  /\ Len(choices) \in 3..4
  /\ \A i \in DOMAIN choices : choices[i] # Empty
  /\ \A i, k \in DOMAIN choices : choices[i] = choices[k] => i = k

ValidateGMOutput(out) ==
  /\ out.schema = "story-gm-output.v1"
  /\ out.lineage
  /\ out.filled
  /\ out.long
  /\ HasEffectiveStatePatchUpdate(out.patch)
  /\ ~out.meta
  /\ ValidChoices(out.choices)

ValidAnswer(out) == out.schema = "story-question-answer.v1" /\ out.lineage /\ out.answer

----------------------------------------------------------------------------
(* ApplyGMStatePatch *)

Trimmed(list) == [i \in DOMAIN list |-> TrimmedTo[list[i]]]

\* The n-th position of P, and the elements of a list at the positions of P.
Nth(P, n) == CHOOSE i \in P : Cardinality({k \in P : k <= i}) = n
Picked(list, P) == [n \in 1..Cardinality(P) |-> list[Nth(P, n)]]

\* The first of each string that is left when it is trimmed, in order.
FirstOfEach(list) ==
  LET t == Trimmed(list)
  IN Picked(t, {i \in DOMAIN t : t[i] # Empty /\ \A k \in 1..(i - 1) : t[k] # t[i]})

AppendUnique(list, more) == FirstOfEach(list \o more)

RemoveStrings(list, gone) ==
  Picked(list, {i \in DOMAIN list : TrimmedTo[list[i]] \notin Range(Trimmed(gone))})

\* Mutant: what is added is removed again.
AddThenRemove(list, p) == RemoveStrings(AppendUnique(AppendUnique(list, p.revealed), p.add), p.remove)

\* The facts: revealed ones come in, some are removed, others are added.
Facts(list, p) == AppendUnique(RemoveStrings(AppendUnique(list, p.revealed), p.remove), p.add)

\* The open threads, and like them the risks and the flags; the patch of each
\* is the patch of the facts here.
Threads(list, p) == AppendUnique(RemoveStrings(list, p.remove), p.add)

\* A location of blanks is not empty and is set.
ApplyGMStatePatch(st, p) ==
  [location |-> IF p.location # Empty THEN p.location ELSE st.location,
   facts |-> Facts(st.facts, p),
   threads |-> Threads(st.threads, p)]

=============================================================================
