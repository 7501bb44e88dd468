--------------------------- MODULE StoryProgress ---------------------------
(***************************************************************************)
(* What a reader of a story may rely on, without jobs, workers, locks or   *)
(* phases: the log of turns grows by one turn at a time, each turn answers *)
(* one input, an input that failed may be tried again or given up, and     *)
(* nothing is cut from the log while an answer to it is being written.     *)
(* A commit may slip: its turn is in the log and its input still pending,  *)
(* so that the same turn may follow once more.  Slips are counted.         *)
(* StoryRoom is shown to implement this.                                   *)
(***************************************************************************)
EXTENDS Naturals, Sequences

CONSTANTS
  Inputs,    \* everything that can become a turn
  NoInput,   \* no input is pending; also the origin of an imported turn
  Ids,       \* the ids a turn may have
  MaxSlips   \* how many commits may slip

VARIABLES
  log,       \* the committed turns: their ids and the inputs they answer
  pending,   \* "none", "working" or "failed"
  input,     \* the pending input
  slips      \* how many commits may still slip

vars == <<log, pending, input, slips>>

Entry == [id: Ids, origin: Inputs \cup {NoInput}]

LastId == IF log = <<>> THEN 0 ELSE log[Len(log)].id

Answered(i) == \E k \in 1..Len(log) : log[k].origin = i

\* The turn of the pending input with id n has slipped into the log.
Slipped(n) == log # <<>> /\ log[Len(log)] = [id |-> n, origin |-> input]

Init ==
  /\ slips = MaxSlips
  /\ \/ /\ log = <<>>
        /\ pending = "working"
        /\ input \in Inputs
     \/ /\ \E n \in Ids : log = [i \in 1..n |-> [id |-> i, origin |-> NoInput]]
        /\ pending = "none"
        /\ input = NoInput

\* An input is taken only when none is pending, and only if it is new.
Ask ==
  /\ pending = "none"
  /\ pending' = "working"
  /\ input' \in {i \in Inputs : ~Answered(i)}
  /\ UNCHANGED <<log, slips>>

\* The answer goes to the end of the log, under a larger id unless it is
\* there already.
Answer ==
  /\ pending = "working"
  /\ \E n \in Ids : /\ n > LastId \/ Slipped(n)
                    /\ log' = Append(log, [id |-> n, origin |-> input])

Commit ==
  /\ Answer
  /\ pending' = "none"
  /\ input' = NoInput
  /\ slips' \in 0..slips

\* The answer is in the log and the input stays pending.
Slip ==
  /\ Answer
  /\ slips > 0
  /\ slips' \in 0..(slips - 1)
  /\ UNCHANGED <<pending, input>>

Fail ==
  /\ pending = "working"
  /\ pending' = "failed"
  /\ slips' \in 0..slips
  /\ UNCHANGED <<log, input>>

Retry ==
  /\ pending = "failed"
  /\ pending' = "working"
  /\ UNCHANGED <<log, input, slips>>

GiveUp ==
  /\ pending = "failed"
  /\ pending' = "none"
  /\ input' = NoInput
  /\ UNCHANGED <<log, slips>>

\* The end of the log is cut, at least one turn is left.
Cut ==
  /\ pending # "working"
  /\ \E n \in 1..Len(log) : log' = SubSeq(log, 1, n)
  /\ slips' \in 0..slips
  /\ UNCHANGED <<pending, input>>

\* Something goes wrong that no reader sees.
Spare ==
  /\ slips' \in 0..slips
  /\ UNCHANGED <<log, pending, input>>

Next == Ask \/ Commit \/ Slip \/ Fail \/ Retry \/ GiveUp \/ Cut \/ Spare

Spec == Init /\ [][Next]_vars
============================================================================
