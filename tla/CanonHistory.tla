---------------------------- MODULE CanonHistory ----------------------------
(***************************************************************************)
(* What the approval process promises about the documents of a world,      *)
(* without drafts, commands, files or locks: a document moves from one     *)
(* version to the next, each time by an approval given for the version     *)
(* that is current and not used before.  WorldWrite is shown to implement  *)
(* this.                                                                   *)
(***************************************************************************)
CONSTANTS
  Ids,        \* documents
  Versions,   \* what a document can become
  Shipped,    \* the version a document came with
  None,       \* no document
  Texts,      \* what can be proposed
  Forced      \* the ways to approve

VARIABLES current, approved, spent

vars == <<current, approved, spent>>

Bases == Versions \cup {Shipped, None}
Approval == [id: Ids, draft: Texts, base: Bases, force: Forced]

Init ==
  /\ current \in [Ids -> {None, Shipped}]
  /\ approved = {}
  /\ spent = {}

\* An approval names the version it is for, current or not.
Approve ==
  /\ \E a \in Approval : approved' = approved \cup {a}
  /\ UNCHANGED <<current, spent>>

\* The new version is one that nobody has seen.
Publish ==
  \E a \in approved \ spent, v \in Versions :
    /\ current[a.id] = a.base
    /\ \A b \in approved : b.base # v
    /\ current' = [current EXCEPT ![a.id] = v]
    /\ spent' = spent \cup {a}
    /\ UNCHANGED approved

Next == Approve \/ Publish

Spec == Init /\ [][Next]_vars
=============================================================================
