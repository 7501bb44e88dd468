----------------------------- MODULE Documents -----------------------------
(***************************************************************************)
(* The documents of a world: drafts are created, edited by hand, validated,*)
(* and accepted into canon, where they refer to each other                 *)
(* (world/validation.go, world/markdown.go, cli/draft_*.go,                *)
(* cli/story_export.go).  What keeps canon sound is only the validation of *)
(* one draft at the moment it is accepted.                                 *)
(*                                                                         *)
(* Each command holds the lock of the world and is one step; WorldWrite    *)
(* has their writes one by one, the approvals and the recovery.  The       *)
(* frontmatter is kept to what the checks compare.                         *)
(***************************************************************************)
EXTENDS Naturals, FiniteSets

CONSTANTS
  Ids,
  None,         \* no file, no target
  Bodies,
  Given,        \* the areas the paths given to update and reject lie in
  Forced,       \* bound: whether accept is ever given --force
  MaxCommands   \* bound: how many commands and edits there are

ASSUME DocumentsAssumption ==
  /\ None \notin Ids
  /\ Given \subseteq {"drafts", "content"}
  /\ Forced \subseteq BOOLEAN
  /\ MaxCommands \in Nat

VARIABLES
  file,      \* the documents, by path
  archived,  \* how many files archive/ has
  forced,    \* history: whether an accept has been forced
  retyped,   \* history: the documents an accepted update gave another type
  used       \* counts commands, up to MaxCommands

vars == <<file, archived, forced, retyped, used>>

----------------------------------------------------------------------------
(* Types, relationships and paths *)

ContentTypes == {"character", "place"}
Types == ContentTypes \cup {"storylet"}

\* relationshipTypes: who may have it, and to whom.  "related" is the list of
\* that name, that asks for no type.
Relationships == {"parent_of", "rules", "located_in", "related"}

DomainOf(r) == CASE r = "parent_of" -> {"character"}
                 [] r = "rules" -> {"character"}
                 [] r = "located_in" -> {"place"}
                 [] r = "related" -> Types

RangeOf(r) == CASE r = "parent_of" -> {"character"}
                [] r \in {"rules", "located_in"} -> {"place"}
                [] r = "related" -> Types

Rel == [type : Relationships \cup {"unknown"}, to : Ids]

\* draftDirs and contentDirs: storylets have no directory in content/.
Paths == ({"drafts"} \X Types \X Ids) \cup ({"content"} \X ContentTypes \X Ids)
Area(path) == path[1]
Content == {p \in Paths : Area(p) = "content" /\ file[p] # None}
Drafts == {p \in Paths : Area(p) = "drafts" /\ file[p] # None}

\* years: which of the years that contradict each other it gives.
Document == [id : Ids, type : Types, status : {"draft", "canon", "deprecated"},
             change : {"create", "update", "deprecate", "none"},
             target : Ids \cup {None}, rels : SUBSET Rel,
             years : SUBSET {"birth", "death"}, body : Bodies]

ASSUME NoneAssumption == None \notin Document

\* baseDraftMeta; a reason comes with every target.
BaseDraft(id, type, change, target, body) ==
  [id |-> id, type |-> type, status |-> "draft", change |-> change,
   target |-> target, rels |-> {}, years |-> {}, body |-> body]

\* findContentByID: the first by path, and characters come before places.
HasId(id) == {p \in Content : file[p].id = id}
ContentById(id) ==
  CHOOSE p \in HasId(id) : p[2] = "character" \/ \A q \in HasId(id) : q[2] = "place"

IdExists(id) == \E p \in Content \cup Drafts : file[p].id = id

----------------------------------------------------------------------------
(* ValidateDocument: the issues of a document that stands at a path *)

Issue(code, severity) == [code |-> code, severity |-> severity]

PlaceIssues(p, d) ==
  {i \in {Issue("PATH_TYPE_MISMATCH", "error")} : Area(p) = "drafts" /\ p[2] # d.type}
  \cup {i \in {Issue("STORYLET_NOT_CANON_TARGET", "error")} :
         Area(p) = "content" /\ d.type = "storylet"}

ChangeIssues(p, d) ==
  CASE Area(p) = "content" -> {}
    [] d.change = "create" ->
         (IF d.target # None THEN {Issue("INVALID_ARGUMENT", "error")} ELSE {})
         \cup (IF HasId(d.id) # {} THEN {Issue("ID_CONFLICT", "conflict")} ELSE {})
    [] d.change \in {"update", "deprecate"} ->
         (IF d.target = None THEN {Issue("MISSING_TARGET", "error")} ELSE {})
         \cup (IF d.target \notin {None, d.id} THEN {Issue("INVALID_ARGUMENT", "error")} ELSE {})
         \cup (IF d.target # None /\ HasId(d.target) = {}
               THEN {Issue("MISSING_TARGET", "conflict")} ELSE {})
    [] OTHER -> {Issue("INVALID_ARGUMENT", "error")}

\* Mutant: the type of what a relationship leads to is not looked at.
AnyTarget(rel) ==
  IF HasId(rel.to) = {} THEN {Issue("MISSING_TARGET", "conflict")} ELSE {}

\* What a relationship leads to; every issue in accept mode is at least a
\* conflict, and what has an unknown type is not followed further.
TargetIssues(rel) ==
  IF HasId(rel.to) = {} THEN {Issue("MISSING_TARGET", "conflict")}
  ELSE IF file[ContentById(rel.to)].type \in RangeOf(rel.type) THEN {}
  ELSE {Issue("RELATIONSHIP_DOMAIN_RANGE", "conflict")}

\* validateRelated and validateRelationships
RelationIssues(d) ==
  UNION {CASE rel.type = "unknown" -> {Issue("UNKNOWN_RELATIONSHIP_TYPE", "conflict")}
           [] d.type \notin DomainOf(rel.type) ->
                {Issue("RELATIONSHIP_DOMAIN_RANGE", "conflict")} \cup TargetIssues(rel)
           [] OTHER -> TargetIssues(rel) : rel \in d.rels}

TimelineIssues(d) ==
  {i \in {Issue("TIMELINE_CONFLICT", "conflict")} :
     d.type = "character" /\ d.years = {"birth", "death"}}

\* In accept mode; elsewhere a relation to nothing is a warning.
Issues(p, d) ==
  PlaceIssues(p, d) \cup ChangeIssues(p, d) \cup RelationIssues(d) \cup TimelineIssues(d)

----------------------------------------------------------------------------
(* Commands *)

Counts == used < MaxCommands /\ used' = used + 1

Puts(p, d) == file' = [file EXCEPT ![p] = d]

\* cmdDraftCreate, change type create
CreateDraft(type, id) ==
  /\ Counts
  /\ ~IdExists(id)
  /\ \E b \in Bodies : Puts(<<"drafts", type, id>>, BaseDraft(id, type, "create", None, b))
  /\ UNCHANGED <<archived, forced, retyped>>

\* cmdDraftCreate, update or deprecate: a draft that is there is replaced.
CreateChange(change, id) ==
  /\ Counts
  /\ HasId(id) # {}
  /\ LET type == file[ContentById(id)].type IN
     \E b \in Bodies : Puts(<<"drafts", type, id>>, BaseDraft(id, type, change, id, b))
  /\ UNCHANGED <<archived, forced, retyped>>

\* Telegram /draft and cmdStoryExportDraft look at nothing before they write.
WriteDraft(type, id) ==
  /\ Counts
  /\ \E b \in Bodies : Puts(<<"drafts", type, id>>, BaseDraft(id, type, "create", None, b))
  /\ UNCHANGED <<archived, forced, retyped>>

\* cmdDraftUpdate writes a body under the frontmatter that was read, at
\* whatever path it is given.
UpdateDraft(p) ==
  /\ Counts
  /\ Area(p) \in Given
  /\ file[p] # None
  /\ \E b \in Bodies : Puts(p, [file[p] EXCEPT !.body = b])
  /\ UNCHANGED <<archived, forced, retyped>>

\* cmdDraftReject: the file moves to the archive.
RejectDraft(p) ==
  /\ Counts
  /\ Area(p) \in Given
  /\ file[p] # None
  /\ Puts(p, None)
  /\ archived' = archived + 1
  /\ UNCHANGED <<forced, retyped>>

\* Somebody edits the frontmatter of a draft: one field, or what it changes
\* together with whether it creates it, updates it or deprecates it.
EditDraft(p) ==
  /\ Counts
  /\ p \in Drafts
  /\ \/ \E rel \in Rel : Puts(p, [file[p] EXCEPT !.rels = {rel}])
     \/ \E i \in Ids : Puts(p, [file[p] EXCEPT !.id = i])
     \/ \E t \in Types : Puts(p, [file[p] EXCEPT !.type = t])
     \/ \E y \in {"birth", "death"} : Puts(p, [file[p] EXCEPT !.years = @ \cup {y}])
     \/ \E c \in {"create", "update", "deprecate", "none"}, g \in Ids \cup {None} :
          Puts(p, [file[p] EXCEPT !.change = c, !.target = g])
  /\ UNCHANGED <<archived, forced, retyped>>

\* targetForDraft: where the draft goes, None if it can go nowhere.
TargetOf(d) ==
  CASE d.change = "create" /\ d.type \in ContentTypes
         /\ file[<<"content", d.type, d.id>>] = None -> <<"content", d.type, d.id>>
    [] d.change \in {"update", "deprecate"} /\ HasId(d.target) # {} -> ContentById(d.target)
    [] OTHER -> None

\* Mutant: what is accepted still says that it is a draft.
StatusKept(d, old) == [d EXCEPT !.change = "none", !.target = None]

\* acceptedContent.  A deprecation keeps the document: every key it has
\* overrides that of the draft.  It always has its lists of relations, so only
\* the years, and what a document not deprecated yet lacks, come from the draft.
AcceptedContent(d, old) ==
  IF d.change # "deprecate"
  THEN [d EXCEPT !.status = "canon", !.change = "none", !.target = None]
  ELSE [old EXCEPT
    !.status = "deprecated", !.change = d.change,
    !.target = IF old.change = "none" THEN d.target ELSE @, !.years = @ \cup d.years]

\* What an update writes is of the type of the draft, whatever the document was.
Retypes(d, old) == d.change = "update" /\ d.type # old.type

\* A relation to nothing stops every accept, other issues one without --force.
Passes(issues, force) ==
  /\ \A i \in issues : i.code # "MISSING_TARGET"
  /\ issues = {} \/ force

\* cmdDraftAccept, with an approval that binds these very files: the content
\* is written and the draft goes to the archive.
AcceptDraft(p, force) ==
  LET d == file[p]
      target == TargetOf(d)
  IN /\ Counts
     /\ p \in Drafts
     /\ target # None
     /\ Passes(Issues(p, d), force)
     /\ file' = [file EXCEPT ![target] = AcceptedContent(d, file[target]), ![p] = None]
     /\ archived' = archived + 1
     /\ forced' = (forced \/ force)
     /\ retyped' = retyped \cup {q \in {target} : Retypes(d, file[target])}

Init ==
  /\ file = [p \in Paths |-> None]
  /\ archived = 0 /\ forced = FALSE /\ retyped = {} /\ used = 0

Next ==
  \/ \E t \in Types, i \in Ids : CreateDraft(t, i) \/ WriteDraft(t, i)
  \/ \E c \in {"update", "deprecate"}, i \in Ids : CreateChange(c, i)
  \/ \E p \in Paths :
       \/ UpdateDraft(p) \/ RejectDraft(p) \/ EditDraft(p)
       \/ \E force \in Forced : AcceptDraft(p, force)

Spec == Init /\ [][Next]_vars

----------------------------------------------------------------------------
(* Properties *)

TypeOK ==
  /\ file \in [Paths -> Document \cup {None}]
  /\ \A p \in Content : file[p].status \in {"canon", "deprecated"}
  /\ \A p \in Drafts : file[p].status = "draft"
  /\ archived \in 0..MaxCommands
  /\ forced \in BOOLEAN
  /\ retyped \subseteq {p \in Paths : Area(p) = "content"}
  /\ used \in 0..MaxCommands

\* Until somebody forces an accept, all of canon validates, though each
\* document was validated alone, against the canon of its day: no id names
\* two documents, each has the id its path says, knows its relationships and may
\* have them, and every relationship leads to a document, of a type it may
\* lead to.  ValidateDocument does not compare the type of an update with that
\* of its target, so one with another type moves a document out of the type its
\* directory says and its relatives expect: these (retyped) are excepted, and
\* nothing else is.  Only the years of a deprecated document may contradict each
\* other: what the merge of draft and document gives is not validated.
CanonValid ==
  \/ forced
  \/ /\ \A p, q \in Content : file[p].id = file[q].id => p = q
     /\ \A p \in Content :
          /\ file[p].id = p[3]
          /\ file[p].type = p[2] \/ p \in retyped
          /\ \A rel \in file[p].rels :
               /\ rel.type # "unknown" /\ file[p].type \in DomainOf(rel.type)
               /\ \E q \in HasId(rel.to) : file[q].type \in RangeOf(rel.type) \/ q \in retyped
          /\ file[p].status = "canon" /\ file[p].type = "character"
               => file[p].years # {"birth", "death"}

\* directory-structure.md: a document lies in the directory of its type, and no
\* storylet is canon (validation-rules.md), unless force let it in.  The code
\* does not keep to it: see retyped.
CanonInItsDirectory == forced \/ \A p \in Content : file[p].type = p[2]

\* prd.md: content/ does not change before a draft is accepted.  Kept as long
\* as update and reject are given drafts.
CanonOnlyAccepted ==
  [][(\E p \in Paths : Area(p) = "content" /\ file'[p] # file[p])
       => \E p \in Drafts : file'[p] = None]_vars

============================================================================
