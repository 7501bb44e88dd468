-------------------------- MODULE DocumentsProofs --------------------------
(***************************************************************************)
(* Proofs about Documents, for any ids, bodies and number of commands: the *)
(* types, and that canon as a whole stays valid though one draft at a time *)
(* is validated.                                                           *)
(***************************************************************************)
EXTENDS Documents, TLAPS

----------------------------------------------------------------------------
(* Paths and lookups *)

LEMMA PathForm ==
  /\ \A t \in Types, i \in Ids : <<"drafts", t, i>> \in Paths
  /\ \A t \in ContentTypes, i \in Ids : <<"content", t, i>> \in Paths
  /\ \A p \in Paths : /\ Area(p) \in {"drafts", "content"}
                      /\ p = <<p[1], p[2], p[3]>> /\ p[2] \in Types /\ p[3] \in Ids
                      /\ Area(p) = "content" => p[2] \in ContentTypes
  BY DEF Paths, Types, ContentTypes, Area

\* findContentByID finds a document if there is one.
LEMMA Found ==
  ASSUME NEW id, HasId(id) # {}
  PROVE  ContentById(id) \in HasId(id)
<1>1. \A p \in HasId(id) : p[2] \in {"character", "place"}
  BY PathForm DEF HasId, Content, ContentTypes
<1>2. \E p \in HasId(id) : p[2] = "character" \/ \A q \in HasId(id) : q[2] = "place"
  BY <1>1
<1> QED
  BY <1>2 DEF ContentById

----------------------------------------------------------------------------
(* Types *)

DocsInv == TypeOK /\ archived <= used

LEMMA InitType == Init => DocsInv
<1> SUFFICES ASSUME Init PROVE DocsInv
  OBVIOUS
<1>1. file \in [Paths -> Document \cup {None}] /\ Content = {} /\ Drafts = {}
  BY DEF Init, Content, Drafts
<1>2. archived \in 0..MaxCommands /\ used \in 0..MaxCommands /\ archived <= used
  BY DocumentsAssumption DEF Init
<1>3. forced \in BOOLEAN /\ retyped = {}
  BY DEF Init
<1> QED
  BY <1>1, <1>2, <1>3 DEF DocsInv, TypeOK

\* A document that is put where one of its area belongs.
LEMMA PutType ==
  ASSUME TypeOK, NEW p \in Paths, NEW d \in Document \cup {None}, Puts(p, d),
         d # None => IF Area(p) = "drafts" THEN d.status = "draft"
                     ELSE d.status \in {"canon", "deprecated"}
  PROVE  /\ file' \in [Paths -> Document \cup {None}]
         /\ \A q \in Content' : file'[q].status \in {"canon", "deprecated"}
         /\ \A q \in Drafts' : file'[q].status = "draft"
<1> QED
  BY DEF TypeOK, Puts, Content, Drafts

LEMMA CountType ==
  ASSUME DocsInv, Counts, archived' \in {archived, archived + 1}
  PROVE  archived' \in 0..MaxCommands /\ used' \in 0..MaxCommands /\ archived' <= used'
  BY DocumentsAssumption DEF DocsInv, TypeOK, Counts

LEMMA BaseDraftType ==
  ASSUME NEW i \in Ids, NEW t \in Types, NEW c \in {"create", "update", "deprecate"},
         NEW g \in Ids \cup {None}, NEW b \in Bodies
  PROVE  BaseDraft(i, t, c, g, b) \in Document /\ BaseDraft(i, t, c, g, b).status = "draft"
  BY DEF BaseDraft, Document

\* None is no document: a document has an id.
LEMMA AcceptedType ==
  ASSUME TypeOK, NEW d \in Document, NEW old, d.change = "deprecate" => old \in Document
  PROVE  /\ AcceptedContent(d, old) \in Document
         /\ AcceptedContent(d, old).status \in {"canon", "deprecated"}
<1>1. CASE d.change # "deprecate"
  BY <1>1 DEF AcceptedContent, Document
<1>2. CASE d.change = "deprecate"
  <2> DEFINE target == IF old.change = "none" THEN d.target ELSE old.target
             years == old.years \cup d.years
  <2>1. target \in Ids \cup {None} /\ years \in SUBSET {"birth", "death"}
    BY <1>2 DEF Document
  <2>2. AcceptedContent(d, old) = [old EXCEPT !.status = "deprecated", !.change = d.change,
                                     !.target = target, !.years = years]
    BY <1>2 DEF AcceptedContent, Document
  <2> HIDE DEF target, years
  <2> QED
    BY <1>2, <2>1, <2>2 DEF Document
<1> QED
  BY <1>1, <1>2

LEMMA TargetType ==
  ASSUME TypeOK, NEW d \in Document, TargetOf(d) # None
  PROVE  /\ TargetOf(d) \in Paths /\ Area(TargetOf(d)) = "content"
         /\ d.change = "deprecate" => file[TargetOf(d)] \in Document
<1>1. CASE d.change = "create"
  BY <1>1, PathForm DEF TargetOf, Document, Area
<1>2. CASE d.change \in {"update", "deprecate"}
  <2>1. HasId(d.target) # {} /\ TargetOf(d) = ContentById(d.target)
    BY <1>2 DEF TargetOf
  <2>2. TargetOf(d) \in HasId(d.target)
    BY <2>1, Found
  <2> QED
    BY <2>2 DEF HasId, Content, TypeOK
<1>3. CASE d.change \notin {"create", "update", "deprecate"}
  BY <1>3 DEF TargetOf
<1> QED
  BY <1>1, <1>2, <1>3

LEMMA DraftType ==
  ASSUME TypeOK, NEW p \in Drafts
  PROVE  p \in Paths /\ Area(p) = "drafts" /\ file[p] \in Document /\ file[p].status = "draft"
  BY DEF TypeOK, Drafts

LEMMA StandsType ==
  ASSUME TypeOK, NEW p \in Paths, file[p] # None
  PROVE  /\ file[p] \in Document
         /\ Area(p) = "drafts" => file[p].status = "draft"
         /\ Area(p) = "content" => file[p].status \in {"canon", "deprecated"}
  BY DEF TypeOK, Drafts, Content

LEMMA CreateType ==
  ASSUME DocsInv, NEW t \in Types, NEW i \in Ids, CreateDraft(t, i) \/ WriteDraft(t, i)
  PROVE  DocsInv'
<1>1. PICK b \in Bodies : Puts(<<"drafts", t, i>>, BaseDraft(i, t, "create", None, b))
  BY DEF CreateDraft, WriteDraft
<1>2. Counts /\ UNCHANGED <<archived, forced, retyped>>
  BY DEF CreateDraft, WriteDraft
<1>3. BaseDraft(i, t, "create", None, b) \in Document
      /\ BaseDraft(i, t, "create", None, b).status = "draft"
  BY BaseDraftType
<1>4. <<"drafts", t, i>> \in Paths /\ Area(<<"drafts", t, i>>) = "drafts"
  BY PathForm DEF Area
<1> HIDE DEF DocsInv
<1>5. TypeOK
  BY DEF DocsInv
<1>6. /\ file' \in [Paths -> Document \cup {None}]
      /\ \A q \in Content' : file'[q].status \in {"canon", "deprecated"}
      /\ \A q \in Drafts' : file'[q].status = "draft"
  BY <1>1, <1>3, <1>4, <1>5, PutType
<1> QED
  BY <1>2, <1>5, <1>6, CountType DEF DocsInv, TypeOK

LEMMA CreateChangeType ==
  ASSUME DocsInv, NEW c \in {"update", "deprecate"}, NEW i \in Ids, CreateChange(c, i)
  PROVE  DocsInv'
<1> DEFINE t == file[ContentById(i)].type
           d(b) == BaseDraft(i, t, c, i, b)
<1>1. PICK b \in Bodies : Puts(<<"drafts", t, i>>, d(b))
  BY DEF CreateChange
<1>2. Counts /\ UNCHANGED <<archived, forced, retyped>> /\ HasId(i) # {}
  BY DEF CreateChange
<1>3. TypeOK
  BY DEF DocsInv
<1>4. t \in Types
  BY <1>2, <1>3, Found, StandsType DEF HasId, Content, Document
<1> HIDE DEF t
<1>5. d(b) \in Document /\ d(b).status = "draft"
  BY <1>4, BaseDraftType
<1>6. <<"drafts", t, i>> \in Paths /\ Area(<<"drafts", t, i>>) = "drafts"
  BY <1>4, PathForm DEF Area
<1> HIDE DEF d
<1>7. /\ file' \in [Paths -> Document \cup {None}]
      /\ \A q \in Content' : file'[q].status \in {"canon", "deprecated"}
      /\ \A q \in Drafts' : file'[q].status = "draft"
  BY <1>1, <1>3, <1>5, <1>6, PutType
<1> QED
  BY <1>2, <1>3, <1>7, CountType DEF DocsInv, TypeOK

LEMMA UpdateType ==
  ASSUME DocsInv, NEW p \in Paths, UpdateDraft(p)
  PROVE  DocsInv'
<1>1. PICK b \in Bodies : Puts(p, [file[p] EXCEPT !.body = b])
  BY DEF UpdateDraft
<1>2. Counts /\ UNCHANGED <<archived, forced, retyped>> /\ file[p] # None /\ TypeOK
  BY DEF UpdateDraft, DocsInv
<1> DEFINE d == [file[p] EXCEPT !.body = b]
<1>3. d \in Document /\ d.status = file[p].status
  BY <1>2, StandsType DEF Document
<1> HIDE DEF d
<1>4. /\ file' \in [Paths -> Document \cup {None}]
      /\ \A q \in Content' : file'[q].status \in {"canon", "deprecated"}
      /\ \A q \in Drafts' : file'[q].status = "draft"
  BY <1>1, <1>2, <1>3, PutType, StandsType, PathForm DEF d
<1> QED
  BY <1>2, <1>4, CountType DEF DocsInv, TypeOK

LEMMA RejectType ==
  ASSUME DocsInv, NEW p \in Paths, RejectDraft(p)
  PROVE  DocsInv'
<1>1. Puts(p, None) /\ Counts /\ archived' = archived + 1 /\ UNCHANGED <<forced, retyped>> /\ TypeOK
  BY DEF RejectDraft, DocsInv
<1>2. /\ file' \in [Paths -> Document \cup {None}]
      /\ \A q \in Content' : file'[q].status \in {"canon", "deprecated"}
      /\ \A q \in Drafts' : file'[q].status = "draft"
  BY <1>1, PutType
<1> QED
  BY <1>1, <1>2, CountType DEF DocsInv, TypeOK

\* A draft that somebody has edited is a document still, and a draft.
LEMMA EditedType ==
  ASSUME TypeOK, NEW p \in Drafts, EditDraft(p)
  PROVE  \E d \in Document : Puts(p, d) /\ d.status = "draft"
<1>1. file[p] \in Document /\ file[p].status = "draft"
  BY DraftType
<1>2. CASE \E rel \in Rel : Puts(p, [file[p] EXCEPT !.rels = {rel}])
  BY <1>1, <1>2 DEF Document
<1>3. CASE \E i \in Ids : Puts(p, [file[p] EXCEPT !.id = i])
  BY <1>1, <1>3 DEF Document
<1>4. CASE \E t \in Types : Puts(p, [file[p] EXCEPT !.type = t])
  BY <1>1, <1>4 DEF Document
<1>5. CASE \E y \in {"birth", "death"} : Puts(p, [file[p] EXCEPT !.years = @ \cup {y}])
  BY <1>1, <1>5 DEF Document
<1>6. CASE \E c \in {"create", "update", "deprecate", "none"}, g \in Ids \cup {None} :
             Puts(p, [file[p] EXCEPT !.change = c, !.target = g])
  <2>1. PICK c \in {"create", "update", "deprecate", "none"}, g \in Ids \cup {None} :
               Puts(p, [file[p] EXCEPT !.change = c, !.target = g])
    BY <1>6
  <2> DEFINE d == [file[p] EXCEPT !.change = c, !.target = g]
  <2>2. d \in Document /\ d.status = "draft"
    BY <1>1 DEF Document
  <2> QED
    BY <2>1, <2>2
<1> QED
  BY <1>2, <1>3, <1>4, <1>5, <1>6 DEF EditDraft

LEMMA EditType ==
  ASSUME DocsInv, NEW p \in Paths, EditDraft(p)
  PROVE  DocsInv'
<1>1. Counts /\ UNCHANGED <<archived, forced, retyped>> /\ p \in Drafts /\ TypeOK
  BY DEF EditDraft, DocsInv
<1>2. PICK d \in Document : Puts(p, d) /\ d.status = "draft"
  BY <1>1, EditedType
<1>3. /\ file' \in [Paths -> Document \cup {None}]
      /\ \A q \in Content' : file'[q].status \in {"canon", "deprecated"}
      /\ \A q \in Drafts' : file'[q].status = "draft"
  BY <1>1, <1>2, PutType, DraftType
<1> QED
  BY <1>1, <1>3, CountType DEF DocsInv, TypeOK

LEMMA AcceptType ==
  ASSUME DocsInv, NEW p \in Paths, NEW force \in Forced, AcceptDraft(p, force)
  PROVE  DocsInv'
<1> DEFINE d == file[p]
           t == TargetOf(d)
           new == AcceptedContent(d, file[t])
<1>1. /\ Counts /\ p \in Drafts /\ t # None /\ archived' = archived + 1
      /\ file' = [file EXCEPT ![t] = new, ![p] = None]
      /\ forced' = (forced \/ force)
      /\ retyped' = retyped \cup {q \in {t} : Retypes(d, file[t])}
  BY DEF AcceptDraft
<1>2. TypeOK
  BY DEF DocsInv
<1>3. d \in Document /\ Area(p) = "drafts"
  BY <1>1, <1>2, DraftType
<1>4. t \in Paths /\ Area(t) = "content" /\ (d.change = "deprecate" => file[t] \in Document)
  BY <1>1, <1>2, <1>3, TargetType
<1>5. new \in Document /\ new.status \in {"canon", "deprecated"}
  BY <1>2, <1>3, <1>4, AcceptedType
<1> HIDE DEF new, t, d
<1>6. /\ file' \in [Paths -> Document \cup {None}]
      /\ \A q \in Content' : file'[q].status \in {"canon", "deprecated"}
      /\ \A q \in Drafts' : file'[q].status = "draft"
  BY <1>1, <1>2, <1>3, <1>4, <1>5 DEF TypeOK, Content, Drafts
<1>7. forced' \in BOOLEAN /\ retyped' \subseteq {q \in Paths : Area(q) = "content"}
  BY <1>1, <1>2, <1>4, DocumentsAssumption DEF TypeOK
<1> QED
  BY <1>1, <1>6, <1>7, CountType DEF DocsInv, TypeOK

LEMMA NextType == DocsInv /\ [Next]_vars => DocsInv'
<1> SUFFICES ASSUME DocsInv, [Next]_vars PROVE DocsInv'
  OBVIOUS
<1>1. CASE UNCHANGED vars
  BY <1>1 DEF vars, DocsInv, TypeOK, Content, Drafts
<1> QED
  BY <1>1, CreateType, CreateChangeType, UpdateType, RejectType, EditType, AcceptType DEF Next

----------------------------------------------------------------------------
(* Canon *)

\* A relationship that may be had by a document of a type, and what it leads to.
Fits(type, rel) ==
  /\ rel.type # "unknown" /\ type \in DomainOf(rel.type)
  /\ \E q \in HasId(rel.to) : file[q].type \in RangeOf(rel.type) \/ q \in retyped

CanonPart ==
  /\ \A p, q \in Content : file[p].id = file[q].id => p = q
  /\ \A p \in Content :
       /\ file[p].id = p[3]
       /\ file[p].type = p[2] \/ p \in retyped
       /\ \A rel \in file[p].rels : Fits(file[p].type, rel)
       /\ file[p].status = "canon" /\ file[p].type = "character"
            => file[p].years # {"birth", "death"}

CanonInv == DocsInv /\ (forced \/ CanonPart)

LEMMA InitCanon == Init => CanonInv
  BY InitType DEF Init, CanonInv, CanonPart, Content, Drafts

\* What it says of a draft that ValidateDocument has nothing to say.
LEMMA NoIssues ==
  ASSUME NEW p \in Paths, Area(p) = "drafts", NEW d \in Document, Issues(p, d) = {}
  PROVE  /\ d.change = "create" => HasId(d.id) = {}
         /\ d.change \in {"update", "deprecate"} => d.target = d.id /\ HasId(d.id) # {}
         /\ \A rel \in d.rels : Fits(d.type, rel)
         /\ d.type = "character" => d.years # {"birth", "death"}
<1>1. ChangeIssues(p, d) = {} /\ RelationIssues(d) = {} /\ TimelineIssues(d) = {}
  BY DEF Issues
<1>3. d.change = "create" => HasId(d.id) = {}
  BY <1>1 DEF ChangeIssues
<1>4. d.change \in {"update", "deprecate"} => d.target = d.id /\ HasId(d.id) # {}
  BY <1>1 DEF ChangeIssues
<1>5. ASSUME NEW rel \in d.rels PROVE Fits(d.type, rel)
  <2> DEFINE I(r) == CASE r.type = "unknown" -> {Issue("UNKNOWN_RELATIONSHIP_TYPE", "conflict")}
                       [] d.type \notin DomainOf(r.type) ->
                            {Issue("RELATIONSHIP_DOMAIN_RANGE", "conflict")} \cup TargetIssues(r)
                       [] OTHER -> TargetIssues(r)
  <2>1. I(rel) = {}
    <3>1. RelationIssues(d) = UNION {I(r) : r \in d.rels}
      BY DEF RelationIssues
    <3> HIDE DEF I
    <3> QED
      BY <1>1, <3>1
  <2>2. rel.type # "unknown"
    BY <2>1
  <2>3. d.type \in DomainOf(rel.type) /\ TargetIssues(rel) = {}
    BY <2>1, <2>2
  <2>4. HasId(rel.to) # {} /\ file[ContentById(rel.to)].type \in RangeOf(rel.type)
    BY <2>3 DEF TargetIssues
  <2> QED
    BY <2>2, <2>3, <2>4, Found DEF Fits
<1>6. d.type = "character" => d.years # {"birth", "death"}
  BY <1>1 DEF TimelineIssues
<1> QED
  BY <1>3, <1>4, <1>5, <1>6

\* Nothing of canon is touched when a draft is written or goes away.
LEMMA CanonUntouched ==
  ASSUME TypeOK, NEW p \in Paths, Area(p) = "drafts", NEW d, Puts(p, d),
         NEW q \in Paths, Area(q) = "content"
  PROVE  file'[q] = file[q]
  BY DEF TypeOK, Puts

LEMMA DraftStepCanon ==
  ASSUME CanonInv, ~forced, NEW p \in Paths, Area(p) = "drafts", NEW d, Puts(p, d),
         DocsInv', UNCHANGED <<forced, retyped>>
  PROVE  CanonInv'
<1>1. TypeOK /\ CanonPart
  BY DEF CanonInv, DocsInv
<1>2. Content' = Content /\ \A q \in Content : file'[q] = file[q]
  BY <1>1, CanonUntouched DEF Content
<1>3. \A id : HasId(id)' = HasId(id) /\ HasId(id) \subseteq Content
  BY <1>2 DEF HasId
<1>4. \A type, rel : Fits(type, rel) => Fits(type, rel)'
  BY <1>2, <1>3 DEF Fits
<1> QED
  BY <1>1, <1>2, <1>4 DEF CanonInv, CanonPart

LEMMA DraftAction ==
  ASSUME CanonInv, ~forced, "content" \notin Given, DocsInv',
         NEW p \in Paths, UpdateDraft(p) \/ RejectDraft(p) \/ EditDraft(p)
  PROVE  CanonInv'
<1>1. Area(p) = "drafts" /\ UNCHANGED <<forced, retyped>>
  BY PathForm DEF UpdateDraft, RejectDraft, EditDraft, Drafts
<1>2. \E d : Puts(p, d)
  BY DEF UpdateDraft, RejectDraft, EditDraft
<1> QED
  BY <1>1, <1>2, DraftStepCanon

LEMMA CreateCanon ==
  ASSUME CanonInv, ~forced, DocsInv', NEW t \in Types, NEW i \in Ids,
         CreateDraft(t, i) \/ WriteDraft(t, i)
  PROVE  CanonInv'
<1> DEFINE p == <<"drafts", t, i>>
<1>1. \E d : Puts(p, d)
  BY DEF CreateDraft, WriteDraft
<1>2. UNCHANGED <<forced, retyped>> /\ p \in Paths /\ Area(p) = "drafts"
  BY PathForm DEF CreateDraft, WriteDraft, Area
<1> HIDE DEF p
<1> QED
  BY <1>1, <1>2, DraftStepCanon

LEMMA CreateChangeCanon ==
  ASSUME CanonInv, ~forced, DocsInv', NEW c \in {"update", "deprecate"}, NEW i \in Ids,
         CreateChange(c, i)
  PROVE  CanonInv'
<1> DEFINE w == ContentById(i)
           p == <<"drafts", file[w].type, i>>
<1>1. \E d : Puts(p, d)
  BY DEF CreateChange
<1>2. UNCHANGED <<forced, retyped>> /\ w \in HasId(i)
  BY Found DEF CreateChange
<1>3. file[w].type \in Types
  BY <1>2, StandsType DEF CanonInv, DocsInv, HasId, Content, Document
<1>4. p \in Paths /\ Area(p) = "drafts"
  BY <1>3, PathForm DEF Area
<1> HIDE DEF p, w
<1> QED
  BY <1>1, <1>2, <1>4, DraftStepCanon

\* The document an accept writes: its id is that of its path, no other document
\* of canon has it, and its type is another only where it is retyped.
LEMMA AcceptAims ==
  ASSUME CanonInv, ~forced, NEW p \in Drafts, Issues(p, file[p]) = {}, TargetOf(file[p]) # None
  PROVE  LET d == file[p]
             t == TargetOf(d)
             new == AcceptedContent(d, file[t])
         IN /\ new.id = d.id /\ d.id = t[3] /\ HasId(d.id) \subseteq {t}
            /\ t \in Content => new.type = file[t].type \/ Retypes(d, file[t])
            /\ t \notin Content => new.type = t[2]
            /\ d.change = "deprecate" => t \in Content
<1> DEFINE d == file[p]
           t == TargetOf(d)
           new == AcceptedContent(d, file[t])
<1>1. TypeOK /\ d \in Document /\ p \in Paths /\ Area(p) = "drafts"
  BY DraftType DEF CanonInv, DocsInv
<1>2. /\ d.change = "create" => HasId(d.id) = {}
      /\ d.change \in {"update", "deprecate"} => d.target = d.id /\ HasId(d.id) # {}
  BY <1>1, NoIssues
<1>3. CASE d.change = "create"
  <2>1. t = <<"content", d.type, d.id>> /\ file[t] = None
    BY <1>3 DEF TargetOf
  <2>2. new.id = d.id /\ new.type = d.type
    BY <1>1, <1>3 DEF AcceptedContent, Document
  <2> QED
    BY <1>2, <1>3, <2>1, <2>2 DEF Content
<1>4. CASE d.change \in {"update", "deprecate"}
  <2>1. t = ContentById(d.id) /\ t \in HasId(d.id)
    BY <1>2, <1>4, Found DEF TargetOf
  <2>2. t \in Content /\ file[t] \in Document /\ file[t].id = d.id /\ file[t].id = t[3]
    BY <1>1, <2>1, StandsType DEF HasId, Content, CanonInv, CanonPart
  <2>3. HasId(d.id) \subseteq {t}
    BY <2>2 DEF HasId, CanonInv, CanonPart
  <2>4. new.id = d.id /\ (new.type = file[t].type \/ Retypes(d, file[t]))
    <3>1. CASE d.change = "update"
      BY <1>1, <3>1 DEF AcceptedContent, Document, Retypes
    <3>2. CASE d.change = "deprecate"
      BY <2>2, <3>2 DEF AcceptedContent, Document
    <3> QED
      BY <1>4, <3>1, <3>2
  <2> QED
    BY <2>2, <2>3, <2>4
<1>5. d.change \in {"create", "update", "deprecate"}
  BY DEF TargetOf
<1> QED
  BY <1>3, <1>4, <1>5

\* What it says of itself.
LEMMA AcceptSound ==
  ASSUME CanonInv, ~forced, NEW p \in Drafts, Issues(p, file[p]) = {}, TargetOf(file[p]) # None
  PROVE  LET d == file[p]
             t == TargetOf(d)
             new == AcceptedContent(d, file[t])
         IN /\ \A rel \in new.rels : Fits(new.type, rel)
            /\ new.status = "canon" /\ new.type = "character" => new.years # {"birth", "death"}
<1> DEFINE d == file[p]
           t == TargetOf(d)
           new == AcceptedContent(d, file[t])
<1>1. TypeOK /\ d \in Document /\ p \in Paths /\ Area(p) = "drafts"
  BY DraftType DEF CanonInv, DocsInv
<1>2. /\ \A rel \in d.rels : Fits(d.type, rel)
      /\ d.type = "character" => d.years # {"birth", "death"}
  BY <1>1, NoIssues
<1>3. CASE d.change # "deprecate"
  <2>1. new.rels = d.rels /\ new.years = d.years /\ new.type = d.type
    BY <1>1, <1>3 DEF AcceptedContent, Document
  <2> QED
    BY <1>2, <2>1
<1>4. CASE d.change = "deprecate"
  <2> DEFINE old == file[t]
  <2>1. t \in Content
    BY <1>4, AcceptAims
  <2>2. old \in Document /\ \A rel \in old.rels : Fits(old.type, rel)
    BY <1>1, <2>1, StandsType DEF Content, CanonInv, CanonPart
  <2>3. new.status = "deprecated" /\ new.rels = old.rels /\ new.type = old.type
    BY <1>4, <2>2 DEF AcceptedContent, Document
  <2> QED
    BY <2>2, <2>3
<1> QED
  BY <1>3, <1>4

LEMMA AcceptCanon ==
  ASSUME CanonInv, ~forced, DocsInv', NEW p \in Paths, NEW force \in Forced,
         AcceptDraft(p, force)
  PROVE  CanonInv'
<1> DEFINE d == file[p]
           t == TargetOf(d)
           new == AcceptedContent(d, file[t])
           moved == Retypes(d, file[t])
<1> SUFFICES ASSUME ~forced' PROVE CanonPart'
  BY DEF CanonInv
<1>1. /\ p \in Drafts /\ t # None /\ ~force /\ Passes(Issues(p, d), force)
      /\ file' = [file EXCEPT ![t] = new, ![p] = None]
      /\ retyped' = retyped \cup {q \in {t} : moved}
  BY DEF AcceptDraft
<1>2. Issues(p, d) = {}
  BY <1>1 DEF Passes
<1>3. TypeOK /\ CanonPart /\ d \in Document /\ Area(p) = "drafts"
  BY <1>1, DraftType DEF CanonInv, DocsInv
<1>4. t \in Paths /\ Area(t) = "content" /\ (d.change = "deprecate" => file[t] \in Document)
  BY <1>1, <1>3, TargetType
<1>5. new \in Document /\ new # None
  BY <1>3, <1>4, AcceptedType, NoneAssumption
<1>6. /\ new.id = d.id /\ d.id = t[3] /\ HasId(d.id) \subseteq {t}
      /\ t \in Content => new.type = file[t].type \/ moved
      /\ t \notin Content => new.type = t[2]
  BY <1>1, <1>2, AcceptAims
<1>7. /\ \A rel \in new.rels : Fits(new.type, rel)
      /\ new.status = "canon" /\ new.type = "character" => new.years # {"birth", "death"}
  BY <1>1, <1>2, AcceptSound
<1> HIDE DEF new, t, d, moved
<1>8. /\ Content' = Content \cup {t} /\ file'[t] = new
      /\ \A q \in Content \ {t} : file'[q] = file[q]
  BY <1>1, <1>3, <1>4, <1>5 DEF TypeOK, Content, Drafts
<1>9. retyped \subseteq retyped' /\ (moved => t \in retyped')
  BY <1>1
<1>10. t \in Content => file[t].id = new.id
  BY <1>3, <1>6 DEF CanonPart
<1>11. ASSUME NEW type, NEW rel, Fits(type, rel) PROVE Fits(type, rel)'
  <2>1. PICK q \in HasId(rel.to) : file[q].type \in RangeOf(rel.type) \/ q \in retyped
    BY <1>11 DEF Fits
  <2>2. q \in Content /\ file[q].id = rel.to
    BY <2>1 DEF HasId
  <2>3. q \in HasId(rel.to)'
    BY <1>8, <1>10, <2>2 DEF HasId
  <2>4. file'[q].type = file[q].type \/ q \in retyped'
    BY <1>6, <1>8, <1>9, <2>2
  <2> QED
    BY <1>9, <1>11, <2>1, <2>3, <2>4 DEF Fits
<1>12. \A q, r \in Content' : file'[q].id = file'[r].id => q = r
  <2>1. \A q \in Content \ {t} : file'[q] = file[q] /\ file[q].id # d.id
    BY <1>6, <1>8 DEF HasId
  <2> QED
    BY <1>3, <1>6, <1>8, <2>1 DEF CanonPart
<1>13. ASSUME NEW q \in Content'
       PROVE  /\ file'[q].id = q[3]
              /\ file'[q].type = q[2] \/ q \in retyped'
              /\ \A rel \in file'[q].rels : Fits(file[q].type, rel)'
              /\ file'[q].status = "canon" /\ file'[q].type = "character"
                   => file'[q].years # {"birth", "death"}
  <2>1. CASE q = t
    <3>1. new.type = t[2] \/ t \in retyped'
      BY <1>3, <1>6, <1>9 DEF CanonPart
    <3> QED
      BY <1>6, <1>7, <1>8, <1>11, <2>1, <3>1 DEF Fits
  <2>2. CASE q # t
    <3>1. q \in Content /\ file'[q] = file[q]
      BY <1>8, <2>2
    <3> QED
      BY <1>3, <1>9, <1>11, <3>1 DEF CanonPart, Fits
  <2> QED
    BY <2>1, <2>2
<1> QED
  BY <1>12, <1>13 DEF CanonPart, Fits

LEMMA NextCanon ==
  ASSUME "content" \notin Given, CanonInv, [Next]_vars
  PROVE  CanonInv'
<1>1. DocsInv'
  BY NextType DEF CanonInv
<1>2. CASE UNCHANGED vars
  BY <1>1, <1>2 DEF vars, CanonInv, CanonPart, Fits, Content, HasId
<1>3. CASE forced
  BY <1>1, <1>2, <1>3 DEF Next, CreateDraft, WriteDraft, CreateChange, UpdateDraft, RejectDraft,
     EditDraft, AcceptDraft, CanonInv
<1>4. CASE ~forced /\ Next
  BY <1>1, <1>4, CreateCanon, CreateChangeCanon, DraftAction, AcceptCanon DEF Next
<1> QED
  BY <1>2, <1>3, <1>4

----------------------------------------------------------------------------
(* Theorems *)

\* Documents keep their form and stand where their status says: canon and
\* deprecated documents in content/, drafts in drafts/.
THEOREM DocumentTypes == Spec => []TypeOK
<1>1. DocsInv => TypeOK
  BY DEF DocsInv
<1> QED
  BY InitType, NextType, <1>1, PTL DEF Spec

\* validateDocument, targetForDraft and acceptedContent together: as long as
\* update and reject are given drafts and nobody forces an accept, all of
\* canon validates, for any number of documents, and an update of another type
\* than its target is the only thing that can set a document or a relationship
\* to it apart from its directory and range.
THEOREM CanonStaysValid ==
  ASSUME "content" \notin Given
  PROVE  Spec => []CanonValid
<1>1. CanonInv => CanonValid
  BY DEF CanonInv, CanonPart, Fits, CanonValid
<1>2. CanonInv /\ [Next]_vars => CanonInv'
  BY NextCanon
<1> QED
  BY InitCanon, <1>1, <1>2, PTL DEF Spec

\* draft_accept.go: content/ changes in no other way than by an accept, as long
\* as update and reject are given drafts (without that, the run
\* documents_update has the counterexample).
THEOREM OnlyAcceptWritesCanon ==
  ASSUME "content" \notin Given
  PROVE  Spec => CanonOnlyAccepted
<1> DEFINE Changed == \E p \in Paths : Area(p) = "content" /\ file'[p] # file[p]
           Accepted == \E p \in Drafts : file'[p] = None
<1>1. ASSUME DocsInv, [Next]_vars, Changed PROVE Accepted
  <2>1. TypeOK
    BY <1>1 DEF DocsInv
  <2>2. PICK q \in Paths : Area(q) = "content" /\ file'[q] # file[q]
    BY <1>1
  <2>3. ASSUME NEW t \in Types, NEW i \in Ids, CreateDraft(t, i) \/ WriteDraft(t, i) PROVE FALSE
    BY <2>1, <2>2, <2>3, PathForm, CanonUntouched DEF CreateDraft, WriteDraft, Area
  <2>4. ASSUME NEW c \in {"update", "deprecate"}, NEW i \in Ids, CreateChange(c, i) PROVE FALSE
    <3>1. HasId(i) # {}
      BY <2>4 DEF CreateChange
    <3>2. file[ContentById(i)] \in Document
      BY <2>1, <3>1, Found, StandsType DEF HasId, Content
    <3>3. file[ContentById(i)].type \in Types
      BY <3>2 DEF Document
    <3> QED
      BY <2>1, <2>2, <2>4, <3>3, PathForm, CanonUntouched DEF CreateChange, Area
  <2>5. ASSUME NEW p \in Paths, UpdateDraft(p) \/ RejectDraft(p) \/ EditDraft(p) PROVE FALSE
    <3>1. Area(p) = "drafts"
      BY <2>5, PathForm DEF UpdateDraft, RejectDraft, EditDraft, Drafts
    <3>2. file' = [file EXCEPT ![p] = file'[p]]
      BY <2>1, <2>5 DEF UpdateDraft, RejectDraft, EditDraft, Puts, TypeOK
    <3> QED
      BY <2>1, <2>2, <3>1, <3>2, CanonUntouched DEF Puts
  <2>6. ASSUME NEW p \in Paths, NEW force \in Forced, AcceptDraft(p, force) PROVE Accepted
    BY <2>1, <2>6 DEF AcceptDraft, Drafts, TypeOK
  <2>7. Next
    BY <1>1 DEF vars
  <2> QED
    BY <2>3, <2>4, <2>5, <2>6, <2>7 DEF Next
<1>2. DocsInv /\ [Next]_vars => [Changed => Accepted]_vars
  BY <1>1
<1> QED
  BY InitType, NextType, <1>2, PTL DEF Spec, CanonOnlyAccepted
=============================================================================
