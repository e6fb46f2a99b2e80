--------------------------- MODULE PayslipLayout ----------------------------
(***************************************************************************)
(* The canvas of the payslip template builder                              *)
(* (frontend/src/pages/payroll/PayslipBuilder.tsx): the sections and       *)
(* fields a user drags, pairs, styles, adds and removes, and the copy of   *)
(* the same template that the list of templates still holds.               *)
(*                                                                         *)
(* Picking a template copies the layout but not its sections, so the two   *)
(* copies share section objects until an edit replaces one: shared is the  *)
(* set of sections that are one object in both.  A drag is one step: the   *)
(* pointer is held from its start to its end.                              *)
(***************************************************************************)
EXTENDS Integers, SequencesExt, FiniteSets

CONSTANTS
  BaseTypes,    \* the types of the sections a template starts with
  CustomTypes,  \* the types offered under Add Section
  MaxIds,       \* bound: sections and groups ever named by Date.now()
  MaxLive,      \* bound: sections of a layout at once
  MaxFields,    \* bound: fields of a section
  ExtraKeys,    \* keys of EXTRA_FIELDS
  CustomKey,    \* custom_1, the field of a new section
  None

ASSUME LayoutAssumption ==
  /\ BaseTypes \in Seq({"info", "table", "note"})
  /\ CustomTypes \subseteq {"info", "table", "note"}
  /\ {MaxIds, MaxLive, MaxFields} \subseteq Nat
  /\ Len(BaseTypes) <= MaxIds /\ Len(BaseTypes) <= MaxLive
  /\ CustomKey \notin ExtraKeys

VARIABLES
  sections,   \* layout.sections, in the order of the array
  saved,      \* the sections of the same template in the list
  shared,     \* the ids whose object is in both
  ids,        \* Date.now() when the last name was made
  expanded,   \* the section whose fields are shown
  modal       \* the section whose style or whose new field is asked for

vars == <<sections, saved, shared, ids, expanded, modal>>

Base == 1 .. Len(BaseTypes)

StyleKeys == {"bgColor", "padding", "stripedRows"}
Plain == [k \in StyleKeys |-> FALSE]   \* TRUE: no longer the default

HasFields(type) == type # "note"

NewSection(id, type, order) ==
  [id |-> id, type |-> type, order |-> order, on |-> TRUE, group |-> 0,
   fields |-> IF HasFields(type) THEN <<[key |-> CustomKey, on |-> TRUE]>> ELSE <<>>,
   style |-> Plain]

Named(id) == CHOOSE i \in DOMAIN sections : sections[i].id = id
Ids == {sections[i].id : i \in DOMAIN sections}
Get(id) == sections[Named(id)]

Init ==
  /\ sections = [i \in Base |-> NewSection(i, BaseTypes[i], i - 1)]
  /\ saved = sections
  /\ shared = Base
  /\ ids = Len(BaseTypes)
  /\ expanded = None
  /\ modal = None

-----------------------------------------------------------------------------
\* The members of a finite set, each at the place that a strict order gives it.
Listed(S, R) ==
  [k \in 1 .. Cardinality(S) |->
     CHOOSE x \in S : Cardinality({y \in S : <<y, x>> \in R}) = k - 1]

\* What the canvas shows: array positions by order, equal ones as they stand.
Precedes(secs) ==
  {p \in (DOMAIN secs) \X (DOMAIN secs) :
     \/ secs[p[1]].order < secs[p[2]].order
     \/ secs[p[1]].order = secs[p[2]].order /\ p[1] < p[2]}

SortedOf(secs) == Listed(DOMAIN secs, Precedes(secs))

Moved(s, from, to) == InsertAt(RemoveAt(s, from), to, s[from])

\* Mutant: the sections keep the order they had.
DragKeepsOrder(from, to) ==
  /\ modal = None
  /\ sections' = Moved(sections, from, to)
  /\ UNCHANGED <<saved, shared, ids, expanded, modal>>

\* The index is that of the header in the sorted canvas, the splice is on the
\* array; then the order is written into the section objects themselves.
DragSection(from, to) ==
  LET moved == Moved(sections, from, to)
      Rank(id) == (CHOOSE i \in DOMAIN moved : moved[i].id = id) - 1
  IN /\ modal = None
     /\ sections' = [i \in DOMAIN moved |-> [moved[i] EXCEPT !.order = i - 1]]
     /\ saved' = [j \in DOMAIN saved |->
                    IF saved[j].id \in shared
                    THEN [saved[j] EXCEPT !.order = Rank(saved[j].id)] ELSE saved[j]]
     /\ UNCHANGED <<shared, ids, expanded, modal>>

\* A changed section is a new object, the others are kept.
MapSec(changed, F(_)) ==
  /\ sections' = [i \in DOMAIN sections |->
                    IF sections[i].id \in changed THEN F(sections[i]) ELSE sections[i]]
  /\ shared' = shared \ changed
  /\ UNCHANGED saved

ToggleSection(id) ==
  /\ modal = None
  /\ MapSec({id}, LAMBDA s : [s EXCEPT !.on = ~s.on])
  /\ UNCHANGED <<ids, expanded, modal>>

\* Labels are not kept here, but typing one replaces the object.
SetSecLabel(id) ==
  /\ modal = None
  /\ id \in shared
  /\ MapSec({id}, LAMBDA s : s)
  /\ UNCHANGED <<ids, expanded, modal>>

AddSection(type) ==
  /\ modal = None
  /\ ids < MaxIds /\ Len(sections) < MaxLive
  /\ ids' = ids + 1
  /\ sections' = Append(sections, NewSection(ids', type, Len(sections)))
  /\ expanded' = ids'
  /\ UNCHANGED <<saved, shared, modal>>

\* Only sections added here have the button.
RemoveSection(id) ==
  /\ modal = None
  /\ id \notin Base
  /\ sections' = RemoveAt(sections, Named(id))
  /\ shared' = shared \ {id}
  /\ UNCHANGED <<saved, ids, expanded, modal>>

\* Only sections with fields have the button.
Expand(id) ==
  /\ modal = None
  /\ HasFields(Get(id).type)
  /\ expanded' = IF expanded = id THEN None ELSE id
  /\ UNCHANGED <<sections, saved, shared, ids, modal>>

-----------------------------------------------------------------------------
\* The fields and the pairing of a section show while it is expanded and on.
Open(id) == modal = None /\ expanded = id /\ Get(id).on

Pairable(id) ==
  {j \in Ids \ {id} : Get(j).on /\ Get(j).type \in {"info", "table"}}

\* The value of the selection: the first other section of the same group.
Partner(id) ==
  LET others == {i \in DOMAIN sections : sections[i].id # id
                                         /\ sections[i].group = Get(id).group}
  IN IF Get(id).group = 0 \/ others = {} THEN None
     ELSE sections[CHOOSE i \in others : \A j \in others : i <= j].id

\* The branch that ungroups is out of reach: a partner that is offered is the
\* one selected, and selecting it again is no change.
ToggleColGroup(id, other) ==
  /\ Open(id)
  /\ other \in Pairable(id) /\ other # Partner(id)
  /\ ids < MaxIds
  /\ ids' = ids + 1
  /\ MapSec({id, other}, LAMBDA s : [s EXCEPT !.group = ids'])
  /\ UNCHANGED <<expanded, modal>>

Ungroup(id) ==
  /\ Open(id)
  /\ Partner(id) \in Pairable(id)
  /\ MapSec({j \in Ids : Get(j).group = Get(id).group}, LAMBDA s : [s EXCEPT !.group = 0])
  /\ UNCHANGED <<ids, expanded, modal>>

\* The preview: of the sections that are on, as the canvas shows them, each that
\* has no place yet is placed, next to the first one of its group without a place.
On == {i \in DOMAIN sections : sections[i].on}
Enabled == Listed(On, Precedes(sections))

Mates(i, used) ==
  {k \in DOMAIN Enabled : LET mate == sections[Enabled[k]]
                         IN /\ mate.group = sections[i].group /\ mate.id # sections[i].id
                            /\ mate.id \notin used}
Leading(ks) == sections[Enabled[CHOOSE k \in ks : \A l \in ks : k <= l]].id

Row(i, used) ==
  IF sections[i].group # 0 /\ Mates(i, used) # {}
  THEN <<sections[i].id, Leading(Mates(i, used))>> ELSE <<sections[i].id>>

Place(acc, i) ==
  IF sections[i].id \in acc.used THEN acc
  ELSE [rows |-> Append(acc.rows, Row(i, acc.used)),
        used |-> acc.used \cup ToSet(Row(i, acc.used))]

Placed[k \in 0 .. Len(Enabled)] ==
  IF k = 0 THEN [rows |-> <<>>, used |-> {}] ELSE Place(Placed[k - 1], Enabled[k])

Preview == Placed[Len(Enabled)].rows

-----------------------------------------------------------------------------
MapFields(id, F(_)) ==
  /\ HasFields(Get(id).type)
  /\ MapSec({id}, LAMBDA s : [s EXCEPT !.fields = F(@)])
  /\ UNCHANGED <<ids, expanded>>

DragField(id, from, to) ==
  /\ Open(id)
  /\ {from, to} \subseteq DOMAIN Get(id).fields
  /\ MapFields(id, LAMBDA fs : Moved(fs, from, to))
  /\ UNCHANGED modal

ToggleField(id, key) ==
  /\ Open(id)
  /\ MapFields(id, LAMBDA fs : [i \in DOMAIN fs |->
                     IF fs[i].key = key THEN [fs[i] EXCEPT !.on = ~@] ELSE fs[i]])
  /\ UNCHANGED modal

Without(fs, key) ==
  LET kept == Listed({i \in DOMAIN fs : fs[i].key # key},
                     {p \in (DOMAIN fs) \X (DOMAIN fs) : p[1] < p[2]})
  IN [k \in DOMAIN kept |-> fs[kept[k]]]

RemoveField(id, key) ==
  /\ Open(id)
  /\ MapFields(id, LAMBDA fs : Without(fs, key))
  /\ UNCHANGED modal

AskField(id) ==
  /\ Open(id) /\ HasFields(Get(id).type)
  /\ modal' = [asks |-> "field", of |-> id]
  /\ UNCHANGED <<sections, saved, shared, ids, expanded>>

FieldKeys(id) == {Get(id).fields[i].key : i \in DOMAIN Get(id).fields}

\* The predefined fields offered are those the section does not have.
Available(id) == ExtraKeys \ FieldKeys(id)

AddFieldTo(key) ==
  /\ modal # None /\ modal.asks = "field"
  /\ Len(Get(modal.of).fields) < MaxFields
  /\ MapFields(modal.of, LAMBDA fs : Append(fs, [key |-> key, on |-> TRUE]))
  /\ modal' = None

AddExtraField(key) == modal # None /\ key \in Available(modal.of) /\ AddFieldTo(key)

\* A key typed by hand is not compared with anything.
AddCustomField(key) == AddFieldTo(key)

-----------------------------------------------------------------------------
AskStyle(id) ==
  /\ modal = None
  /\ modal' = [asks |-> "style", of |-> id]
  /\ UNCHANGED <<sections, saved, shared, ids, expanded>>

\* The keys that only a table's dialog shows.
StyleOf(type) == IF type = "table" THEN StyleKeys ELSE StyleKeys \ {"stripedRows"}

UpdateSecStyle(key, changed) ==
  /\ modal # None /\ modal.asks = "style"
  /\ key \in StyleOf(Get(modal.of).type)
  /\ MapSec({modal.of}, LAMBDA s : [s EXCEPT !.style[key] = changed])
  /\ UNCHANGED <<ids, expanded, modal>>

\* The button updates one key after another, each time from the layout of the
\* render it belongs to: the last one is what remains.
LastReset(type) == IF type = "table" THEN "stripedRows" ELSE "padding"

ResetStyle ==
  /\ modal # None /\ modal.asks = "style"
  /\ UpdateSecStyle(LastReset(Get(modal.of).type), FALSE)

CloseModal ==
  /\ modal # None
  /\ modal' = None
  /\ UNCHANGED <<sections, saved, shared, ids, expanded>>

-----------------------------------------------------------------------------
\* Picking the template again takes the list's copy and shares its sections.
PickTemplate ==
  /\ modal = None
  /\ sections' = saved
  /\ shared' = {saved[i].id : i \in DOMAIN saved}
  /\ expanded' = None
  /\ UNCHANGED <<saved, ids, modal>>

\* Saving, up to the answer of the reload: the list has new objects.
HandleSave ==
  /\ modal = None
  /\ saved' = sections
  /\ shared' = {}
  /\ UNCHANGED <<sections, ids, expanded, modal>>

SectionEdits ==
  \/ \E from, to \in DOMAIN sections : DragSection(from, to)
  \/ \E id \in Ids : ToggleSection(id) \/ SetSecLabel(id) \/ RemoveSection(id)
  \/ \E type \in CustomTypes : AddSection(type)

Pairing ==
  \/ \E id \in Ids : Expand(id) \/ Ungroup(id)
  \/ \E id, other \in Ids : ToggleColGroup(id, other)

FieldEdits ==
  \/ \E id \in Ids : AskField(id)
  \/ \E id \in Ids : \E from, to \in 1 .. MaxFields : DragField(id, from, to)
  \/ \E id \in Ids : \E key \in FieldKeys(id) : ToggleField(id, key) \/ RemoveField(id, key)
  \/ \E key \in ExtraKeys : AddExtraField(key)
  \/ \E key \in ExtraKeys \cup {CustomKey} : AddCustomField(key)

StyleEdits ==
  \/ \E id \in Ids : AskStyle(id)
  \/ \E key \in StyleKeys, changed \in BOOLEAN : UpdateSecStyle(key, changed)
  \/ ResetStyle

Next ==
  \/ SectionEdits \/ Pairing \/ FieldEdits \/ StyleEdits
  \/ CloseModal \/ PickTemplate \/ HandleSave

Spec == Init /\ [][Next]_vars

-----------------------------------------------------------------------------
SectionType ==
  [id : 1 .. MaxIds, type : {"info", "table", "note"}, order : 0 .. MaxLive, on : BOOLEAN,
   group : 0 .. MaxIds, fields : Seq([key : ExtraKeys \cup {CustomKey}, on : BOOLEAN]),
   style : [StyleKeys -> BOOLEAN]]

\* The shapes of the types; a layout never has two sections of one id.
TypeOK ==
  /\ sections \in Seq(SectionType) /\ saved \in Seq(SectionType)
  /\ IsInjective([i \in DOMAIN sections |-> sections[i].id])
  /\ shared \subseteq Ids
  /\ ids \in 0 .. MaxIds
  /\ expanded \in 1 .. MaxIds \cup {None}
  /\ modal \in [asks : {"field", "style"}, of : 1 .. MaxIds] \cup {None}

\* Sections that share a group are never more than two, however they are
\* paired anew, removed, picked again or saved (types/payslipTemplate.ts:32).
GroupsArePairs ==
  \A i, j, k \in DOMAIN sections :
    /\ sections[i].group # 0
    /\ sections[i].group = sections[j].group /\ sections[j].group = sections[k].group
    => i = j \/ j = k \/ i = k

\* The preview shows each section that is on exactly once, and two that share
\* a group side by side.
PreviewComplete ==
  LET rows == Preview
      RowsOf(i) == {r \in DOMAIN rows : sections[i].id \in ToSet(rows[r])}
  IN /\ \A i \in On : Cardinality(RowsOf(i)) = 1
     /\ \A i, j \in On : i # j /\ sections[i].group # 0 =>
          (sections[i].group = sections[j].group <=> RowsOf(i) = RowsOf(j))

\* A drag moves the section that the canvas shows at the place it was taken.
DragMovesShown ==
  \A from, to \in DOMAIN sections : DragSection(from, to) =>
    LET InOrder(secs) == [k \in DOMAIN secs |-> secs[SortedOf(secs)[k]].id]
    IN InOrder(sections') = Moved(InOrder(sections), from, to)
=============================================================================
