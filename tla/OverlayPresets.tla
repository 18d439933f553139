--------------------------- MODULE OverlayPresets ---------------------------
(***************************************************************************)
(* The overlay presets (handlers/overlays.go over store/library.go): the    *)
(* built-in ones, which nobody changes, and the saved ones under an id made *)
(* from their name, which overlay links show.  A creation looks for a free  *)
(* id one statement at a time, next to other creations and deletions.  A    *)
(* name and an id are sequences: of words, symbols and single letters, and  *)
(* whatever an id may hold is one place of its length.                      *)
(***************************************************************************)
EXTENDS Integers, Sequences, FiniteSets

CONSTANTS
  PresetCalls,     \* requests; each is made once
  PresetNames,     \* names the admin may give
  PresetSymbols,   \* what is no letter and no digit
  MaxSlugWords,    \* the places an id takes from its name (maxOverlaySlug)
  Numerals         \* what strconv.Itoa writes for 1, 2, ...

BuiltIn == <<<<"classic">>, <<"outline">>, <<"lower", "-", "third">>>>
BuiltInIds == {BuiltIn[i] : i \in 1 .. Len(BuiltIn)}

ASSUME PresetsAssumption ==
  /\ MaxSlugWords \in Nat \ {0} /\ IsFiniteSet(PresetCalls)
  /\ \A name \in PresetNames : name \in Seq(STRING)
  /\ Numerals \in Seq(STRING) /\ Len(Numerals) = Cardinality(PresetCalls) + Cardinality(BuiltInIds)
  /\ \A m, n \in DOMAIN Numerals : m # n => Numerals[m] # Numerals[n]

VARIABLES
  presets,   \* the saved presets: id -> [name, by]
  presetCall \* request -> [at, op, name, id, n]

presetVars == <<presets, presetCall>>

NoPresetCall == [at |-> "new", op |-> "none", name |-> <<>>, id |-> <<>>, n |-> 0]
PresetsInit ==
  /\ presets = <<>>
  /\ presetCall = [c \in PresetCalls |-> NoPresetCall]

\* overlayPresetSlug: one hyphen for what lies between letters, until the id
\* is long enough; a hyphen may be what is cut off, or what is left last.
SlugNext(before, word) ==
  IF Len(before.id) >= MaxSlugWords THEN before
  ELSE IF word \in PresetSymbols THEN [id |-> before.id, dash |-> TRUE]
  ELSE [id |-> before.id \o (IF before.dash /\ before.id # <<>> THEN <<"-", word>> ELSE <<word>>),
        dash |-> FALSE]
SlugWords(name) ==
  LET walk[i \in 0 .. Len(name)] ==
        IF i = 0 THEN [id |-> <<>>, dash |-> FALSE] ELSE SlugNext(walk[i - 1], name[i])
  IN walk[Len(name)].id
Slug(name) ==
  LET id  == SlugWords(name)
      cut == SubSeq(id, 1, IF Len(id) < MaxSlugWords THEN Len(id) ELSE MaxSlugWords)
  IN IF id = <<>> THEN <<"preset">>
     ELSE IF cut[Len(cut)] = "-" THEN SubSeq(cut, 1, Len(cut) - 1) ELSE cut
Candidate(name, n) == IF n = 1 THEN Slug(name) ELSE Slug(name) \o <<"-", Numerals[n]>>

Row(c) == [name |-> presetCall[c].name, by |-> c]
AnswerPreset(c, at) == presetCall' = [presetCall EXCEPT ![c].at = at]

AskPreset(c, op, name, id) ==
  /\ presetCall[c].at = "new"
  /\ presetCall' = [presetCall EXCEPT ![c] =
       [at |-> IF op = "delete" THEN "work" ELSE "body", op |-> op, name |-> name, id |-> id, n |-> 1]]
  /\ UNCHANGED presets

\* overlayInput: a style or a name's length may be refused; an update of a
\* built-in is, before its body is looked at.
CheckPreset(c) ==
  /\ presetCall[c].at = "body"
  /\ IF presetCall[c].op = "update" /\ presetCall[c].id \in BuiltInIds THEN AnswerPreset(c, "refused")
     ELSE AnswerPreset(c, "invalid") \/ AnswerPreset(c, "work")
  /\ UNCHANGED presets

Working(c, op) == presetCall[c].at = "work" /\ presetCall[c].op = op

\* Any other error of the store is answered 500; nothing was saved.
StoreFails(c) ==
  /\ presetCall[c].at = "work"
  /\ presetCall[c].op = "delete" => presetCall[c].id \notin BuiltInIds
  /\ AnswerPreset(c, "failed")
  /\ UNCHANGED presets

\* INSERT ... ON CONFLICT DO NOTHING; no row is ErrConflict.
Insert(rows, id, row) ==
  [i \in DOMAIN rows \cup {id} |-> IF i \in DOMAIN rows THEN rows[i] ELSE row]

\* One turn of CreateOverlayPreset's loop.
\* Mutant: the ids of the built-ins are not skipped.
TakenSaved(id) == id \in DOMAIN presets
Taken(id) == id \in BuiltInIds \/ id \in DOMAIN presets

CreateOverlayPreset(c) ==
  LET call == presetCall[c]
      id   == Candidate(call.name, call.n)
  IN /\ Working(c, "create")
     /\ IF Taken(id)
        THEN presetCall' = [presetCall EXCEPT ![c].n = @ + 1] /\ UNCHANGED presets
        ELSE /\ presets' = Insert(presets, id, Row(c))
             /\ presetCall' = [presetCall EXCEPT ![c].id = id, ![c].at = "done"]

\* execOne: an UPDATE or DELETE that touches no row is ErrNotFound.
Rewritten(c, id, rows) ==
  IF id \notin DOMAIN presets THEN AnswerPreset(c, "missing") /\ UNCHANGED presets
  ELSE presets' = rows /\ AnswerPreset(c, "done")

UpdateOverlayPreset(c) ==
  LET id == presetCall[c].id IN
  /\ Working(c, "update")
  /\ Rewritten(c, id, [i \in DOMAIN presets |->
                         IF i = id THEN [presets[i] EXCEPT !.name = presetCall[c].name] ELSE presets[i]])

DeleteOverlayPreset(c) ==
  LET id == presetCall[c].id IN
  /\ Working(c, "delete")
  /\ IF id \in BuiltInIds THEN AnswerPreset(c, "refused") /\ UNCHANGED presets
     ELSE Rewritten(c, id, [i \in DOMAIN presets \ {id} |-> presets[i]])

\* GetOverlayPreset: a built-in first.
Shown(id) ==
  IF id \in BuiltInIds THEN [builtIn |-> TRUE, name |-> id]
  ELSE IF id \in DOMAIN presets THEN [builtIn |-> FALSE, name |-> presets[id].name]
  ELSE [builtIn |-> FALSE, name |-> <<"not found">>]

\* ListOverlayPresets: the built-ins, then the saved ones (by name).
Listed ==
  [id \in BuiltInIds \cup DOMAIN presets |->
     IF id \in BuiltInIds THEN Shown(id) ELSE [builtIn |-> FALSE, name |-> presets[id].name]]

PresetsNext ==
  \E c \in PresetCalls :
    \/ \E name \in PresetNames :
          \/ AskPreset(c, "create", name, <<>>)
          \/ \E id \in BuiltInIds \cup DOMAIN presets : AskPreset(c, "update", name, id)
    \/ \E id \in BuiltInIds \cup DOMAIN presets : AskPreset(c, "delete", <<>>, id)
    \/ CheckPreset(c) \/ StoreFails(c) \/ CreateOverlayPreset(c) \/ UpdateOverlayPreset(c) \/ DeleteOverlayPreset(c)

PresetsSpec == PresetsInit /\ [][PresetsNext]_presetVars

-----------------------------------------------------------------------------
(* What holds *)

\* Every saved preset can be reached: Get of the id its creation answered,
\* and the list, show it and no built-in; its id is made from the name it was
\* created under; and a creation tries no more ids than were ever taken.
PresetsApart ==
  /\ \A id \in DOMAIN presets :
        /\ Shown(id) = [builtIn |-> FALSE, name |-> presets[id].name] /\ Listed[id] = Shown(id)
        /\ \E n \in 1 .. presetCall[presets[id].by].n : id = Candidate(presetCall[presets[id].by].name, n)
        /\ presetCall[presets[id].by].id = id
  /\ \A c \in PresetCalls : presetCall[c].n <= Cardinality(PresetCalls) + Cardinality(BuiltInIds)
  /\ \A c, d \in PresetCalls :
        c # d /\ presetCall[c].at = "done" /\ presetCall[d].at = "done"
              /\ presetCall[c].op = "create" /\ presetCall[d].op = "create"
              /\ presetCall[c].id = presetCall[d].id
        => \E e \in PresetCalls : presetCall[e].op = "delete" /\ presetCall[e].at = "done"
                                  /\ presetCall[e].id = presetCall[c].id
=============================================================================
