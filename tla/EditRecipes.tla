----------------------------- MODULE EditRecipes -----------------------------
(***************************************************************************)
(* The recipe of an image edit: what the editor builds of its controls,    *)
(* what MediaService keeps of it, and the picture it makes.                *)
(*                                                                         *)
(* An operation is a record [op, val]; val stands for its numbers, and     *)
(* "tiny" for numbers the service drops the operation for.                 *)
(***************************************************************************)
EXTENDS Naturals, Sequences, FiniteSetsExt, Functions

CONSTANTS MaxRecipe,   \* operations of a recipe that are looked at
          MaxRedact,   \* overlays after which no area is hidden any more
          MaxOverlay,  \* overlays in all
          Values       \* the values an operation has

\* They are 50, 20 and 60: a recipe that is looked at whole has room for its overlays.
ASSUME RecipeAssumption ==
    /\ {MaxRecipe, MaxRedact, MaxOverlay} \subseteq Nat /\ MaxRecipe <= MaxOverlay + 1
    /\ {"tiny", "all", "note"} \subseteq Values

GeomOrder == <<"crop", "rotate", "flipH", "flipV", "resize", "brightness", "contrast", "sharpen", "grayscale">>
Geometry  == Range(GeomOrder)
Overlays  == {"redact", "text", "arrow", "frame", "watermark"}

Operations  == [op : Geometry \cup Overlays \cup {"strip"}, val : Values]
Op(op, val) == [op |-> op, val |-> val]
Strip       == Op("strip", "all")

\* The elements of a sequence that are in T, in their order.
Picked(s, T) ==
    LET upTo[n \in 0..Len(s)] ==
            IF n = 0 THEN <<>>
            ELSE IF s[n] \in T THEN Append(upTo[n - 1], s[n]) ELSE upTo[n - 1]
    IN  upTo[Len(s)]

Of(recipe, kinds) == Picked(recipe, {o \in Range(recipe) : o.op \in kinds})
Strips(recipe)    == \E o \in Range(recipe) : o.op = "strip"

\* The last usable operation of each kind, in the fixed order.
LastOfEach(recipe) ==
    LET usable(kind) == {i \in DOMAIN recipe : recipe[i].op = kind /\ recipe[i].val # "tiny"}
        kinds        == Picked(GeomOrder, {kind \in Geometry : usable(kind) # {}})
    IN  [i \in DOMAIN kinds |-> recipe[Max(usable(kinds[i]))]]

\* There is room for an overlay in the one list they share.
Fits(o, list) == /\ o.op \in Overlays /\ o.val # "tiny"
                 /\ Len(list) < IF o.op = "redact" THEN MaxRedact ELSE MaxOverlay

\* The overlays in the order they were drawn.
Burnt(recipe) ==
    LET upTo[n \in 0..Len(recipe)] ==
            IF n = 0 THEN <<>>
            ELSE IF Fits(recipe[n], upTo[n - 1]) THEN Append(upTo[n - 1], recipe[n]) ELSE upTo[n - 1]
    IN  upTo[Len(recipe)]

\* sanitizeRecipe.
Kept(recipe) ==
    LET raw == SubSeq(recipe, 1, Min({Len(recipe), MaxRecipe}))
    IN  LastOfEach(raw) \o Burnt(raw) \o (IF Strips(raw) THEN <<Strip>> ELSE <<>>)

\* Faulty: the metadata is dealt with first.
StripsFirst(ops, text) ==
    Append(ops \o (IF Strips(ops) THEN <<>> ELSE <<Strip>>), Op("watermark", text))

\* A version to be shared is tiled with a watermark and loses its metadata; this is added to
\* what was kept, whatever its length.
ForSharing(ops, text) ==
    Append(ops, Op("watermark", text)) \o (IF Strips(ops) THEN <<>> ELSE <<Strip>>)

\* applyRecipe: the overlays are burnt into the upright source, then the geometry is applied.
Picture(ops) == [burnt |-> Of(ops, Overlays), drawn |-> Of(ops, Geometry), bare |-> Strips(ops)]

-----------------------------------------------------------------------------
(* The controls of the editor: one operation of each geometric kind, the hidden areas, the marks *)

Untouched == [geom |-> {}, areas |-> <<>>, marks |-> <<>>]

\* buildRecipe.
RecipeOf(controls) ==
    LET kinds == Picked(GeomOrder, {o.op : o \in controls.geom})
    IN  [i \in DOMAIN kinds |-> CHOOSE o \in controls.geom : o.op = kinds[i]]
            \o controls.areas \o controls.marks

\* loadRecipe: what a version to be shared has in addition is left out.
ControlsOf(recipe) ==
    [geom  |-> Range(LastOfEach(recipe)),
     areas |-> Of(recipe, {"redact"}),
     marks |-> Of(recipe, {"text", "arrow", "frame"})]
=============================================================================
