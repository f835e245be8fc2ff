----------------------------- MODULE MCRecipes -----------------------------
(* A few recipes for TLC, one or two of each kind of display. *)
EXTENDS Recipes

Parts(kind, parts) == [kind |-> kind, of |-> "", parts |-> parts]
Slot(kind, of) == [Parts(kind, <<>>) EXCEPT !.of = of]
Plank == Slot("item", "plank")
Display(kind, width, slots, result) ==
    [kind |-> kind, category |-> 9, width |-> width, height |-> 1, slots |-> slots, result |-> result]
MCDisplays ==
    {Display("shaped", 2, <<Slot("empty", ""), Plank>>, Plank),
     Display("shaped", 2, <<Plank>>, Plank),
     Display("shapeless", 0, <<Slot("empty", "")>>, Plank),
     Display("shapeless", 0, <<Parts("remainder", <<Slot("tag", "logs"), Plank>>)>>, Plank),
     Display("furnace", 0, <<Parts("composite", <<Plank>>)>>, Plank),
     Display("furnace", 0, <<Slot("stack", "plank")>>, Slot("item", "moon")),
     Display("furnace", 0, <<Slot("tag", "logs")>>, Plank),
     Display("smithing", 0, <<Plank, Plank, Plank>>, Plank)}
MCCuttings ==
    {<<[tag |-> NoTag, ids |-> <<"plank", "moon", "log">>, result |-> Plank],
       [tag |-> "logs", ids |-> <<>>, result |-> Slot("stack", "moon")],
       [tag |-> "logs", ids |-> <<>>, result |-> Plank]>>}
\* The hypothesis of BookCorrect, on this instance.
ASSUME NumbersAssumption == NumbersSuffice
=============================================================================
