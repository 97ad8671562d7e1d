----------------------------- MODULE MCRegistry -----------------------------
(* Registry on two calendars: "A" is baked, "J" is known only while a batch defines   *)
(* it, and each may join the other.  The batches add, override, drop and replace rows, *)
(* and one of them names an index that it may itself be dropping.                      *)
EXTENDS Registry

Weekday(open) == [kind |-> "weekday", legs |-> <<>>, open |-> open]
Weekend(open) == [kind |-> "weekend", legs |-> <<>>, open |-> open]
Joint(legs)   == [kind |-> "joint", legs |-> legs, open |-> TRUE]
Add(c, row)   == [id |-> c, row |-> row]

MCCals  == {"A", "J"}
MCBaked == [c \in MCCals |-> IF c = "A" THEN Weekday(TRUE) ELSE Unknown]
MCIndices == {"i1", "i2"}
MCBakedIndices == {"i1"}
MCBatches ==
    { [clear |-> FALSE, cals |-> <<Add("A", Weekday(FALSE)), Add("J", Weekday(TRUE))>>,
       indices |-> <<"i2">>, sources |-> <<"i2">>],
      [clear |-> FALSE, cals |-> <<Add("A", Joint(<<"J">>))>>, indices |-> <<>>, sources |-> <<>>],
      [clear |-> TRUE, cals |-> <<Add("J", Weekend(FALSE))>>, indices |-> <<>>, sources |-> <<>>],
      [clear |-> TRUE, cals |-> <<>>, indices |-> <<>>, sources |-> <<"i2">>] }
=============================================================================
