------------------------------- MODULE MCRdb --------------------------------
(***************************************************************************)
(* Files with up to two keys, "a" and "b", in either order, with values    *)
(* that are plain, empty or a coded integer (which may look like a marker) *)
(* and expiries of either unit, now, just ahead and never; with auxiliary  *)
(* fields that hold a marker or not; with and without table sizes; of the  *)
(* wrong version; and cut off at every byte.                               *)
(***************************************************************************)
EXTENDS Rdb

a == <<97>>
b == <<98>>

Values == {[coded |-> FALSE, value |-> <<>>], [coded |-> FALSE, value |-> <<118>>],
           [coded |-> TRUE, value |-> <<255>>], [coded |-> TRUE, value |-> <<1>>]}

Expiries == {[unit |-> "none", at |-> 0], [unit |-> "ms", at |-> Now],
             [unit |-> "ms", at |-> Now + 1], [unit |-> "sec", at |-> 1]}

EntriesOf(k) ==
    {[key |-> k, coded |-> v.coded, value |-> v.value, unit |-> x.unit, at |-> x.at] :
        v \in Values, x \in Expiries}

EntryLists ==
    {<<>>} \cup {<<e>> : e \in EntriesOf(a)}
      \cup {<<e, f>> : e \in EntriesOf(a), f \in EntriesOf(b)}
      \cup {<<f, e>> : e \in EntriesOf(a), f \in EntriesOf(b)}

\* An auxiliary field: a name and a value; the last one's value is an integer
\* whose byte is that of a marker.
Aux == {<<>>, <<250, 1, 120, 1, 121>>, <<250, 1, 120, 192, 254>>, <<250, 1, 120, 192, 255>>}

MCContents ==
    [version : {RDB_VERSION}, aux : Aux, sizes : BOOLEAN, entries : EntryLists, lost : {0}]
      \cup [version : {RDB_VERSION}, aux : {<<250, 1, 120, 1, 121>>}, sizes : {TRUE},
            entries : {<<e, f>> : e \in EntriesOf(a), f \in {g \in EntriesOf(b) :
                                      g.value = <<118>> /\ g.unit = "ms"}},
            lost : 0 .. 26]
      \cup [version : {9}, aux : {<<>>}, sizes : {TRUE}, entries : {<<>>}, lost : {0}]

MCTargets == {a, b}

=============================================================================
