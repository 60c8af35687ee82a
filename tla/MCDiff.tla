------------------------------- MODULE MCDiff -------------------------------
(* Comparisons for Diff: words and spaces under the switches, numbers under  *)
(* the tolerances.                                                          *)
EXTENDS Diff

Words == UNION {[1 .. n -> {"sp", "nl", "a", "A"}] : n \in 0 .. 3}
Numbers == (UNION {[1 .. n -> {"sp", "1", "2", "9"}] : n \in 0 .. 2}) \cup {<<"9", "a">>, <<"nan">>, <<"inf">>, <<"-inf">>}

Switches == {<<>>, <<"case_sensitive">>, <<"space_change_sensitive">>}
Floats ==
    {<<"float_tolerance", "0.5">>, <<"float_relative_tolerance", "1">>,
     <<"float_absolute_tolerance", "1", "case_sensitive">>,
     <<"space_change_sensitive", "float_tolerance", "1", "float_absolute_tolerance", "0.5">>,
     <<"float_relative_tolerance", "1", "float_tolerance", "0.5">>,
     <<"float_tolerance", "case_sensitive">>}

(* A flag the code does not know, and one whose value is missing. *)
UnknownInputs ==
    [ref : Numbers, out : {<<"1">>},
     args : {<<"ignore_case">>, <<"case_sensitive", "float_tolerance">>}]

MCInputs ==
    [ref : Words, out : Words, args : Switches] \cup [ref : Numbers, out : Numbers, args : Floats]
    \cup UnknownInputs
=============================================================================
