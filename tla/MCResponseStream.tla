-------------------------- MODULE MCResponseStream --------------------------
(***************************************************************************)
(* Binary digits in two bits, so that <<1, 0, 0>> overflows.  Lengths are  *)
(* absent, blank, padded, not numeric, repeated on one line or on two, and *)
(* in conflict.  Some final responses are a 204 or a 304.                  *)
(***************************************************************************)
EXTENDS ResponseStream

Values == {<<>>, <<1>>, <<0, 1>>, <<1, 0>>, <<1, 0, 0>>, <<9, 1>>}

MCLengths ==
    {<<>>} \cup {<<<<v>>>> : v \in Values}
    \cup {<<<<v, w>>>> : v \in Values, w \in Values}
    \cup {<<<<v>>, <<w>>>> : v \in Values, w \in Values}

Head0(kind) == [kind |-> kind, lengths |-> <<>>, chunked |-> FALSE, bodiless |-> FALSE,
                forbidden |-> FALSE, authenticate |-> FALSE, answers |-> 0]

MCHeads ==
    {Head0("garbage")}
    \cup {[Head0("final") EXCEPT !.lengths = l, !.chunked = c] : l \in MCLengths, c \in BOOLEAN}
    \cup {[Head0("final") EXCEPT !.lengths = l, !.bodiless = TRUE] : l \in {<<>>, <<<<<<1>>>>>>}}
    \cup {[Head0("interim") EXCEPT !.lengths = <<<<<<1>>>>>>, !.chunked = c] : c \in BOOLEAN}
    \cup {[Head0(k) EXCEPT !.forbidden = f, !.authenticate = ~f] : k \in {"interim", "final"}, f \in BOOLEAN}
=============================================================================
