-------------------------- MODULE MCResourceManager --------------------------
(* Small instances of ResourceManager for TLC. *)
EXTENDS ResourceManager

TwoTypes == [r \in Res |-> IF r = 0 THEN 2 ELSE 1]

\* One of the arrays asks for more than exists; the thread whose claim it is
\* claims nothing.
ClaimsTwo   == {[r \in Res |-> IF r = 0 THEN c[1] ELSE c[2]] :
                  c \in {<<2, 1>>, <<1, 1>>, <<0, 1>>, <<0, 2>>}}
RequestsTwo == {v \in [Res -> 0 .. 2] : arrLessThan(v, TwoTypes)} \ {Zero}
===============================================================================
