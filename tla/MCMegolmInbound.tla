--------------------------- MODULE MCMegolmInbound ---------------------------
(* Small instances of MegolmInbound: in each, two events share an index.   *)
EXTENDS MegolmInbound

CONSTANTS e1, e2, e3, s1, s2

MCEvent == {e1, e2, e3}
MCSession == {s1, s2}
MCSessionOf == [e \in MCEvent |-> IF e = e3 THEN s2 ELSE s1]
MCIndexOf == [e \in MCEvent |-> IF e = e3 THEN 1 ELSE 0]
=============================================================================
