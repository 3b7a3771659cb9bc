----------------------------- MODULE AdmissionMC -----------------------------
(* A small world for Admission: two tokens for uploads, one for downloads. *)
EXTENDS Admission

CONSTANTS u1, u2, p1, p2, c1, e1, g1

(* u2 is one of the two exempt accounts.                                   *)
AccountOf == [r \in Requests |-> IF r = e1 THEN u2 ELSE u1]
(* e1 only creates a bucket; p1 sends its body in pieces and announces no  *)
(* length; p2 and c1 upload two segments, p1 one.                          *)
SizeOf == [r \in Requests |-> IF r \in {p2, c1} THEN 4 ELSE
                              IF r = p1 THEN 2 ELSE 0]
LengthOf == [r \in Requests |-> IF r = p1 THEN -1 ELSE SizeOf[r]]
(* u1 has room for two segments and a bit, u2 for none.                    *)
SpaceOf == [x \in Users |-> IF x = u1 THEN 7 ELSE 2]
=============================================================================
