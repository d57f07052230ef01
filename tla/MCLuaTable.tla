----------------------------- MODULE MCLuaTable -----------------------------
(* A table with the indices 0 to 3 and strings that collide with them. *)
EXTENDS LuaTable

CONSTANTS s1, s2, v, o1, o2

MCKeys == 0..3 \cup {s1, s2}
MCHash == [k \in MCKeys |-> IF k \in 0..3 THEN k ELSE IF k = s2 THEN 1 ELSE 0]

=============================================================================
