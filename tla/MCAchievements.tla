--------------------------- MODULE MCAchievements ---------------------------
(***************************************************************************)
(* One user of one camp, and two checks that overlap, over achievements    *)
(* that the camp reaches with its first and its second expedition that     *)
(* returns; the second of them is created meanwhile.                       *)
(***************************************************************************)
EXTENDS Achievements

CONSTANTS u1, camp, first, second

MCRule     == [a \in Achievement |-> "EXPEDITION_RETURN"]
MCRequired == [a \in Achievement |-> IF a = second THEN 2 ELSE 1]
MCOffered  == [a \in Achievement |-> User]
=============================================================================
