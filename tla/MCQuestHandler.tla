--------------------------- MODULE MCQuestHandler ---------------------------
(* Two quests of one connection, two services and one servant. *)
EXTENDS QuestHandler

CONSTANTS q1, q2, s1, s2, v1
=============================================================================
