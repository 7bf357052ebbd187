----------------------------- MODULE MCConversation -----------------------------
(***************************************************************************)
(* A small instance of Conversation for TLC: the two composers of an       *)
(* agent's ticket page.                                                    *)
(***************************************************************************)
EXTENDS Conversation, TLC

CONSTANTS reply, note, agent   \* the members of Composers, their user

OneAuthor == reply :> agent @@ note :> agent

================================================================================
