--------------------------- MODULE MCConversation ---------------------------
(* Small instances of the conversation.                                    *)
EXTENDS Conversation

CONSTANTS m1, t1, t2
=============================================================================
