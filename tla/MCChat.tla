------------------------------- MODULE MCChat -------------------------------
(* One browser with two sessions, one after the other, and one member of    *)
(* the staff; the first conversation is new, or has just been passed on.    *)
EXTENDS Chat
CONSTANTS a1
MCConvs == {1, 2}
MCAdmins == {a1}
MCPassedOn == [status |-> "ACTIVE", support |-> None,
               log |-> <<[id |-> 1, by |-> "USER"],
                         [id |-> 2, by |-> "ESCALATED"]>>]
MCBeginnings == {NoConversation, MCPassedOn}
=============================================================================
