--------------------------- MODULE MCCodexThreads ---------------------------
(***************************************************************************)
(* Small instances of CodexThreads: a message that is sent again, or with  *)
(* another payload under the same request ID, in a conversation that is    *)
(* created first and may be created again.                                 *)
(***************************************************************************)
EXTENDS CodexThreads

Message1 == [id |-> "s1", thread |-> 1, client |-> "c1", base |-> 1]
Reused   == [id |-> "s1", thread |-> 1, client |-> "c2", base |-> 1]
First    == [id |-> "n1", base |-> 0]

MCOne == {Message1}
MCReused == {Message1, Reused}
MCFirst == {First}
=============================================================================
