--------------------------- MODULE MCHeaderTables ---------------------------
(***************************************************************************)
(* Fields of two names, of which the static table has one; tables that     *)
(* hold a few of them, or none.                                            *)
(***************************************************************************)
EXTENDS HeaderTables

Known  == <<[name |-> "status", value |-> "ok"]>>
Field(name, value, sensitive) == [name |-> name, value |-> value, sensitive |-> sensitive]
Sent   == {Field("status", "ok", FALSE), Field("status", "other", FALSE),
           Field("cookie", "a", FALSE), Field("cookie", "a", TRUE),
           Field("cookie", "long", FALSE)}
Lengths == [status |-> 1, cookie |-> 1, ok |-> 0, other |-> 0, a |-> 0, long |-> 2]
=============================================================================
