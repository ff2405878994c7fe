--------------------------- MODULE AdminConsoleMC ---------------------------
(***************************************************************************)
(* A small instance of AdminConsole: two leads at first; one that begins   *)
(* after them and comes in, and one that begins between them but comes in  *)
(* late; one lead to a page, the plain address (all leads, newest first)   *)
(* and a search that lists, oldest first, those of them with attachments.  *)
(***************************************************************************)
EXTENDS AdminConsole

FirstLeads == {"l1", "l2"}
Creation == [l1 |-> 1, l4 |-> 2, l2 |-> 3, l3 |-> 4]
Selection == [all |-> Leads, some |-> {"l1", "l2", "l4"}]
Asked == [all |-> "any", some |-> "with"]
Owner == [f1 |-> "l1", f2 |-> "l2", f4 |-> "l4"]
=============================================================================
