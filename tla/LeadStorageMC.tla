--------------------------- MODULE LeadStorageMC ---------------------------
(***************************************************************************)
(* Small instances of LeadStorage.  Names of requests and files are        *)
(* strings; each scenario gives its functions here and its sets in a cfg.  *)
(***************************************************************************)
EXTENDS LeadStorage, TLC

\* Intake: u1 and u2 are a request and its retry (one key, one browser, one
\* payload), u3 comes from the same browser with another key and u4 carries
\* u1's key with other content.  The ids of key k1 and browser b2 coincide,
\* and so do those of k2 and b1.
IntakeOwner == [f \in {"f1", "f2"} |-> IF f = "f1" THEN "u1" ELSE "u3"]
IntakeKey == [u \in {"u1", "u2", "u3", "u4"} |-> IF u \in {"u3", "u4"} THEN "k2" ELSE "k1"]
IntakeBrowser == [u \in {"u1", "u2", "u3", "u4"} |-> IF u = "u4" THEN "b2" ELSE "b1"]
IntakePayload == [u \in {"u1", "u2", "u3", "u4"} |-> IF u = "u4" THEN "p2" ELSE "p1"]
IntakeLocks == [x \in {"k1", "k2", "b1", "b2"} |-> IF x \in {"k1", "b2"} THEN 1 ELSE 2]

\* Storage: uploads that have nothing in common.
OneLead == [f \in Files |-> "u1"]
TwoLeads == [f \in {"f1", "f2"} |-> IF f = "f1" THEN "u1" ELSE "u2"]
Apart == [u \in {"u1", "u2"} |-> u]
Anonymous == [u \in {"u1", "u2"} |-> "nobody"]
ApartLocks == [x \in {"u1", "u2"} |-> IF x = "u1" THEN 1 ELSE 2]
OneApart == [u \in {"u1"} |-> u]
OneAnonymous == [u \in {"u1"} |-> "nobody"]
OneLock == [x \in {"u1"} |-> 1]
\* Removals, and the attachments of the one lead, differ in nothing but their names.
Alike == Permutations(Removals) \cup Permutations(Files)
=============================================================================
