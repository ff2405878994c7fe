----------------------------- MODULE BriefFormMC -----------------------------
(***************************************************************************)
(* Small instances of BriefForm.  Their bounds are reached, so the visitor *)
(* may run out of sends; Rest lets the behaviour go on.                    *)
(***************************************************************************)
EXTENDS BriefForm
=============================================================================
