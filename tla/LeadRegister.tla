---------------------------- MODULE LeadRegister ----------------------------
(***************************************************************************)
(* What the intake promises to whoever sends a brief: a register in which  *)
(* every request takes effect at one instant or not at all, whatever       *)
(* directories, locks and transactions lie behind it.  LeadStorage         *)
(* implements it; BriefForm is its client.                                 *)
(***************************************************************************)
CONSTANTS Posts,      \* requests to POST /api/brief
          NoBrowser   \* the browser of a request without a valid cookie

VARIABLES brief,   \* what each request carries: a key, a browser and a payload
          leads,   \* the requests whose lead is in the register
          told     \* what each request is answered, "none" before it takes effect

Init ==
  /\ leads = {}
  /\ told = [p \in Posts |-> "none"]

SameKey(p) == {l \in leads : brief[l].key = brief[p].key}
SameBrowser(p) == {l \in leads : brief[p].browser # NoBrowser /\ brief[l].browser = brief[p].browser}

\* A free key from a browser without a lead is accepted, even if the answer
\* fails to say so.
Accept(p) ==
  /\ told[p] = "none"
  /\ SameKey(p) = {} /\ SameBrowser(p) = {}
  /\ leads' = leads \cup {p}
  /\ \E answer \in {"accepted", "error"} : told' = [told EXCEPT ![p] = answer]
  /\ UNCHANGED brief

\* A used key with the same content repeats the first answer.  What is hashed
\* as content includes the browser.
Repeat(p) ==
  /\ told[p] = "none"
  /\ \E l \in SameKey(p) : brief[l] = brief[p]
  /\ told' = [told EXCEPT ![p] = "repeat"]
  /\ UNCHANGED <<brief, leads>>

Conflict(p) ==
  /\ told[p] = "none"
  /\ \E l \in SameKey(p) : brief[l] # brief[p]
  /\ told' = [told EXCEPT ![p] = "conflict"]
  /\ UNCHANGED <<brief, leads>>

Already(p) ==
  /\ told[p] = "none"
  /\ SameKey(p) = {} /\ SameBrowser(p) # {}
  /\ told' = [told EXCEPT ![p] = "already"]
  /\ UNCHANGED <<brief, leads>>

\* A field or a file that is not as it must be: the request leaves no trace ...
Reject(p) ==
  /\ told[p] = "none"
  /\ told' = [told EXCEPT ![p] = "rejected"]
  /\ UNCHANGED <<brief, leads>>

\* ... nor does one that fails.
Break(p) ==
  /\ told[p] = "none"
  /\ told' = [told EXCEPT ![p] = "error"]
  /\ UNCHANGED <<brief, leads>>

\* An administrator deletes leads, and their keys are free again.
Delete(D) ==
  /\ leads' = leads \ D
  /\ UNCHANGED <<brief, told>>

Serve(p) == Accept(p) \/ Repeat(p) \/ Conflict(p) \/ Already(p) \/ Reject(p) \/ Break(p)

Next == (\E p \in Posts : Serve(p)) \/ (\E D \in SUBSET leads : Delete(D))

Spec == Init /\ [][Next]_<<brief, leads, told>>
=============================================================================
