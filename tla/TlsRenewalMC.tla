---------------------------- MODULE TlsRenewalMC ----------------------------
(***************************************************************************)
(* A small instance of TlsRenewal: three releases, two of them alike, with *)
(* the newer migration, and two runs of certbot.                           *)
(***************************************************************************)
EXTENDS TlsRenewal, TLC

CONSTANTS old, d1, d2

Schemas == [d \in {old, d1, d2} |-> IF d = old THEN 1 ELSE 2]
Alike == Permutations({d1, d2})

\* Bound: where a run of certbot has begun, one deployment is never asked for.
\* What three deployments leave to each other, and what two leave beside two runs
\* of certbot, is all explored.
ThirdAlone == renewals > 0 => \E d \in Deploys : client[d] = "local"
=============================================================================
