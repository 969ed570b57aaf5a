----------------------------- MODULE MCDigestMails -----------------------------
(* Instances of DigestMails for TLC. *)
EXTENDS DigestMails, TLC

CONSTANTS a1, e1, e2

(* One account with two addresses. *)
MCOwnerOf == [e \in {e1, e2} |-> a1]

=============================================================================
