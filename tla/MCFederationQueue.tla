------------------------- MODULE MCFederationQueue -------------------------
(***************************************************************************)
(* Instances of FederationQueue for TLC: an object whose activities share  *)
(* the ordering key "ko", sent through a fanout or directly.                *)
(***************************************************************************)
EXTENDS FederationQueue, TLC

CONSTANTS f1, f2, d1, d2, d3, ko, ki, i1, i2

(* The delivery key of the send's key: one origin. *)
MCInboxKey ==
    [p \in (Key \cup {NoKey}) \X Inbox |-> IF p[1] = NoKey THEN NoKey ELSE ki]

Send(e, key, i) == [event |-> e, key |-> key, inbox |-> i]

(* Two activities of the object, enqueued for the inbox itself. *)
DirectSends == {Send(d1, ki, i1), Send(d2, ki, i1)}

(* Two activities of the object, each through a fanout. *)
FanoutSends == {Send(f1, ko, NoInbox), Send(f2, ko, NoInbox)}

(* One through a fanout, and one for the inbox itself. *)
MixedSends == {Send(f1, ko, NoInbox), Send(d1, ki, i1)}

OneFanout == {Send(f1, ko, NoInbox)}

Symmetry == Permutations(Token) \cup Permutations(Worker)

(* The deliveries a fanout enqueues are interchangeable. *)
PoolSymmetry == Symmetry \cup Permutations({d1, d2, d3} \cap Row)

=============================================================================
