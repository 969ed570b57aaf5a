---------------------------- MODULE MessageQueue ----------------------------
(***************************************************************************)
(* What a queue over outbox_event promises to the application that         *)
(* enqueues messages in its transactions: a message is handed out only     *)
(* after every message that was committed ahead of it under its ordering   *)
(* key has been settled, and only a message that is held can be settled.   *)
(* Leases, tokens, clocks, workers and their failures are absent: they     *)
(* only show as messages that are returned.                                *)
(***************************************************************************)
CONSTANTS
    Message,
    Key, NoKey   \* ordering keys, and the null key, which orders nothing

VARIABLES
    state,       \* what has become of each message
    ahead,       \* the messages committed ahead of it under its key
    key,         \* the ordering key it was committed with
    reopened     \* the messages an operator replayed

vars == <<state, ahead, key, reopened>>

TypeOK ==
    /\ state \in [Message -> {"absent", "waiting", "held", "settled"}]
    /\ ahead \in [Message -> SUBSET Message]
    /\ key \in [Message -> Key \cup {NoKey}]
    /\ reopened \subseteq Message

Init ==
    /\ state = [m \in Message |-> "absent"]
    /\ ahead = [m \in Message |-> {}]
    /\ key = [m \in Message |-> NoKey]
    /\ reopened = {}

Become(m, from, to) ==
    /\ state[m] = from
    /\ state' = [state EXCEPT ![m] = to]

(* The transaction of the sender commits. *)
Commit(m, k) ==
    /\ Become(m, "absent", "waiting")
    /\ key' = [key EXCEPT ![m] = k]
    /\ ahead' = [ahead EXCEPT ![m] =
                   {a \in Message : k # NoKey /\ state[a] # "absent" /\ key[a] = k}]
    /\ UNCHANGED reopened

Hand(m) ==
    /\ Become(m, "waiting", "held")
    /\ \A a \in ahead[m] \ reopened : state[a] = "settled"
    /\ UNCHANGED <<ahead, key, reopened>>

(* To be tried again. *)
Return(m) == Become(m, "held", "waiting") /\ UNCHANGED <<ahead, key, reopened>>

(* Completed, or given up. *)
Settle(m) == Become(m, "held", "settled") /\ UNCHANGED <<ahead, key, reopened>>

Reopen(m) ==
    /\ Become(m, "settled", "waiting")
    /\ reopened' = reopened \cup {m}
    /\ UNCHANGED <<ahead, key>>

Next ==
    \E m \in Message :
        \/ \E k \in Key \cup {NoKey} : Commit(m, k)
        \/ Hand(m) \/ Return(m) \/ Settle(m) \/ Reopen(m)

Spec == Init /\ [][Next]_vars

=============================================================================
