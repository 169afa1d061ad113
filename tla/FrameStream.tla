----------------------------- MODULE FrameStream -----------------------------
(***************************************************************************)
(* What a client of the media channel may count on, whatever the queue, the*)
(* stream and the socket do in between:                                    *)
(*                                                                         *)
(*   - critical frames arrive in the order they were accepted, none twice  *)
(*     and none missing before a later one;                                *)
(*   - of a volatile kind, only what is newer than what already arrived;   *)
(*   - a connection that ends politely ended after every accepted frame.   *)
(***************************************************************************)
EXTENDS Naturals

CONSTANT Keys       \* the kinds of volatile frame

VARIABLES
    accepted,   \* how many critical frames the server accepted
    received,   \* how many of them reached the client
    fresh,      \* volatile kind -> number of its newest value
    shown,      \* volatile kind -> number of the value the client has
    fate        \* "open", "complete" (ended politely) or "cut"

streamVars == <<accepted, received, fresh, shown, fate>>

Init ==
    /\ accepted = 0
    /\ received = 0
    /\ fresh = [k \in Keys |-> 0]
    /\ shown = [k \in Keys |-> 0]
    /\ fate = "open"

Accept ==
    /\ fate # "complete"
    /\ accepted' > accepted
    /\ UNCHANGED <<received, shown, fate>>
    /\ \A k \in Keys : fresh'[k] >= fresh[k]

Renew ==
    /\ \A k \in Keys : fresh'[k] >= fresh[k]
    /\ UNCHANGED <<accepted, received, shown, fate>>

ReceiveCritical ==
    /\ fate = "open"
    /\ received < accepted
    /\ received' = received + 1
    /\ UNCHANGED <<accepted, fresh, shown, fate>>

ReceiveVolatile(k) ==
    /\ fate = "open"
    /\ \E n \in (shown[k] + 1)..fresh[k] : shown' = [shown EXCEPT ![k] = n]
    /\ UNCHANGED <<accepted, received, fresh, fate>>

Complete ==
    /\ fate = "open"
    /\ received = accepted
    /\ fate' = "complete"
    /\ UNCHANGED <<accepted, received, fresh, shown>>

\* A cut may come with the last frames the server took in.
Cut ==
    /\ fate = "open"
    /\ fate' = "cut"
    /\ accepted' >= accepted
    /\ \A k \in Keys : fresh'[k] >= fresh[k]
    /\ UNCHANGED <<received, shown>>

Next ==
    \/ Accept \/ Renew \/ ReceiveCritical \/ Complete \/ Cut
    \/ \E k \in Keys : ReceiveVolatile(k)

Spec == Init /\ [][Next]_streamVars
=============================================================================
