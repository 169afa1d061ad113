---------------------------- MODULE PeerPresence ----------------------------
(***************************************************************************)
(* What the SFU node promises about the presence of a person in a room, in *)
(* terms of the connections that open and close and of nothing else: no    *)
(* timeouts, no handles, no cancellation.                                  *)
(*                                                                         *)
(*   - with a connection that counts, the person is here;                  *)
(*   - when the last one falls, the person is given a grace period;        *)
(*   - a goodbye takes the person away at once, unless a connection that   *)
(*     may be of another page still counts;                                *)
(*   - a grace period ends by a return or by an expiry.                    *)
(***************************************************************************)
CONSTANTS Peers, Channels, Pages, NoPage, Nobody

VARIABLES
    open,       \* connection -> the peer it is of, or Nobody
    holders,    \* peer -> the connections that count for it, with their page
    status      \* peer -> gone, here or grace

presenceVars == <<open, holders, status>>

Init ==
    /\ open = [c \in Channels |-> Nobody]
    /\ holders = [p \in Peers |-> {}]
    /\ status = [p \in Peers |-> "gone"]

Arrive(p, c, i) ==
    /\ open[c] = Nobody
    /\ open' = [open EXCEPT ![c] = p]
    /\ holders' = [holders EXCEPT ![p] = @ \cup {<<c, i>>}]
    /\ status' = [status EXCEPT ![p] = "here"]

\* The connection c of p closes.  Rest(p, c) is who else counts for p.
Rest(p, c) == {h \in holders[p] : h[1] # c}

Close(p, c) ==
    /\ p # Nobody
    /\ open[c] = p
    /\ open' = [open EXCEPT ![c] = Nobody]

Fall(p, c) ==
    /\ Close(p, c)
    /\ Rest(p, c) # holders[p]
    /\ holders' = [holders EXCEPT ![p] = Rest(p, c)]
    /\ status' = [status EXCEPT ![p] = IF Rest(p, c) = {} THEN "grace" ELSE "here"]

\* Pages that cannot be told apart are taken to be different.
Goodbye(p, c, i) ==
    /\ Close(p, c)
    /\ <<c, i>> \in holders[p]
    /\ IF \E h \in Rest(p, c) : i = NoPage \/ h[2] # i
       THEN /\ holders' = [holders EXCEPT ![p] = Rest(p, c)]
            /\ UNCHANGED status
       ELSE /\ holders' = [holders EXCEPT ![p] = {}]
            /\ status' = [status EXCEPT ![p] = "gone"]

\* The close of a connection that counts for nobody any more.
LateClose(p, c) ==
    /\ Close(p, c)
    /\ Rest(p, c) = holders[p]
    /\ UNCHANGED <<holders, status>>

\* The person was removed by another path; the connections close later.
Remove(p) ==
    /\ holders' = [holders EXCEPT ![p] = {}]
    /\ status' = [status EXCEPT ![p] = "gone"]
    /\ UNCHANGED open

\* A connection fell before it counted: the person, if not here by another,
\* is waited for.
Glimpse(p) ==
    /\ status[p] # "here"
    /\ status' = [status EXCEPT ![p] = "grace"]
    /\ UNCHANGED <<open, holders>>

Expire(p) ==
    /\ status[p] = "grace"
    /\ status' = [status EXCEPT ![p] = "gone"]
    /\ UNCHANGED <<open, holders>>

Next ==
    \E p \in Peers :
        \/ Remove(p) \/ Glimpse(p) \/ Expire(p)
        \/ \E c \in Channels :
              \/ Fall(p, c) \/ LateClose(p, c)
              \/ \E i \in Pages \cup {NoPage} : Arrive(p, c, i) \/ Goodbye(p, c, i)

Spec == Init /\ [][Next]_presenceVars
=============================================================================
