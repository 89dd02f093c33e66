--------------------------- MODULE LogicalStreams ---------------------------
(***************************************************************************)
(* What a multiplexer promises, whatever it does with pages: every logical *)
(* stream is a reliable first-in first-out channel. What has been          *)
(* delivered of a stream is always a prefix of what was sent on it, a      *)
(* delivery never takes anything back, and a stream starts afresh only     *)
(* while nothing of any stream was delivered (the first pass of two).      *)
(***************************************************************************)
EXTENDS Naturals, Sequences

CONSTANTS Stream, Item

VARIABLES sent, delivered

Prefix(a, b) == Len(a) <= Len(b) /\ \A i \in 1 .. Len(a) : a[i] = b[i]

Init ==
    /\ sent = [s \in Stream |-> << >>]
    /\ delivered = [s \in Stream |-> << >>]

Send(s) ==
    /\ sent'[s] \in Seq(Item)
    /\ Prefix(sent[s], sent'[s])
    /\ sent' = [sent EXCEPT ![s] = sent'[s]]
    /\ UNCHANGED delivered

Deliver(s) ==
    /\ delivered'[s] \in Seq(Item)
    /\ Prefix(delivered[s], delivered'[s])
    /\ Prefix(delivered'[s], sent[s])
    /\ delivered' = [delivered EXCEPT ![s] = delivered'[s]]
    /\ UNCHANGED sent

Restart ==
    /\ \A s \in Stream : delivered[s] = << >>
    /\ sent' = [s \in Stream |-> << >>]
    /\ UNCHANGED delivered

Next == (\E s \in Stream : Send(s) \/ Deliver(s)) \/ Restart

Spec == Init /\ [][Next]_<<sent, delivered>>

(* Nothing is delivered that was not sent, in that order.                      *)
InOrderDelivery == \A s \in Stream : Prefix(delivered[s], sent[s])
=============================================================================
