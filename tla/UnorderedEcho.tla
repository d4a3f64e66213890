---------------------------- MODULE UnorderedEcho ----------------------------
(***************************************************************************)
(* What the echo application promises when several contexts serve each      *)
(* direction: as EchoService, except that a packet may overtake others: every *)
(* admitted packet is sent back whole and exactly once, in any order.        *)
(***************************************************************************)
EXTENDS Naturals, Sequences

CONSTANTS Packets,    \* the packets that can be admitted, each once
          Reply(_),   \* what is sent for an admitted packet
          Capacity    \* how many packets the service holds

VARIABLES admitted, sent

serviceVars == <<admitted, sent>>

Init ==
    /\ admitted = <<>>
    /\ sent = <<>>

Admit ==
    /\ Len(admitted) - Len(sent) < Capacity
    /\ \E p \in Packets : admitted' = Append(admitted, p)
    /\ UNCHANGED sent

Replied(n) == \E i \in 1 .. Len(sent) : sent[i] = Reply(admitted[n])

SendBack(n) ==
    /\ ~ Replied(n)
    /\ sent' = Append(sent, Reply(admitted[n]))
    /\ UNCHANGED admitted

Next == Admit \/ \E n \in 1 .. Len(admitted) : SendBack(n)

Safety == Init /\ [][Next]_serviceVars

Liveness == WF_serviceVars(\E n \in 1 .. Len(admitted) : SendBack(n))

Spec == Safety /\ Liveness
==============================================================================
