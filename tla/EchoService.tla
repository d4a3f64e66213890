----------------------------- MODULE EchoService -----------------------------
(***************************************************************************)
(* What the echo application promises, whatever the rings, engines and the  *)
(* worker do: packets are admitted, and every admitted packet is sent back  *)
(* exactly once, whole, in the order of admission; at most Capacity packets *)
(* are inside at a time.                                                    *)
(***************************************************************************)
EXTENDS Naturals, Sequences

CONSTANTS Packets,   \* the packets that can be admitted
          Reply(_),  \* what is sent for an admitted packet
          Capacity   \* how many packets the service holds

VARIABLES admitted, sent

serviceVars == <<admitted, sent>>

Init ==
    /\ admitted = <<>>
    /\ sent = <<>>

Admit ==
    /\ Len(admitted) - Len(sent) < Capacity
    /\ \E p \in Packets : admitted' = Append(admitted, p)
    /\ UNCHANGED sent

SendBack ==
    /\ Len(sent) < Len(admitted)
    /\ sent' = Append(sent, Reply(admitted[Len(sent) + 1]))
    /\ UNCHANGED admitted

Next == Admit \/ SendBack

Safety == Init /\ [][Next]_serviceVars

Spec == Safety /\ WF_serviceVars(SendBack)
==============================================================================
