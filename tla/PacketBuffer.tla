--------------------------- MODULE PacketBuffer ----------------------------
(***************************************************************************)
(* What a multi-beat core promises about the packets that stream through   *)
(* it: they leave in the order they came, whole, beat by beat in order,    *)
(* and no beat of a packet leaves before its last beat has come, since the *)
(* result of every beat depends on all of them.  At most Capacity complete *)
(* packets are held, and none is begun while that many are.                *)
(***************************************************************************)
EXTENDS Naturals, Sequences

CONSTANTS Capacity,  \* complete packets held at most
          NumBeats,  \* beats of a packet
          Beat       \* beats

VARIABLES packets,   \* the complete packets, oldest first
          partial,   \* the beats so far of the packet that is arriving
          sent       \* the beats of the oldest packet that have left

Init == /\ packets = <<>>
        /\ partial = <<>>
        /\ sent = 0

\* What arrives in a cycle: nothing, a beat, or the last beat of a packet.
NoArrival == partial' = partial
Arrival(d) == /\ Len(packets) < Capacity
              /\ Len(partial) + 1 < NumBeats
              /\ partial' = Append(partial, d)
LastArrival(d) == /\ Len(packets) < Capacity
                  /\ Len(partial) + 1 = NumBeats
                  /\ partial' = <<>>

\* What leaves in a cycle, in the same three cases.
NoDeparture == sent' = sent
Departure == /\ packets # <<>>
             /\ sent + 1 < NumBeats
             /\ sent' = sent + 1
LastDeparture == /\ packets # <<>>
                 /\ sent + 1 = NumBeats
                 /\ sent' = 0

Next == \E d \in Beat :
    \/ /\ NoArrival \/ Arrival(d)
       /\ NoDeparture \/ Departure
       /\ packets' = packets
    \/ /\ LastArrival(d)
       /\ NoDeparture \/ Departure
       /\ packets' = Append(packets, Append(partial, d))
    \/ /\ NoArrival \/ Arrival(d)
       /\ LastDeparture
       /\ packets' = Tail(packets)
    \/ /\ LastArrival(d)
       /\ LastDeparture
       /\ packets' = Append(Tail(packets), Append(partial, d))

Spec == Init /\ [][Next]_<<packets, partial, sent>>
=============================================================================
