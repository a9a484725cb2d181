----------------------------- MODULE PacketQueue -----------------------------
(***************************************************************************)
(* What the receive ring between the Ethernet driver and the uplink task   *)
(* promises: a bounded first-in first-out queue.  A frame is put in only   *)
(* if there is room, nothing that was put in is lost, changed, repeated or *)
(* overtaken before it is taken.                                           *)
(***************************************************************************)
EXTENDS Naturals, Sequences

CONSTANTS Items,        \* what can be queued
          Capacity,     \* how many fit
          None          \* nothing has been taken yet

VARIABLES queue,        \* the frames waiting, oldest first
          taken         \* the frame taken last

Init == queue = <<>> /\ taken = None

Put(f) == /\ Len(queue) < Capacity
          /\ queue' = Append(queue, f)
          /\ UNCHANGED taken

Take == /\ queue # <<>>
        /\ taken' = Head(queue)
        /\ queue' = Tail(queue)

Next == (\E f \in Items : Put(f)) \/ Take

Spec == Init /\ [][Next]_<<queue, taken>>
==============================================================================
