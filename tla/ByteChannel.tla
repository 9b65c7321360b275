---------------------------- MODULE ByteChannel ----------------------------
(***************************************************************************)
(* What a pipe promises: a bounded first-in first-out channel of bytes.    *)
(* Writers put runs of bytes in at its end, readers take runs of bytes out *)
(* at its front, and no byte is lost, made up or overtaken on the way.     *)
(***************************************************************************)
EXTENDS Naturals, Sequences

CONSTANTS Byte, Capacity

VARIABLES
  channel,  \* the bytes in the channel
  taken     \* the bytes that were taken out, oldest first

\* Runs are listed by their length, so that TLC can enumerate them.
Run == UNION {[1 .. n -> Byte] : n \in 1 .. Capacity}

Init == channel = <<>> /\ taken = <<>>

Put == \E r \in Run : /\ Len(channel \o r) <= Capacity
                      /\ channel' = channel \o r
                      /\ taken' = taken

Take == \E n \in 1 .. Len(channel) :
           /\ taken' = taken \o SubSeq(channel, 1, n)
           /\ channel' = SubSeq(channel, n + 1, Len(channel))

Next == Put \/ Take

Spec == Init /\ [][Next]_<<channel, taken>>

=============================================================================
