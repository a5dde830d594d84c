------------------------------ MODULE FrameLink ------------------------------
(***************************************************************************)
(* What a stream of frames promises: what is received is a prefix of what  *)
(* was sent, frame by frame, until a call is abandoned inside a frame.     *)
(***************************************************************************)
EXTENDS Naturals, Sequences

VARIABLES
  sent,      \* frames whose writing has begun
  received,  \* frames the reader got
  cut        \* a frame was left unfinished and the stream used again

Init == sent = <<>> /\ received = <<>> /\ cut = FALSE

Send ==
  /\ Len(sent') = Len(sent) + 1
  /\ SubSeq(sent', 1, Len(sent)) = sent
  /\ UNCHANGED <<received, cut>>

Deliver ==
  /\ ~cut
  /\ Len(received) < Len(sent)
  /\ received' = Append(received, sent[Len(received) + 1])
  /\ UNCHANGED <<sent, cut>>

Abandon == cut' /\ UNCHANGED <<sent, received>>

Unframed == cut /\ cut'

Next == Send \/ Deliver \/ Abandon \/ Unframed

Spec == Init /\ [][Next]_<<sent, received, cut>>
=============================================================================
