---------------------------- MODULE FrameService ----------------------------
(***************************************************************************)
(* What the encoder promises its application, without saying how: frames   *)
(* go in until the application closes the stream, and exactly those frames *)
(* come out, in the order they went in.                                    *)
(***************************************************************************)
EXTENDS Naturals, Sequences

VARIABLES
  submitted,   \* number of frames accepted
  closed,      \* whether the application has closed the stream
  delivered    \* the frame numbers of the packets returned

vars == <<submitted, closed, delivered>>

Init == submitted = 0 /\ closed = FALSE /\ delivered = <<>>

Submit ==
  /\ ~closed
  /\ submitted' = submitted + 1
  /\ UNCHANGED <<closed, delivered>>

Close ==
  /\ ~closed
  /\ closed' = TRUE
  /\ UNCHANGED <<submitted, delivered>>

Deliver ==
  /\ Len(delivered) < submitted
  /\ delivered' = Append(delivered, Len(delivered))
  /\ UNCHANGED <<submitted, closed>>

Next == Submit \/ Close \/ Deliver

\* Order alone: nothing has to happen.
SafeSpec == Init /\ [][Next]_vars

\* While the stream is open the service may hold frames back for lookahead;
\* once it is closed every frame is delivered.
Spec == SafeSpec /\ WF_vars(closed /\ Deliver)
=============================================================================
