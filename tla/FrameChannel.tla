---------------------------- MODULE FrameChannel ----------------------------
(***************************************************************************)
(* What the users of a CAN software queue (canTxQueue, canRxQueue) rely    *)
(* on: a first-in first-out channel of frames with one frame in service.   *)
(* As long as no push has met a backlog of Capacity frames, every accepted *)
(* frame is delivered unaltered and in order (or, on the transmit side,    *)
(* abandoned after its retries).  A push that meets a backlog of Capacity  *)
(* opens an overrun, during which nothing is said of the contents; the     *)
(* overrun is over when the channel has been found empty.                  *)
(***************************************************************************)
EXTENDS Naturals, Sequences

CONSTANTS
  Frames,    (* the frames that can be queued                              *)
  NoFrame,   (* stands for "no frame"                                      *)
  Capacity   (* the backlog a push may meet without opening an overrun + 1 *)

VARIABLES
  backlog,   (* accepted frames not yet taken, oldest first *)
  inService, (* the frame the consumer has taken            *)
  delivered, (* the last frame handed over                  *)
  overrun    (* a push met a full channel                   *)

vars == <<backlog, inService, delivered, overrun>>

Init ==
  /\ backlog = <<>>
  /\ inService = NoFrame
  /\ delivered = NoFrame
  /\ overrun = FALSE

Overfull == overrun \/ Len(backlog) >= Capacity

Accept(f) ==
  /\ backlog' = Append(backlog, f)
  /\ overrun' = Overfull
  /\ UNCHANGED <<inService, delivered>>

Take ==
  /\ backlog # <<>>
  /\ inService = NoFrame
  /\ inService' = Head(backlog)
  /\ backlog' = Tail(backlog)
  /\ UNCHANGED <<delivered, overrun>>

Deliver ==
  /\ inService # NoFrame
  /\ IF overrun THEN delivered' \in Frames ELSE delivered' = inService
  /\ inService' = NoFrame
  /\ UNCHANGED <<backlog, overrun>>

Abandon ==
  /\ inService # NoFrame
  /\ inService' = NoFrame
  /\ UNCHANGED <<backlog, delivered, overrun>>

Overrun ==
  /\ Overfull
  /\ overrun' = TRUE
  /\ UNCHANGED <<backlog, inService, delivered>>

Recover ==
  /\ backlog = <<>>
  /\ inService = NoFrame
  /\ overrun' = FALSE
  /\ UNCHANGED <<backlog, inService, delivered>>

Next ==
  \/ \E f \in Frames : Accept(f)
  \/ Take
  \/ Deliver
  \/ Abandon
  \/ Overrun
  \/ Recover

Spec == Init /\ [][Next]_vars
=============================================================================
