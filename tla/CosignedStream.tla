--------------------------- MODULE CosignedStream ---------------------------
(***************************************************************************)
(* What live witnessing promises an auditor of a micro-PK session: stage 0 *)
(* is the session.open, stage i the root over the first i checkpoint       *)
(* windows, the last stage the sealed output.  No window is generated      *)
(* before a quorum of independent feeds holds every stage so far, and      *)
(* nothing is sealed before they hold them all (protocol section 13,       *)
(* PSI-WITNESS-3).  MicroPk implements it.                                 *)
(***************************************************************************)
EXTENDS Naturals

CONSTANT Windows    \* checkpoint windows of a session

VARIABLES
  generated,  \* windows generated
  cosigned,   \* stages that a quorum of the feeds holds
  sealed      \* is the session sealed

vars == <<generated, cosigned, sealed>>

Stages == Windows + 2

Init == generated = 0 /\ cosigned = 0 /\ sealed = FALSE

Cosign ==
  /\ cosigned <= generated \/ generated = Windows
  /\ cosigned < Stages
  /\ cosigned' = cosigned + 1
  /\ UNCHANGED <<generated, sealed>>

Generate ==
  /\ generated < Windows
  /\ cosigned = generated + 1
  /\ generated' = generated + 1
  /\ UNCHANGED <<cosigned, sealed>>

Seal ==
  /\ ~sealed
  /\ cosigned = Stages
  /\ sealed' = TRUE
  /\ UNCHANGED <<generated, cosigned>>

Next == Cosign \/ Generate \/ Seal

Spec == Init /\ [][Next]_vars
=============================================================================
