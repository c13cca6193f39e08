--------------------------- MODULE MCClashService ---------------------------
(* An instance of ClashService whose children print their pid first. *)
EXTENDS ClashService

MCCallers == Threads
=============================================================================
