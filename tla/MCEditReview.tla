----------------------------- MODULE MCEditReview -----------------------------
(***************************************************************************)
(* Small instances of EditReview for TLC.                                  *)
(***************************************************************************)
EXTENDS EditReview

=============================================================================
