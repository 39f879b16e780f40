--------------------------- MODULE MCSigmaImages ---------------------------
(* Instances of SigmaImages for TLC, with the names and paths of MCSigma.  *)
EXTENDS MCSigma, SigmaImages
=============================================================================
