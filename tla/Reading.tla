------------------------------ MODULE Reading -------------------------------
(* The state of the readers: what is read, and how much of it is there.    *)

VARIABLES subject, cut
readerVars == <<subject, cut>>
=============================================================================
