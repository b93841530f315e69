--------------------------- MODULE MCDisplayStream ---------------------------
(* Instances of DisplayStream for model checking. *)
EXTENDS DisplayStream
=============================================================================
