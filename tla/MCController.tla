---------------------------- MODULE MCController ----------------------------
(* Controller on a queue small enough to be full when the worker is told to  *)
(* stop.                                                                     *)
EXTENDS Controller

=============================================================================
