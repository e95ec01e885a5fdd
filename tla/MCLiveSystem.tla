---------------------------- MODULE MCLiveSystem ----------------------------
(* An instance of LiveSystem for TLC. *)
EXTENDS LiveSystem

\* One message per frame: the order of frames is what matters here.
MCOneMessage == { <<"feed">> }
=============================================================================
