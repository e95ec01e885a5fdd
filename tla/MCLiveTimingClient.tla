------------------------- MODULE MCLiveTimingClient -------------------------
(* Instances of LiveTimingClient for TLC. *)
EXTENDS LiveTimingClient

\* A frame with a message between two feeds, one that breaks off after its
\* first feed message, and a keepalive.
MCFrame == { << >>, <<"feed", "skipped", "feed">>, <<"feed", "malformed", "feed">> }

\* One short frame, for the runs that are not about frames.
MCShortFrame == { <<"feed">>, <<"malformed">> }
=============================================================================
