---------------------------- MODULE MCQamSource ----------------------------
(* Small instances of QamSource.                                           *)
EXTENDS QamSource

CONSTANTS video, audio

\* The program moves to another PID by way of a PAT that lacks it.
Moves == <<1, NoPid, 2>>
\* The PMT loses a stream.
Loses == <<{video, audio}, {video}>>
OneStream == <<{video}>>
OnePid == <<1>>

=============================================================================
