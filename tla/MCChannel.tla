----------------------------- MODULE MCChannel -----------------------------
(* Instances of ChannelEncoder for TLC. *)
EXTENDS ChannelEncoder

Plain == [key |-> FALSE, opaque |-> FALSE, t35 |-> FALSE]
OneParams == {Plain}

NoCuts == {}
NoQuits == {}
SomeQuits == {"packets", "pass2"}

Group == <<FALSE, FALSE, TRUE, TRUE, TRUE, TRUE>>
HalfGroup == <<FALSE, TRUE, TRUE>>

\* A first pass over thirteen frames without scene cuts, with an interval of 5,
\* and over one frame.
ThirteenFrames ==
  <<TRUE>> \o Group \o <<TRUE>> \o Group \o <<TRUE>> \o HalfGroup
OneFrame == <<TRUE>>
=============================================================================
