--------------------------- MODULE MCCameraProfile --------------------------
(* Profiles and requests for TLC. *)
EXTENDS CameraProfile

Example == [Empty EXCEPT !.name = "a9", !.ip = "A", !.discovery = "A", !.psk = "k", !.password = "p",
                         !.width = 320, !.height = 240, !.ackRepeats = 5, !.enabled = "no"]

\* A full profile, one with an address only, and one without any.
MCFiles == {Example, [Empty EXCEPT !.ip = "A"], Empty}

\* Fields that have defaults or ranges, or follow one another, some out of range.
OneField ==
  {[ip |-> "A"], [ip |-> "B"], [ip |-> ""],
   [discovery |-> "B"], [discovery |-> "lan"], [discovery |-> ""],
   [psk |-> ""], [password |-> "p"], [password |-> ""],
   [overlaySize |-> 9], [ackRepeats |-> 12], [ackRepeats |-> 0], [verbose |-> "yes"]}

MCBodies == OneField \cup {[ip |-> "A", discovery |-> "lan"], [ip |-> "B", discovery |-> "B"]}

MCEdits == {[ip |-> "B"], [discovery |-> "lan"], [name |-> "n"], [psk |-> "", ackRepeats |-> 12]}

MCSetups ==
  {[setupIp |-> "A", finalIp |-> "B"], [name |-> "n", finalDiscovery |-> "B"],
   [setupDiscovery |-> "lan", password |-> ""], [ackRepeats |-> 9, finalIp |-> "A"]}
=============================================================================
