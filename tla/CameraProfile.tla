---------------------------- MODULE CameraProfile ---------------------------
(***************************************************************************)
(* What requests make of the profile of one camera in bkcam-go/main.go:    *)
(* normalizeCamera, the defaults of CameraConfig, publicConfig with the    *)
(* form of the web interface, provisionCamera and setCameraProfileSize.    *)
(* CameraConfigStore has the locks, the file and the runtimes.             *)
(*                                                                         *)
(* A request gives some fields and not others.  A number or a switch that  *)
(* cannot be read counts as not given.                                     *)
(***************************************************************************)
EXTENDS Integers

CONSTANTS
  Id,        \* of the camera
  Files,     \* profiles that a configuration file may hold, by hand
  Bodies,    \* of POST and PATCH
  Edits,     \* what users change in the form
  Setups,    \* bodies of setup/provision
  Broadcast, \* 255.255.255.255
  Lan,       \* the broadcast address of the network of the gateway
  None

Texts == {"name", "ip", "discovery", "localAddress", "psk", "username", "password"}
Numbers == {"width", "height", "overlaySize", "ackRepeats"}
Switches == {"enabled", "avStream", "verbose"}  \* overlays are like verbose
Fields == Texts \cup Numbers \cup Switches

\* "" is an empty text, and a switch that is nil; 0 is a number that is not there.
Empty == [f \in Fields |-> IF f \in Numbers THEN 0 ELSE IF f = "verbose" THEN "no" ELSE ""]

\* A profile, or part of one.
IsPart(b) ==
  /\ DOMAIN b \subseteq Fields
  /\ \A f \in DOMAIN b : (f \in Numbers => b[f] \in Int) /\ (f \in Switches => b[f] \in {"yes", "no", ""})

SetupFields == {"setupIp", "setupDiscovery", "finalIp", "finalDiscovery"}

ASSUME InputAssumption ==
  /\ \A b \in Files \cup Bodies \cup Edits : IsPart(b)
  /\ \A b \in Setups : IsPart([f \in DOMAIN b \ SetupFields |-> b[f]])
  /\ \A c \in Files : DOMAIN c = Fields /\ c.overlaySize \in 0 .. 3 /\ c.ackRepeats \in 0 .. 9
ASSUME AddressAssumption == "" \notin {Broadcast, Lan}

VARIABLES
  cam,   \* the profile, None if there is no such camera
  asked  \* history: the fields that the last request was about

profile == <<cam, asked>>

\* Whatever requests give, numbers that have a range are stored within it.
ProfileTypeOK ==
  /\ cam = None \/
       /\ IsPart(cam) /\ DOMAIN cam = Fields
       /\ cam.overlaySize \in 0 .. 3 /\ cam.ackRepeats \in 0 .. 9
  /\ asked \subseteq Fields

ProfileInit == cam \in Files \cup {None} /\ asked = {}

-----------------------------------------------------------------------------
Or(text, default) == IF text = "" THEN default ELSE text

Clamp(n, low, high) == IF n < low THEN low ELSE IF n > high THEN high ELSE n

\* What the program uses: name(), psk(), width(), enabled() and so on.
Effective(c, f) ==
  CASE f = "name" -> Or(c.name, Id)
    [] f = "discovery" -> Or(c.discovery, Or(c.ip, Broadcast))
    [] f = "psk" -> Or(c.psk, "SHIX")
    [] f = "username" -> Or(c.username, "admin")
    [] f = "password" -> Or(c.password, "6666")
    [] f = "width" -> (IF c.width > 0 THEN c.width ELSE 640)
    [] f = "height" -> (IF c.height > 0 THEN c.height ELSE 480)
    [] f = "overlaySize" -> Clamp(c.overlaySize, 1, 3)
    [] f = "ackRepeats" -> (IF c.ackRepeats < 1 THEN 3 ELSE Clamp(c.ackRepeats, 1, 9))
    [] f \in {"enabled", "avStream"} -> Or(c[f], "yes")
    [] OTHER -> c[f]

\* An empty password is none; other texts may be emptied.
Given(b) == {f \in DOMAIN b : f = "password" => b[f] # ""}

\* The address to search at follows the IP, until there is one.
BugDefault(c, ip, f) ==
  IF f = "discovery" THEN Or(ip, Or(c.discovery, Broadcast)) ELSE Effective(c, f)

Default(c, ip, f) ==
  IF f = "discovery" THEN Or(c.discovery, Or(ip, Broadcast)) ELSE Effective(c, f)

BugWithinRange(c) == [c EXCEPT !.overlaySize = Clamp(@, 1, 3)]

WithinRange(c) == [c EXCEPT !.overlaySize = Clamp(@, 1, 3), !.ackRepeats = Clamp(@, 1, 9)]

NormalizeCamera(c, b) ==
  LET ip == IF "ip" \in DOMAIN b THEN b.ip ELSE c.ip IN
  WithinRange([f \in Fields |-> IF f \in Given(b) THEN b[f] ELSE Default(c, ip, f)])

Accepted(c) == c.ip # "" \/ c.discovery # ""

\* publicConfig gives what is in effect, but the addresses as they are stored.
Public(c, f) == IF f = "discovery" THEN c.discovery ELSE Effective(c, f)

\* In a section of the form that may be closed.
Expert == {"localAddress", "psk", "username", "password", "ackRepeats"}

\* The form shows the profile but the password, and sends no empty fields and none
\* of those that a closed section hides.
Form(c, hidden) ==
  LET sent == {f \in Fields \ (hidden \cup {"password", "verbose"}) :
                 f \in Numbers \/ Public(c, f) # ""} IN
  [f \in sent |-> Public(c, f)]

Override(b, e) ==
  [f \in DOMAIN b \cup DOMAIN e |-> IF f \in DOMAIN e THEN e[f] ELSE b[f]]

Get(b, f, default) == IF f \in Given(b) THEN b[f] ELSE default

\* provisionCamera talks to the camera with this profile, before it is in its network.
SetupCamera(c, b) ==
  LET ip == Get(b, "setupIp", "") IN
  NormalizeCamera(c, [f \in Fields |->
    CASE f = "ip" -> ip
      [] f = "discovery" -> Get(b, "setupDiscovery", Or(ip, Broadcast))
      [] f = "enabled" -> "yes"
      [] OTHER -> Get(b, f, Effective(c, f))])

\* And stores this one.
FinalCamera(setup, b) ==
  LET ip == Get(b, "finalIp", "") IN
  NormalizeCamera(setup,
    [name |-> setup.name, ip |-> ip,
     discovery |-> Get(b, "finalDiscovery", Or(ip, Lan)), enabled |-> "yes"])

-----------------------------------------------------------------------------
(* Requests that succeed; the others change nothing.                         *)

Stores(c, fields) == Accepted(c) /\ cam' = c /\ asked' = fields

PostProfile(b) == cam = None /\ Stores(NormalizeCamera(Empty, b), Fields)

\* To change the IP changes the address to search at if that was never given.
About(b) ==
  Given(b) \cup (IF "ip" \in DOMAIN b /\ cam.discovery = "" THEN {"discovery"} ELSE {})

PatchProfile(b) == cam # None /\ Stores(NormalizeCamera(cam, b), About(b))

\* The form was filled from the profile and sends back what the user left alone, too.
SavesForm(e) ==
  /\ cam # None
  /\ \E hidden \in {{}, Expert} :
       /\ DOMAIN e \cap hidden = {}
       /\ Stores(NormalizeCamera(cam, Override(Form(cam, hidden), e)), About(e))

Provision(b) ==
  LET setup == SetupCamera(IF cam = None THEN Empty ELSE cam, b) IN
  /\ Accepted(setup)
  /\ Stores(FinalCamera(setup, b),
            (Given(b) \cap Fields) \cup {"ip", "discovery", "enabled"})

SetCameraProfileSize(width, height) ==
  /\ cam # None
  /\ cam' = [cam EXCEPT !.width = width, !.height = height]
  /\ asked' = {"width", "height"}

DeleteProfile == cam # None /\ cam' = None /\ asked' = Fields

ProfileNext ==
  \/ \E b \in Bodies : PostProfile(b) \/ PatchProfile(b)
  \/ \E e \in Edits : SavesForm(e)
  \/ \E b \in Setups : Provision(b)
  \/ SetCameraProfileSize(640, 480) \/ SetCameraProfileSize(320, 240)
  \/ DeleteProfile

ProfileSpec == ProfileInit /\ [][ProfileNext]_profile

-----------------------------------------------------------------------------
(* Properties.                                                               *)

\* PATCH, the form and provisioning leave everything in effect that they are not
\* about, although they store defaults, fill fields from one another and pass the
\* whole profile through the form: a profile written by hand stays what it means.
OnlyWhatIsAsked ==
  [][cam # None /\ cam' # None =>
       \A f \in Fields \ asked' : Effective(cam', f) = Effective(cam, f)]_profile
=============================================================================
