---------------------------- MODULE CommandCalls ----------------------------
(***************************************************************************)
(* What commandWithResponse promises its callers.  A call asks for an      *)
(* answer to a command number.  An answer goes to every call that is open  *)
(* for its number when it comes in, and to no other; a call ends with the  *)
(* answer it has been offered, or with a timeout or an error.  A change of *)
(* the configuration may make open calls deaf to what comes in later.      *)
(***************************************************************************)
CONSTANTS Handlers, Cmds, Answers, None

VARIABLES
  want,    \* the command number a handler waits for
  offer,   \* the first answer that came in since
  deaf,    \* handlers whose calls no answer reaches any more
  result   \* what the last call returned

Init ==
  /\ want = [h \in Handlers |-> None]
  /\ offer = [h \in Handlers |-> None]
  /\ deaf = {}
  /\ result = [h \in Handlers |-> None]

Open(h, c) ==
  /\ want[h] = None
  /\ want' = [want EXCEPT ![h] = c]
  /\ deaf' = deaf \ {h}
  /\ UNCHANGED <<offer, result>>

Refuse(h) ==
  /\ want[h] = None
  /\ result' = [result EXCEPT ![h] = "error"]
  /\ UNCHANGED <<want, offer, deaf>>

Arrive(c, a) ==
  /\ offer' = [h \in Handlers |->
                 IF want[h] = c /\ offer[h] = None /\ h \notin deaf THEN a ELSE offer[h]]
  /\ UNCHANGED <<want, deaf, result>>

Close(h) ==
  /\ want[h] # None
  /\ \E r \in ({offer[h]} \ {None}) \cup {"timeout", "error"} :
       result' = [result EXCEPT ![h] = r]
  /\ want' = [want EXCEPT ![h] = None]
  /\ offer' = [offer EXCEPT ![h] = None]
  /\ UNCHANGED deaf

Deafen ==
  /\ deaf' = deaf \cup {h \in Handlers : want[h] # None /\ offer[h] = None}
  /\ UNCHANGED <<want, offer, result>>

Next ==
  \/ \E h \in Handlers : Refuse(h) \/ Close(h) \/ \E c \in Cmds : Open(h, c)
  \/ \E c \in Cmds, a \in Answers : Arrive(c, a)
  \/ Deafen

Spec == Init /\ [][Next]_<<want, offer, deaf, result>>
=============================================================================
