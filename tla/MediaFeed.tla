----------------------------- MODULE MediaFeed -----------------------------
(***************************************************************************)
(* What a viewer or listener of a camera is promised: pieces of the        *)
(* stream, numbered as they come in, may be left out but come in order.    *)
(* Only the first thing a viewer sees may be a preview, newer than what    *)
(* the pipeline hands out next.                                            *)
(***************************************************************************)
EXTENDS Naturals

CONSTANT Clients

VARIABLES
  newest,   \* the number of the newest piece
  seen,     \* the last piece a client has got, 0 if none
  preview,  \* clients that may see the stream step back once
  ordered   \* the source has kept order so far

Init == newest = 0 /\ seen = [c \in Clients |-> 0] /\ preview = {} /\ ordered = TRUE

Arrive == newest' = newest + 1 /\ ordered' \in {ordered, FALSE} /\ UNCHANGED <<seen, preview>>

Preview(c) == seen[c] = 0 /\ preview' = preview \cup {c} /\ UNCHANGED <<newest, seen, ordered>>

Show(c) ==
  \E n \in 1 .. newest :
    /\ n > seen[c] \/ c \in preview \/ ~ordered
    /\ seen' = [seen EXCEPT ![c] = n]
    /\ preview' = IF seen[c] = 0 THEN preview ELSE preview \ {c}
    /\ UNCHANGED <<newest, ordered>>

\* The other half of the source, which has an order of its own, loses it for both.
Disorder == ordered' = FALSE /\ UNCHANGED <<newest, seen, preview>>

Next == Arrive \/ Disorder \/ \E c \in Clients : Preview(c) \/ Show(c)

Spec == Init /\ [][Next]_<<newest, seen, preview, ordered>>
=============================================================================
