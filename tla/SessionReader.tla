--------------------------- MODULE SessionReader ---------------------------
(***************************************************************************)
(* What a subscription promises its consumer: it reads the session's       *)
(* events one after another, none skipped and none repeated, except that   *)
(* it may be told to refetch everything up to a later event.  It never     *)
(* reads an event that was not published, and nothing after the end.       *)
(***************************************************************************)
EXTENDS Naturals

VARIABLES
  published, \* events of the session
  read,      \* the event the consumer has read up to
  heard      \* what it read last: an "event", a "replaced" notice or the "end"

vars == <<published, read, heard>>

Init == published = 0 /\ read = 0 /\ heard = "event"

Publish == published' = published + 1 /\ UNCHANGED <<read, heard>>

ReadNext ==
  /\ heard # "end" /\ read < published
  /\ read' = read + 1 /\ heard' = "event" /\ UNCHANGED published

Refetch ==
  /\ heard # "end"
  /\ read' \in read..published /\ heard' = "replaced" /\ UNCHANGED published

End == heard # "end" /\ heard' = "end" /\ UNCHANGED <<published, read>>

Next == Publish \/ ReadNext \/ Refetch \/ End

Spec == Init /\ [][Next]_vars
=============================================================================
