------------------------------ MODULE BufQueue ------------------------------
(***************************************************************************)
(* What a virtqueue promises to the driver that adds buffers to it and to  *)
(* the device that uses them: the device meets the buffers in the order    *)
(* they were added, each as it was added, and the driver gets each back    *)
(* once, in the order the device finished with them.                       *)
(***************************************************************************)
EXTENDS Sequences

CONSTANT Buffer   \* a buffer: the sequence of its parts

VARIABLES
  waiting,  \* added, not yet met by the device
  held,     \* the device works on them
  done,     \* finished, not yet returned to the driver
  lent      \* the driver has them not

vars == <<lent, waiting, held, done>>

Init == lent = {} /\ waiting = <<>> /\ held = {} /\ done = <<>>

\* The driver lends b; the device may see it at once or a little later
Lend ==
  /\ \E b \in Buffer \ lent : lent' = lent \cup {b}
  /\ UNCHANGED <<waiting, held, done>>

Queued == {waiting[k] : k \in DOMAIN waiting} \cup held
            \cup {done[k] : k \in DOMAIN done}

Add ==
  /\ \E b \in lent \ Queued : waiting' = Append(waiting, b)
  /\ UNCHANGED <<lent, held, done>>

Take ==
  /\ waiting # <<>>
  /\ held' = held \cup {Head(waiting)}
  /\ waiting' = Tail(waiting)
  /\ UNCHANGED <<lent, done>>

Use ==
  /\ \E b \in held :
       /\ held' = held \ {b}
       /\ done' = Append(done, b)
  /\ UNCHANGED <<lent, waiting>>

Get ==
  /\ done # <<>>
  /\ lent' = lent \ {Head(done)}
  /\ done' = Tail(done)
  /\ UNCHANGED <<waiting, held>>

Next == Lend \/ Add \/ Take \/ Use \/ Get

Spec == Init /\ [][Next]_vars
=============================================================================
