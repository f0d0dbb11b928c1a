----------------------------- MODULE FixtureStore -----------------------------
(* What a fixture directory promises to whoever reads it: at any moment it     *)
(* either does not verify, or is exactly what one finished export wrote.  An   *)
(* export that fails may take the fixture away; nothing may put one there that *)
(* no export finished.                                                         *)
CONSTANTS Contents          \* what an export can record of its files

VARIABLES
  fixture,                  \* the content a reader verifies, or None
  finished                  \* the contents of all finished exports

CONSTANT None

Init == fixture = None /\ finished = {}

\* An export finishes: its content is the fixture from now on.
Finish == fixture' \in Contents /\ finished' = finished \union {fixture'}

\* An export under way, or one that failed, overwrote a file of the fixture.
Spoil == fixture # None /\ fixture' = None /\ UNCHANGED finished

\* A later export wrote the same bytes again: the older manifest is true again.
Restore == fixture = None /\ fixture' \in finished /\ UNCHANGED finished

Next == Finish \/ Spoil \/ Restore
Spec == Init /\ [][Next]_<<fixture, finished>>

\* A fixture that verifies is one a finished export wrote.
OnlyFinished == fixture # None => fixture \in finished
================================================================================
