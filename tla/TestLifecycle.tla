--------------------------- MODULE TestLifecycle ---------------------------
(***************************************************************************)
(* What the results store promises about the life of a test, whatever the  *)
(* services that write to it do and in whatever order their calls arrive:  *)
(* a cancel or a failure only ever ends a test that was pending or running,*)
(* a stored result is not lost to a later status, and 'completed' is never *)
(* shown without one.  Retention and data erasure, which delete whole rows *)
(* on purpose, are outside this picture.                                   *)
(***************************************************************************)
EXTENDS TestStore

CONSTANT Tests

VARIABLE row

LifecycleInit == row = [t \in Tests |-> NoRow]

Becomes(t, status) ==
    row' = [row EXCEPT ![t].status = status]

Appear(t) == row[t].status = "absent" /\ Becomes(t, "pending")

Begin(t)  == row[t].status # "absent" /\ Becomes(t, "running")

End(t)    == /\ row[t].status \in Active
             /\ Becomes(t, "failed") \/ Becomes(t, "cancelled")

Record(t) ==
    row' = [row EXCEPT ![t] = [status |-> "completed", metrics |-> TRUE]]

LifecycleNext ==
    \E t \in Tests : Appear(t) \/ Begin(t) \/ End(t) \/ Record(t)

Lifecycle == LifecycleInit /\ [][LifecycleNext]_row
=============================================================================
