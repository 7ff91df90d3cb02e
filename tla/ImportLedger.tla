---------------------------- MODULE ImportLedger ----------------------------
(***************************************************************************)
(* What importing promises: the canonical data of a workspace changes only *)
(* by whole imports, one at a time, each applied to what the one before it *)
(* left.  Nothing of a file that did not succeed, of a transaction cut     *)
(* short or of another import under way can be seen in the data.           *)
(***************************************************************************)
EXTENDS CanonicalImport

CONSTANTS
  Arrival,   \* what may be imported: hotel, domain, file as it was read, local date
  Number,    \* the numbers sources get
  Job        \* the numbers jobs get

VARIABLES canonical, registry

ledger == <<canonical, registry>>

Init == canonical = {} /\ registry = EmptyRegistry

\* One import of a file that can be read whole, in one step.
Import(arrival, s, job) ==
  LET change == ChangeOf(canonical, registry, s, arrival, job, arrival.file, arrival.day)
  IN /\ FileError(arrival.domain, arrival.file, arrival.file.layout) = None
     /\ change.error = None
     /\ canonical' = Written(canonical, change)
     /\ registry' = change.registry

\* An import of what is there already changes nothing: it is a stutter.
Next ==
  /\ ledger' # ledger
  /\ \E arrival \in Arrival, s \in Number, job \in Job :
       Import(arrival, s, job)

Spec == Init /\ [][Next]_ledger
=============================================================================
