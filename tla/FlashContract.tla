----------------------------- MODULE FlashContract -----------------------------
(***************************************************************************)
(* What a flash promises the owner of the module, whatever happens to the  *)
(* line, the module or the tool: partitions are written one after the      *)
(* other, each over the finished ones before it, a run reports success     *)
(* only when all of them are whole, and the module boots only then.        *)
(*                                                                         *)
(* "image" says what each partition, by its place in the file, holds: the  *)
(* old firmware, a torn image or a whole one, and the round that wrote it. *)
(***************************************************************************)
EXTENDS Integers

VARIABLES
  image,
  round,    \* which invocation of the tool is under way
  result,   \* running, complete, failed
  booted    \* the module runs its firmware

vars == <<image, round, result, booted>>

Old == [st |-> "old", round |-> 0]
Torn(r) == [st |-> "torn", round |-> r]
Whole(r) == [st |-> "whole", round |-> r]

Init ==
  /\ image = [i \in DOMAIN image |-> Old]
  /\ round = 1 /\ result = "running" /\ booted = FALSE

\* A partition is opened; what a round that failed left on the line may still arrive.
Write ==
  /\ result # "complete" /\ ~booted
  /\ \E r \in 1..round, i \in DOMAIN image :
       /\ \A j \in DOMAIN image : j < i => image[j] = Whole(r)
       /\ image' = [image EXCEPT ![i] = Torn(r)]
  /\ UNCHANGED <<round, result, booted>>

Finish ==
  /\ result # "complete" /\ ~booted
  /\ \E r \in 1..round, i \in DOMAIN image :
       image[i] = Torn(r) /\ image' = [image EXCEPT ![i] = Whole(r)]
  /\ UNCHANGED <<round, result, booted>>

Succeed ==
  /\ result = "running"
  /\ \A i \in DOMAIN image : image[i] = Whole(round)
  /\ result' = "complete"
  /\ UNCHANGED <<image, round, booted>>

Fail ==
  /\ result = "running" /\ result' = "failed"
  /\ UNCHANGED <<image, round, booted>>

Boot ==
  /\ ~booted /\ \A i \in DOMAIN image : image[i].st = "whole"
  /\ booted' = TRUE
  /\ UNCHANGED <<image, round, result>>

\* The owner starts over, or puts the module back into download mode.
Again ==
  /\ result # "running"
  /\ round' = round + 1 /\ result' = "running"
  /\ UNCHANGED <<image, booted>>

Revive ==
  /\ booted /\ result # "running" /\ booted' = FALSE
  /\ UNCHANGED <<image, round, result>>

Next == Write \/ Finish \/ Succeed \/ Fail \/ Boot \/ Again \/ Revive

Spec == Init /\ [][Next]_vars
=============================================================================
