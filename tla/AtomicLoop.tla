------------------------------ MODULE AtomicLoop ------------------------------
(***************************************************************************)
(* What a threaded for loop promises to the program around it, without     *)
(* threads, slices and locks: each statement of the body takes effect once *)
(* for each index, as a whole, in the order of the body within one index   *)
(* and in any order between two, and the statement after the loop comes    *)
(* after all of them.                                                      *)
(***************************************************************************)
EXTENDS Integers, Sequences

CONSTANTS
  Indices,    \* the indices that the loop head describes
  Vars        \* the variables around the loop

VARIABLES
  body,       \* the variables that the statements of the body update, fixed
  val,        \* of each variable: the <<index, statement>> updates it contains
  ended       \* main goes on with the next statement

vars == <<body, val, ended>>

Made(i, k) == <<i, k>> \in val[body[k]]

Init ==
  /\ body \in Seq(Vars)
  /\ val = [x \in Vars |-> {}]
  /\ ended = FALSE

Update(i, k) ==
  /\ ~ended /\ ~Made(i, k)
  /\ \A j \in DOMAIN body : j < k => Made(i, j)
  /\ val' = [val EXCEPT ![body[k]] = @ \cup {<<i, k>>}]
  /\ UNCHANGED <<body, ended>>

End ==
  /\ ~ended
  /\ \A i \in Indices : \A k \in DOMAIN body : Made(i, k)
  /\ ended' = TRUE
  /\ UNCHANGED <<body, val>>

Next == End \/ \E i \in Indices : \E k \in DOMAIN body : Update(i, k)

Spec == Init /\ [][Next]_vars
===============================================================================
