------------------------------ MODULE ModelCall ------------------------------
(***************************************************************************)
(* What a node relies on when it calls a language model: the call answers  *)
(* or raises, after at most four tries; it is tried again only after a     *)
(* failure that is worth another try, and is given up only when none is    *)
(* left or the last failure was not.                                       *)
(***************************************************************************)
EXTENDS Integers

MaxTries == 4

VARIABLES
  phase,     \* "none", "asking", "answered" or "raised".
  tries,     \* Tries of the current call.
  hopeful    \* The last try failed in a way that may pass.

vars == <<phase, tries, hopeful>>

Init == phase = "none" /\ tries = 0 /\ hopeful = FALSE

\* A call that finds no client to use has raised before its first try.
Ask ==
  /\ phase # "asking"
  /\ phase' \in {"asking", "raised"}
  /\ tries' = 0
  /\ hopeful' = FALSE

MayTry == phase = "asking" /\ tries < MaxTries /\ (tries > 0 => hopeful)

Answer ==
  /\ MayTry
  /\ phase' = "answered"
  /\ tries' = tries + 1
  /\ hopeful' = FALSE

FailForNow ==
  /\ MayTry
  /\ tries + 1 < MaxTries
  /\ tries' = tries + 1
  /\ hopeful' = TRUE
  /\ UNCHANGED phase

GiveUp ==
  /\ MayTry
  /\ phase' = "raised"
  /\ tries' = tries + 1
  /\ hopeful' \in {FALSE, tries' = MaxTries}

Progress == Answer \/ FailForNow \/ GiveUp

Next == Ask \/ Progress

Spec == Init /\ [][Next]_vars

\* A call in progress comes to an end; nobody has to place one.
FairSpec == Spec /\ WF_vars(Progress)

===============================================================================
