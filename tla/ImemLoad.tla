------------------------------ MODULE ImemLoad ------------------------------
(***************************************************************************)
(* What loading a program promises, without the byte-serial debug port:    *)
(* the lines of the image are stored whole, in order and once each, each   *)
(* in its cell and nowhere else, and the core is released to fetch only    *)
(* when all of them were stored.  Loading can fail, but not halfway.       *)
(***************************************************************************)
EXTENDS Naturals, Sequences

CONSTANT CellOf(_)   \* the cell a line is fetched from

VARIABLES
  image,   \* the lines to load
  memory,  \* the instruction memory
  stored,  \* the number of lines stored
  ready,   \* may the core fetch?
  failed   \* was there no image to load?

vars == <<image, memory, stored, ready, failed>>

Init ==
  /\ stored = 0
  /\ ready = FALSE
  /\ failed = FALSE

Fail ==
  /\ ~ failed /\ ~ ready /\ stored = 0
  /\ failed' = TRUE
  /\ UNCHANGED <<image, memory, stored, ready>>

(* A cell outside the memory takes nothing; a memory that is too small is  *)
(* written over from its start.                                            *)
StoreLine ==
  /\ ~ failed
  /\ stored < Len(image)
  /\ stored' = stored + 1
  /\ memory' = [c \in DOMAIN memory |-> IF c = CellOf(stored') THEN image[stored']
                                                             ELSE memory[c]]
  /\ UNCHANGED <<image, ready, failed>>

Release ==
  /\ ~ ready /\ ~ failed
  /\ stored = Len(image)
  /\ ready' = TRUE
  /\ UNCHANGED <<image, memory, stored, failed>>

Next == Fail \/ StoreLine \/ Release

Spec == Init /\ [][Next]_vars /\ WF_vars(Next)
=============================================================================
