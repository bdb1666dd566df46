--------------------------- MODULE AtomicResource ---------------------------
(***************************************************************************)
(* What a synchronised data object promises to the tasks annotated with    *)
(* it: every writing task reads and rewrites the whole object in one       *)
(* indivisible step, and every reading task that completes returns one     *)
(* value the object really had.  The object is two machine words wide, so  *)
(* a read is a pair and a torn read would be a pair of different words.    *)
(***************************************************************************)
CONSTANTS
    Readers,   \* workers that execute read-only tasks on the object
    Value,     \* what one word of the object can hold
    Modify,    \* the effect of a writing task, a function on Value
    Initial    \* the value the object is created with

VARIABLES
    value,     \* the object
    result     \* result[r]: the words a completed read returned, or NoResult

avars == <<value, result>>

NoResult == <<>>

AInit ==
    /\ value = Initial
    /\ result = [r \in Readers |-> NoResult]

(* A writing task takes effect. *)
AWrite ==
    /\ value' = Modify[value]
    /\ UNCHANGED result

(* A read-only task completes and has seen the object as it is now. *)
ARead(r) ==
    /\ result[r] = NoResult
    /\ result' = [result EXCEPT ![r] = <<value, value>>]
    /\ UNCHANGED value

(* The completed task is removed; its worker may take the next one. *)
AForget(r) ==
    /\ result[r] # NoResult
    /\ result' = [result EXCEPT ![r] = NoResult]
    /\ UNCHANGED value

ANext == AWrite \/ \E r \in Readers : ARead(r) \/ AForget(r)

ASpec == AInit /\ [][ANext]_avars
=============================================================================
