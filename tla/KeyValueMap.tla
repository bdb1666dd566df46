---------------------------- MODULE KeyValueMap ----------------------------
(* What the tree promises to its clients: a map from keys to values on which *)
(* every request takes effect in one instant between its call and its        *)
(* answer.  Of a key that is not in the map the tree promises nothing but an *)
(* answer (a lookup then reports whatever its task's value field held).      *)
CONSTANTS Keys, Values, Requests

VARIABLES
    store,   \* value of every key, Absent without one
    call,    \* tuple each request asks for, NoCall while it is not in use
    answer   \* answer of each request, Pending before its effect

Absent == "absent"
NoCall == [op |-> "none"]
Pending == "pending"

mvars == <<store, call, answer>>

MInit ==
    /\ store = [k \in Keys |-> Absent]
    /\ call = [r \in Requests |-> NoCall]
    /\ answer = [r \in Requests |-> Pending]

MCall(r, tuple) ==
    /\ call[r] = NoCall
    /\ call' = [call EXCEPT ![r] = tuple]
    /\ UNCHANGED <<store, answer>>

MAnswer(r) ==
    /\ call[r] # NoCall /\ answer[r] = Pending
    /\ LET k == call[r].key
           here == store[k] # Absent
       IN  \/ /\ call[r].op = "insert"
              /\ store' = IF here THEN store ELSE [store EXCEPT ![k] = call[r].value]
              /\ answer' = [answer EXCEPT ![r] = "inserted"]
           \/ /\ call[r].op = "update"
              /\ store' = IF here THEN [store EXCEPT ![k] = call[r].value] ELSE store
              /\ \E a \in {"updated", "missing"} :
                    /\ here => a = "updated"
                    /\ answer' = [answer EXCEPT ![r] = a]
           \/ /\ call[r].op = "lookup"
              /\ \E v \in Values :
                    /\ here => v = store[k]
                    /\ answer' = [answer EXCEPT ![r] = v]
              /\ UNCHANGED store
    /\ UNCHANGED call

(* Between two phases all requests have their answers and are forgotten; the *)
(* map is kept for the next phase or deleted after the last.                 *)
MForget ==
    /\ \A r \in Requests : call[r] # NoCall => answer[r] # Pending
    /\ call' = [r \in Requests |-> NoCall]
    /\ answer' = [r \in Requests |-> Pending]
    /\ store' \in {store, [k \in Keys |-> Absent]}

MNext ==
    \/ \E r \in Requests, op \in {"insert", "update", "lookup"}, k \in Keys, v \in Values :
          MCall(r, [op |-> op, key |-> k, value |-> v])
    \/ \E r \in Requests : MAnswer(r)
    \/ MForget

MSpec == MInit /\ [][MNext]_mvars
=============================================================================
