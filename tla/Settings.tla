------------------------------ MODULE Settings ------------------------------
(***************************************************************************)
(* What a profile promises to its users: a map from keys (a parameter in a *)
(* token) to values, read and written atomically by calls that may fail    *)
(* and then have changed nothing.  A process that dies loses nothing, or   *)
(* everything if a write was going on.  Two promises it does not make: a   *)
(* read of a setting that is missing may answer anything, and a write may  *)
(* miss what is there; then it is lost if its token was known, although it *)
(* answers that it was done.  A value that may be missing is a set of at   *)
(* most one.                                                               *)
(***************************************************************************)
CONSTANTS Callers, Keys, Values

VARIABLES
  store,   (* of each key, its value                                       *)
  phase,   (* of each caller: "idle", "asked", "missed" or "answered"      *)
  request, (* ... <<"read", key>> or <<"write", key, value>>               *)
  answer   (* ... the value read or written, missing if the call failed    *)

vars == <<store, phase, request, answer>>

Requests == ({"read"} \X Keys) \union ({"write"} \X Keys \X Values)

NoCalls ==
  /\ phase = [c \in Callers |-> "idle"]
  /\ request = [c \in Callers |-> <<>>]
  /\ answer = [c \in Callers |-> {}]

Init == NoCalls /\ store = [k \in Keys |-> {}]

Ask(c) ==
  /\ phase[c] = "idle"
  /\ phase' = [phase EXCEPT ![c] = "asked"]
  /\ \E r \in Requests : request' = [request EXCEPT ![c] = r]
  /\ UNCHANGED <<store, answer>>

Answered(c, value) ==
  /\ phase[c] \in {"asked", "missed"}
  /\ phase' = [phase EXCEPT ![c] = "answered"]
  /\ answer' = [answer EXCEPT ![c] = value]
  /\ UNCHANGED request

Get(c) ==
  /\ phase[c] = "asked" /\ request[c][1] = "read"
  /\ Answered(c, answer'[c])
  /\ store[request[c][2]] # {} => answer'[c] = store[request[c][2]]
  /\ UNCHANGED store

Writing(c) == phase[c] \in {"asked", "missed"} /\ request[c][1] = "write"

Miss(c) ==
  /\ Writing(c)
  /\ phase' = [phase EXCEPT ![c] = "missed"]
  /\ UNCHANGED <<store, request, answer>>

Lost(c) ==
  phase[c] = "missed" /\ \E l \in Keys : l[1] = request[c][2][1] /\ store[l] # {}

Put(c) ==
  /\ Writing(c)
  /\ Answered(c, {request[c][3]})
  /\ store' = IF Lost(c) THEN store ELSE [store EXCEPT ![request[c][2]] = {request[c][3]}]

Fail(c) == Answered(c, {}) /\ UNCHANGED store

Return(c) ==
  /\ phase[c] = "answered"
  /\ phase' = [phase EXCEPT ![c] = "idle"]
  /\ request' = [request EXCEPT ![c] = <<>>]
  /\ answer' = [answer EXCEPT ![c] = {}]
  /\ UNCHANGED store

Die ==
  /\ NoCalls'
  /\ \/ store' = store
     \/ store' = [k \in Keys |-> {}] /\ \E c \in Callers : Writing(c)

Next ==
  \/ Die
  \/ \E c \in Callers : Ask(c) \/ Get(c) \/ Miss(c) \/ Put(c) \/ Fail(c) \/ Return(c)

Spec == Init /\ [][Next]_vars

=============================================================================
