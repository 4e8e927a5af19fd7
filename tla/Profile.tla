------------------------------ MODULE Profile ------------------------------
(***************************************************************************)
(* read_profile and write_profile of profiles_management.c, called by      *)
(* several threads of one process on one file: a mutex that the first call *)
(* initializes, the file read as a whole, and written by truncating it and *)
(* writing it again.                                                       *)
(*                                                                         *)
(* A step is one access to lock_init, the mutex or the file.  A file is    *)
(* smaller than a stdio buffer, so that the fwrites of a call reach it     *)
(* together, when it is closed.                                            *)
(***************************************************************************)
EXTENDS ProfileText

CONSTANTS
  Callers,   (* threads                                                    *)
  Nobody,    (* not a thread                                               *)
  Keys,      (* pairs of a token and a parameter                           *)
  Values,
  Tails,     (* what may lie in memory behind a buffer, up to a NUL: the   *)
             (* text of a buffer that was freed, for one                   *)
  MaxText    (* bound: no write begins on a longer text                    *)

ASSUME CallersAssumption == Nobody \notin Callers
ASSUME BoundsAssumption == MaxText \in Nat

(* Names that the searches cannot mistake, as webrtc_aec.cpp has them: no   *)
(* name and no value has a mark in it; a token is no part of another one,   *)
(* of another one's parameters, or of a value; "parameter=" is no part of   *)
(* another parameter's of the token.                                        *)
Marks  == {"[", "]", "=", "\n"}
Words  == STRING \ Marks
Pieces == Words \union Marks
Plain(name) == name \in Seq(Words)
Occurs(what, text) == \E i \in 1 .. Len(text) : At(text, what, i)

WellNamed ==
  /\ \A k \in Keys :
       k = <<k[1], k[2]>> /\ Plain(k[1]) /\ Plain(k[2]) /\ <<>> \notin {k[1], k[2]}
  /\ \A value \in Values : Plain(value)
  /\ \A k, l \in Keys : k[1] # l[1] => ~Occurs(k[1], l[1]) /\ ~Occurs(k[1], l[2])
  /\ \A k \in Keys, value \in Values : ~Occurs(k[1], value)
  /\ \A k, l \in Keys :
       k[1] = l[1] /\ k[2] # l[2] => ~Occurs(Append(k[2], "="), Append(l[2], "="))

ASSUME NamesAssumption == WellNamed
ASSUME TailsAssumption == Tails \subseteq Seq(Pieces)

VARIABLES
  file, exists, (* on disk                                                 *)
  lock_init,
  mutex,        (* the thread that holds it, or Nobody                     *)
  pc, request, answer, file_buffer, (* of each thread                      *)
  raced         (* history: a thread found lock_init unset while another   *)
                (* was about to set it                                     *)

disk    == <<file, exists>>
lock    == <<lock_init, mutex>>
threads == <<pc, request, answer, file_buffer>>
vars    == <<disk, lock, threads, raced>>

Fresh(value) == [c \in Callers |-> value]

Init ==
  /\ file = <<>> /\ exists = FALSE
  /\ lock_init = FALSE /\ mutex = Nobody /\ raced = FALSE
  /\ pc = Fresh("idle") /\ request = Fresh(<<>>) /\ answer = Fresh({})
  /\ file_buffer = Fresh(<<>>)

Op(c)        == request[c][1]
Token(c)     == request[c][2][1]
Parameter(c) == request[c][2][2]
Value(c)     == request[c][3]

Goto(c, from, to) ==
  /\ pc[c] = from
  /\ pc' = [pc EXCEPT ![c] = to]

-----------------------------------------------------------------------------
(* A call: profile_lock ... *)

Requests == ({"read"} \X Keys) \union ({"write"} \X Keys \X Values)

Call(c, r) ==
  /\ r[1] = "write" => \A text \in {file} \union {file_buffer[d] : d \in Callers} :
                         Len(text) <= MaxText
  /\ Goto(c, "idle", "check")
  /\ request' = [request EXCEPT ![c] = r]
  /\ UNCHANGED <<disk, lock, answer, file_buffer, raced>>

(* Mutant: the mutex is initialized by every call. *)
CheckNothing(c) ==
  /\ Goto(c, "check", "init")
  /\ raced' = (raced \/ (~lock_init /\ \E d \in Callers : pc[d] \in {"init", "set"}))
  /\ UNCHANGED <<disk, lock, request, answer, file_buffer>>

CheckInit(c) ==
  /\ Goto(c, "check", IF lock_init THEN "lock" ELSE "init")
  /\ raced' = (raced \/ (~lock_init /\ \E d \in Callers : pc[d] \in {"init", "set"}))
  /\ UNCHANGED <<disk, lock, request, answer, file_buffer>>

(* Whoever holds the mutex holds it no more. *)
InitMutex(c) ==
  /\ Goto(c, "init", "set")
  /\ mutex' = Nobody
  /\ UNCHANGED <<disk, lock_init, request, answer, file_buffer, raced>>

SetInit(c) ==
  /\ Goto(c, "set", "lock")
  /\ lock_init' = TRUE
  /\ UNCHANGED <<disk, mutex, request, answer, file_buffer, raced>>

Lock(c) ==
  /\ mutex = Nobody
  /\ Goto(c, "lock", "load")
  /\ mutex' = c
  /\ UNCHANGED <<disk, lock_init, request, answer, file_buffer, raced>>

(* ... and profile_unlock. *)
Unlock(c) ==
  /\ Goto(c, "unlock", "idle")
  /\ mutex' = Nobody
  /\ request' = [request EXCEPT ![c] = <<>>]
  /\ answer' = [answer EXCEPT ![c] = {}]
  /\ file_buffer' = [file_buffer EXCEPT ![c] = <<>>]
  /\ UNCHANGED <<disk, lock_init, raced>>

-----------------------------------------------------------------------------
(* read_profile and write_profile between them. *)

Answer(c, value) == answer' = [answer EXCEPT ![c] = value]

(* read_profile takes the whole file into a buffer without a NUL behind it  *)
(* and looks for the parameter, there and beyond.                           *)
Read(c) ==
  /\ Goto(c, "load", "unlock")
  /\ Op(c) = "read"
  /\ IF exists
       THEN \E tail \in Tails :
              Answer(c, ReadValue(file \o tail, Token(c), Parameter(c)))
       ELSE Answer(c, {})
  /\ UNCHANGED <<disk, lock, request, file_buffer, raced>>

(* Mutant: a parameter that is not there is created by the read. *)
LoadAny(c) ==
  /\ \E text \in {file, <<>>} :
       /\ Goto(c, "load", IF SectionStart(text, Token(c)) # NULL THEN "truncate" ELSE "append")
       /\ file_buffer' = [file_buffer EXCEPT ![c] = text]
  /\ UNCHANGED <<disk, lock, request, answer, raced>>

(* write_profile takes the whole file and looks for the token: in nothing,  *)
(* if it cannot open the file for update, be it missing or not ...          *)
Load(c) ==
  /\ pc[c] = "load" /\ Op(c) = "write"
  /\ \E text \in {file, <<>>} :
       /\ Goto(c, "load", IF SectionStart(text, Token(c)) # NULL THEN "truncate" ELSE "append")
       /\ file_buffer' = [file_buffer EXCEPT ![c] = text]
  /\ UNCHANGED <<disk, lock, request, answer, raced>>

(* ... not found, a new section is appended (fopen "a+"), whatever the file *)
(* has in it ...                                                            *)
AppendSection(c) ==
  /\ Goto(c, "append", "unlock")
  /\ file' = file \o NewSection(Token(c), Parameter(c), Value(c))
  /\ exists' = TRUE
  /\ Answer(c, {Value(c)})
  /\ UNCHANGED <<lock, request, file_buffer, raced>>

(* ... found, the file is emptied (fopen "w+") ...                          *)
Truncate(c) ==
  /\ Goto(c, "truncate", "store")
  /\ file' = <<>> /\ exists' = TRUE
  /\ UNCHANGED <<lock, request, answer, file_buffer, raced>>

(* ... and written again from its beginning.                                *)
Store(c) ==
  /\ Goto(c, "store", "unlock")
  /\ LET new == Written(file_buffer[c], Token(c), Parameter(c), Value(c))
     IN  file' = new \o SubSeq(file, Len(new) + 1, Len(file))
  /\ Answer(c, {Value(c)})
  /\ UNCHANGED <<exists, lock, request, file_buffer, raced>>

(* Mutant: an error path that returns without profile_unlock. *)
FailLocked(c) ==
  /\ Goto(c, "load", "idle")
  /\ request' = [request EXCEPT ![c] = <<>>]
  /\ UNCHANGED <<disk, lock, answer, file_buffer, raced>>

(* No memory, or the file cannot be measured (load), or opened: for reading *)
(* (load), to append or to be emptied.                                      *)
Fail(c) ==
  /\ \E from \in {"load", "append", "truncate"} : Goto(c, from, "unlock")
  /\ Answer(c, {})
  /\ UNCHANGED <<disk, lock, request, file_buffer, raced>>

(* The process dies; the file stays as it is. *)
Die ==
  /\ lock_init' = FALSE /\ mutex' = Nobody /\ raced' = FALSE
  /\ pc' = Fresh("idle") /\ request' = Fresh(<<>>) /\ answer' = Fresh({})
  /\ file_buffer' = Fresh(<<>>)
  /\ UNCHANGED disk

-----------------------------------------------------------------------------
Body(c) == Read(c) \/ Load(c) \/ AppendSection(c) \/ Truncate(c) \/ Store(c) \/ Fail(c)
Goes(c) == CheckInit(c) \/ InitMutex(c) \/ SetInit(c) \/ Lock(c) \/ Unlock(c) \/ Body(c)
Next    == Die \/ \E c \in Callers : Goes(c) \/ \E r \in Requests : Call(c, r)

Spec == Init /\ [][Next]_vars

-----------------------------------------------------------------------------
(* Properties. *)

Inside == {"load", "append", "truncate", "store", "unlock"}

TypeOK ==
  /\ exists \in BOOLEAN /\ lock_init \in BOOLEAN /\ raced \in BOOLEAN
  /\ mutex \in Callers \union {Nobody}
  /\ pc \in [Callers -> {"idle", "check", "init", "set", "lock"} \union Inside]
  /\ request \in [Callers -> Requests \union {<<>>}]
  /\ \A c \in Callers : pc[c] # "idle" => request[c] \in Requests
  /\ \A c \in Callers : pc[c] \in {"append", "truncate", "store"} => Op(c) = "write"

(* The lazily initialized mutex keeps the threads apart, unless a thread    *)
(* came to profile_lock while another was initializing it.                  *)
OneInsideUnlessRaced ==
  \/ raced
  \/ \A c, d \in Callers : pc[c] \in Inside /\ pc[d] \in Inside => c = d

(* No path through a call, of those that fail neither, keeps the mutex. *)
HolderIsInside == mutex # Nobody => pc[mutex] \in Inside

(* While the file is being written again its settings are in the buffer. *)
Kept ==
  IF \E c \in Callers : pc[c] = "store"
    THEN file_buffer[CHOOSE c \in Callers : pc[c] = "store"]
    ELSE file

(* A profile is a map of settings, read and written atomically: a write     *)
(* changes the one setting it names, a read gives the last value written,   *)
(* and a process that dies loses nothing, or everything if it was writing.  *)
(* But a read of a setting that is not there may give anything, and a write *)
(* that cannot open the file for update is lost, unless its token is new.   *)
Abstract == INSTANCE Settings WITH
  store <- [k \in Keys |-> Setting(Kept, k[1], k[2])],
  phase <- [c \in Callers |-> CASE pc[c] = "idle"   -> "idle"
                                [] pc[c] = "append" -> "missed"
                                [] pc[c] = "unlock" -> "answered"
                                [] OTHER            -> "asked"]

ImplementsSettings == Abstract!Spec

=============================================================================
