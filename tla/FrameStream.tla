----------------------------- MODULE FrameStream -----------------------------
(***************************************************************************)
(* What AECCore expects of the byte rings between its threads: a lossless  *)
(* stream.  A producer appends runs of bytes, a consumer takes them away   *)
(* in fixed-size frames, in order, each byte once.  A byte is named by its *)
(* position in the stream since the last clear().                          *)
(***************************************************************************)
EXTENDS Integers

CONSTANTS
  Capacity,  (* bytes the ring was constructed with                        *)
  TakeSize,  (* bytes in one frame                                         *)
  Lens       (* the lengths producers hand over                            *)

VARIABLES
  in,        (* bytes accepted since the last clear                        *)
  out,       (* bytes delivered, or skipped, since the last clear          *)
  frame      (* the frame delivered last                                   *)

vars == <<in, out, frame>>

NoFrame == [j \in 0 .. TakeSize - 1 |-> -1]

Init == in = 0 /\ out = 0 /\ frame = NoFrame

(* A run of len bytes is accepted only if one byte of the ring stays free. *)
Put(len) ==
  /\ in + len - out <= Capacity - 1
  /\ in' = in + len
  /\ UNCHANGED <<out, frame>>

(* The next TakeSize bytes are delivered, and nothing that was never put. *)
Take ==
  /\ in - out >= TakeSize
  /\ out' = out + TakeSize
  /\ frame' = [j \in 0 .. TakeSize - 1 |-> out + j]
  /\ UNCHANGED in

(* Everything pending is dropped and the stream goes on. *)
Skip == out' = in /\ UNCHANGED <<in, frame>>

(* A new stream begins. *)
Clear == in' = 0 /\ out' = 0 /\ UNCHANGED frame

Next == (\E len \in Lens : Put(len)) \/ Take \/ Skip \/ Clear

Spec == Init /\ [][Next]_vars
=============================================================================
