----------------------------- MODULE MC_Profile -----------------------------
(* A TLC instance of Profile: two threads, and keys that webrtc_aec.cpp     *)
(* asks for.                                                                *)
EXTENDS Profile, TLC

CONSTANTS t1, t2

TwoCallers == {t1, t2}
Symmetry   == Permutations(TwoCallers)

(* read_profile(PROFILE_NAME, "AGC", "AGC_enable", ...) and others. *)
SourceKeys == {<< <<"AGC">>, <<"AGC", "_enable">> >>,
               << <<"AGC">>, <<"set_mode">> >>,
               << <<"VAD">>, <<"set_likelihood">> >>}

TwoValues == {<<"true">>, <<"false">>}

(* Memory with nothing in it, and with what a freed buffer left behind: the *)
(* end of a token and its lines, a section of another token.                *)
Junk == {<<>>,
         <<"AGC", "]", "\n", "set_mode", "=", "true", "\n", "AGC", "_enable", "=", "true">>,
         <<"junk", "[", "VAD", "]", "\n", "set_likelihood", "=", "false", "\n">>}

(* What a mutex is that two threads initialize is not looked into. *)
NotRaced == ~raced
=============================================================================
