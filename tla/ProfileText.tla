---------------------------- MODULE ProfileText ----------------------------
(***************************************************************************)
(* The text of a profile, and how profiles_management.c finds its way in   *)
(* it.  A text is a sequence of pieces: "[", "]", "=", "\n" and whatever    *)
(* parts the names and values share: AGC is <<"AGC">>, and AGC_enable, in  *)
(* which strstr finds AGC, is <<"AGC", "_enable">>.  A position is an      *)
(* index, NULL is 0.  A value that may be missing is a set of at most one. *)
(*                                                                         *)
(* No name begins as it ends, so that the parameter loops, which go on     *)
(* searching behind a match that no "=" follows, find the first match that *)
(* a "=" follows.                                                          *)
(***************************************************************************)
EXTENDS Integers, Sequences

NULL == 0

At(text, what, i) ==
  LET end == i + Len(what) - 1
  IN  end <= Len(text) /\ SubSeq(text, i, end) = what

Strstr(text, what, from) ==
  LET hits == {i \in from .. Len(text) : At(text, what, i)}
  IN  IF hits = {} THEN NULL ELSE CHOOSE i \in hits : \A j \in hits : i <= j

Line(parameter, value) == parameter \o <<"=">> \o value \o <<"\n">>

(* Mutant: a section goes on to the end of the file. *)
EndOfFile(text, start) == Len(text)

(* The last position before the next "[". *)
RegionEnd(text, start) ==
  LET next == Strstr(text, <<"[">>, start)
  IN  IF next = NULL THEN Len(text) ELSE next - 1

(* read_profile: it goes to the first occurrence of the token, whatever it  *)
(* is a part of, and gives what follows the first "parameter=" up to the    *)
(* end of the line.                                                         *)
ReadValue(text, token, parameter) ==
  LET start  == Strstr(text, token, 1)
      region == SubSeq(text, start, RegionEnd(text, start))
      at     == Strstr(region, Append(parameter, "="), 1)
      from   == at + Len(parameter) + 1
      eol    == Strstr(region, <<"\n">>, from)
  IN  IF start = NULL \/ at = NULL THEN {}
      ELSE {SubSeq(region, from, IF eol = NULL THEN Len(region) ELSE eol - 1)}

(* write_profile looks for "token]". *)
SectionStart(text, token) == Strstr(text, Append(token, "]"), 1)

NewSection(token, parameter, value) ==
  <<"[">> \o token \o <<"]", "\n">> \o Line(parameter, value)

(* What write_profile puts in the place of a text with the token: the line  *)
(* is replaced, or a new one ends the section.                              *)
Written(text, token, parameter, value) ==
  LET start == SectionStart(text, token)
      end   == RegionEnd(text, start)
      at    == Strstr(SubSeq(text, 1, end), Append(parameter, "="), start)
      eol   == Strstr(text, <<"\n">>, at)
  IN  IF at # NULL
        THEN SubSeq(text, 1, at - 1) \o Line(parameter, value)
               \o SubSeq(text, eol + 1, Len(text))
        ELSE SubSeq(text, 1, end) \o Line(parameter, value)
               \o SubSeq(text, end + 1, Len(text))

(* What a profile says by its format, whatever the code finds in it: the    *)
(* values of the lines that are "parameter=value" in the first section that *)
(* is headed "[token]".                                                     *)
Setting(text, token, parameter) ==
  LET header == <<"[">> \o token \o <<"]", "\n">>
      named  == Append(parameter, "=")
      Open(j) == CHOOSE i \in 1 .. j :
                   text[i] = "[" /\ "[" \notin {text[n] : n \in i + 1 .. j}
      End(j)  == CHOOSE i \in j + 1 .. Len(text) :
                   text[i] = "\n" /\ "\n" \notin {text[n] : n \in j + 1 .. i - 1}
      breaks  == {j \in 1 .. Len(text) :
                    /\ text[j] = "\n" /\ At(text, named, j + 1)
                    /\ At(text, header, Open(j))
                    /\ \A i \in 1 .. Open(j) - 1 : ~At(text, header, i)}
  IN  {SubSeq(text, j + Len(named) + 1, End(j) - 1) : j \in breaks}

=============================================================================
