----------------------- MODULE ProfileSettings_proofs -----------------------
(***************************************************************************)
(* A profile is a map of settings, read and written atomically, however    *)
(* many threads, keys, values and deaths there are and however long the    *)
(* file is: Profile implements Settings, with the writes that Settings may *)
(* lose and the missing settings for which it may answer anything, as long *)
(* as no two threads are in the initialization of the mutex at once.       *)
(***************************************************************************)
EXTENDS Profile_proofs, ProfileText_proofs

(* The mutex does its work. *)
Alone == \A c, d \in Callers : pc[c] \in Inside /\ pc[d] \in Inside => c = d

(* What a thread knows of the file, and what it has to show. *)
Loaded(c) ==
  /\ pc[c] = "truncate" => file_buffer[c] = file
  /\ pc[c] \in {"truncate", "store"} => SectionStart(file_buffer[c], Token(c)) # NULL
  /\ pc[c] = "store" => exists /\ file = <<>>
  /\ pc[c] # "unlock" => answer[c] = {}
  /\ pc[c] = "idle" => request[c] = <<>>

Absent == ~exists => file = <<>>

(* A profile, in which every section was opened with a setting. *)
Sound(text) == Profiled(text) /\ Filled(text)

OfCallers(f) == f = [c \in Callers |-> f[c]]

TextInv ==
  /\ Sound(Kept) /\ Absent
  /\ OfCallers(answer) /\ file_buffer \in [Callers -> Text]
  /\ \A c \in Callers : Loaded(c)

LEMMA OneAnswered ==
  ASSUME TextInv, NEW c \in Callers, NEW x, answer' = [answer EXCEPT ![c] = x]
  PROVE  OfCallers(answer') /\ answer'[c] = x /\ \A d \in Callers : d # c => answer'[d] = answer[d]
<1>1. answer = [d \in Callers |-> answer[d]] BY DEF TextInv, OfCallers
<1>2. answer' = [d \in Callers |-> IF d = c THEN x ELSE answer[d]] BY <1>1
<1> QED BY <1>2 DEF OfCallers

LEMMA RequestIs ==
  ASSUME TypeOK, NEW c \in Callers, pc[c] # "idle"
  PROVE  /\ request[c] \in Requests /\ request[c][2] \in Keys
         /\ Op(c) \in {"read", "write"}
         /\ Op(c) = "write" => Value(c) \in Values
BY DEF TypeOK, Requests, Op, Value

-----------------------------------------------------------------------------
(* What is kept. *)

LEMMA KeptNow ==
  ASSUME Alone
  PROVE  /\ \A c \in Callers : pc[c] = "store" => Kept = file_buffer[c]
         /\ (\A c \in Callers : pc[c] # "store") => Kept = file
<1>1. ASSUME NEW c \in Callers, pc[c] = "store" PROVE Kept = file_buffer[c]
  <2> DEFINE e == CHOOSE d \in Callers : pc[d] = "store"
  <2>1. e \in Callers /\ pc[e] = "store" BY <1>1
  <2>2. e = c BY <1>1, <2>1 DEF Alone, Inside
  <2>3. Kept = file_buffer[e] BY <1>1 DEF Kept
  <2> QED BY <2>2, <2>3
<1>2. ASSUME \A c \in Callers : pc[c] # "store" PROVE Kept = file
  BY <1>2 DEF Kept
<1> QED BY <1>1, <1>2

LEMMA KeptNext ==
  ASSUME Alone'
  PROVE  /\ \A c \in Callers : pc'[c] = "store" => Kept' = file_buffer'[c]
         /\ (\A c \in Callers : pc'[c] # "store") => Kept' = file'
<1>1. ASSUME NEW c \in Callers, pc'[c] = "store" PROVE Kept' = file_buffer'[c]
  <2> DEFINE e == CHOOSE d \in Callers : pc'[d] = "store"
  <2>1. e \in Callers /\ pc'[e] = "store" BY <1>1
  <2>2. e = c BY <1>1, <2>1 DEF Alone, Inside
  <2>3. Kept' = file_buffer'[e] BY <1>1 DEF Kept
  <2> QED BY <2>2, <2>3
<1>2. ASSUME \A c \in Callers : pc'[c] # "store" PROVE Kept' = file'
  BY <1>2 DEF Kept
<1> QED BY <1>1, <1>2

(* A step outside keeps it ... *)
LEMMA KeptOutside ==
  ASSUME Alone, Alone', file' = file, file_buffer' = file_buffer,
         \A d \in Callers : pc'[d] = "store" <=> pc[d] = "store"
  PROVE  Kept' = Kept
<1>1. CASE \E d \in Callers : pc[d] = "store"
  <2>1. PICK d \in Callers : pc[d] = "store" BY <1>1
  <2>2. Kept = file_buffer[d] BY <2>1, KeptNow
  <2>3. Kept' = file_buffer'[d] BY <2>1, KeptNext
  <2> QED BY <2>2, <2>3
<1>2. CASE \A d \in Callers : pc[d] # "store"
  <2>1. Kept = file BY <1>2, KeptNow
  <2>2. Kept' = file' BY <1>2, KeptNext
  <2> QED BY <2>1, <2>2
<1> QED BY <1>1, <1>2

(* ... and inside, where one thread moves, it is in the file except between *)
(* Truncate and Store.                                                      *)
LEMMA KeptInside ==
  ASSUME TypeOK, Alone, Alone', NEW c \in Callers, pc[c] \in Inside,
         NEW to, pc' = [pc EXCEPT ![c] = to]
  PROVE  /\ Kept = IF pc[c] = "store" THEN file_buffer[c] ELSE file
         /\ Kept' = IF to = "store" THEN file_buffer'[c] ELSE file'
<1>1. /\ pc'[c] = to
      /\ \A d \in Callers : d # c => pc[d] # "store" /\ pc'[d] = pc[d]
  BY DEF TypeOK, Alone, Inside
<1>2. Kept = IF pc[c] = "store" THEN file_buffer[c] ELSE file
  <2>1. CASE pc[c] = "store" BY <2>1, KeptNow
  <2>2. CASE pc[c] # "store"
    <3>1. \A d \in Callers : pc[d] # "store" BY <1>1, <2>2
    <3> QED BY <2>2, <3>1, KeptNow
  <2> QED BY <2>1, <2>2
<1>3. Kept' = IF to = "store" THEN file_buffer'[c] ELSE file'
  <2>1. CASE to = "store" BY <1>1, <2>1, KeptNext
  <2>2. CASE to # "store"
    <3>1. \A d \in Callers : pc'[d] # "store" BY <1>1, <2>2
    <3> QED BY <2>2, <3>1, KeptNext
  <2> QED BY <2>1, <2>2
<1> QED BY <1>2, <1>3

-----------------------------------------------------------------------------
(* The invariant. *)

LEMMA OthersLoaded ==
  ASSUME TextInv, NEW d \in Callers,
         pc'[d] = pc[d], request'[d] = request[d], answer'[d] = answer[d],
         file_buffer'[d] = file_buffer[d],
         (file' = file /\ exists' = exists) \/ pc[d] \notin Inside
  PROVE  Loaded(d)'
BY DEF TextInv, Absent, Loaded, Inside, Token

(* What a call does to the profile and to its own answer. *)
LEMMA ReadStep ==
  ASSUME TypeOK, TextInv, Alone, Alone', NEW c \in Callers, Read(c)
  PROVE  /\ Kept' = Kept /\ Kept = file
         /\ \E value : /\ answer' = [answer EXCEPT ![c] = value]
                       /\ Says(Kept, request[c][2]) # {} => value = Says(Kept, request[c][2])
<1> DEFINE k == request[c][2]
<1>1. pc[c] = "load" /\ pc' = [pc EXCEPT ![c] = "unlock"] /\ file' = file
  BY DEF Read, Goto, disk
<1>2. Kept = file /\ Kept' = file'
  <2>1. pc[c] \in Inside BY <1>1 DEF Inside
  <2>2. /\ Kept = IF pc[c] = "store" THEN file_buffer[c] ELSE file
        /\ Kept' = IF "unlock" = "store" THEN file_buffer'[c] ELSE file'
    BY <1>1, <2>1, KeptInside
  <2> QED BY <1>1, <2>2
<1>3. k \in Keys /\ Token(c) = k[1] /\ Parameter(c) = k[2]
  BY <1>1, RequestIs DEF Token, Parameter
<1>4. Profiled(file) BY <1>2 DEF TextInv, Sound
<1> HIDE DEF k
<1>5. CASE exists
  <2>1. PICK tail \in Tails : answer' = [answer EXCEPT ![c] = ReadValue(file \o tail, k[1], k[2])]
    BY <1>3, <1>5 DEF Read, Answer
  <2>2. tail \in Text BY TailsAssumption DEF Text
  <2>3. Says(file, k) # {} => ReadValue(file \o tail, k[1], k[2]) = Says(file, k)
    BY <1>3, <1>4, <2>2, ReadIs
  <2> QED BY <1>1, <1>2, <2>1, <2>3 DEF k
<1>6. CASE ~exists
  <2>1. answer' = [answer EXCEPT ![c] = {}] BY <1>6 DEF Read, Answer
  <2>2. file = <<>> BY <1>6 DEF TextInv, Absent
  <2>3. Says(file, k) = {} BY <1>3, <2>2, EmptyIs
  <2> QED BY <1>1, <1>2, <2>1, <2>3 DEF k
<1> QED BY <1>5, <1>6

LEMMA AppendStep ==
  ASSUME TypeOK, TextInv, Alone, Alone', NEW c \in Callers, AppendSection(c)
  PROVE  /\ request[c][2] \in Keys /\ Value(c) \in Values
         /\ IF \E h \in 1 .. Len(Kept) : At(Kept, Header(Token(c)), h)
              THEN Repeats(Kept', Kept)
              ELSE Updates(Kept', Kept, request[c][2], Value(c))
<1> DEFINE k == request[c][2]
<1>1. /\ pc[c] = "append" /\ pc' = [pc EXCEPT ![c] = "unlock"]
      /\ file' = file \o NewSection(Token(c), Parameter(c), Value(c))
  BY DEF AppendSection, Goto
<1>2. Kept = file /\ Kept' = file'
  <2>1. pc[c] \in Inside BY <1>1 DEF Inside
  <2>2. /\ Kept = IF pc[c] = "store" THEN file_buffer[c] ELSE file
        /\ Kept' = IF "unlock" = "store" THEN file_buffer'[c] ELSE file'
    BY <1>1, <2>1, KeptInside
  <2> QED BY <1>1, <2>2
<1>3. k \in Keys /\ Value(c) \in Values /\ Token(c) = k[1] /\ Parameter(c) = k[2]
  BY <1>1, RequestIs DEF Token, Parameter, TypeOK
<1>4. Profiled(file) BY <1>2 DEF TextInv, Sound
<1> HIDE DEF k
<1>5. Joins(file', file, NewSection(k[1], k[2], Value(c))) BY <1>1, <1>3 DEF Joins
<1>6. CASE \E h \in 1 .. Len(file) : At(file, Header(k[1]), h)
  <2>1. Repeats(file', file) BY <1>3, <1>4, <1>5, <1>6, AppendedInVain
  <2> QED BY <1>2, <1>3, <1>6, <2>1 DEF k
<1>7. CASE ~\E h \in 1 .. Len(file) : At(file, Header(k[1]), h)
  <2>1. Updates(file', file, k, Value(c)) BY <1>3, <1>4, <1>5, <1>7, AppendedIs
  <2> QED BY <1>2, <1>3, <1>7, <2>1 DEF k
<1> QED BY <1>6, <1>7

LEMMA StoreStep ==
  ASSUME TypeOK, TextInv, Alone, Alone', NEW c \in Callers, Store(c)
  PROVE  /\ request[c][2] \in Keys /\ Value(c) \in Values
         /\ Updates(Kept', Kept, request[c][2], Value(c))
<1> DEFINE k   == request[c][2]
           new == Written(file_buffer[c], Token(c), Parameter(c), Value(c))
<1>1. /\ pc[c] = "store" /\ pc' = [pc EXCEPT ![c] = "unlock"]
      /\ file' = new \o SubSeq(file, Len(new) + 1, Len(file))
  BY DEF Store, Goto
<1>2. Kept = file_buffer[c] /\ Kept' = file'
  <2>1. pc[c] \in Inside BY <1>1 DEF Inside
  <2>2. /\ Kept = IF pc[c] = "store" THEN file_buffer[c] ELSE file
        /\ Kept' = IF "unlock" = "store" THEN file_buffer'[c] ELSE file'
    BY <1>1, <2>1, KeptInside
  <2> QED BY <1>1, <2>2
<1>3. k \in Keys /\ Value(c) \in Values /\ Token(c) = k[1] /\ Parameter(c) = k[2]
  BY <1>1, RequestIs DEF Token, Parameter, TypeOK
<1>4. Profiled(file_buffer[c]) BY <1>2 DEF TextInv, Sound
<1>5. file = <<>> /\ SectionStart(file_buffer[c], k[1]) # NULL
  BY <1>1, <1>3 DEF TextInv, Absent, Loaded
<1>6. new = Written(file_buffer[c], k[1], k[2], Value(c)) BY <1>3
<1> HIDE DEF k, new
<1>7. PICK h \in 1 .. Len(file_buffer[c]) : At(file_buffer[c], Header(k[1]), h)
  BY <1>3, <1>4, <1>5, NoSection
<1>8. Updates(new, file_buffer[c], k, Value(c)) BY <1>3, <1>4, <1>6, <1>7, WriteIs
<1>9. file' = new
  <2>1. new \in Text /\ Len(new) \in Nat BY <1>8, Size DEF Updates, Profiled
  <2>2. Len(file) = 0 /\ file \in Seq(Pieces) BY <1>5
  <2>3. SubSeq(file, Len(new) + 1, Len(file)) = <<>> BY <2>1, <2>2
  <2>4. new \o <<>> = new BY <2>1 DEF Text
  <2> QED BY <1>1, <2>3, <2>4
<1> QED BY <1>2, <1>3, <1>4, <1>8, <1>9 DEF k

(* The steps of one thread, outside and inside. *)
LEMMA OutsideStep ==
  ASSUME TypeOK, TextInv, Alone, Alone', NEW c \in Callers, pc[c] \notin Inside,
         NEW to \in {"check", "init", "set", "lock", "load"},
         pc' = [pc EXCEPT ![c] = to],
         file' = file, exists' = exists, answer' = answer, file_buffer' = file_buffer,
         \A d \in Callers : d # c => request'[d] = request[d]
  PROVE  TextInv' /\ Kept' = Kept
<1>1. pc'[c] = to /\ \A d \in Callers : d # c => pc'[d] = pc[d] BY DEF TypeOK
<1>2. Kept' = Kept
  <2>1. \A d \in Callers : pc'[d] = "store" <=> pc[d] = "store" BY <1>1 DEF Inside
  <2> QED BY <2>1, KeptOutside
<1>3. ASSUME NEW d \in Callers PROVE Loaded(d)'
  <2>1. CASE d = c BY <1>1, <2>1 DEF TextInv, Absent, Loaded, Inside
  <2>2. CASE d # c BY <1>1, <2>2, OthersLoaded
  <2> QED BY <2>1, <2>2
<1> QED BY <1>2, <1>3 DEF TextInv, Absent

Untouched(c) ==
  \A d \in Callers : d # c => /\ request'[d] = request[d] /\ answer'[d] = answer[d]
                              /\ file_buffer'[d] = file_buffer[d]

LEMMA InsideStep ==
  ASSUME TypeOK, TextInv, Alone, Alone', NEW c \in Callers, pc[c] \in Inside,
         NEW to, pc' = [pc EXCEPT ![c] = to],
         Untouched(c), Absent',
         OfCallers(answer'), file_buffer' \in [Callers -> Text],
         Sound(Kept'), Loaded(c)'
  PROVE  TextInv'
<1>1. \A d \in Callers : d # c => pc'[d] = pc[d] /\ pc[d] \notin Inside
  BY DEF TypeOK, Alone
<1>2. ASSUME NEW d \in Callers PROVE Loaded(d)'
  <2>1. CASE d = c BY <2>1
  <2>2. CASE d # c BY <1>1, <2>2, OthersLoaded DEF Untouched
  <2> QED BY <2>1, <2>2
<1> QED BY <1>2 DEF TextInv, Absent

LEMMA ReadKeeps ==
  ASSUME TypeOK, TextInv, Alone, Alone', NEW c \in Callers, Read(c)
  PROVE  TextInv'
<1>1. /\ pc[c] = "load" /\ pc' = [pc EXCEPT ![c] = "unlock"] /\ pc[c] \in Inside
      /\ file' = file /\ exists' = exists /\ request' = request /\ file_buffer' = file_buffer
  BY DEF Read, Goto, disk, Inside
<1>2. Kept' = Kept /\ \E value : answer' = [answer EXCEPT ![c] = value] BY ReadStep
<1>3. OfCallers(answer') BY <1>2, OneAnswered
<1>4. \A d \in Callers : d # c => answer'[d] = answer[d] BY <1>2, OneAnswered
<1>5. pc'[c] = "unlock" BY <1>1 DEF TypeOK
<1>6. Loaded(c)' BY <1>5 DEF Loaded
<1>7. /\ Sound(Kept') /\ Absent'
      /\ file_buffer' \in [Callers -> Text]
  BY <1>1, <1>2 DEF TextInv, Absent
<1>8. Untouched(c) BY <1>1, <1>4 DEF Untouched
<1>9. pc[c] \in Inside /\ pc' = [pc EXCEPT ![c] = "unlock"] BY <1>1
<1> QED BY <1>9, <1>3, <1>4, <1>6, <1>7, <1>8, InsideStep

LEMMA LoadStep ==
  ASSUME TypeOK, TextInv, Alone, Alone', NEW c \in Callers, Load(c)
  PROVE  TextInv' /\ Kept' = Kept
<1>1. PICK text \in {file, <<>>} :
        /\ Goto(c, "load", IF SectionStart(text, Token(c)) # NULL THEN "truncate" ELSE "append")
        /\ file_buffer' = [file_buffer EXCEPT ![c] = text]
  BY DEF Load
<1> DEFINE to == IF SectionStart(text, Token(c)) # NULL THEN "truncate" ELSE "append"
<1>2. /\ pc[c] = "load" /\ pc' = [pc EXCEPT ![c] = to] /\ pc[c] \in Inside
      /\ file' = file /\ exists' = exists /\ request' = request /\ answer' = answer
  BY <1>1 DEF Load, Goto, disk, Inside
<1>3. pc'[c] = to /\ to \in {"truncate", "append"} BY <1>2 DEF TypeOK
<1>4. Kept' = Kept /\ Kept = file
  <2>1. /\ Kept = IF pc[c] = "store" THEN file_buffer[c] ELSE file
        /\ Kept' = IF to = "store" THEN file_buffer'[c] ELSE file'
    <3> HIDE DEF to
    <3> QED BY <1>2, KeptInside
  <2> QED BY <1>2, <1>3, <2>1
<1>5. file \in Text /\ <<>> \in Text BY <1>4, EmptyIs DEF TextInv, Sound, Profiled
<1>6. /\ file_buffer' \in [Callers -> Text] /\ file_buffer'[c] = text
      /\ \A d \in Callers : d # c => file_buffer'[d] = file_buffer[d]
  BY <1>1, <1>5 DEF TextInv
<1>7. to = "truncate" => text = file /\ SectionStart(text, Token(c)) # NULL
  <2>1. SectionStart(<<>>, Token(c)) = NULL
    <3>1. request[c][2] \in Keys /\ Token(c) = request[c][2][1]
      BY <1>2, RequestIs DEF Token
    <3>2. 1 .. Len(<<>>) = {} OBVIOUS
    <3> QED BY <3>1, <3>2, EmptyIs, NoSection
  <2> QED BY <2>1
<1>8. Token(c)' = Token(c) BY <1>2 DEF Token
<1>9. answer[c] = {} BY <1>2 DEF TextInv, Loaded
<1> HIDE DEF to
<1>10. Loaded(c)' BY <1>2, <1>3, <1>6, <1>7, <1>8, <1>9 DEF Loaded
<1>11. Sound(Kept') /\ Absent' /\ OfCallers(answer') BY <1>2, <1>4 DEF TextInv, Absent
<1>12. Untouched(c) BY <1>2, <1>6 DEF Untouched
<1>13. pc[c] \in Inside /\ pc' = [pc EXCEPT ![c] = to] BY <1>2
<1>14. TextInv' BY <1>6, <1>10, <1>11, <1>12, <1>13, InsideStep
<1> QED BY <1>4, <1>14

(* A write, at once or by Truncate and Store. *)
LEMMA WriteKeeps ==
  ASSUME TypeOK, TextInv, Alone, Alone', NEW c \in Callers, AppendSection(c) \/ Store(c)
  PROVE  TextInv'
<1>1. /\ pc[c] \in Inside /\ pc' = [pc EXCEPT ![c] = "unlock"]
      /\ exists' /\ request' = request /\ answer' = [answer EXCEPT ![c] = {Value(c)}]
      /\ file_buffer' = file_buffer
  <2>1. CASE AppendSection(c) BY <2>1 DEF AppendSection, Goto, Inside, Answer, Op
  <2>2. CASE Store(c) BY <2>2 DEF Store, Goto, Inside, Answer, TextInv, Loaded
  <2> QED BY <2>1, <2>2
<1>2. Repeats(Kept', Kept) \/ Updates(Kept', Kept, request[c][2], Value(c))
  BY AppendStep, StoreStep
<1>3. Sound(Kept') BY <1>2 DEF Updates, Repeats, TextInv, Sound
<1>4. /\ OfCallers(answer')
      /\ \A d \in Callers : d # c => answer'[d] = answer[d]
  BY <1>1, OneAnswered
<1>5. pc'[c] = "unlock" BY <1>1 DEF TypeOK
<1>6. Loaded(c)' BY <1>5 DEF Loaded
<1>7. Untouched(c) BY <1>1, <1>4 DEF Untouched
<1> QED BY <1>1, <1>3, <1>4, <1>6, <1>7, InsideStep DEF TextInv, Absent

LEMMA TruncateStep ==
  ASSUME TypeOK, TextInv, Alone, Alone', NEW c \in Callers, Truncate(c)
  PROVE  TextInv' /\ Kept' = Kept
<1>1. /\ pc[c] = "truncate" /\ pc' = [pc EXCEPT ![c] = "store"] /\ pc[c] \in Inside
      /\ file' = <<>> /\ exists' /\ request' = request /\ answer' = answer
      /\ file_buffer' = file_buffer
  BY DEF Truncate, Goto, Inside
<1>2. pc'[c] = "store" BY <1>1 DEF TypeOK
<1>3. file_buffer[c] = file /\ SectionStart(file_buffer[c], Token(c)) # NULL /\ answer[c] = {}
  BY <1>1 DEF TextInv, Absent, Loaded
<1>4. Kept' = Kept
  <2>1. /\ Kept = IF pc[c] = "store" THEN file_buffer[c] ELSE file
        /\ Kept' = IF "store" = "store" THEN file_buffer'[c] ELSE file'
    BY <1>1, KeptInside
  <2> QED BY <1>1, <1>3, <2>1
<1>5. Token(c)' = Token(c) BY <1>1 DEF Token
<1>6. Loaded(c)' BY <1>1, <1>2, <1>3, <1>5 DEF Loaded
<1>7. /\ Sound(Kept') /\ Absent' /\ OfCallers(answer')
      /\ file_buffer' \in [Callers -> Text]
  BY <1>1, <1>4 DEF TextInv, Absent
<1>8. Untouched(c) BY <1>1 DEF Untouched
<1>9. TextInv' BY <1>1, <1>6, <1>7, <1>8, InsideStep
<1> QED BY <1>4, <1>9

LEMMA FailStep ==
  ASSUME TypeOK, TextInv, Alone, Alone', NEW c \in Callers, Fail(c)
  PROVE  TextInv' /\ Kept' = Kept
<1>1. /\ pc[c] \in Inside \ {"store"} /\ pc' = [pc EXCEPT ![c] = "unlock"]
      /\ file' = file /\ exists' = exists /\ request' = request
      /\ file_buffer' = file_buffer /\ answer' = [answer EXCEPT ![c] = {}]
  BY DEF Fail, Goto, Inside, Answer, disk
<1>2. pc'[c] = "unlock" BY <1>1 DEF TypeOK
<1>3. Kept' = Kept
  <2>1. /\ Kept = IF pc[c] = "store" THEN file_buffer[c] ELSE file
        /\ Kept' = IF "unlock" = "store" THEN file_buffer'[c] ELSE file'
    BY <1>1, KeptInside
  <2> QED BY <1>1, <2>1
<1>4. Loaded(c)' BY <1>2 DEF Loaded
<1>5. /\ Sound(Kept') /\ Absent'
      /\ OfCallers(answer') /\ file_buffer' \in [Callers -> Text]
      /\ \A d \in Callers : d # c => answer'[d] = answer[d]
  BY <1>1, <1>3, OneAnswered DEF TextInv, Absent
<1>6. Untouched(c) BY <1>1, <1>5 DEF Untouched
<1>7. pc[c] \in Inside /\ pc' = [pc EXCEPT ![c] = "unlock"] BY <1>1
<1>8. TextInv' BY <1>7, <1>4, <1>5, <1>6, InsideStep
<1> QED BY <1>3, <1>8

LEMMA UnlockStep ==
  ASSUME TypeOK, TextInv, Alone, Alone', NEW c \in Callers, Unlock(c)
  PROVE  TextInv' /\ Kept' = Kept
<1>1. /\ pc[c] = "unlock" /\ pc' = [pc EXCEPT ![c] = "idle"] /\ pc[c] \in Inside
      /\ file' = file /\ exists' = exists /\ request' = [request EXCEPT ![c] = <<>>]
      /\ file_buffer' = [file_buffer EXCEPT ![c] = <<>>]
      /\ answer' = [answer EXCEPT ![c] = {}]
  BY DEF Unlock, Goto, Inside, disk
<1>2. pc'[c] = "idle" /\ request'[c] = <<>> BY <1>1 DEF TypeOK
<1>3. Kept' = Kept
  <2>1. /\ Kept = IF pc[c] = "store" THEN file_buffer[c] ELSE file
        /\ Kept' = IF "idle" = "store" THEN file_buffer'[c] ELSE file'
    BY <1>1, KeptInside
  <2> QED BY <1>1, <2>1
<1>4. answer'[c] = {} BY <1>1, OneAnswered
<1>5. Loaded(c)' BY <1>2, <1>4 DEF Loaded
<1>6. <<>> \in Text BY EmptyIs DEF Profiled
<1>7. /\ Sound(Kept') /\ Absent'
      /\ OfCallers(answer') /\ file_buffer' \in [Callers -> Text]
      /\ \A d \in Callers : d # c => /\ answer'[d] = answer[d] /\ request'[d] = request[d]
                                      /\ file_buffer'[d] = file_buffer[d]
  BY <1>1, <1>3, <1>6, OneAnswered DEF TextInv, Absent, TypeOK
<1>8. Untouched(c) BY <1>7 DEF Untouched
<1>9. pc[c] \in Inside /\ pc' = [pc EXCEPT ![c] = "idle"] BY <1>1
<1>10. TextInv' BY <1>9, <1>5, <1>7, <1>8, InsideStep
<1> QED BY <1>3, <1>10

LEMMA DieStep ==
  ASSUME TypeOK, TextInv, Alone, Alone', Die
  PROVE  /\ TextInv'
         /\ \/ Kept' = Kept
            \/ Kept' = <<>> /\ \E c \in Callers : pc[c] = "store"
<1>1. /\ pc' = [c \in Callers |-> "idle"] /\ request' = [c \in Callers |-> <<>>]
      /\ answer' = [c \in Callers |-> {}] /\ file_buffer' = [c \in Callers |-> <<>>]
      /\ file' = file /\ exists' = exists
  BY DEF Die, Fresh, disk
<1>2. Kept' = file
  <2>1. \A c \in Callers : pc'[c] # "store" BY <1>1
  <2> QED BY <1>1, <2>1, KeptNext
<1>3. \/ Kept = file
      \/ file = <<>> /\ \E c \in Callers : pc[c] = "store"
  <2>1. CASE \A c \in Callers : pc[c] # "store" BY <2>1, KeptNow
  <2>2. CASE \E c \in Callers : pc[c] = "store" BY <2>2 DEF TextInv, Absent, Loaded
  <2> QED BY <2>1, <2>2
<1>4. Sound(Kept') BY <1>2, <1>3, EmptyIs DEF TextInv, Sound
<1>5. <<>> \in Text BY EmptyIs DEF Profiled
<1>6. \A c \in Callers : Loaded(c)' BY <1>1 DEF Loaded
<1>7. TextInv' BY <1>1, <1>4, <1>5, <1>6 DEF TextInv, Absent, OfCallers
<1> QED BY <1>2, <1>3, <1>7

LEMMA OutsideGoes ==
  ASSUME TypeOK, TextInv, Alone, Alone', NEW c \in Callers,
         \/ CheckInit(c) \/ InitMutex(c) \/ SetInit(c) \/ Lock(c)
         \/ \E r \in Requests : Call(c, r)
  PROVE  /\ TextInv' /\ Kept' = Kept /\ answer' = answer
         /\ pc[c] \notin Inside
         /\ \E to \in {"check", "init", "set", "lock", "load"} : pc' = [pc EXCEPT ![c] = to]
         /\ \/ pc[c] # "idle" /\ request' = request
            \/ pc[c] = "idle" /\ \E r \in Requests : request' = [request EXCEPT ![c] = r]
<1> DEFINE Goal == /\ TextInv' /\ Kept' = Kept /\ answer' = answer
                   /\ pc[c] \notin Inside
                   /\ \E to \in {"check", "init", "set", "lock", "load"} :
                        pc' = [pc EXCEPT ![c] = to]
                   /\ \/ pc[c] # "idle" /\ request' = request
                      \/ /\ pc[c] = "idle"
                         /\ \E r \in Requests : request' = [request EXCEPT ![c] = r]
<1>1. ASSUME NEW to \in {"check", "init", "set", "lock", "load"}, pc[c] \notin Inside,
             pc' = [pc EXCEPT ![c] = to],
             file' = file, exists' = exists, answer' = answer, file_buffer' = file_buffer,
             \/ pc[c] # "idle" /\ request' = request
             \/ pc[c] = "idle" /\ \E r \in Requests : request' = [request EXCEPT ![c] = r]
      PROVE  Goal
  <2>1. \A d \in Callers : d # c => request'[d] = request[d] BY <1>1 DEF TypeOK
  <2>2. TextInv' /\ Kept' = Kept BY <1>1, <2>1, OutsideStep
  <2> QED BY <1>1, <2>2
<1> HIDE DEF Goal
<1>2. ASSUME NEW r \in Requests, Call(c, r) PROVE Goal
  BY <1>1, <1>2 DEF Call, Goto, disk, Inside
<1>3. ASSUME CheckInit(c) PROVE Goal BY <1>1, <1>3 DEF CheckInit, Goto, disk, Inside
<1>4. ASSUME InitMutex(c) PROVE Goal BY <1>1, <1>4 DEF InitMutex, Goto, disk, Inside
<1>5. ASSUME SetInit(c) PROVE Goal BY <1>1, <1>5 DEF SetInit, Goto, disk, Inside
<1>6. ASSUME Lock(c) PROVE Goal BY <1>1, <1>6 DEF Lock, Goto, disk, Inside
<1>7. Goal BY <1>2, <1>3, <1>4, <1>5, <1>6
<1> QED BY <1>7 DEF Goal

LEMMA TextStep ==
  ASSUME TypeOK, TextInv, Alone, Alone', [Next]_vars
  PROVE  TextInv'
<1>1. CASE Die BY <1>1, DieStep
<1>2. ASSUME NEW c \in Callers, Goes(c) \/ \E r \in Requests : Call(c, r) PROVE TextInv'
  <2>1. CASE Read(c) BY <2>1, ReadKeeps
  <2>2. CASE Load(c) BY <2>2, LoadStep
  <2>3. CASE AppendSection(c) \/ Store(c) BY <2>3, WriteKeeps
  <2>4. CASE Truncate(c) BY <2>4, TruncateStep
  <2>5. CASE Fail(c) BY <2>5, FailStep
  <2>6. CASE Unlock(c) BY <2>6, UnlockStep
  <2> QED BY <1>2, <2>1, <2>2, <2>3, <2>4, <2>5, <2>6, OutsideGoes DEF Goes, Body
<1>3. CASE UNCHANGED vars
  <2>1. /\ pc' = pc /\ request' = request /\ answer' = answer /\ file_buffer' = file_buffer
        /\ file' = file /\ exists' = exists
    BY <1>3 DEF vars, disk, threads
  <2>2. Kept' = Kept BY <2>1, KeptOutside
  <2>3. \A c \in Callers : Loaded(c)' BY <2>1, OthersLoaded
  <2> QED BY <2>1, <2>2, <2>3 DEF TextInv, Absent
<1> QED BY <1>1, <1>2, <1>3 DEF Next

LEMMA IsAlone == IInv /\ ~raced => Alone
BY DEF IInv, InsideHolds, Alone

LEMMA TextInit == Init => TextInv
<1> SUFFICES ASSUME Init PROVE TextInv
  OBVIOUS
<1>1. /\ pc = [c \in Callers |-> "idle"] /\ request = [c \in Callers |-> <<>>]
      /\ answer = [c \in Callers |-> {}] /\ file_buffer = [c \in Callers |-> <<>>]
      /\ file = <<>>
  BY DEF Init, Fresh
<1>2. Kept = <<>> BY <1>1 DEF Kept
<1>3. Sound(Kept) /\ <<>> \in Text BY <1>2, EmptyIs DEF Profiled, Sound
<1>4. \A c \in Callers : Loaded(c) BY <1>1 DEF Loaded
<1> QED BY <1>1, <1>3, <1>4 DEF TextInv, Absent, OfCallers

(* What the profile on the disk, or the one that is being written again, is *)
(* always a profile, and a thread that goes on to write knows what is in it.*)
LEMMA TextInvariance == Spec /\ []~raced => [](IInv /\ ~raced /\ Alone /\ TextInv)
<1>1. Init => TextInv BY TextInit
<1>2. IInv /\ ~raced /\ Alone /\ IInv' /\ ~raced' /\ Alone' /\ TextInv /\ [Next]_vars => TextInv'
  BY TextStep DEF IInv
<1>3. IInv /\ ~raced => Alone BY IsAlone
<1> QED BY <1>1, <1>2, <1>3, Invariance, PTL DEF Spec

-----------------------------------------------------------------------------
(* The refinement. *)

PhaseOf(p) == CASE p = "idle"   -> "idle"
                [] p = "append" -> "missed"
                [] p = "unlock" -> "answered"
                [] OTHER        -> "asked"

Phase  == [c \in Callers |-> CASE pc[c] = "idle"   -> "idle"
                               [] pc[c] = "append" -> "missed"
                               [] pc[c] = "unlock" -> "answered"
                               [] OTHER            -> "asked"]
Stored == [k \in Keys |-> Setting(Kept, k[1], k[2])]

LEMMA PhaseIs == \A c \in Callers : Phase[c] = PhaseOf(pc[c])
BY DEF Phase, PhaseOf

LEMMA PhaseStep ==
  ASSUME TypeOK, NEW c \in Callers, NEW to, pc' = [pc EXCEPT ![c] = to]
  PROVE  Phase' = [Phase EXCEPT ![c] = PhaseOf(to)]
<1>1. Phase = [d \in Callers |-> PhaseOf(pc[d])] BY DEF Phase, PhaseOf
<1>2. Phase' = [d \in Callers |-> PhaseOf(pc'[d])] BY DEF Phase, PhaseOf
<1>3. \A d \in Callers : pc'[d] = IF d = c THEN to ELSE pc[d] BY DEF TypeOK
<1>4. \A d \in Callers : PhaseOf(pc'[d]) = IF d = c THEN PhaseOf(to) ELSE PhaseOf(pc[d])
  BY <1>3
<1> QED BY <1>1, <1>2, <1>4

LEMMA Phases ==
  /\ PhaseOf("idle") = "idle" /\ PhaseOf("append") = "missed"
  /\ PhaseOf("unlock") = "answered"
  /\ \A p : p \notin {"idle", "append", "unlock"} => PhaseOf(p) = "asked"
BY DEF PhaseOf

LEMMA StoredNow ==
  ASSUME Profiled(Kept), NEW k \in Keys
  PROVE  Stored[k] = Says(Kept, k)
BY SettingIs DEF Stored

LEMMA StoredSame == ASSUME Kept' = Kept PROVE Stored' = Stored
BY DEF Stored

LEMMA StoredRepeats ==
  ASSUME Profiled(Kept), Repeats(Kept', Kept)
  PROVE  Stored' = Stored
<1>1. \A l \in Keys : Setting(Kept, l[1], l[2]) = Says(Kept, l) BY SettingIs
<1>2. \A l \in Keys : Setting(Kept', l[1], l[2]) = Says(Kept', l) BY SettingIs DEF Repeats
<1>3. \A l \in Keys : Setting(Kept', l[1], l[2]) = Setting(Kept, l[1], l[2])
  BY <1>1, <1>2 DEF Repeats
<1>4. Stored' = [l \in Keys |-> Setting(Kept', l[1], l[2])] BY DEF Stored
<1> QED BY <1>3, <1>4 DEF Stored

LEMMA StoredUpdates ==
  ASSUME Profiled(Kept), NEW k \in Keys, NEW v \in Values, Updates(Kept', Kept, k, v)
  PROVE  Stored' = [Stored EXCEPT ![k] = {v}]
<1>1. \A l \in Keys : Setting(Kept, l[1], l[2]) = Says(Kept, l) BY SettingIs
<1>2. \A l \in Keys : Setting(Kept', l[1], l[2]) = Says(Kept', l) BY SettingIs DEF Updates
<1>3. \A l \in Keys : Says(Kept', l) = IF l = k THEN {v} ELSE Says(Kept, l) BY DEF Updates
<1>4. \A l \in Keys : Setting(Kept', l[1], l[2]) = IF l = k THEN {v} ELSE Setting(Kept, l[1], l[2])
  BY <1>1, <1>2, <1>3
<1>5. Stored' = [l \in Keys |-> Setting(Kept', l[1], l[2])] BY DEF Stored
<1> QED BY <1>4, <1>5 DEF Stored

LEMMA AskOrStutter ==
  ASSUME TypeOK, TextInv, Alone, Alone', NEW c \in Callers,
         \/ CheckInit(c) \/ InitMutex(c) \/ SetInit(c) \/ Lock(c)
         \/ \E r \in Requests : Call(c, r)
  PROVE  Abstract!Ask(c) \/ UNCHANGED Abstract!vars
<1>1. /\ Kept' = Kept /\ answer' = answer /\ pc[c] \notin Inside
      /\ \/ pc[c] # "idle" /\ request' = request
         \/ pc[c] = "idle" /\ \E r \in Requests : request' = [request EXCEPT ![c] = r]
  BY OutsideGoes
<1>2. PICK to \in {"check", "init", "set", "lock", "load"} : pc' = [pc EXCEPT ![c] = to]
  BY OutsideGoes
<1>3. Phase' = [Phase EXCEPT ![c] = "asked"] /\ Phase[c] = PhaseOf(pc[c])
  <2>1. Phase' = [Phase EXCEPT ![c] = PhaseOf(to)] BY <1>2, PhaseStep
  <2>2. PhaseOf(to) = "asked" BY Phases
  <2> QED BY <2>1, <2>2, PhaseIs
<1>4. Stored' = Stored BY <1>1, StoredSame
<1>5. CASE pc[c] = "idle"
  <2>1. Phase[c] = "idle" BY <1>3, <1>5, Phases
  <2>2. Abstract!Ask(c)
    BY <1>1, <1>3, <1>4, <1>5, <2>1 DEF Abstract!Ask, Abstract!Requests, Requests, Phase, Stored
  <2> QED BY <2>2
<1>6. CASE pc[c] # "idle"
  <2>1. Phase[c] = "asked" BY <1>1, <1>3, <1>6, Phases DEF Inside
  <2>2. Phase' = Phase
    <3>1. [Phase EXCEPT ![c] = "asked"] = Phase
      <4>1. DOMAIN Phase = Callers /\ Phase = [d \in Callers |-> Phase[d]] BY DEF Phase
      <4> QED BY <2>1, <4>1
    <3> QED BY <1>3, <3>1
  <2> QED BY <1>1, <1>4, <1>6, <2>2 DEF Abstract!vars, Phase, Stored
<1> QED BY <1>5, <1>6

(* A thread inside has asked, and goes on, misses or answers. *)
LEMMA StaysAsked ==
  ASSUME TypeOK, NEW c \in Callers, pc[c] \in {"load", "truncate"},
         NEW to \in {"truncate", "store"}, pc' = [pc EXCEPT ![c] = to],
         Kept' = Kept, request' = request, answer' = answer
  PROVE  UNCHANGED Abstract!vars
<1>1. Phase[c] = "asked" BY PhaseIs, Phases
<1>2. Phase' = [Phase EXCEPT ![c] = "asked"]
  <2>1. Phase' = [Phase EXCEPT ![c] = PhaseOf(to)] BY PhaseStep
  <2>2. PhaseOf(to) = "asked" BY Phases
  <2> QED BY <2>1, <2>2
<1>3. Phase' = Phase
  <2>1. DOMAIN Phase = Callers /\ Phase = [d \in Callers |-> Phase[d]] BY DEF Phase
  <2> QED BY <1>1, <1>2, <2>1
<1>4. Stored' = Stored BY StoredSame
<1> QED BY <1>3, <1>4 DEF Abstract!vars, Phase, Stored

LEMMA LoadMisses ==
  ASSUME TypeOK, TextInv, Alone, Alone', NEW c \in Callers, Load(c)
  PROVE  Abstract!Miss(c) \/ UNCHANGED Abstract!vars
<1>1. /\ pc[c] = "load" /\ pc[c] # "idle" /\ Op(c) = "write"
      /\ request' = request /\ answer' = answer
      /\ \E to \in {"append", "truncate"} : pc' = [pc EXCEPT ![c] = to]
  BY DEF Load, Goto
<1>2. Kept' = Kept BY LoadStep
<1>3. CASE pc' = [pc EXCEPT ![c] = "truncate"] BY <1>1, <1>2, <1>3, StaysAsked
<1>4. CASE pc' = [pc EXCEPT ![c] = "append"]
  <2>1. Phase[c] = "asked" BY <1>1, PhaseIs, Phases
  <2>2. Phase' = [Phase EXCEPT ![c] = "missed"] BY <1>4, PhaseStep, Phases
  <2>3. Stored' = Stored BY <1>2, StoredSame
  <2>4. request[c][1] = "write" BY <1>1 DEF Op
  <2> QED
    BY <1>1, <2>1, <2>2, <2>3, <2>4 DEF Abstract!Miss, Abstract!Writing, Phase, Stored
<1> QED BY <1>1, <1>3, <1>4

LEMMA Answers ==
  ASSUME TypeOK, NEW c \in Callers, pc[c] \in Inside \ {"unlock"},
         pc' = [pc EXCEPT ![c] = "unlock"]
  PROVE  /\ Phase[c] = IF pc[c] = "append" THEN "missed" ELSE "asked"
         /\ Phase' = [Phase EXCEPT ![c] = "answered"]
<1>1. Phase[c] = IF pc[c] = "append" THEN "missed" ELSE "asked"
  BY PhaseIs, Phases DEF Inside
<1>2. Phase' = [Phase EXCEPT ![c] = "answered"] BY PhaseStep, Phases
<1> QED BY <1>1, <1>2

LEMMA ReadGets ==
  ASSUME TypeOK, TextInv, Alone, Alone', NEW c \in Callers, Read(c)
  PROVE  Abstract!Get(c)
<1> DEFINE k == request[c][2]
<1>1. /\ pc[c] \in Inside \ {"unlock"} /\ pc' = [pc EXCEPT ![c] = "unlock"]
      /\ request' = request /\ Op(c) = "read" /\ pc[c] # "idle" /\ pc[c] # "append"
  BY DEF Read, Goto, Inside
<1>2. k \in Keys /\ request[c][1] = "read" BY <1>1, RequestIs DEF Op
<1>3. Kept' = Kept BY ReadStep
<1>4. PICK value : /\ answer' = [answer EXCEPT ![c] = value]
                   /\ Says(Kept, k) # {} => value = Says(Kept, k)
  BY ReadStep
<1>5. Stored[k] = Says(Kept, k)
  <2> HIDE DEF k
  <2> QED BY <1>2, StoredNow DEF TextInv, Sound
<1>6. answer'[c] = value BY <1>4, OneAnswered
<1>7. answer' = [answer EXCEPT ![c] = answer'[c]] BY <1>4, <1>6
<1>8. Phase[c] = "asked" /\ Phase' = [Phase EXCEPT ![c] = "answered"] BY <1>1, Answers
<1>9. Stored' = Stored BY <1>3, StoredSame
<1>10. Stored[k] # {} => answer'[c] = Stored[k] BY <1>4, <1>5, <1>6
<1> QED
  BY <1>1, <1>2, <1>7, <1>8, <1>9, <1>10 DEF Abstract!Get, Abstract!Answered, Phase, Stored

LEMMA StorePuts ==
  ASSUME TypeOK, TextInv, Alone, Alone', NEW c \in Callers, Store(c)
  PROVE  Abstract!Put(c)
<1> DEFINE k == request[c][2]
           v == request[c][3]
<1>1. /\ pc[c] \in Inside \ {"unlock"} /\ pc' = [pc EXCEPT ![c] = "unlock"]
      /\ request' = request /\ answer' = [answer EXCEPT ![c] = {v}] /\ pc[c] = "store"
  BY DEF Store, Goto, Inside, Answer, Value
<1>2. request[c][1] = "write" BY <1>1 DEF TypeOK, Op
<1>3. k \in Keys /\ v \in Values /\ Profiled(Kept) /\ Updates(Kept', Kept, k, v)
  BY StoreStep DEF Value, TextInv, Sound
<1> HIDE DEF k, v
<1>4. Stored' = [Stored EXCEPT ![k] = {v}] BY <1>3, StoredUpdates
<1>5. Phase[c] = "asked" /\ Phase' = [Phase EXCEPT ![c] = "answered"] BY <1>1, Answers
<1>6. ~Abstract!Lost(c) BY <1>5 DEF Abstract!Lost, Phase
<1> QED
  BY <1>1, <1>2, <1>4, <1>5, <1>6
     DEF Abstract!Put, Abstract!Writing, Abstract!Answered, Phase, Stored, k, v

(* A new section changes the setting, unless its token has one already:     *)
(* then the write is lost.                                                  *)
LEMMA AppendPuts ==
  ASSUME TypeOK, TextInv, Alone, Alone', NEW c \in Callers, AppendSection(c)
  PROVE  Abstract!Put(c)
<1> DEFINE k == request[c][2]
           v == request[c][3]
<1>1. /\ pc[c] \in Inside \ {"unlock"} /\ pc' = [pc EXCEPT ![c] = "unlock"]
      /\ request' = request /\ answer' = [answer EXCEPT ![c] = {v}] /\ pc[c] = "append"
  BY DEF AppendSection, Goto, Inside, Answer, Value
<1>2. request[c][1] = "write" BY <1>1 DEF TypeOK, Op
<1>3. /\ k \in Keys /\ v \in Values /\ Sound(Kept) /\ Profiled(Kept)
      /\ IF \E h \in 1 .. Len(Kept) : At(Kept, Header(k[1]), h)
           THEN Repeats(Kept', Kept) ELSE Updates(Kept', Kept, k, v)
  BY AppendStep DEF Value, Token, TextInv, Sound
<1>4. Phase[c] = "missed" /\ Phase' = [Phase EXCEPT ![c] = "answered"] BY <1>1, Answers
<1> HIDE DEF k, v
<1>5. \A l \in Keys : Stored[l] = Says(Kept, l) BY <1>3, StoredNow
<1>6. CASE \E h \in 1 .. Len(Kept) : At(Kept, Header(k[1]), h)
  <2>1. \E l \in Keys : l[1] = k[1] /\ Stored[l] # {} BY <1>3, <1>5, <1>6 DEF Sound, Filled
  <2>2. Abstract!Lost(c) BY <1>4, <2>1 DEF Abstract!Lost, Phase, Stored, k
  <2>3. Stored' = Stored BY <1>3, <1>6, StoredRepeats
  <2> QED
    BY <1>1, <1>2, <1>4, <2>2, <2>3
       DEF Abstract!Put, Abstract!Writing, Abstract!Answered, Phase, Stored, k, v
<1>7. CASE ~\E h \in 1 .. Len(Kept) : At(Kept, Header(k[1]), h)
  <2>1. \A l \in Keys : l[1] = k[1] => Stored[l] = {} BY <1>3, <1>5, <1>7, SaysNothing
  <2>2. ~Abstract!Lost(c) BY <2>1 DEF Abstract!Lost, Stored, k
  <2>3. Stored' = [Stored EXCEPT ![k] = {v}] BY <1>3, <1>7, StoredUpdates
  <2> QED
    BY <1>1, <1>2, <1>4, <2>2, <2>3
       DEF Abstract!Put, Abstract!Writing, Abstract!Answered, Phase, Stored, k, v
<1> QED BY <1>6, <1>7

LEMMA FailFails ==
  ASSUME TypeOK, TextInv, Alone, Alone', NEW c \in Callers, Fail(c)
  PROVE  Abstract!Fail(c)
<1>1. /\ pc[c] \in Inside \ {"unlock"} /\ pc' = [pc EXCEPT ![c] = "unlock"]
      /\ request' = request /\ answer' = [answer EXCEPT ![c] = {}]
  BY DEF Fail, Goto, Inside, Answer
<1>2. Phase[c] \in {"asked", "missed"} /\ Phase' = [Phase EXCEPT ![c] = "answered"]
  BY <1>1, Answers
<1>3. Stored' = Stored BY FailStep, StoredSame
<1> QED BY <1>1, <1>2, <1>3 DEF Abstract!Fail, Abstract!Answered, Phase, Stored

LEMMA UnlockReturns ==
  ASSUME TypeOK, TextInv, Alone, Alone', NEW c \in Callers, Unlock(c)
  PROVE  Abstract!Return(c)
<1>1. /\ pc[c] = "unlock" /\ pc' = [pc EXCEPT ![c] = "idle"]
      /\ request' = [request EXCEPT ![c] = <<>>] /\ answer' = [answer EXCEPT ![c] = {}]
  BY DEF Unlock, Goto
<1>2. Phase[c] = "answered" BY <1>1, PhaseIs, Phases
<1>3. Phase' = [Phase EXCEPT ![c] = "idle"] BY <1>1, PhaseStep, Phases
<1>4. Stored' = Stored BY UnlockStep, StoredSame
<1> QED BY <1>1, <1>2, <1>3, <1>4 DEF Abstract!Return, Phase, Stored

LEMMA DieDies ==
  ASSUME TypeOK, TextInv, Alone, Alone', Die
  PROVE  Abstract!Die
<1>1. /\ pc' = [c \in Callers |-> "idle"] /\ request' = [c \in Callers |-> <<>>]
      /\ answer' = [c \in Callers |-> {}]
  BY DEF Die, Fresh
<1>2. Phase' = [c \in Callers |-> "idle"] BY <1>1 DEF Phase
<1>3. Abstract!NoCalls' BY <1>1, <1>2 DEF Abstract!NoCalls, Phase
<1>4. CASE Kept' = Kept
  <2>1. Stored' = Stored BY <1>4, StoredSame
  <2> QED BY <1>3, <2>1 DEF Abstract!Die, Stored
<1>5. CASE Kept' = <<>> /\ \E c \in Callers : pc[c] = "store"
  <2>1. PICK c \in Callers : pc[c] = "store" BY <1>5
  <2>2. Phase[c] = "asked" /\ request[c][1] = "write"
    BY <2>1, PhaseIs, Phases DEF TypeOK, Op
  <2>3. Abstract!Writing(c) BY <2>2 DEF Abstract!Writing, Phase
  <2>4. \A k \in Keys : Setting(Kept', k[1], k[2]) = {} BY <1>5, EmptyIs, SettingIs
  <2>5. Stored' = [k \in Keys |-> {}] BY <2>4 DEF Stored
  <2> QED BY <1>3, <2>3, <2>5 DEF Abstract!Die, Stored
<1> QED BY <1>4, <1>5, DieStep

LEMMA Simulation ==
  ASSUME TypeOK, TextInv, Alone, Alone', [Next]_vars
  PROVE  [Abstract!Next]_(Abstract!vars)
<1>1. CASE Die BY <1>1, DieDies DEF Abstract!Next
<1>2. ASSUME NEW c \in Callers, Goes(c) \/ \E r \in Requests : Call(c, r)
      PROVE  [Abstract!Next]_(Abstract!vars)
  <2>1. CASE Read(c) BY <2>1, ReadGets DEF Abstract!Next
  <2>2. CASE Load(c) BY <2>2, LoadMisses DEF Abstract!Next
  <2>7. CASE Truncate(c)
    <3>1. Kept' = Kept BY <2>7, TruncateStep
    <3>2. /\ pc[c] = "truncate" /\ request' = request /\ answer' = answer
          /\ pc' = [pc EXCEPT ![c] = "store"]
      BY <2>7 DEF Truncate, Goto
    <3> QED BY <3>1, <3>2, StaysAsked
  <2>3. CASE AppendSection(c) \/ Store(c) BY <2>3, AppendPuts, StorePuts DEF Abstract!Next
  <2>4. CASE Fail(c) BY <2>4, FailFails DEF Abstract!Next
  <2>5. CASE Unlock(c) BY <2>5, UnlockReturns DEF Abstract!Next
  <2>6. CASE \/ CheckInit(c) \/ InitMutex(c) \/ SetInit(c) \/ Lock(c)
             \/ \E r \in Requests : Call(c, r)
    BY <2>6, AskOrStutter DEF Abstract!Next
  <2> QED BY <1>2, <2>1, <2>2, <2>3, <2>4, <2>5, <2>6, <2>7 DEF Goes, Body
<1>3. CASE UNCHANGED vars
  <2>1. /\ pc' = pc /\ request' = request /\ answer' = answer /\ file_buffer' = file_buffer
        /\ file' = file
    BY <1>3 DEF vars, disk, threads
  <2>2. Kept' = Kept BY <2>1, KeptOutside
  <2> QED BY <2>1, <2>2 DEF Abstract!vars
<1> QED BY <1>1, <1>2, <1>3 DEF Next

LEMMA AbstractInit == Init => Abstract!Init
<1> SUFFICES ASSUME Init PROVE Abstract!Init
  OBVIOUS
<1>1. /\ pc = [c \in Callers |-> "idle"] /\ request = [c \in Callers |-> <<>>]
      /\ answer = [c \in Callers |-> {}] /\ file = <<>>
  BY DEF Init, Fresh
<1>2. Kept = <<>> BY <1>1 DEF Kept
<1>3. \A k \in Keys : Setting(Kept, k[1], k[2]) = {} BY <1>2, EmptyIs, SettingIs
<1>4. Stored = [k \in Keys |-> {}] BY <1>3 DEF Stored
<1>5. Phase = [c \in Callers |-> "idle"] BY <1>1 DEF Phase
<1>6. Abstract!NoCalls BY <1>1, <1>5 DEF Abstract!NoCalls, Phase
<1> QED BY <1>4, <1>6 DEF Abstract!Init, Stored

(* A profile is a map of settings, read and written atomically: a write     *)
(* changes the one setting it names, a read gives the last value written,   *)
(* and a process that dies loses nothing, or everything if it was writing.  *)
(* But a read of a setting that is not there may give anything, and a write *)
(* that cannot open the file for update is lost, unless its token is new.   *)
(* It needs the mutex: no thread may come to profile_lock while another is  *)
(* initializing it.                                                         *)
THEOREM SettingsImplemented == Spec /\ []~raced => ImplementsSettings
<1>1. Init => Abstract!Init BY AbstractInit
<1>2. IInv /\ Alone /\ TextInv /\ Alone' /\ [Next]_vars => [Abstract!Next]_(Abstract!vars)
  BY Simulation DEF IInv
<1> QED BY <1>1, <1>2, TextInvariance, PTL DEF Spec, ImplementsSettings, Abstract!Spec

(* Whatever the threads do, and however often the process dies, the text    *)
(* that is on the disk, or is being written again, is a profile: headers    *)
(* and lines, each parameter at most once in the first section of its       *)
(* token, and a setting of the token in it.                                 *)
THEOREM KeptIsProfile == Spec /\ []~raced => [](Profiled(Kept) /\ Filled(Kept))
<1>1. TextInv => Profiled(Kept) /\ Filled(Kept) BY DEF TextInv, Sound
<1> QED BY <1>1, TextInvariance, PTL

=============================================================================
