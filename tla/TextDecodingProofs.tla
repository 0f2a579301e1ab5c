------------------------- MODULE TextDecodingProofs -------------------------
(***************************************************************************)
(* Proofs that decoding a text in its own buffer stays in place, for texts *)
(* of every length: decodeValue and trim read nothing outside the text,    *)
(* and nothing is written outside the values; and that the strings which   *)
(* callbacks are given are, when all has been decoded, what the text meant *)
(* by them.                                                                *)
(***************************************************************************)
EXTENDS TextDecoding, SequenceTheorems, FiniteSetTheorems, WellFoundedInduction, TLAPS

TypeInv ==
    /\ buf \in Seq(Int) /\ Len(buf) = Len(received.buf)
    /\ readPos \in Nat /\ writePos \in Nat /\ esc \in 0..5
    /\ s \in [data : Int, length : Int] /\ c \in [data : Int, length : Int]
    /\ cs \in [data : Int, length : Int]
    /\ pc \in {"next", "failed", "decodeValue", "trim", "trimRight", "json", "string"}

Busy == pc \notin {"next", "failed"}

(* What is left to do has its own places, nothing of it has been touched   *)
(* but for the job at hand.                                                *)
TodoInv ==
    /\ todo \in Seq(Jobs)
    /\ \A k \in DOMAIN todo :
          /\ Fits(received.buf, todo[k])
          /\ \A j \in 1..k - 1 : Span(todo[j]) \cap Span(todo[k]) = {}
          /\ k > 1 \/ pc = "next" => Span(todo[k]) \cap within = {}
    /\ Busy => todo # <<>>

Job == Head(todo)
End == Job.data + Job.length

(* decodeValue writes behind what it has read. *)
DecodeInv ==
    pc = "decodeValue" =>
        /\ Job.op = "decodeValue" /\ s = [data |-> Job.data, length |-> Job.length]
        /\ writePos <= readPos /\ readPos <= s.length
        /\ Span(s) \subseteq within
        /\ \A i \in Span(s) : i >= s.data + readPos => buf[i] = received.buf[i]

(* trim narrows the field; from the right it stops at what stopped it from *)
(* the left.                                                               *)
TrimInv ==
    /\ pc \in {"trim", "trimRight"} =>
          /\ Job.op = "trim" /\ Job.length # 0
          /\ s.data >= Job.data /\ s.length >= 0 /\ s.data + s.length <= End
    /\ pc = "trim" => s.data + s.length = End
    /\ pc = "trimRight" =>
          IF s.length = 0 THEN s.data > Job.data ELSE ~Blank(0)

(* The strings of a document.  The characters collected end where the one  *)
(* that is being read begins, and all up to the reader belongs to the      *)
(* string.                                                                 *)
JsonInv ==
    /\ pc \in {"json", "string"} =>
          /\ Job.op = "json" /\ s = [data |-> Job.data, length |-> Job.length]
          /\ readPos <= s.length
    /\ pc = "json" => c = None /\ esc = 0
    /\ pc = "string" =>
          /\ esc <= readPos /\ At - esc .. At - 1 \subseteq within
          /\ c # None => /\ esc = 0 /\ c.length \in {1, 4} /\ c.data >= 1
                         /\ c.data + c.length = At /\ Span(c) \subseteq within
          /\ cs # None => /\ cs.data >= 1 /\ cs.length >= 0
                          /\ cs.data + cs.length <= (IF c # None THEN c.data ELSE At - esc)
                          /\ cs.data .. At - 1 \subseteq within

IInv == received \in Texts /\ TypeInv /\ TodoInv /\ DecodeInv /\ TrimInv /\ JsonInv /\ RestAsReceived /\ ReadsInText

-----------------------------------------------------------------------------
(* Overwriting keeps the length of the text and what is beside the place.  *)
LEMMA OverwriteInPlace ==
    ASSUME NEW b \in Seq(Int), NEW at \in Int, NEW new \in Seq(Int)
    PROVE  /\ Overwrite(b, at, new) \in Seq(Int) /\ Len(Overwrite(b, at, new)) = Len(b)
           /\ \A i \in DOMAIN b : i \notin at .. at + Len(new) - 1 => Overwrite(b, at, new)[i] = b[i]
<1> DEFINE Val(i) == IF i \in at .. at + Len(new) - 1 THEN new[i - at + 1] ELSE b[i]
<1>1. \A i \in 1..Len(b) : Val(i) \in Int
  <2> TAKE i \in 1..Len(b)
  <2>1. b[i] \in Int
    OBVIOUS
  <2>2. ASSUME i \in at .. at + Len(new) - 1 PROVE new[i - at + 1] \in Int
    <3>1. i - at + 1 \in 1..Len(new)
      BY <2>2
    <3> QED BY <3>1
  <2> QED BY <2>1, <2>2
<1>2. DOMAIN b = 1..Len(b)
  OBVIOUS
<1>3. Overwrite(b, at, new) = [i \in 1..Len(b) |-> Val(i)]
  BY <1>2 DEF Overwrite
<1> HIDE DEF Val
<1>4. [i \in 1..Len(b) |-> Val(i)] \in Seq(Int) /\ Len([i \in 1..Len(b) |-> Val(i)]) = Len(b)
  BY <1>1
<1>5. ASSUME NEW i \in DOMAIN b, i \notin at .. at + Len(new) - 1
      PROVE  Overwrite(b, at, new)[i] = b[i]
  BY <1>2, <1>3, <1>5 DEF Val
<1> QED BY <1>3, <1>4, <1>5

LEMMA BytesAreInts ==
    ASSUME NEW b \in Seq(0..255)
    PROVE  b \in Seq(Int)
<1>1. 0..255 \subseteq Int
  OBVIOUS
<1> QED BY <1>1, SeqMonotonic

(* What the grammar hands over lies in the text. *)
LEMMA SpanInText ==
    ASSUME NEW b \in Seq(Int), NEW job \in Jobs, Fits(b, job)
    PROVE  /\ job.data \in Nat \ {0} /\ job.length \in Nat
           /\ job.op \in {"decodeValue", "trim", "json"}
           /\ Span(job) \subseteq 1..Len(b) /\ job.data + job.length <= Len(b) + 1
           /\ job.op = "trim" => job.data + job.length <= Len(b)
BY DEF Jobs, Fits, Span

(* The decoders work on the first thing to do. *)
LEMMA JobAtHand ==
    ASSUME received \in Texts, TypeInv, TodoInv, todo # <<>>
    PROVE  /\ received.buf \in Seq(Int) /\ Len(received.buf) = Len(buf)
           /\ Job = todo[1] /\ Job \in Jobs /\ Fits(received.buf, Job)
           /\ Job.data \in Nat \ {0} /\ Job.length \in Nat
           /\ Job.op \in {"decodeValue", "trim", "json"}
           /\ Span(Job) \subseteq 1..Len(buf) /\ End <= Len(buf) + 1
           /\ Job.op = "trim" => End <= Len(buf)
<1>1. received.buf \in Seq(Int) /\ Len(received.buf) = Len(buf)
  <2>1. received.buf \in Seq(0..255)
    BY TextsAssumption
  <2> QED BY <2>1, BytesAreInts DEF TypeInv
<1>2. Job = todo[1] /\ Job \in Jobs /\ Fits(received.buf, Job)
  BY DEF TodoInv, Job
<1> QED BY <1>1, <1>2, SpanInText DEF End

(* While the first thing is being done, nothing of the others is touched. *)
LEMMA TodoStays ==
    ASSUME TodoInv, todo # <<>>, UNCHANGED <<todo, received>>, pc' # "next",
           within' \subseteq within \cup Span(Job)
    PROVE  TodoInv'
<1>1. DOMAIN todo = 1..Len(todo) /\ Len(todo) \in Nat /\ Job = todo[1] /\ 1 \in DOMAIN todo
  BY DEF TodoInv, Job
<1>2. ASSUME NEW k \in DOMAIN todo, k > 1 PROVE Span(todo[k]) \cap within' = {}
  <2>1. Span(todo[k]) \cap within = {}
    BY <1>2 DEF TodoInv
  <2>2. Span(Job) \cap Span(todo[k]) = {}
    <3>1. 1 \in 1..k - 1
      BY <1>1, <1>2
    <3> QED BY <1>1, <3>1 DEF TodoInv
  <2> QED BY <2>1, <2>2
<1>3. Busy' => todo' # <<>>
  OBVIOUS
<1>4. (todo \in Seq(Jobs))'
  BY DEF TodoInv
<1>5. ASSUME NEW k \in DOMAIN todo
      PROVE  Fits(received.buf, todo[k]) /\ \A j \in 1..k - 1 : Span(todo[j]) \cap Span(todo[k]) = {}
  BY DEF TodoInv
<1> QED BY <1>2, <1>3, <1>4, <1>5 DEF TodoInv, Fits

(* And then it is the turn of the next. *)
LEMMA TodoRest ==
    ASSUME TodoInv, todo # <<>>, todo' = Tail(todo), pc' = "next", UNCHANGED <<received, within>>
    PROVE  TodoInv'
<1>1. /\ todo' \in Seq(Jobs) /\ DOMAIN todo' = 1..Len(todo) - 1
      /\ \A k \in DOMAIN todo' : todo'[k] = todo[k + 1] /\ k + 1 \in DOMAIN todo
  BY DEF TodoInv
<1>2. ASSUME NEW k \in DOMAIN todo'
      PROVE  /\ Fits(received.buf, todo'[k]) /\ Span(todo'[k]) \cap within = {}
             /\ \A j \in 1..k - 1 : Span(todo'[j]) \cap Span(todo'[k]) = {}
  <2>1. k + 1 \in DOMAIN todo /\ todo'[k] = todo[k + 1] /\ k + 1 > 1 /\ k \in Nat
    BY <1>1
  <2>2. ASSUME NEW j \in 1..k - 1 PROVE Span(todo'[j]) \cap Span(todo'[k]) = {}
    <3>1. j \in DOMAIN todo' /\ j + 1 \in 1..(k + 1) - 1
      BY <1>1, <2>1
    <3> QED BY <1>1, <2>1, <3>1 DEF TodoInv
  <2> QED BY <2>1, <2>2 DEF TodoInv
<1>3. ~Busy'
  BY DEF Busy
<1> QED BY <1>1, <1>2, <1>3 DEF TodoInv, Fits

-----------------------------------------------------------------------------
LEMMA InitInv == Init => IInv
<1> SUFFICES ASSUME Init PROVE IInv
  OBVIOUS
<1>1. /\ received.buf \in Seq(0..255) /\ received.todo \in Seq(Jobs)
      /\ \A k \in DOMAIN received.todo :
            /\ Fits(received.buf, received.todo[k])
            /\ \A j \in 1..k - 1 : Span(received.todo[j]) \cap Span(received.todo[k]) = {}
  BY TextsAssumption DEF Init
<1>2. buf \in Seq(Int)
  BY <1>1, BytesAreInts DEF Init
<1>3. TypeInv
  BY <1>2 DEF Init, TypeInv, None
<1>4. TodoInv
  BY <1>1 DEF Init, TodoInv, Busy
<1>5. DecodeInv /\ TrimInv /\ JsonInv
  BY DEF Init, DecodeInv, TrimInv, JsonInv
<1>6. RestAsReceived /\ ReadsInText
  BY DEF Init, RestAsReceived, ReadsInText
<1> QED BY <1>3, <1>4, <1>5, <1>6 DEF Init, IInv

LEMMA BeginKeepsInv ==
    ASSUME IInv, Begin
    PROVE  IInv'
<1> USE DEF IInv
<1>1. /\ pc = "next" /\ todo # <<>> /\ UNCHANGED <<buf, told, received, todo>>
      /\ s' = [data |-> Job.data, length |-> Job.length] /\ readPos' = 0 /\ writePos' = 0
      /\ esc' = 0 /\ c' = None /\ cs' = None /\ read' = {}
      /\ (pc' = Job.op /\ s'.length # 0) \/ pc' = "failed"
      /\ within' = IF Job.op = "json" THEN within ELSE within \cup Span(s')
  BY DEF Begin, Failed, Job
<1>2. /\ Job.data \in Nat \ {0} /\ Job.length \in Nat /\ Job.op \in {"decodeValue", "trim", "json"}
      /\ received.buf \in Seq(Int) /\ Len(received.buf) = Len(buf)
      /\ Job \in Jobs /\ Job = todo[1] /\ Span(Job) \subseteq 1..Len(buf)
  BY <1>1, JobAtHand
<1>3. Span(s') = Span(Job)
  BY <1>1 DEF Span
<1>4. TypeInv'
  BY <1>1, <1>2 DEF TypeInv, None
<1>5. TodoInv'
  <2>1. pc' # "next" /\ within' \subseteq within \cup Span(Job)
    BY <1>1, <1>2, <1>3
  <2> QED BY <1>1, <2>1, TodoStays
<1>6. DecodeInv'
  <2> SUFFICES ASSUME pc' = "decodeValue" PROVE DecodeInv'
    BY DEF DecodeInv
  <2>1. Job.op = "decodeValue" /\ Span(s') \subseteq within'
    BY <1>1, <1>2
  <2>2. \A i \in Span(Job) : buf[i] = received.buf[i]
    <3>1. Span(Job) \cap within = {}
      <4>1. 1 \in DOMAIN todo
        BY <1>1 DEF TodoInv
      <4> QED BY <1>1, <1>2, <4>1 DEF TodoInv
    <3>2. Span(Job) \subseteq DOMAIN buf
      BY <1>2 DEF TypeInv
    <3> QED BY <3>1, <3>2 DEF RestAsReceived
  <2>3. Job' = Job
    BY <1>1 DEF Job
  <2>4. 0 <= Job.length
    BY <1>2
  <2> QED BY <1>1, <1>3, <2>1, <2>2, <2>3, <2>4 DEF DecodeInv
<1>7. TrimInv'
  <2>1. Job' = Job
    BY <1>1 DEF Job
  <2> QED BY <1>1, <1>2, <2>1 DEF TrimInv, End
<1>8. JsonInv'
  <2>1. Job' = Job
    BY <1>1 DEF Job
  <2> QED BY <1>1, <1>2, <2>1 DEF JsonInv
<1>9. RestAsReceived' /\ ReadsInText'
  BY <1>1 DEF RestAsReceived, ReadsInText
<1> QED BY <1>1, <1>4, <1>5, <1>6, <1>7, <1>8, <1>9

-----------------------------------------------------------------------------
(* decodeValue at work: its value is the job, and what it is about to read *)
(* is as it was received.                                                  *)
LEMMA Decoding ==
    ASSUME IInv, pc = "decodeValue"
    PROVE  /\ todo # <<>> /\ Job.op = "decodeValue" /\ Span(s) = Span(Job)
           /\ s = [data |-> Job.data, length |-> Job.length]
           /\ s.data \in Nat \ {0} /\ s.length \in Nat
           /\ Span(s) \subseteq DOMAIN buf /\ Span(s) \subseteq within
           /\ writePos <= readPos /\ readPos <= s.length
           /\ \A i \in Span(s) : i >= s.data + readPos => buf[i] = received.buf[i]
           /\ Len(received.buf) = Len(buf) /\ Fits(received.buf, Job)
<1> USE DEF IInv
<1>1. todo # <<>>
  BY DEF TodoInv, Busy
<1>2. /\ Job.data \in Nat \ {0} /\ Job.length \in Nat /\ Span(Job) \subseteq 1..Len(buf)
      /\ Len(received.buf) = Len(buf) /\ Fits(received.buf, Job)
  BY <1>1, JobAtHand
<1>3. /\ Job.op = "decodeValue" /\ s = [data |-> Job.data, length |-> Job.length]
      /\ writePos <= readPos /\ readPos <= s.length /\ Span(s) \subseteq within
      /\ \A i \in Span(s) : i >= s.data + readPos => buf[i] = received.buf[i]
  BY DEF DecodeInv
<1>4. Span(s) = Span(Job) /\ s.data = Job.data /\ s.length = Job.length
  BY <1>3 DEF Span
<1>5. DOMAIN buf = 1..Len(buf)
  BY DEF TypeInv
<1> QED BY <1>1, <1>2, <1>3, <1>4, <1>5

(* One character written, behind what has been read: all that decodeValue  *)
(* relies on stays, and nothing outside the value is touched.              *)
LEMMA WriteKeepsInv ==
    ASSUME IInv, pc = "decodeValue", NEW ch \in Int, NEW n \in {1, 3}, readPos + n <= s.length,
           Write(ch), readPos' = readPos + n, read' \subseteq Span(s),
           UNCHANGED <<todo, pc, s, esc, c, cs, received, within>>
    PROVE  IInv'
<1> USE DEF IInv
<1>1. /\ todo # <<>> /\ Job.op = "decodeValue" /\ s = [data |-> Job.data, length |-> Job.length]
      /\ s.data \in Nat \ {0} /\ s.length \in Nat
      /\ Span(s) \subseteq DOMAIN buf /\ Span(s) \subseteq within
      /\ writePos <= readPos /\ readPos <= s.length
      /\ \A i \in Span(s) : i >= s.data + readPos => buf[i] = received.buf[i]
  BY Decoding
<1>2. readPos \in Nat /\ writePos \in Nat /\ buf \in Seq(Int) /\ Len(buf) = Len(received.buf)
  BY DEF TypeInv
<1>3. /\ writePos' = writePos + 1 /\ buf' \in Seq(Int) /\ Len(buf') = Len(buf)
      /\ \A i \in DOMAIN buf : i # s.data + writePos => buf'[i] = buf[i]
  <2>1. PICK at \in Int : at = s.data + writePos
    BY <1>1, <1>2
  <2>2. buf' = Overwrite(buf, at, <<ch>>) /\ writePos' = writePos + 1
    BY <2>1 DEF Write
  <2>3. <<ch>> \in Seq(Int) /\ Len(<<ch>>) = 1
    OBVIOUS
  <2>4. /\ buf' \in Seq(Int) /\ Len(buf') = Len(buf)
        /\ \A i \in DOMAIN buf : i \notin at .. at + 1 - 1 => buf'[i] = buf[i]
    BY <1>2, <2>2, <2>3, OverwriteInPlace
  <2>5. \A i \in at .. at + 1 - 1 : i = at
    OBVIOUS
  <2> QED BY <2>1, <2>2, <2>4, <2>5
<1>4. DOMAIN buf' = DOMAIN buf
  BY <1>2, <1>3
<1>5. TypeInv'
  BY <1>2, <1>3 DEF TypeInv
<1>6. TodoInv'
  BY <1>1, TodoStays
<1>7. DecodeInv'
  <2>1. ASSUME NEW i \in Span(s), i >= s.data + (readPos + n) PROVE buf'[i] = received.buf[i]
    <3>1. i \in DOMAIN buf /\ i \in Int /\ s.data \in Int
      BY <1>1, <1>2 DEF Span
    <3>2. i >= s.data + readPos /\ i # s.data + writePos
      <4>1. PICK d \in Int : d = s.data
        BY <3>1
      <4>2. n >= 1 /\ n \in Int
        OBVIOUS
      <4>3. i >= d + (readPos + n) /\ writePos <= readPos
        BY <1>1, <2>1, <4>1
      <4>4. i >= d + readPos /\ i # d + writePos
        BY <1>2, <3>1, <4>2, <4>3
      <4> QED BY <4>1, <4>4
    <3> QED BY <1>1, <1>3, <3>1, <3>2
  <2>2. writePos + 1 <= readPos + n
    BY <1>1, <1>2
  <2>3. Job' = Job /\ Span(s)' = Span(s)
    BY DEF Job, Span
  <2> QED BY <1>1, <1>3, <2>1, <2>2, <2>3 DEF DecodeInv
<1>8. TrimInv' /\ JsonInv'
  BY DEF TrimInv, JsonInv
<1>9. RestAsReceived'
  <2>1. s.data + writePos \in within
    <3>1. PICK d \in Nat, l \in Nat : d = s.data /\ l = s.length
      BY <1>1
    <3>2. writePos < l
      BY <1>1, <1>2, <3>1
    <3>3. d + writePos \in d .. d + l - 1
      BY <1>2, <3>2
    <3> QED BY <1>1, <3>1, <3>3 DEF Span
  <2> QED BY <1>3, <1>4, <2>1 DEF RestAsReceived
<1>10. ReadsInText'
  <2>1. Span(s)' = Span(s)
    BY DEF Span
  <2> QED BY <1>1, <1>4, <2>1 DEF ReadsInText
<1> QED BY <1>5, <1>6, <1>7, <1>8, <1>9, <1>10

LEMMA DecodeCharKeepsInv ==
    ASSUME IInv, DecodeChar
    PROVE  IInv'
<1>1. /\ s.data \in Nat \ {0} /\ s.length \in Nat /\ Span(s) \subseteq DOMAIN buf
      /\ pc = "decodeValue" /\ readPos < s.length /\ readPos \in Nat /\ buf \in Seq(Int)
  BY Decoding DEF DecodeChar, More, IInv, TypeInv
<1>2. s.data + readPos \in Span(s) /\ Char(readPos) \in Int
  <2>1. s.data + readPos \in Span(s)
    BY <1>1 DEF Span
  <2>2. s.data + readPos \in DOMAIN buf
    BY <1>1, <2>1
  <2> QED BY <1>1, <2>1, <2>2 DEF Char
<1>3. (IF Char(readPos) = Plus /\ Head(todo).plus THEN Space ELSE Char(readPos)) \in Int
  BY <1>2 DEF Space
<1>4. readPos + 1 <= s.length
  BY <1>1
<1>5. read' \subseteq Span(s)
  BY <1>2 DEF DecodeChar
<1> QED BY <1>1, <1>3, <1>4, <1>5, WriteKeepsInv DEF DecodeChar

(* An escape: the grammar has let the '%' through with two digits behind   *)
(* it, what has not been read is as the grammar saw it, and the unsigned   *)
(* difference does not wrap, so the escape is never refused.               *)
LEMMA EscapeIsDecoded ==
    ASSUME IInv, DecodeEscape
    PROVE  LET ch == 16 * tbl(Char(readPos + 1)) + tbl(Char(readPos + 2))
           IN  /\ ch \in Int /\ Write(ch) /\ readPos' = readPos + 3 /\ readPos + 3 <= s.length
               /\ IsHexdig(Char(readPos + 1)) /\ IsHexdig(Char(readPos + 2))
               /\ read' \subseteq Span(s) /\ UNCHANGED <<pc, todo>>
<1> DEFINE digits == <<tbl(Char(readPos + 1)), tbl(Char(readPos + 2))>>
<1>1. /\ Span(s) = Span(Job) /\ Job.op = "decodeValue" /\ Fits(received.buf, Job)
      /\ \A i \in Span(s) : i >= s.data + readPos => buf[i] = received.buf[i]
      /\ readPos < s.length
  BY Decoding DEF DecodeEscape, More
<1>2. PICK d \in Nat \ {0}, l \in Nat, r \in Nat : d = s.data /\ l = s.length /\ r = readPos
  BY Decoding DEF DecodeEscape, IInv, TypeInv
<1>3. Span(s) = d .. d + l - 1 /\ r < l
  BY <1>1, <1>2 DEF Span
<1>4. d + r \in Span(s) /\ received.buf[d + r] = Percent
  <2>1. d + r \in Span(s) /\ d + r >= d + r
    BY <1>3
  <2>2. buf[d + r] = Percent
    BY <1>2 DEF DecodeEscape, Char
  <2> QED BY <1>1, <1>2, <2>1, <2>2
<1>5. /\ (d + r) + 2 \in Span(s)
      /\ IsHexdig(received.buf[(d + r) + 1]) /\ IsHexdig(received.buf[(d + r) + 2])
  BY <1>1, <1>4 DEF Fits
<1>6. r + 3 <= l /\ (d + r) + 1 \in Span(s)
  BY <1>3, <1>5
<1>7. IsHexdig(Char(r + 1)) /\ IsHexdig(Char(r + 2))
  <2>1. d + (r + 1) = (d + r) + 1 /\ d + (r + 2) = (d + r) + 2
    OBVIOUS
  <2>2. (d + r) + 1 >= d + r /\ (d + r) + 2 >= d + r
    OBVIOUS
  <2>3. buf[(d + r) + 1] = received.buf[(d + r) + 1] /\ buf[(d + r) + 2] = received.buf[(d + r) + 2]
    BY <1>1, <1>2, <1>5, <1>6, <2>2
  <2> QED BY <1>2, <1>5, <2>1, <2>3 DEF Char
<1>8. digits[1] \in Int /\ digits[2] \in Int /\ digits[1] # NA /\ digits[2] # NA
  <2>1. \A ch : IsHexdig(ch) => tbl(ch) \in Int /\ tbl(ch) # NA
    BY DEF IsHexdig, tbl, NA
  <2> QED BY <1>2, <1>7, <2>1
<1>9. EscapeFits
  <2>1. l - 2 >= 0 /\ r < l - 2
    BY <1>6
  <2> QED BY <1>2, <2>1 DEF EscapeFits, SizeT
<1>10. read' \subseteq Span(s)
  <2>1. read' = {d + r + k : k \in 0..2}
    BY <1>2 DEF DecodeEscape
  <2>2. \A k \in 0..2 : d + r + k = d + r \/ d + r + k = (d + r) + 1 \/ d + r + k = (d + r) + 2
    OBVIOUS
  <2> QED BY <1>4, <1>5, <1>6, <2>1, <2>2
<1>11. Write(16 * digits[1] + digits[2]) /\ readPos' = readPos + 3 /\ UNCHANGED <<pc, todo>>
  BY <1>8, <1>9 DEF DecodeEscape
<1>12. 16 * digits[1] + digits[2] \in Int
  BY <1>8
<1>13. digits[1] = tbl(Char(readPos + 1)) /\ digits[2] = tbl(Char(readPos + 2))
  OBVIOUS
<1> HIDE DEF digits
<1> QED BY <1>2, <1>6, <1>7, <1>10, <1>11, <1>12, <1>13

LEMMA DecodeEscapeKeepsInv ==
    ASSUME IInv, DecodeEscape
    PROVE  IInv'
<1>1. PICK ch \in Int : /\ Write(ch) /\ readPos' = readPos + 3 /\ readPos + 3 <= s.length
                        /\ read' \subseteq Span(s) /\ UNCHANGED <<pc, todo>>
  BY EscapeIsDecoded, Zenon
<1>2. pc = "decodeValue" /\ UNCHANGED <<s, esc, c, cs, told, received, within>>
  BY DEF DecodeEscape
<1> QED BY <1>1, <1>2, WriteKeepsInv

LEMMA DecodeEndKeepsInv ==
    ASSUME IInv, DecodeEnd
    PROVE  IInv'
<1> USE DEF IInv
<1>1. /\ todo # <<>> /\ todo' = Tail(todo) /\ pc' = "next" /\ s' = [s EXCEPT !.length = writePos]
      /\ read' = {} /\ UNCHANGED <<buf, readPos, writePos, esc, c, cs, received, within>>
  BY Decoding DEF DecodeEnd, Tell
<1>2. TypeInv'
  <2>1. s' \in [data : Int, length : Int]
    <3>1. PICK n \in Int : n = writePos
      BY DEF TypeInv
    <3>2. s \in [data : Int, length : Int]
      BY DEF TypeInv
    <3> QED BY <1>1, <3>1, <3>2
  <2> QED BY <1>1, <2>1 DEF TypeInv
<1>3. TodoInv'
  BY <1>1, TodoRest
<1>4. DecodeInv' /\ TrimInv' /\ JsonInv' /\ RestAsReceived' /\ ReadsInText'
  BY <1>1 DEF DecodeInv, TrimInv, JsonInv, RestAsReceived, ReadsInText
<1> QED BY <1>1, <1>2, <1>3, <1>4

-----------------------------------------------------------------------------
(* trim at work. *)
LEMMA Trimming ==
    ASSUME IInv, pc \in {"trim", "trimRight"}
    PROVE  /\ todo # <<>> /\ Job.data \in Nat \ {0} /\ Job.length \in Nat
           /\ s \in [data : Int, length : Int] /\ s.data \in Nat \ {0} /\ s.length \in Nat
           /\ s.data + s.length <= End /\ End <= Len(buf) /\ End \in Nat
           /\ DOMAIN buf = 1..Len(buf) /\ Len(buf) \in Nat
<1> USE DEF IInv
<1>1. todo # <<>>
  BY DEF TodoInv, Busy
<1>2. /\ Job.data \in Nat \ {0} /\ Job.length \in Nat
      /\ Job.op = "trim" => End <= Len(buf)
  BY <1>1, JobAtHand
<1>3. Job.op = "trim" /\ s.data >= Job.data /\ s.length >= 0 /\ s.data + s.length <= End
  BY DEF TrimInv
<1>4. End \in Nat
  BY <1>2 DEF End
<1>5. DOMAIN buf = 1..Len(buf) /\ Len(buf) \in Nat /\ s \in [data : Int, length : Int]
  BY DEF TypeInv
<1>6. s.data \in Nat \ {0} /\ s.length \in Nat
  <2>1. s.data \in Int /\ s.length \in Int
    BY <1>5
  <2> QED BY <1>2, <1>3, <2>1
<1> QED BY <1>1, <1>2, <1>3, <1>4, <1>5, <1>6

LEMMA TrimLeftKeepsInv ==
    ASSUME IInv, TrimLeft
    PROVE  IInv'
<1> USE DEF IInv
<1>1. /\ pc = "trim" /\ read' = {s.data} /\ UNCHANGED <<buf, todo, readPos, writePos>>
      /\ UNCHANGED <<esc, c, cs, told, received, within>>
      /\ \/ /\ s.length > 0 /\ s' = [data |-> s.data + 1, length |-> s.length - 1] /\ pc' = "trim"
         \/ ~Blank(0) /\ s' = s /\ pc' = "trimRight"
  BY DEF TrimLeft, Blank
<1>2. /\ todo # <<>> /\ Job.data \in Nat \ {0} /\ Job.length \in Nat
      /\ s \in [data : Int, length : Int] /\ s.data \in Nat \ {0} /\ s.length \in Nat
      /\ End <= Len(buf) /\ End \in Nat /\ DOMAIN buf = 1..Len(buf) /\ Len(buf) \in Nat
  BY <1>1, Trimming
<1>3. /\ s.data + s.length = End /\ Job.op = "trim" /\ Job.length # 0 /\ s.data >= Job.data
  BY <1>1 DEF TrimInv
<1>4. TypeInv'
  <2>1. s' \in [data : Int, length : Int]
    BY <1>1, <1>2
  <2> QED BY <1>1, <2>1 DEF TypeInv
<1>5. TodoInv'
  BY <1>1, <1>2, TodoStays
<1>6. TrimInv'
  <2>1. Job' = Job /\ End' = End
    BY <1>1 DEF Job, End
  <2>2. CASE s.length > 0 /\ s' = [data |-> s.data + 1, length |-> s.length - 1] /\ pc' = "trim"
    <3>1. s'.data >= Job.data /\ s'.length >= 0 /\ s'.data + s'.length = End
      BY <1>2, <1>3, <2>2
    <3>2. s'.data + s'.length <= End
      BY <1>2, <3>1
    <3> QED BY <1>3, <2>1, <2>2, <3>1, <3>2 DEF TrimInv
  <2>3. CASE ~Blank(0) /\ s' = s /\ pc' = "trimRight"
    <3>1. s.length = 0 => s.data > Job.data
      BY <1>2, <1>3 DEF End
    <3>2. ~Blank(0)'
      BY <1>1, <2>3 DEF Blank, Char
    <3>3. s.data + s.length <= End /\ s.length >= 0
      BY <1>2, <1>3
    <3> QED BY <1>3, <2>1, <2>3, <3>1, <3>2, <3>3 DEF TrimInv
  <2> QED BY <1>1, <2>2, <2>3
<1>7. DecodeInv' /\ JsonInv' /\ RestAsReceived'
  BY <1>1 DEF DecodeInv, JsonInv, RestAsReceived
<1>8. ReadsInText'
  <2>1. s.data \in DOMAIN buf
    BY <1>2, <1>3
  <2> QED BY <1>1, <2>1 DEF ReadsInText
<1> QED BY <1>1, <1>4, <1>5, <1>6, <1>7, <1>8

LEMMA TrimRightKeepsInv ==
    ASSUME IInv, TrimRight
    PROVE  IInv'
<1> USE DEF IInv
<1>1. /\ pc = "trimRight" /\ read' = {s.data + s.length - 1} /\ UNCHANGED <<buf, readPos, writePos>>
      /\ UNCHANGED <<esc, c, cs, received, within>>
      /\ \/ /\ Blank(s.length - 1) /\ s.length > 0
            /\ s' = [s EXCEPT !.length = @ - 1] /\ UNCHANGED <<pc, todo>>
         \/ /\ s' = (IF s.length = 0 THEN EmptyString ELSE s)
            /\ todo' = Tail(todo) /\ pc' = "next"
  BY DEF TrimRight, Blank, Tell
<1>2. /\ todo # <<>> /\ Job.data \in Nat \ {0} /\ Job.length \in Nat
      /\ s \in [data : Int, length : Int] /\ s.data \in Nat \ {0} /\ s.length \in Nat
      /\ s.data + s.length <= End /\ End <= Len(buf) /\ End \in Nat
      /\ DOMAIN buf = 1..Len(buf) /\ Len(buf) \in Nat
  BY <1>1, Trimming
<1>3. /\ Job.op = "trim" /\ Job.length # 0 /\ s.data >= Job.data
      /\ IF s.length = 0 THEN s.data > Job.data ELSE ~Blank(0)
  BY <1>1 DEF TrimInv
<1>4. TypeInv'
  <2>1. s' \in [data : Int, length : Int]
    BY <1>1, <1>2 DEF EmptyString
  <2>2. pc' \in {"trimRight", "next"}
    BY <1>1
  <2> QED BY <1>1, <2>1, <2>2 DEF TypeInv
<1>5. TodoInv'
  <2>1. CASE UNCHANGED <<pc, todo>>
    BY <1>1, <1>2, <2>1, TodoStays
  <2>2. CASE todo' = Tail(todo) /\ pc' = "next"
    BY <1>1, <1>2, <2>2, TodoRest
  <2> QED BY <1>1, <2>1, <2>2
<1>6. TrimInv'
  <2>1. CASE /\ Blank(s.length - 1) /\ s.length > 0
             /\ s' = [s EXCEPT !.length = @ - 1] /\ UNCHANGED <<pc, todo>>
    <3>1. Job' = Job /\ End' = End
      BY <1>1, <2>1 DEF Job, End
    <3>2. s'.data = s.data /\ s'.length = s.length - 1
      BY <1>2, <2>1
    <3>3. s.length # 1 /\ ~Blank(0)
      <4>1. s.length = 1 => s.length - 1 = 0
        OBVIOUS
      <4> QED BY <1>3, <2>1, <4>1
    <3>4. ~Blank(0)'
      BY <1>1, <2>1, <3>2, <3>3 DEF Blank, Char
    <3>5. s'.length # 0 /\ s'.length >= 0 /\ s'.data + s'.length <= End
      BY <1>2, <2>1, <3>2, <3>3
    <3> QED BY <1>1, <1>3, <2>1, <3>1, <3>2, <3>4, <3>5 DEF TrimInv
  <2>2. CASE pc' = "next"
    BY <2>2 DEF TrimInv
  <2> QED BY <1>1, <2>1, <2>2
<1>7. DecodeInv' /\ JsonInv' /\ RestAsReceived'
  BY <1>1 DEF DecodeInv, JsonInv, RestAsReceived
<1>8. ReadsInText'
  <2>1. s.data + s.length - 1 \in DOMAIN buf
    BY <1>2, <1>3
  <2> QED BY <1>1, <2>1 DEF ReadsInText
<1> QED BY <1>1, <1>4, <1>5, <1>6, <1>7, <1>8

-----------------------------------------------------------------------------
(* The reader of a document. *)
LEMMA Reader ==
    ASSUME IInv, pc \in {"json", "string"}
    PROVE  /\ todo # <<>> /\ s \in [data : Int, length : Int] /\ s.data \in Nat \ {0}
           /\ readPos \in Nat /\ At \in Nat \ {0} /\ At - readPos = s.data /\ At - 1 <= Len(buf)
           /\ readPos < s.length => At \in Span(Job) /\ At <= Len(buf)
           /\ DOMAIN buf = 1..Len(buf) /\ Len(buf) \in Nat /\ buf \in Seq(Int)
<1> USE DEF IInv
<1>1. todo # <<>>
  BY DEF TodoInv, Busy
<1>2. Job.data \in Nat \ {0} /\ Job.length \in Nat /\ End <= Len(buf) + 1
  BY <1>1, JobAtHand
<1>3. s = [data |-> Job.data, length |-> Job.length] /\ readPos <= s.length
  BY DEF JsonInv
<1>4. readPos \in Nat /\ DOMAIN buf = 1..Len(buf) /\ Len(buf) \in Nat /\ buf \in Seq(Int)
  BY DEF TypeInv
<1>5. PICK d \in Nat \ {0} : d = s.data
  BY <1>2, <1>3
<1>6. PICK l \in Nat : l = s.length
  BY <1>2, <1>3
<1>7. At = d + readPos
  BY <1>5 DEF At
<1>8. Span(Job) = d .. d + l - 1 /\ d + l <= Len(buf) + 1
  BY <1>2, <1>3, <1>5, <1>6 DEF Span, End
<1>9. readPos <= l
  BY <1>3, <1>6
<1>10. d + readPos \in Nat \ {0} /\ (d + readPos) - readPos = d /\ (d + readPos) - 1 <= Len(buf)
  BY <1>4, <1>8, <1>9
<1>11. readPos < l => d + readPos \in Span(Job) /\ d + readPos <= Len(buf)
  BY <1>4, <1>8
<1>12. s \in [data : Int, length : Int]
  BY DEF TypeInv
<1> QED BY <1>1, <1>4, <1>5, <1>6, <1>7, <1>10, <1>11, <1>12

(* A json_char is one byte or the digits of an escape, and is converted to *)
(* no more bytes than it has.                                              *)
LEMMA BytesFit ==
    ASSUME buf \in Seq(Int), c \in [data : Int, length : Int], c.length \in {1, 4},
           c.data >= 1, c.data + c.length <= Len(buf) + 1
    PROVE  Bytes \in Seq(Int) /\ Len(Bytes) \in 1..c.length
<1>1. PICK at \in Nat \ {0} : at = c.data
  OBVIOUS
<1>2. \A i \in 1..Len(buf) : buf[i] \in Int
  OBVIOUS
<1>3. CASE c.length = 1
  <2>1. Bytes = SubSeq(buf, at, at + 1 - 1)
    BY <1>1, <1>3 DEF Bytes, IsUtf16, Text
  <2>2. at + 1 - 1 = at /\ at \in Int
    OBVIOUS
  <2>3. \A i \in at .. at : buf[i] \in Int
    BY <1>1, <1>2, <1>3
  <2>4. SubSeq(buf, at, at) \in Seq(Int) /\ Len(SubSeq(buf, at, at)) = 1
    BY <2>2, <2>3, SubSeqProperties
  <2> QED BY <1>3, <2>1, <2>2, <2>4
<1>4. CASE c.length = 4
  <2>1. \A i \in 0..3 : at + i \in 1..Len(buf)
    BY <1>1, <1>4
  <2>2. buf[at] \in Int /\ buf[at + 1] \in Int /\ buf[at + 2] \in Int /\ buf[at + 3] \in Int
    <3>1. at + 0 \in 1..Len(buf) /\ at + 1 \in 1..Len(buf) /\ at + 2 \in 1..Len(buf) /\ at + 3 \in 1..Len(buf)
      BY <2>1
    <3> QED BY <1>2, <3>1
  <2>3. \A ch \in Int : Digit(ch) \in Int
    BY DEF Digit
  <2>4. (at + 2) + 1 = at + 3
    OBVIOUS
  <2> DEFINE byte(i) == 16 * Digit(buf[i]) + Digit(buf[i + 1])
  <2>5. byte(at) \in Int /\ byte(at + 2) \in Int
    <3>1. PICK d1 \in Int, d2 \in Int : d1 = Digit(buf[at]) /\ d2 = Digit(buf[at + 1])
      BY <2>2, <2>3
    <3>2. PICK d3 \in Int, d4 \in Int : d3 = Digit(buf[at + 2]) /\ d4 = Digit(buf[at + 3])
      BY <2>2, <2>3
    <3>3. byte(at) = 16 * d1 + d2 /\ byte(at + 2) = 16 * d3 + d4
      BY <2>4, <3>1, <3>2
    <3>4. 16 * d1 + d2 \in Int /\ 16 * d3 + d4 \in Int
      OBVIOUS
    <3> HIDE DEF byte
    <3> QED BY <3>3, <3>4
  <2>6. Bytes = IF buf[at] = 48 /\ buf[at + 1] = 48 THEN <<byte(at + 2)>> ELSE <<byte(at), byte(at + 2)>>
    BY <1>1, <1>4 DEF Bytes, IsUtf16, Utf16
  <2> HIDE DEF byte
  <2>7. PICK x \in Int, y \in Int : Bytes = <<y>> \/ Bytes = <<x, y>>
    BY <2>5, <2>6
  <2>8. <<y>> \in Seq(Int) /\ Len(<<y>>) = 1 /\ <<x, y>> \in Seq(Int) /\ Len(<<x, y>>) = 2
    OBVIOUS
  <2>9. Bytes \in Seq(Int) /\ (Len(Bytes) = 1 \/ Len(Bytes) = 2)
    BY <2>7, <2>8, Zenon
  <2> QED BY <1>4, <2>9
<1> QED BY <1>3, <1>4

(* What Reduce writes ends before the character that is read. *)
LEMMA ReduceInPlace ==
    ASSUME IInv, pc = "string", Reduce
    PROVE  /\ buf' \in Seq(Int) /\ Len(buf') = Len(buf)
           /\ \A i \in DOMAIN buf \ within : buf'[i] = buf[i]
           /\ cs' \in [data : Int, length : Int]
           /\ cs' # None => /\ cs'.data >= 1 /\ cs'.length >= 0 /\ cs'.data + cs'.length <= At - esc
                            /\ cs'.data .. At - 1 \subseteq within
<1> USE DEF IInv
<1>1. /\ At \in Nat \ {0} /\ At - 1 <= Len(buf) /\ buf \in Seq(Int) /\ Len(buf) \in Nat
      /\ DOMAIN buf = 1..Len(buf)
  BY Reader
<1>2. /\ c \in [data : Int, length : Int] /\ cs \in [data : Int, length : Int] /\ esc \in 0..5
  BY DEF TypeInv
<1>3. /\ c # None => /\ esc = 0 /\ c.length \in {1, 4} /\ c.data >= 1
                     /\ c.data + c.length = At /\ Span(c) \subseteq within
      /\ cs # None => /\ cs.data >= 1 /\ cs.length >= 0
                      /\ cs.data + cs.length <= (IF c # None THEN c.data ELSE At - esc)
                      /\ cs.data .. At - 1 \subseteq within
  BY DEF JsonInv
<1>4. CASE c = None
  BY <1>1, <1>2, <1>3, <1>4 DEF Reduce
<1>5. CASE c # None
  <2>1. PICK at \in Nat \ {0} : at = c.data
    BY <1>2, <1>3, <1>5
  <2>2. PICK l \in {1, 4} : l = c.length
    BY <1>3, <1>5
  <2>3. esc = 0 /\ at + l = At /\ at .. At - 1 \subseteq within
    <3>1. esc = 0 /\ at + l = At /\ at .. at + l - 1 \subseteq within
      BY <1>3, <1>5, <2>1, <2>2 DEF Span
    <3>2. at + l - 1 = At - 1
      BY <3>1
    <3> QED BY <3>1, <3>2
  <2>4. Bytes \in Seq(Int) /\ Len(Bytes) \in 1..l
    <3>1. c.data + c.length <= Len(buf) + 1
      BY <1>1, <2>1, <2>2, <2>3
    <3> QED BY <1>1, <1>2, <1>3, <1>5, <2>2, <3>1, BytesFit
  <2>5. PICK n \in Nat : n = Len(Bytes) /\ 1 <= n /\ n <= l
    BY <2>4
  <2>6. PICK new \in Seq(Int) : new = Bytes
    BY <2>4
  <2>7. ASSUME NEW b \in Seq(Int), Len(b) = Len(buf), NEW start \in Nat, start <= at,
               start .. At - 1 \subseteq within
        PROVE  /\ Overwrite(b, start, new) \in Seq(Int) /\ Len(Overwrite(b, start, new)) = Len(buf)
               /\ \A i \in DOMAIN buf \ within : Overwrite(b, start, new)[i] = b[i]
    <3>1. start \in Int /\ DOMAIN b = DOMAIN buf /\ Len(new) = n
      BY <1>1, <2>5, <2>6, <2>7
    <3>2. /\ Overwrite(b, start, new) \in Seq(Int) /\ Len(Overwrite(b, start, new)) = Len(b)
          /\ \A i \in DOMAIN b : i \notin start .. start + n - 1 => Overwrite(b, start, new)[i] = b[i]
      BY <2>7, <3>1, OverwriteInPlace
    <3>3. start .. start + n - 1 \subseteq within
      <4>1. start + n - 1 <= At - 1
        BY <2>3, <2>5, <2>7
      <4>2. start .. start + n - 1 \subseteq start .. At - 1
        BY <1>1, <4>1
      <4> QED BY <2>7, <4>2
    <3> QED BY <2>7, <3>1, <3>2, <3>3
  <2>8. PICK conv \in Seq(Int) :
           conv = Converted /\ Len(conv) = Len(buf) /\ \A i \in DOMAIN buf \ within : conv[i] = buf[i]
    <3> SUFFICES /\ Converted \in Seq(Int) /\ Len(Converted) = Len(buf)
                 /\ \A i \in DOMAIN buf \ within : Converted[i] = buf[i]
      BY Zenon
    <3>1. CASE IsUtf16
      <4>1. Converted = Overwrite(buf, at, new)
        BY <2>1, <2>6, <3>1 DEF Converted
      <4>2. at \in Nat /\ at <= at
        OBVIOUS
      <4> QED BY <1>1, <2>3, <2>7, <4>1, <4>2
    <3>2. CASE ~IsUtf16
      BY <1>1, <3>2 DEF Converted
    <3> QED BY <3>1, <3>2
  <2>9. CASE cs = None
    <3>1. buf' = conv /\ cs' = [data |-> at, length |-> n]
      BY <1>5, <2>1, <2>5, <2>8, <2>9 DEF Reduce
    <3>2. at + n <= At - esc
      BY <1>1, <2>3, <2>5
    <3> QED BY <1>1, <2>3, <2>8, <3>1, <3>2
  <2>10. CASE cs # None
    <3>1. PICK start \in Nat \ {0} : start = cs.data
      BY <1>2, <1>3, <2>10
    <3>2. PICK m \in Nat : m = cs.length
      BY <1>2, <1>3, <2>10
    <3>3. start + m <= at /\ start .. At - 1 \subseteq within
      BY <1>3, <1>5, <2>1, <2>10, <3>1, <3>2
    <3>4. buf' = Overwrite(conv, start + m, new) /\ cs' = [cs EXCEPT !.length = m + n]
      BY <1>5, <2>5, <2>6, <2>8, <2>10, <3>1, <3>2 DEF Reduce
    <3>5. start + m .. At - 1 \subseteq within
      <4>1. start + m .. At - 1 \subseteq start .. At - 1
        OBVIOUS
      <4> QED BY <3>3, <4>1
    <3>6. /\ buf' \in Seq(Int) /\ Len(buf') = Len(buf)
          /\ \A i \in DOMAIN buf \ within : buf'[i] = conv[i]
      <4>1. start + m \in Nat
        OBVIOUS
      <4> QED BY <2>7, <2>8, <3>3, <3>4, <3>5, <4>1
    <3>7. cs' \in [data : Int, length : Int] /\ cs'.data = start /\ cs'.length = m + n
      <4>1. PICK k \in Int : k = m + n
        OBVIOUS
      <4> QED BY <1>2, <3>1, <3>4, <4>1
    <3>8. start + (m + n) <= At - esc /\ m + n >= 0
      BY <1>1, <2>3, <2>5, <3>3
    <3>9. \A i \in DOMAIN buf \ within : buf'[i] = buf[i]
      BY <2>8, <3>6
    <3>10. cs'.data >= 1 /\ cs'.length >= 0 /\ cs'.data + cs'.length <= At - esc
      BY <3>7, <3>8
    <3>11. cs'.data .. At - 1 \subseteq within
      BY <3>3, <3>7
    <3> QED BY <3>6, <3>7, <3>9, <3>10, <3>11, Zenon
  <2> QED BY <2>9, <2>10
<1> QED BY <1>4, <1>5

-----------------------------------------------------------------------------
LEMMA OutsideKeepsInv ==
    ASSUME IInv, Outside
    PROVE  IInv'
<1> USE DEF IInv
<1>1. /\ pc = "json" /\ readPos < s.length /\ read' = {At} /\ readPos' = readPos + 1
      /\ UNCHANGED <<buf, todo, s, writePos, esc, c, told, received, within>>
      /\ \/ pc' = "string" /\ cs' = None
         \/ pc' = "json" /\ cs' = cs
  BY DEF Outside, Reading, Restart
<1>2. /\ todo # <<>> /\ s.data \in Nat \ {0} /\ readPos \in Nat /\ At \in Span(Job)
      /\ At \in Nat \ {0} /\ At <= Len(buf) /\ DOMAIN buf = 1..Len(buf)
      /\ s \in [data : Int, length : Int]
  BY <1>1, Reader
<1>3. Job.op = "json" /\ s = [data |-> Job.data, length |-> Job.length] /\ c = None /\ esc = 0
  BY <1>1 DEF JsonInv
<1>4. TypeInv'
  BY <1>1, <1>2 DEF TypeInv, None
<1>5. TodoInv'
  BY <1>1, <1>2, TodoStays
<1>6. JsonInv'
  <2>1. PICK n \in Nat : n = readPos + 1 /\ n <= s.length
    <3>1. s.length \in Int
      BY <1>2
    <3> QED BY <1>1, <1>2, <3>1
  <2>2. 0 <= n
    OBVIOUS
  <2>3. PICK at \in Int : at = At'
    BY <1>1, <1>2 DEF At
  <2>4. At' - 0 .. At' - 1 = {}
    <3>1. at - 0 .. at - 1 = {}
      OBVIOUS
    <3> QED BY <2>3, <3>1
  <2>5. Job' = Job
    BY <1>1 DEF Job
  <2> QED BY <1>1, <1>3, <2>1, <2>2, <2>4, <2>5 DEF JsonInv
<1>7. DecodeInv' /\ TrimInv' /\ RestAsReceived'
  BY <1>1 DEF DecodeInv, TrimInv, RestAsReceived
<1>8. ReadsInText'
  BY <1>1, <1>2 DEF ReadsInText
<1> QED BY <1>1, <1>4, <1>5, <1>6, <1>7, <1>8

(* A character of a string becomes a json_char or part of an escape; the   *)
(* json_char before it has been appended.                                  *)
LEMMA InsideKeepsInv ==
    ASSUME IInv, Inside
    PROVE  IInv'
<1> USE DEF IInv
<1>1. /\ pc = "string" /\ readPos < s.length /\ read' = {At} /\ readPos' = readPos + 1
      /\ Reduce /\ within' = within \cup {At} /\ UNCHANGED <<todo, s, writePos, told, received>>
      /\ \/ pc' = "string" /\ esc \in {0, 1} /\ c' = [data |-> At, length |-> 1] /\ esc' = 0
         \/ pc' = "string" /\ esc \in 0..4 /\ c' = None /\ esc' = esc + 1
         \/ pc' = "string" /\ esc = 5 /\ c' = [data |-> At - 3, length |-> 4] /\ esc' = 0
         \/ pc' = "failed" /\ c' = None /\ esc' = esc
  BY DEF Inside, Reading, Sym, Part
<1>2. /\ todo # <<>> /\ s.data \in Nat \ {0} /\ readPos \in Nat /\ At \in Span(Job)
      /\ At \in Nat \ {0} /\ At - readPos = s.data /\ At <= Len(buf) /\ DOMAIN buf = 1..Len(buf)
      /\ s \in [data : Int, length : Int]
  BY <1>1, Reader
<1>3. /\ Job.op = "json" /\ s = [data |-> Job.data, length |-> Job.length]
      /\ esc <= readPos /\ At - esc .. At - 1 \subseteq within
  BY <1>1 DEF JsonInv
<1>4. /\ buf' \in Seq(Int) /\ Len(buf') = Len(buf)
      /\ \A i \in DOMAIN buf \ within : buf'[i] = buf[i]
      /\ cs' \in [data : Int, length : Int]
      /\ cs' # None => /\ cs'.data >= 1 /\ cs'.length >= 0 /\ cs'.data + cs'.length <= At - esc
                       /\ cs'.data .. At - 1 \subseteq within
  BY <1>1, ReduceInPlace
<1>5. esc \in 0..5
  BY DEF TypeInv
<1>6. DOMAIN buf' = DOMAIN buf
  BY <1>2, <1>4
<1>7. TypeInv'
  <2>1. c' \in [data : Int, length : Int]
    BY <1>1, <1>2 DEF None
  <2>2. esc' \in 0..5
    BY <1>1, <1>5
  <2> QED BY <1>1, <1>2, <1>4, <2>1, <2>2 DEF TypeInv
<1>8. TodoInv'
  <2>1. pc' # "next" /\ within' \subseteq within \cup Span(Job)
    BY <1>1, <1>2
  <2> QED BY <1>1, <1>2, <2>1, TodoStays
<1>9. JsonInv'
  <2> SUFFICES ASSUME pc' = "string" PROVE JsonInv'
    BY <1>1 DEF JsonInv
  <2>1. PICK at \in Nat \ {0} : at = At
    BY <1>2
  <2>2. At' = at + 1
    <3>1. At' = s.data + (readPos + 1) /\ at = s.data + readPos
      BY <1>1, <2>1 DEF At
    <3> QED BY <1>2, <3>1
  <2>3. Job' = Job
    BY <1>1 DEF Job
  <2>4. PICK n \in Nat : n = readPos + 1 /\ n <= s.length
    <3>1. s.length \in Int
      BY <1>2
    <3> QED BY <1>1, <1>2, <3>1
  <2>5. at - esc .. at \subseteq within'
    <3>1. at - esc .. at \subseteq (at - esc .. at - 1) \cup {at}
      BY <1>5
    <3> QED BY <1>1, <1>3, <2>1, <3>1
  <2>6. esc' <= n
    BY <1>1, <1>2, <1>3, <1>5, <2>4
  <2>7. at + 1 - 1 = at
    OBVIOUS
  <2>8. (at + 1) - esc' .. (at + 1) - 1 \subseteq within'
    <3>1. (at + 1) - esc' .. (at + 1) - 1 \subseteq at - esc .. at
      BY <1>1, <1>5
    <3> QED BY <2>5, <3>1
  <2>9. c' # None => /\ esc' = 0 /\ c'.length \in {1, 4} /\ c'.data >= 1
                     /\ c'.data + c'.length = at + 1 /\ Span(c') \subseteq within'
    <3>1. CASE c' = None
      BY <3>1
    <3>2. CASE c' = [data |-> at, length |-> 1] /\ esc' = 0
      <4>1. Span(c') = at .. at + 1 - 1 /\ at .. at + 1 - 1 \subseteq at - esc .. at
        BY <1>5, <3>2 DEF Span
      <4> QED BY <2>5, <3>2, <4>1
    <3>3. CASE esc = 5 /\ c' = [data |-> at - 3, length |-> 4] /\ esc' = 0
      <4>1. Span(c') = at - 3 .. (at - 3) + 4 - 1 /\ at - 3 .. (at - 3) + 4 - 1 \subseteq at - esc .. at
        BY <3>3 DEF Span
      <4>2. at - 3 >= 1
        BY <1>2, <1>3, <2>1, <3>3
      <4> QED BY <2>5, <3>3, <4>1, <4>2
    <3> QED BY <1>1, <2>1, <3>1, <3>2, <3>3
  <2>10. cs' # None =>
           /\ cs'.data >= 1 /\ cs'.length >= 0
           /\ cs'.data + cs'.length <= (IF c' # None THEN c'.data ELSE (at + 1) - esc')
           /\ cs'.data .. (at + 1) - 1 \subseteq within'
    <3> SUFFICES ASSUME cs' # None
                 PROVE  /\ cs'.data >= 1 /\ cs'.length >= 0
                        /\ cs'.data + cs'.length <= (IF c' # None THEN c'.data ELSE (at + 1) - esc')
                        /\ cs'.data .. (at + 1) - 1 \subseteq within'
      OBVIOUS
    <3>1. PICK d \in Int, m \in Int : d = cs'.data /\ m = cs'.length
      BY <1>4
    <3>2. d >= 1 /\ m >= 0 /\ d + m <= at - esc /\ d .. at - 1 \subseteq within
      BY <1>4, <2>1, <3>1
    <3>3. d .. (at + 1) - 1 \subseteq within'
      <4>1. d .. (at + 1) - 1 \subseteq (d .. at - 1) \cup {at}
        OBVIOUS
      <4> QED BY <1>1, <2>1, <3>2, <4>1
    <3>4. d + m <= (IF c' # None THEN c'.data ELSE (at + 1) - esc')
      <4>1. CASE c' = [data |-> at, length |-> 1]
        BY <1>5, <3>2, <4>1 DEF None
      <4>2. CASE esc = 5 /\ c' = [data |-> at - 3, length |-> 4]
        BY <3>2, <4>2 DEF None
      <4>3. CASE c' = None /\ esc' = esc + 1
        BY <1>5, <3>2, <4>3
      <4> QED BY <1>1, <2>1, <4>1, <4>2, <4>3
    <3> QED BY <3>1, <3>2, <3>3, <3>4
  <2> HIDE DEF IInv
  <2> QED BY <1>1, <1>3, <2>2, <2>3, <2>4, <2>6, <2>8, <2>9, <2>10 DEF JsonInv, Span
<1>10. DecodeInv' /\ TrimInv'
  BY <1>1 DEF DecodeInv, TrimInv
<1>11. RestAsReceived'
  BY <1>1, <1>4, <1>6 DEF RestAsReceived
<1>12. ReadsInText'
  BY <1>1, <1>2, <1>6 DEF ReadsInText
<1> QED BY <1>1, <1>7, <1>8, <1>9, <1>10, <1>11, <1>12

LEMMA EndStringKeepsInv ==
    ASSUME IInv, EndString
    PROVE  IInv'
<1> USE DEF IInv
<1>1. /\ pc = "string" /\ readPos < s.length /\ read' = {At} /\ readPos' = readPos + 1 /\ esc = 0
      /\ Reduce /\ pc' = "json" /\ c' = None
      /\ UNCHANGED <<todo, s, writePos, esc, received, within>>
  BY DEF EndString, Reading
<1>2. /\ todo # <<>> /\ s.data \in Nat \ {0} /\ readPos \in Nat /\ At \in Nat \ {0}
      /\ At <= Len(buf) /\ DOMAIN buf = 1..Len(buf) /\ s \in [data : Int, length : Int]
  BY <1>1, Reader
<1>3. Job.op = "json" /\ s = [data |-> Job.data, length |-> Job.length]
  BY <1>1 DEF JsonInv
<1>4. /\ buf' \in Seq(Int) /\ Len(buf') = Len(buf)
      /\ \A i \in DOMAIN buf \ within : buf'[i] = buf[i]
      /\ cs' \in [data : Int, length : Int]
  BY <1>1, ReduceInPlace
<1>5. DOMAIN buf' = DOMAIN buf
  BY <1>2, <1>4
<1>6. TypeInv'
  BY <1>1, <1>2, <1>4 DEF TypeInv, None
<1>7. TodoInv'
  BY <1>1, <1>2, TodoStays
<1>8. JsonInv'
  <2>1. readPos + 1 <= s.length
    <3>1. s.length \in Int
      BY <1>2
    <3> QED BY <1>1, <1>2, <3>1
  <2>2. Job' = Job
    BY <1>1 DEF Job
  <2> QED BY <1>1, <1>3, <2>1, <2>2 DEF JsonInv
<1>9. DecodeInv' /\ TrimInv'
  BY <1>1 DEF DecodeInv, TrimInv
<1>10. RestAsReceived'
  BY <1>1, <1>4, <1>5 DEF RestAsReceived
<1>11. ReadsInText'
  BY <1>1, <1>2, <1>5 DEF ReadsInText
<1> QED BY <1>1, <1>6, <1>7, <1>8, <1>9, <1>10, <1>11

LEMMA EndTextKeepsInv ==
    ASSUME IInv, EndText
    PROVE  IInv'
<1> USE DEF IInv
<1>1. /\ pc = "json" /\ pc' = "next" /\ todo' = Tail(todo) /\ read' = {}
      /\ UNCHANGED <<buf, s, readPos, writePos, esc, c, cs, told, received, within>>
  BY DEF EndText
<1>2. todo # <<>>
  BY <1>1, Reader
<1>3. TypeInv'
  BY <1>1 DEF TypeInv
<1>4. TodoInv'
  BY <1>1, <1>2, TodoRest
<1>5. DecodeInv' /\ TrimInv' /\ JsonInv' /\ RestAsReceived' /\ ReadsInText'
  BY <1>1 DEF DecodeInv, TrimInv, JsonInv, RestAsReceived, ReadsInText
<1> QED BY <1>1, <1>3, <1>4, <1>5

LEMMA StutterKeepsInv ==
    ASSUME IInv, UNCHANGED vars
    PROVE  IInv'
<1> USE DEF IInv, vars
<1>1. TypeInv' /\ TodoInv'
  BY DEF TypeInv, TodoInv, Busy, Fits
<1>2. DecodeInv'
  BY DEF DecodeInv, Job, Span
<1>3. TrimInv'
  BY DEF TrimInv, Job, End, Blank, Char
<1>4. JsonInv'
  BY DEF JsonInv, Job, At, Span
<1>5. RestAsReceived' /\ ReadsInText'
  BY DEF RestAsReceived, ReadsInText, Span
<1> QED BY <1>1, <1>2, <1>3, <1>4, <1>5

(* decodeValue, trim and the actions of the grammar keep the invariant.    *)
THEOREM DecodersKeepPlace == Spec => []IInv
<1>1. IInv /\ [Next]_vars => IInv'
  BY BeginKeepsInv, DecodeEscapeKeepsInv, DecodeCharKeepsInv, DecodeEndKeepsInv, TrimLeftKeepsInv,
     TrimRightKeepsInv, OutsideKeepsInv, InsideKeepsInv, EndStringKeepsInv, EndTextKeepsInv,
     StutterKeepsInv
  DEF Next
<1> QED BY <1>1, InitInv, PTL DEF Spec

(* However long the text and whatever its escapes: decodeValue reads within *)
(* its value only, also when it looks for the two digits behind a '%'; trim, *)
(* which looks at a character before it looks at the length, stays within   *)
(* the buffer even if the field is all blanks.                              *)
THEOREM DecodersReadInText == Spec => []ReadsInText
<1>1. IInv => ReadsInText
  BY DEF IInv
<1> QED BY <1>1, DecodersKeepPlace, PTL

(* However long the text: whatever the grammar lets through is decoded.     *)
(* decodeValue refuses no escape, also not one at the end of its value and  *)
(* one that stands behind another, and trim no field; only an empty value   *)
(* is refused.                                                              *)
THEOREM NothingElseIsRefused == Spec => []OnlyEmptyRefused
<1>1. Init => OnlyEmptyRefused
  BY DEF Init, OnlyEmptyRefused
<1>2. ASSUME IInv, OnlyEmptyRefused, [Next]_vars PROVE OnlyEmptyRefused'
  <2>1. CASE Begin
    <3>1. Job.op # "failed"
      BY <1>2, <2>1, JobAtHand DEF Begin, IInv
    <3> QED BY <2>1, <3>1 DEF Begin, Job, OnlyEmptyRefused
  <2>2. CASE DecodeEscape
    <3>1. pc' = "decodeValue"
      BY <1>2, <2>2, EscapeIsDecoded DEF DecodeEscape
    <3> QED BY <3>1 DEF OnlyEmptyRefused
  <2>3. CASE DecodeChar \/ DecodeEnd \/ TrimLeft \/ TrimRight \/ Outside \/ EndString \/ EndText
    <3>1. pc' # "failed"
      BY <2>3 DEF DecodeChar, DecodeEnd, TrimLeft, TrimRight, Tell, Outside, EndString, EndText
    <3> QED BY <3>1 DEF OnlyEmptyRefused
  <2>4. CASE Inside
    <3>1. Head(todo).op = "json" /\ todo' = todo
      BY <1>2, <2>4 DEF IInv, JsonInv, Inside, Job
    <3> QED BY <3>1 DEF OnlyEmptyRefused
  <2>5. CASE UNCHANGED vars
    BY <1>2, <2>5 DEF OnlyEmptyRefused, vars
  <2> QED BY <1>2, <2>1, <2>2, <2>3, <2>4, <2>5 DEF Next
<1> QED BY <1>1, <1>2, DecodersKeepPlace, PTL DEF Spec

(* However long the text: what decodeValue writes behind its reading, and   *)
(* what json_chars collects in place of escapes, stays within the values;   *)
(* the separators and all that has not been parsed are as received.         *)
THEOREM RestStaysAsReceived == Spec => []RestAsReceived
<1>1. IInv => RestAsReceived
  BY DEF IInv
<1> QED BY <1>1, DecodersKeepPlace, PTL

-----------------------------------------------------------------------------
(* What has been told so far is what the jobs that are done meant, and of  *)
(* a document the strings up to the reader: this is the invariant with     *)
(* which callbacks are given what the text meant.  It speaks of the jobs   *)
(* done (HistInv), of the strings given for them, which nothing is written *)
(* to any more (ToldInv), of the value, field or document at hand as far   *)
(* as it has been read (ValueInv, FieldInv, EscapeInv), and of what is     *)
(* still to be given (GivenInv).                                           *)
Count == Len(received.todo) - Len(todo)
Value == Text(received.buf, Job)

Expected(n) == FlattenSeq([j \in 1..n |-> MeantBy(received.todo[j])])

HistInv ==
    /\ Len(todo) <= Len(received.todo)
    /\ \A k \in DOMAIN todo : todo[k] = received.todo[Count + k]

(* The first place of the job that may still be written to.  No string     *)
(* that a callback was given reaches as far.                               *)
Start == IF pc = "decodeValue" THEN s.data
         ELSE IF pc = "string" /\ cs # None THEN cs.data
         ELSE IF c # None THEN c.data ELSE At - esc

ToldInv ==
    /\ told \in Seq([data : Int, length : Int])
    /\ \A k \in DOMAIN told :
          /\ Span(told[k]) \subseteq within \cap DOMAIN buf
          /\ pc \in {"decodeValue", "json", "string"} => Span(told[k]) \cap (Start .. End - 1) = {}

(* decodeValue is between two characters of the value, and has written     *)
(* those before.                                                           *)
ValueInv ==
    pc = "decodeValue" =>
        /\ \A i \in {readPos, readPos - 1} \cap DOMAIN Value : Value[i] # Percent
        /\ writePos = Rank(Value, readPos)
        /\ \A k \in 1..writePos : buf[s.data + k - 1] = Meant(Value, Job.plus)[k]

(* trim has cut off only blanks. *)
FieldInv ==
    pc \in {"trim", "trimRight"} =>
        /\ Span(Job) \subseteq within
        /\ \A i \in Span(Job) : /\ buf[i] = received.buf[i]
                                /\ i \in Span(s) \/ buf[i] \in {Space, Tab}

(* What the grammar has seen of an escape; it has not been written to, and *)
(* neither has what follows.                                               *)
EscapeInv ==
    /\ pc \in {"json", "string"} =>
          \A i \in Span(s) : i >= At - esc => buf[i] = received.buf[i]
    /\ pc = "string" =>
          /\ esc >= 1 => received.buf[At - esc] = Backslash
          /\ esc >= 2 => received.buf[At - esc + 1] = LetterU
          /\ \A k \in 2..esc - 1 : IsHexdig(received.buf[At - esc + k])

(* The strings of a document that have been told, and the rest of it.      *)
Rest(inside) == StringsFrom(Value)[readPos + 1 - esc][inside]
Ahead == IF pc = "string"
         THEN <<Text(buf, cs) \o Bytes \o Head(Rest(TRUE))>> \o Tail(Rest(TRUE)) ELSE Rest(FALSE)

GivenInv ==
    ~HasHexLetter /\ pc # "failed" =>
        IF pc \in {"json", "string"} THEN Expected(Count) \o MeantBy(Job) = Given \o Ahead
        ELSE Given = Expected(Count)

Meaning == HistInv /\ ToldInv /\ ValueInv /\ FieldInv /\ EscapeInv /\ GivenInv

-----------------------------------------------------------------------------
(* A set of natural numbers has a least element, so that induction may go  *)
(* either way.                                                             *)
LEMMA LeastExists ==
    ASSUME NEW S, S \subseteq Nat, S # {}
    PROVE  \E x \in S : \A y \in S : x <= y
<1>1. PICK Less : IsWellFoundedOn(Less, Nat) /\ \A x, y \in Nat : <<y, x>> \in Less <=> y < x
  <2>1. \A x, y \in Nat : <<y, x>> \in OpToRel(<, Nat) <=> y < x
    BY DEF OpToRel
  <2> QED BY <2>1, NatLessThanWellFounded, Zenon
<1>2. PICK x \in S : \A y \in S : ~ (<<y, x>> \in Less)
  BY <1>1, WFMin
<1>3. ASSUME NEW y \in S PROVE x <= y
  <2>1. x \in Nat /\ y \in Nat
    OBVIOUS
  <2>2. ~(y < x)
    BY <1>1, <1>2, <2>1
  <2> QED BY <2>1, <2>2
<1> QED BY <1>3

(* What holds of 0, and of n + 1 when it does of n, holds of every n; and  *)
(* downwards.                                                              *)
LEMMA CountUp ==
    ASSUME NEW S, 0 \in S, \A n \in Nat : n \in S => n + 1 \in S
    PROVE  Nat \subseteq S
<1> SUFFICES ASSUME Nat \ S # {} PROVE FALSE
  OBVIOUS
<1>1. PICK n \in Nat \ S : \A k \in Nat \ S : n <= k
  <2>1. Nat \ S \subseteq Nat
    OBVIOUS
  <2> QED BY <2>1, LeastExists
<1>2. n - 1 \in Nat /\ (n - 1) + 1 = n /\ ~(n <= n - 1)
  OBVIOUS
<1>3. n - 1 \in S
  BY <1>1, <1>2
<1> QED BY <1>2, <1>3

LEMMA CountDown ==
    ASSUME NEW S, NEW n \in Nat, n \in S, \A k \in Nat : k + 1 \in S => k \in S
    PROVE  0 \in S
<1>1. PICK m \in S \cap Nat : \A k \in S \cap Nat : m <= k
  <2>1. S \cap Nat \subseteq Nat /\ S \cap Nat # {}
    OBVIOUS
  <2> QED BY <2>1, LeastExists
<1> SUFFICES ASSUME m # 0 PROVE FALSE
  OBVIOUS
<1>2. m - 1 \in Nat /\ (m - 1) + 1 = m /\ ~(m <= m - 1)
  OBVIOUS
<1> QED BY <1>1, <1>2

-----------------------------------------------------------------------------
(* The strings of a document are defined by recursion towards its end. *)
LEMMA BehindIsLater ==
    ASSUME NEW v, NEW i \in Nat
    PROVE  Behind(v, i) \in Nat /\ Behind(v, i) > i
BY DEF Behind

(* What is defined for a place depends only on the places behind it. *)
LEMMA StringsAtLooksAhead ==
    ASSUME NEW v, NEW f, NEW g, NEW i \in Nat, \A k \in Nat : k > i => f[k] = g[k],
           NEW inside \in BOOLEAN
    PROVE  StringsAt(v, f, i, inside) = StringsAt(v, g, i, inside)
<1>1. f[i + 1] = g[i + 1] /\ f[Behind(v, i)] = g[Behind(v, i)]
  BY BehindIsLater
<1> QED BY <1>1, Zenon DEF StringsAt

(* So there is one function that obeys the definition at every place. *)
LEMMA StringsFromObeys ==
    ASSUME NEW v, Len(v) \in Nat
    PROVE  \A i \in Nat, inside \in BOOLEAN :
              StringsFrom(v)[i][inside] = StringsAt(v, StringsFrom(v), i, inside)
<1> DEFINE Row(f, i) == [inside \in BOOLEAN |-> StringsAt(v, f, i, inside)]
           Solves(f, m) == \A i \in Nat : i >= m => f[i] = Row(f, i)
           Good == {m \in Nat : \E f : Solves(f, m)}
<1>1. ASSUME NEW f, NEW g, NEW i \in Nat, \A k \in Nat : k > i => f[k] = g[k]
      PROVE  Row(f, i) = Row(g, i)
  BY <1>1, StringsAtLooksAhead
<1>2. Len(v) + 1 \in Good
  <2> DEFINE f == [i \in Nat |-> [inside \in BOOLEAN |-> IF inside THEN <<<<>>>> ELSE <<>>]]
  <2>1. ASSUME NEW i \in Nat, i >= Len(v) + 1 PROVE f[i] = Row(f, i)
    <3>1. i > Len(v)
      BY <2>1
    <3> QED BY <3>1 DEF StringsAt
  <2>2. Solves(f, Len(v) + 1)
    BY <2>1
  <2> HIDE DEF Solves
  <2> QED BY <2>2
<1>3. ASSUME NEW m \in Nat, m + 1 \in Good PROVE m \in Good
  <2>1. PICK f : Solves(f, m + 1)
    BY <1>3
  <2> DEFINE g == [i \in Nat |-> IF i = m THEN Row(f, m) ELSE f[i]]
  <2> HIDE DEF Row
  <2>2. \A k \in Nat : k > m => g[k] = f[k]
    OBVIOUS
  <2>3. ASSUME NEW i \in Nat, i >= m PROVE g[i] = Row(g, i)
    <3>1. \A k \in Nat : k > i => f[k] = g[k]
      BY <2>2, <2>3
    <3>2. Row(f, i) = Row(g, i)
      <4> HIDE DEF g
      <4> QED BY <1>1, <3>1
    <3>3. g[i] = Row(f, i)
      <4>1. CASE i = m
        BY <4>1
      <4>2. CASE i # m
        BY <2>1, <2>3, <4>2
      <4> QED BY <4>1, <4>2
    <3> QED BY <3>2, <3>3
  <2> HIDE DEF g
  <2> QED BY <2>3
<1>4. 0 \in Good
  <2> HIDE DEF Good
  <2> QED BY <1>2, <1>3, CountDown
<1>5. PICK f : Solves(f, 0)
  BY <1>4
<1> DEFINE h == [i \in Nat |-> f[i]]
<1>6. h = [i \in Nat |-> Row(h, i)]
  <2>1. \A i \in Nat : Row(f, i) = Row(h, i)
    <3> HIDE DEF Row
    <3>1. \A k \in Nat : h[k] = f[k]
      OBVIOUS
    <3> HIDE DEF h
    <3> QED BY <1>1, <3>1
  <2>2. \A i \in Nat : f[i] = Row(f, i)
    BY <1>5
  <2> HIDE DEF Row
  <2> QED BY <2>1, <2>2
<1>7. StringsFrom(v) = [i \in Nat |-> Row(StringsFrom(v), i)]
  <2> HIDE DEF h
  <2> QED BY <1>6 DEF StringsFrom
<1>8. ASSUME NEW i \in Nat PROVE StringsFrom(v)[i] = Row(StringsFrom(v), i)
  <2> HIDE DEF Row
  <2> DEFINE F == StringsFrom(v)
  <2> HIDE DEF F
  <2>1. F = [k \in Nat |-> Row(F, k)]
    BY <1>7 DEF F
  <2>2. F[i] = Row(F, i)
    BY <2>1
  <2> QED BY <2>2 DEF F
<1> QED BY <1>8

(* They are strings, and there is one as long as one has not ended. *)
LEMMA StringsFromAreStrings ==
    ASSUME NEW v, Len(v) \in Nat
    PROVE  \E X : /\ Int \subseteq X
                  /\ \A i \in Nat : /\ v[i] \in X /\ JsonChar(v, i) \in Seq(X)
                                    /\ StringsFrom(v)[i][FALSE] \in Seq(Seq(X))
                                    /\ StringsFrom(v)[i][TRUE] \in Seq(Seq(X)) \ {<<>>}
<1> DEFINE X == Int \cup {v[k] : k \in Nat}
                    \cup {16 * tbl(v[k]) + tbl(v[k + 1]) : k \in Nat}
           F == StringsFrom(v)
           Typed(i) == F[i][FALSE] \in Seq(Seq(X)) /\ F[i][TRUE] \in Seq(Seq(X)) \ {<<>>}
           Good == {m \in Nat : \A i \in Nat : i >= m => Typed(i)}
<1>1. \A k \in Nat : v[k] \in X /\ 16 * tbl(v[k]) + tbl(v[k + 1]) \in X
  OBVIOUS
<1>2. ASSUME NEW i \in Nat PROVE JsonChar(v, i) \in Seq(X)
  <2>1. i + 1 \in Nat /\ i + 2 \in Nat /\ i + 4 \in Nat
    OBVIOUS
  <2> HIDE DEF X
  <2>2. /\ v[i] \in X /\ v[i + 1] \in X
        /\ 16 * tbl(v[i + 2]) + tbl(v[i + 2 + 1]) \in X
        /\ 16 * tbl(v[i + 4]) + tbl(v[i + 4 + 1]) \in X
    BY <1>1, <2>1
  <2>3. \A x, y \in X : <<x>> \in Seq(X) /\ <<x, y>> \in Seq(X)
    OBVIOUS
  <2> QED BY <2>2, <2>3, Zenon DEF JsonChar
<1>3. \A i \in Nat, inside \in BOOLEAN : F[i][inside] = StringsAt(v, F, i, inside)
  BY StringsFromObeys
<1> HIDE DEF X, F
<1>4. <<>> \in Seq(Seq(X)) /\ <<<<>>>> \in Seq(Seq(X)) \ {<<>>}
  OBVIOUS
<1>5. ASSUME NEW i \in Nat, i >= Len(v) + 1 PROVE Typed(i)
  <2>1. i > Len(v)
    BY <1>5
  <2>2. F[i][FALSE] = <<>> /\ F[i][TRUE] = <<<<>>>>
    BY <1>3, <2>1, Zenon DEF StringsAt
  <2> QED BY <1>4, <2>2
<1>6. ASSUME NEW i \in Nat, \A k \in Nat : k > i => Typed(k) PROVE Typed(i)
  <2>1. Typed(i + 1) /\ Typed(Behind(v, i))
    <3> HIDE DEF Typed
    <3>1. i + 1 \in Nat /\ i + 1 > i
      OBVIOUS
    <3> QED BY <1>6, <3>1, BehindIsLater
  <2> DEFINE rest == F[Behind(v, i)][TRUE]
             more == <<JsonChar(v, i) \o Head(rest)>> \o Tail(rest)
  <2>2. more \in Seq(Seq(X)) \ {<<>>}
    <3>1. rest \in Seq(Seq(X)) /\ rest # <<>> /\ JsonChar(v, i) \in Seq(X)
      BY <1>2, <2>1
    <3> HIDE DEF rest
    <3>2. Head(rest) \in Seq(X) /\ Tail(rest) \in Seq(Seq(X))
      BY <3>1, HeadTailProperties
    <3>3. PICK x \in Seq(X), t \in Seq(Seq(X)) : x = JsonChar(v, i) \o Head(rest) /\ t = Tail(rest)
      BY <3>1, <3>2, ConcatProperties
    <3>4. <<x>> \o t \in Seq(Seq(X)) /\ Len(<<x>> \o t) = 1 + Len(t) /\ Len(t) \in Nat
      BY ConcatProperties
    <3>5. <<x>> \o t # <<>>
      BY <3>4
    <3> QED BY <3>3, <3>4, <3>5
  <2>3. <<<<>>>> \o F[i + 1][FALSE] \in Seq(Seq(X)) \ {<<>>}
    <3>1. PICK t \in Seq(Seq(X)) : t = F[i + 1][FALSE]
      BY <2>1
    <3>2. PICK e \in Seq(Seq(X)) : e = <<<<>>>> /\ Len(e) = 1
      BY <1>4
    <3>3. e \o t \in Seq(Seq(X)) /\ Len(e \o t) = 1 + Len(t) /\ Len(t) \in Nat
      BY <3>2, ConcatProperties
    <3>4. e \o t # <<>>
      BY <3>3
    <3> QED BY <3>1, <3>2, <3>3, <3>4
  <2>4. <<>> \o F[i + 1][TRUE] = F[i + 1][TRUE]
    BY <2>1, ConcatEmptySeq
  <2>5. F[i][FALSE] \in {<<>>, <<>> \o F[i + 1][TRUE], F[i + 1][FALSE]}
    BY <1>3, Zenon DEF StringsAt
  <2>6. F[i][TRUE] \in {<<<<>>>>, <<<<>>>> \o F[i + 1][FALSE], more}
    BY <1>3, Zenon DEF StringsAt
  <2> HIDE DEF more
  <2>7. F[i][FALSE] \in Seq(Seq(X))
    BY <1>4, <2>1, <2>4, <2>5
  <2>8. F[i][TRUE] \in Seq(Seq(X)) \ {<<>>}
    BY <1>4, <2>2, <2>3, <2>6
  <2> QED BY <2>7, <2>8
<1>7. ASSUME NEW m \in Nat, m + 1 \in Good PROVE m \in Good
  <2> HIDE DEF Typed
  <2>1. \A k \in Nat : k > m => Typed(k)
    BY <1>7
  <2>2. \A i \in Nat : i >= m => i = m \/ i > m
    OBVIOUS
  <2> QED BY <1>6, <2>1, <2>2
<1>8. Len(v) + 1 \in Good
  <2> HIDE DEF Typed
  <2> QED BY <1>5
<1>9. 0 \in Good
  <2> HIDE DEF Good
  <2> QED BY <1>7, <1>8, CountDown
<1>10. \A i \in Nat : Typed(i)
  <2> HIDE DEF Typed
  <2> QED BY <1>9
<1>11. Int \subseteq X
  BY DEF X
<1> QED BY <1>1, <1>2, <1>10, <1>11, Zenon DEF F

-----------------------------------------------------------------------------
(* Flattening one sequence more is appending it. *)
LEMMA FlattenOneMore ==
    ASSUME NEW f, NEW n \in Nat, NEW X, f[n + 1] \in Seq(X)
    PROVE  FlattenSeq([j \in 1..n + 1 |-> f[j]]) = FlattenSeq([j \in 1..n |-> f[j]]) \o f[n + 1]
<1> DEFINE Solves(g, m) == g = [i \in 1..m |-> IF i = 1 THEN f[1] ELSE g[i - 1] \o f[i]]
           Flat(m) == CHOOSE g : Solves(g, m)
           Solvable == {m \in Nat : \E g : Solves(g, m)}
<1>1. ASSUME NEW m \in Nat, m \in Solvable PROVE m + 1 \in Solvable
  <2>1. PICK g : Solves(g, m)
    BY <1>1
  <2> DEFINE h == [i \in 1..m + 1 |-> IF i \in 1..m THEN g[i] ELSE
                                      IF i = 1 THEN f[1] ELSE g[i - 1] \o f[i]]
  <2>2. ASSUME NEW i \in 1..m + 1 PROVE h[i] = IF i = 1 THEN f[1] ELSE h[i - 1] \o f[i]
    <3>1. i # 1 => i - 1 \in 1..m /\ i - 1 \in 1..m + 1
      OBVIOUS
    <3>2. i # 1 => h[i - 1] = g[i - 1]
      BY <3>1
    <3>3. CASE i \in 1..m
      <4>1. h[i] = g[i]
        BY <3>3
      <4>2. g[i] = IF i = 1 THEN f[1] ELSE g[i - 1] \o f[i]
        <5> HIDE DEF h
        <5> QED BY <2>1, <3>3
      <4> HIDE DEF h
      <4> QED BY <3>2, <4>1, <4>2
    <3>4. CASE i \notin 1..m
      <4>1. h[i] = IF i = 1 THEN f[1] ELSE g[i - 1] \o f[i]
        BY <3>4
      <4> HIDE DEF h
      <4> QED BY <3>2, <4>1
    <3> QED BY <3>3, <3>4
  <2>3. Solves(h, m + 1)
    <3>1. h = [i \in 1..m + 1 |-> h[i]]
      OBVIOUS
    <3> HIDE DEF h
    <3> QED BY <2>2, <3>1
  <2> HIDE DEF Solves
  <2> QED BY <2>3
<1>2. 0 \in Solvable
  <2>1. Solves([i \in 1..0 |-> f[1]], 0)
    OBVIOUS
  <2> HIDE DEF Solves
  <2> QED BY <2>1
<1>3. \A m \in Nat : Solves(Flat(m), m)
  <2> HIDE DEF Solvable
  <2>1. Nat \subseteq Solvable
    BY <1>1, <1>2, CountUp
  <2> HIDE DEF Solves
  <2> QED BY <2>1 DEF Solvable
<1> HIDE DEF Flat
<1>4. ASSUME NEW m \in Nat, NEW k \in Nat, k + 1 \in 1..m
      PROVE  Flat(m)[k + 1] = IF k = 0 THEN f[k + 1] ELSE Flat(m)[k] \o f[k + 1]
  <2>1. PICK g : g = Flat(m) /\ g = [i \in 1..m |-> IF i = 1 THEN f[1] ELSE g[i - 1] \o f[i]]
    BY <1>3
  <2>2. g[k + 1] = IF k + 1 = 1 THEN f[1] ELSE g[(k + 1) - 1] \o f[k + 1]
    BY <1>4, <2>1
  <2>3. (k + 1) - 1 = k /\ (k + 1 = 1 <=> k = 0)
    OBVIOUS
  <2> QED BY <2>1, <2>2, <2>3
<1>5. \A k \in 1..n : Flat(n)[k] = Flat(n + 1)[k]
  <2> DEFINE Same == {k \in Nat : k \in 1..n => Flat(n)[k] = Flat(n + 1)[k]}
  <2>1. ASSUME NEW k \in Nat, k \in Same PROVE k + 1 \in Same
    <3> SUFFICES ASSUME k + 1 \in 1..n PROVE Flat(n)[k + 1] = Flat(n + 1)[k + 1]
      OBVIOUS
    <3>1. k + 1 \in 1..n + 1 /\ (k # 0 => k \in 1..n) /\ n + 1 \in Nat
      OBVIOUS
    <3>2. k # 0 => Flat(n)[k] = Flat(n + 1)[k]
      BY <2>1, <3>1
    <3>3. /\ Flat(n)[k + 1] = IF k = 0 THEN f[k + 1] ELSE Flat(n)[k] \o f[k + 1]
          /\ Flat(n + 1)[k + 1] = IF k = 0 THEN f[k + 1] ELSE Flat(n + 1)[k] \o f[k + 1]
      BY <1>4, <3>1
    <3> HIDE DEF Solves, Same
    <3> QED BY <3>2, <3>3, Zenon
  <2>2. 0 \in Same
    OBVIOUS
  <2>3. Nat \subseteq Same
    <3> HIDE DEF Same
    <3> QED BY <2>1, <2>2, CountUp
  <2> QED BY <2>3
<1>6. ASSUME NEW m \in Nat
      PROVE  FlattenSeq([j \in 1..m |-> f[j]]) = IF m = 0 THEN <<>> ELSE Flat(m)[m]
  <2> DEFINE ss == [j \in 1..m |-> f[j]]
  <2>1. Len(ss) = m
    OBVIOUS
  <2>2. CASE m = 0
    <3>1. ss = <<>>
      BY <2>2
    <3> QED BY <2>1, <2>2, <3>1 DEF FlattenSeq
  <2>3. CASE m # 0
    <3>1. \A g : Solves(g, m) <=> g = [i \in 1..m |-> IF i = 1 THEN ss[i] ELSE g[i - 1] \o ss[i]]
      <4> TAKE g
      <4>1. \A i \in 1..m : (IF i = 1 THEN f[1] ELSE g[i - 1] \o f[i])
                             = (IF i = 1 THEN ss[i] ELSE g[i - 1] \o ss[i])
        OBVIOUS
      <4> HIDE DEF ss
      <4>2. [i \in 1..m |-> IF i = 1 THEN f[1] ELSE g[i - 1] \o f[i]]
            = [i \in 1..m |-> IF i = 1 THEN ss[i] ELSE g[i - 1] \o ss[i]]
        BY <4>1
      <4> QED BY <4>2
    <3> HIDE DEF ss, Solves
    <3> DEFINE R(g) == g = [i \in 1..m |-> IF i = 1 THEN ss[i] ELSE g[i - 1] \o ss[i]]
    <3>2. FlattenSeq(ss) = (CHOOSE g : R(g))[m]
      BY <2>1, <2>3 DEF FlattenSeq
    <3>3. \A g : Solves(g, m) <=> R(g)
      BY <3>1
    <3>4. (CHOOSE g : R(g)) = (CHOOSE g : Solves(g, m))
      <4> HIDE DEF R
      <4> QED BY <3>3
    <3> QED BY <2>3, <3>2, <3>4 DEF Flat, ss
  <2> QED BY <2>2, <2>3
<1>7. Flat(n + 1)[n + 1] = IF n = 0 THEN f[n + 1] ELSE Flat(n)[n] \o f[n + 1]
  <2>1. n + 1 \in Nat /\ n + 1 \in 1..n + 1 /\ (n # 0 => n \in 1..n)
    OBVIOUS
  <2>2. n # 0 => Flat(n)[n] = Flat(n + 1)[n]
    BY <1>5, <2>1
  <2>3. Flat(n + 1)[n + 1] = IF n = 0 THEN f[n + 1] ELSE Flat(n + 1)[n] \o f[n + 1]
    BY <1>4, <2>1
  <2> QED BY <2>2, <2>3, Zenon
<1>8. <<>> \o f[n + 1] = f[n + 1]
  BY ConcatEmptySeq
<1>9. n + 1 \in Nat /\ n + 1 # 0
  OBVIOUS
<1> HIDE DEF Solvable, Solves
<1> QED BY <1>6, <1>7, <1>8, <1>9

-----------------------------------------------------------------------------
(* The characters of a value are ranked in the order of their places. *)
LEMMA StartsArePlaces ==
    ASSUME NEW v \in Seq(Int)
    PROVE  Starts(v) \subseteq 1..Len(v) /\ Starts(v) \subseteq Nat \ {0} /\ Len(v) \in Nat
BY DEF Starts

(* How many characters begin up to a place, and which of them is there. *)
LEMMA StartsFinite ==
    ASSUME NEW v \in Seq(Int), NEW n
    PROVE  IsFiniteSet({j \in Starts(v) : j <= n}) /\ Rank(v, n) \in Nat
<1>1. Starts(v) \subseteq 1..Len(v)
  BY StartsArePlaces
<1>2. IsFiniteSet(1..Len(v))
  BY FS_Interval
<1>3. {j \in Starts(v) : j <= n} \in SUBSET (1..Len(v))
  BY <1>1
<1>4. IsFiniteSet({j \in Starts(v) : j <= n})
  BY <1>2, <1>3, FS_Subset
<1> QED BY <1>4, FS_CardinalityType DEF Rank

LEMMA RankZero ==
    ASSUME NEW v \in Seq(Int)
    PROVE  Rank(v, 0) = 0
<1>1. {j \in Starts(v) : j <= 0} = {}
  <2>1. \A j \in Nat \ {0} : ~(j <= 0)
    OBVIOUS
  <2> QED BY <2>1, StartsArePlaces
<1> QED BY <1>1, FS_EmptySet DEF Rank

LEMMA RankSteps ==
    ASSUME NEW v \in Seq(Int), NEW n \in Nat, NEW m \in Nat, m > n,
           n + 1 \in Starts(v), \A i \in n + 2 .. m : i \notin Starts(v)
    PROVE  Rank(v, m) = Rank(v, n) + 1
<1> DEFINE upTo(k) == {j \in Starts(v) : j <= k}
<1>1. upTo(m) = upTo(n) \cup {n + 1} /\ n + 1 \notin upTo(n)
  <2>1. \A j \in Starts(v) : j <= m <=> j <= n \/ j = n + 1
    <3> TAKE j \in Starts(v)
    <3>1. j \in Nat
      BY StartsArePlaces
    <3>2. j \in n + 2 .. m \/ j <= n \/ j = n + 1 \/ j > m
      BY <3>1
    <3> QED BY <3>1, <3>2
  <2> QED BY <2>1
<1>2. IsFiniteSet(upTo(n))
  BY StartsFinite
<1> HIDE DEF upTo
<1>3. Cardinality(upTo(m)) = Cardinality(upTo(n)) + 1
  BY <1>1, <1>2, FS_AddElement
<1> QED BY <1>3 DEF Rank, upTo

LEMMA RankGrows ==
    ASSUME NEW v \in Seq(Int), NEW i \in Starts(v), NEW n \in Int, n < i
    PROVE  Rank(v, n) < Rank(v, i)
<1> DEFINE upTo(k) == {j \in Starts(v) : j <= k}
<1>1. i \in Int /\ Starts(v) \subseteq Int
  BY StartsArePlaces
<1>2. upTo(n) \in SUBSET upTo(i) /\ i \in upTo(i) /\ i \notin upTo(n)
  BY <1>1
<1>3. IsFiniteSet(upTo(i)) /\ Rank(v, i) \in Nat /\ Rank(v, n) \in Nat
  BY StartsFinite
<1> HIDE DEF upTo
<1>4. Cardinality(upTo(n)) <= Cardinality(upTo(i)) /\ Cardinality(upTo(i)) # Cardinality(upTo(n))
  BY <1>2, <1>3, FS_Subset
<1>5. Rank(v, n) = Cardinality(upTo(n)) /\ Rank(v, i) = Cardinality(upTo(i))
  BY DEF Rank, upTo
<1> QED BY <1>3, <1>4, <1>5

(* The character that begins at a place is the one of its rank. *)
LEMMA MeantAt ==
    ASSUME NEW v \in Seq(Int), NEW plus, NEW i \in Starts(v)
    PROVE  /\ Rank(v, i) \in 1..Rank(v, Len(v))
           /\ Meant(v, plus)[Rank(v, i)] = CharAt(v, plus, i)
<1>1. i \in 1..Len(v) /\ Starts(v) \subseteq Int /\ Len(v) \in Nat
  BY StartsArePlaces
<1>2. Rank(v, i) \in 1..Rank(v, Len(v))
  <2>1. Rank(v, 0) < Rank(v, i)
    BY <1>1, RankGrows
  <2>2. Rank(v, i) <= Rank(v, Len(v))
    <3>1. {j \in Starts(v) : j <= i} \in SUBSET {j \in Starts(v) : j <= Len(v)}
      BY <1>1
    <3>2. IsFiniteSet({j \in Starts(v) : j <= Len(v)})
      BY StartsFinite
    <3> QED BY <3>1, <3>2, FS_Subset DEF Rank
  <2>3. Rank(v, i) \in Nat /\ Rank(v, Len(v)) \in Nat
    BY StartsFinite
  <2> QED BY <2>1, <2>2, <2>3, RankZero
<1>3. \A k \in Starts(v) : Rank(v, k) = Rank(v, i) => k = i
  <2> TAKE k \in Starts(v)
  <2>1. k < i => Rank(v, k) < Rank(v, i)
    BY <1>1, RankGrows
  <2>2. i < k => Rank(v, i) < Rank(v, k)
    BY <1>1, RankGrows
  <2>3. Rank(v, i) \in Nat /\ Rank(v, k) \in Nat
    BY StartsFinite
  <2> QED BY <1>1, <2>1, <2>2, <2>3
<1>4. (CHOOSE k \in Starts(v) : Rank(v, k) = Rank(v, i)) = i
  BY <1>3
<1> QED BY <1>2, <1>4 DEF Meant

-----------------------------------------------------------------------------
(* What a place and a length hold. *)
LEMMA TextIsSeq ==
    ASSUME NEW b, NEW str \in [data : Int, length : Int], NEW X,
           \A i \in Span(str) : b[i] \in X
    PROVE  /\ Text(b, str) \in Seq(X)
           /\ str.length <= 0 => Text(b, str) = <<>>
           /\ str.length >= 0 => Len(Text(b, str)) = str.length
           /\ \A i \in 1..str.length : Text(b, str)[i] = b[str.data + i - 1]
<1>1. PICK d \in Int, l \in Int : d = str.data /\ l = str.length
  OBVIOUS
<1>2. PICK e \in Int : e = d + l - 1
  OBVIOUS
<1>3. Span(str) = d..e /\ Text(b, str) = SubSeq(b, d, e) /\ \A i \in d..e : b[i] \in X
  BY <1>1, <1>2 DEF Span, Text
<1>4. /\ SubSeq(b, d, e) \in Seq(X) /\ Len(SubSeq(b, d, e)) = IF d <= e THEN e - d + 1 ELSE 0
      /\ \A i \in 1 .. e - d + 1 : SubSeq(b, d, e)[i] = b[d + i - 1]
  BY <1>3, SubSeqProperties
<1>5. l <= 0 => SubSeq(b, d, e) = <<>>
  BY <1>2, SubSeqEmpty
<1>6. l >= 0 => (IF d <= e THEN e - d + 1 ELSE 0) = l
  BY <1>2
<1>7. e - d + 1 = l
  BY <1>2
<1> HIDE DEF Span, Text
<1> QED BY <1>1, <1>3, <1>4, <1>5, <1>6, <1>7

(* The text of a string depends only on its own places. *)
LEMMA TextStays ==
    ASSUME NEW b1, NEW b2, NEW str \in [data : Int, length : Int],
           \A i \in Span(str) : b1[i] = b2[i]
    PROVE  Text(b1, str) = Text(b2, str)
<1> DEFINE X == {b1[i] : i \in Span(str)}
<1>1. \A i \in Span(str) : b1[i] \in X /\ b2[i] \in X
  OBVIOUS
<1> HIDE DEF X
<1>2. \A i \in 1..str.length : str.data + i - 1 \in Span(str)
  BY DEF Span
<1>3. CASE str.length <= 0
  BY <1>1, <1>3, TextIsSeq
<1>4. CASE str.length >= 0
  <2>1. Text(b1, str) \in Seq(X) /\ Len(Text(b1, str)) = str.length
        /\ \A i \in 1..str.length : Text(b1, str)[i] = b1[str.data + i - 1]
    BY <1>1, <1>4, TextIsSeq
  <2>2. Text(b2, str) \in Seq(X) /\ Len(Text(b2, str)) = str.length
        /\ \A i \in 1..str.length : Text(b2, str)[i] = b2[str.data + i - 1]
    BY <1>1, <1>4, TextIsSeq
  <2>3. \A i \in 1..str.length : Text(b1, str)[i] = Text(b2, str)[i]
    BY <1>2, <2>1, <2>2
  <2> QED BY <2>1, <2>2, <2>3, SeqEqual
<1> QED BY <1>3, <1>4

LEMMA TextOfNone ==
    ASSUME NEW b
    PROVE  Text(b, None) = <<>> /\ Text(b, EmptyString) = <<>>
<1>1. Text(b, None) = SubSeq(b, 0, -2) /\ Text(b, EmptyString) = SubSeq(b, 0, -1)
  BY DEF Text, None, EmptyString
<1> QED BY <1>1, SubSeqEmpty

(* What is written behind a text is appended to it. *)
Between(b, i, j) == SubSeq(b, i, j - 1)
After(at, new)   == at + Len(new)

LEMMA OverwriteAppends ==
    ASSUME NEW b \in Seq(Int), NEW d \in Nat \ {0}, NEW at \in Nat, d <= at,
           NEW new \in Seq(Int), After(at, new) <= Len(b) + 1
    PROVE  Between(Overwrite(b, at, new), d, After(at, new)) = Between(b, d, at) \o new
<1>1. PICK e \in Int : e = at + Len(new) - 1 /\ e <= Len(b)
  <2>1. at + Len(new) - 1 \in Int /\ at + Len(new) - 1 <= Len(b)
    BY DEF After
  <2> QED BY <2>1, Zenon
<1>2. PICK n \in Nat : n = Len(new) /\ e = at + n - 1
  BY <1>1
<1>3. at \in Int /\ at - 1 \in Int /\ d \in Int
  OBVIOUS
<1>4. PICK o \in Seq(Int) : o = Overwrite(b, at, new)
  BY <1>3, OverwriteInPlace
<1>5. Len(o) = Len(b) /\ \A i \in DOMAIN b : i \notin at .. e => o[i] = b[i]
  BY <1>3, <1>4, <1>1, OverwriteInPlace
<1>6. \A i \in at .. e : o[i] = new[i - at + 1]
  <2> TAKE i \in at .. e
  <2>1. i \in DOMAIN b
    BY <1>1
  <2> QED BY <1>2, <1>4, <2>1 DEF Overwrite
<1>7. PICK all \in Seq(Int) :
         all = SubSeq(o, d, e) /\ Len(all) = e - d + 1 /\ \A i \in 1 .. e - d + 1 : all[i] = o[d + i - 1]
  <2>1. \A i \in d .. e : o[i] \in Int
    BY <1>5, <1>1
  <2>2. (IF d <= e THEN e - d + 1 ELSE 0) = e - d + 1
    BY <1>2
  <2>3. /\ SubSeq(o, d, e) \in Seq(Int) /\ Len(SubSeq(o, d, e)) = IF d <= e THEN e - d + 1 ELSE 0
        /\ \A i \in 1 .. e - d + 1 : SubSeq(o, d, e)[i] = o[d + i - 1]
    BY <1>3, <2>1, SubSeqProperties
  <2> QED BY <2>2, <2>3, Zenon
<1>8. PICK old \in Seq(Int) :
         old = SubSeq(b, d, at - 1) /\ Len(old) = at - d /\ \A i \in 1 .. at - d : old[i] = b[d + i - 1]
  <2>1. \A i \in d .. at - 1 : b[i] \in Int
    BY <1>2, <1>1
  <2>2. PICK k \in Int : k = at - 1
    BY <1>3
  <2>3. (IF d <= k THEN k - d + 1 ELSE 0) = at - d /\ k - d + 1 = at - d
    BY <2>2
  <2>4. /\ SubSeq(b, d, k) \in Seq(Int) /\ Len(SubSeq(b, d, k)) = IF d <= k THEN k - d + 1 ELSE 0
        /\ \A i \in 1 .. k - d + 1 : SubSeq(b, d, k)[i] = b[d + i - 1]
    BY <1>3, <2>1, <2>2, SubSeqProperties
  <2> QED BY <2>2, <2>3, <2>4, Zenon
<1>9. PICK m \in Nat : m = at - d /\ e - d + 1 = m + n
  BY <1>2
<1>10. /\ old \o new \in Seq(Int) /\ Len(old \o new) = m + n
      /\ \A i \in 1 .. m + n : (old \o new)[i] = IF i <= m THEN old[i] ELSE new[i - m]
  <2>1. /\ old \o new \in Seq(Int) /\ Len(old \o new) = Len(old) + Len(new)
        /\ \A i \in 1 .. Len(old) + Len(new) :
              (old \o new)[i] = IF i <= Len(old) THEN old[i] ELSE new[i - Len(old)]
    BY ConcatProperties
  <2>2. Len(old) = m /\ Len(new) = n
    BY <1>2, <1>8, <1>9
  <2> QED BY <2>1, <2>2, Zenon
<1>11. ASSUME NEW i \in 1 .. m + n PROVE all[i] = (old \o new)[i]
  <2>1. all[i] = o[d + i - 1]
    BY <1>7, <1>9
  <2>2. CASE i <= m
    <3>1. d + i - 1 \in DOMAIN b /\ d + i - 1 \notin at .. e /\ i \in 1 .. at - d
      BY <1>2, <1>9, <1>1, <2>2
    <3>2. all[i] = old[i]
      BY <1>5, <1>8, <2>1, <3>1
    <3> QED BY <1>10, <2>2, <3>2
  <2>3. CASE i > m
    <3>1. d + i - 1 \in at .. e /\ (d + i - 1) - at + 1 = i - m /\ ~(i <= m)
      BY <1>2, <1>9, <2>3
    <3>2. all[i] = new[i - m]
      BY <1>6, <2>1, <3>1
    <3> QED BY <1>10, <3>1, <3>2
  <2>4. i <= m \/ i > m
    OBVIOUS
  <2> QED BY <2>2, <2>3, <2>4, Zenon
<1>12. all = old \o new
  <2>1. PICK cat \in Seq(Int) : cat = old \o new /\ Len(cat) = m + n
    BY <1>10, Zenon
  <2>2. Len(all) = Len(cat) /\ \A i \in 1 .. Len(all) : all[i] = cat[i]
    BY <1>7, <1>9, <1>11, <2>1
  <2> QED BY <2>1, <2>2, SeqEqual
<1>13. After(at, new) - 1 = e
  BY <1>1 DEF After
<1> QED BY <1>4, <1>7, <1>8, <1>12, <1>13 DEF Between

(* Reduce appends the json_char to those collected, and writes nothing but *)
(* between the first of them and the character that is read.               *)
LEMMA ReduceAppends ==
    ASSUME IInv, pc = "string", Reduce
    PROVE  /\ Text(buf', cs') = Text(buf, cs) \o Bytes
           /\ \A i \in DOMAIN buf : i \notin Start .. At - 1 - esc => buf'[i] = buf[i]
           /\ cs' # None => cs'.data = Start
           /\ cs' = None => c = None /\ cs = None
<1> USE DEF IInv
<1>1. /\ At \in Nat \ {0} /\ At - 1 <= Len(buf) /\ buf \in Seq(Int) /\ Len(buf) \in Nat
      /\ DOMAIN buf = 1..Len(buf)
  BY Reader
<1>2. /\ c \in [data : Int, length : Int] /\ cs \in [data : Int, length : Int] /\ esc \in 0..5
  BY DEF TypeInv
<1>3. /\ c # None => /\ esc = 0 /\ c.length \in {1, 4} /\ c.data >= 1 /\ c.data + c.length = At
      /\ cs # None => /\ cs.data >= 1 /\ cs.length >= 0
                      /\ cs.data + cs.length <= (IF c # None THEN c.data ELSE At - esc)
  BY DEF JsonInv
<1>4. CASE c = None
  <2>1. buf' = buf /\ cs' = cs
    BY <1>4 DEF Reduce
  <2>2. Bytes = <<>>
    BY <1>4, TextOfNone DEF Bytes, IsUtf16, None
  <2>3. Text(buf, cs) \o <<>> = Text(buf, cs)
    <3>1. Text(buf, cs) \in Seq({buf[i] : i \in Span(cs)})
      BY <1>2, TextIsSeq
    <3> QED BY <3>1, ConcatEmptySeq
  <2>4. cs # None => Start = cs.data
    BY DEF Start
  <2> QED BY <1>4, <2>1, <2>2, <2>3, <2>4
<1>5. CASE c # None
  <2>1. PICK at \in Nat \ {0} : at = c.data
    BY <1>2, <1>3, <1>5
  <2>2. PICK l \in {1, 4} : l = c.length
    BY <1>3, <1>5
  <2>3. esc = 0 /\ at + l = At /\ at + l - 1 <= Len(buf)
    BY <1>1, <1>3, <1>5, <2>1, <2>2
  <2>4. Bytes \in Seq(Int) /\ Len(Bytes) \in 1..l
    <3>1. c.data + c.length <= Len(buf) + 1
      BY <1>1, <2>1, <2>2, <2>3
    <3> QED BY <1>1, <1>2, <1>3, <1>5, <2>2, <3>1, BytesFit
  <2>5. PICK n \in Nat : n = Len(Bytes) /\ 1 <= n /\ n <= l
    BY <2>4
  <2>6. PICK new \in Seq(Int) : new = Bytes
    BY <2>4
  <2>7. PICK conv \in Seq(Int) :
           /\ conv = Converted /\ Len(conv) = Len(buf)
           /\ \A i \in DOMAIN buf : i \notin at .. At - 1 => conv[i] = buf[i]
           /\ Text(conv, [data |-> at, length |-> n]) = new
    <3> SUFFICES /\ Converted \in Seq(Int) /\ Len(Converted) = Len(buf)
                 /\ \A i \in DOMAIN buf : i \notin at .. At - 1 => Converted[i] = buf[i]
                 /\ Text(Converted, [data |-> at, length |-> n]) = new
      BY Zenon
    <3>1. CASE IsUtf16
      <4>1. Converted = Overwrite(buf, at, new)
        BY <2>1, <2>6, <3>1 DEF Converted
      <4>2. PICK e \in Int : e = at + Len(new) - 1 /\ e <= Len(buf) /\ e = at + n - 1 /\ at <= at
        <5>3. at + n - 1 \in Int /\ at + n - 1 <= Len(buf)
          BY <1>1, <2>3, <2>5
        <5>1. PICK e \in Int : e = at + n - 1 /\ e <= Len(buf)
          BY <5>3, Zenon
        <5>2. Len(new) = n /\ at <= at
          BY <2>5, <2>6
        <5> QED BY <5>1, <5>2, Zenon
      <4>3. /\ Overwrite(buf, at, new) \in Seq(Int) /\ Len(Overwrite(buf, at, new)) = Len(buf)
            /\ \A i \in DOMAIN buf : i \notin at .. e => Overwrite(buf, at, new)[i] = buf[i]
        <5>1. at \in Int /\ at + Len(new) - 1 = e
          BY <4>2
        <5>2. /\ Overwrite(buf, at, new) \in Seq(Int) /\ Len(Overwrite(buf, at, new)) = Len(buf)
              /\ \A i \in DOMAIN buf : i \notin at .. at + Len(new) - 1 => Overwrite(buf, at, new)[i] = buf[i]
          BY <1>1, <5>1, OverwriteInPlace
        <5> QED BY <5>1, <5>2
      <4>7. Between(Overwrite(buf, at, new), at, After(at, new)) = Between(buf, at, at) \o new
        <5> HIDE DEF IInv
        <5>1. at \in Nat \ {0} /\ at \in Nat
          OBVIOUS
        <5>2. After(at, new) <= Len(buf) + 1
          BY <1>1, <4>2 DEF After
        <5> QED BY <1>1, <4>2, <5>1, <5>2, OverwriteAppends
      <4>8. After(at, new) = at + n
        BY <2>5, <2>6 DEF After
      <4>4. SubSeq(buf, at, at - 1) \o new = new
        <5>1. PICK k \in Int : k = at - 1 /\ k < at
          OBVIOUS
        <5> QED BY <5>1, SubSeqEmpty, ConcatEmptySeq
      <4>6. Text(Converted, [data |-> at, length |-> n]) = new
        <5>1. Text(Converted, [data |-> at, length |-> n]) = SubSeq(Converted, at, e)
          BY <4>2 DEF Text
        <5>2. Between(Overwrite(buf, at, new), at, at + n) = SubSeq(Overwrite(buf, at, new), at, e)
          BY <4>2 DEF Between
        <5>3. Between(buf, at, at) = SubSeq(buf, at, at - 1)
          BY DEF Between
        <5> QED BY <4>1, <4>7, <4>8, <4>4, <5>1, <5>2, <5>3
      <4>5. \A i \in DOMAIN buf : i \notin at .. At - 1 => i \notin at .. e
        BY <1>1, <2>3, <2>5, <4>2
      <4> QED BY <4>1, <4>3, <4>5, <4>6
    <3>2. CASE ~IsUtf16
      <4>1. Converted = buf /\ new = Text(buf, c) /\ l = 1 /\ n = 1
        BY <2>2, <2>5, <2>6, <3>2 DEF Converted, Bytes, IsUtf16
      <4>2. c = [data |-> at, length |-> n]
        BY <1>2, <2>1, <2>2, <4>1
      <4> QED BY <1>1, <4>1, <4>2
    <3> QED BY <3>1, <3>2
  <2>8. CASE cs = None
    <3>1. buf' = conv /\ cs' = [data |-> at, length |-> n] /\ Start = at
      BY <1>5, <2>1, <2>5, <2>7, <2>8 DEF Reduce, Start
    <3>2. Text(buf, cs) \o new = new
      BY <2>8, TextOfNone, ConcatEmptySeq
    <3>3. cs' # None
      BY <3>1 DEF None
    <3> QED BY <1>5, <2>3, <2>6, <2>7, <3>1, <3>2, <3>3
  <2>9. CASE cs # None
    <3>1. PICK start \in Nat \ {0} : start = cs.data
      BY <1>2, <1>3, <2>9
    <3>2. PICK m \in Nat : m = cs.length
      BY <1>2, <1>3, <2>9
    <3>3. start + m <= at
      BY <1>3, <1>5, <2>1, <2>9, <3>1, <3>2
    <3>4. PICK k \in Nat : k = start + m
      OBVIOUS
    <3>11. buf' = Overwrite(conv, k, new) /\ cs' = [cs EXCEPT !.length = @ + Len(new)]
      BY <1>5, <2>6, <2>7, <2>9, <3>1, <3>2, <3>4 DEF Reduce
    <3>6. cs = [data |-> start, length |-> m] /\ cs' = [data |-> start, length |-> m + n]
      BY <1>2, <2>5, <2>6, <3>1, <3>2, <3>11
    <3>5. /\ \A i \in DOMAIN conv : i \notin k .. k + n - 1 => buf'[i] = conv[i]
          /\ Text(buf', cs') = Text(conv, cs) \o new
      <4>1. PICK e \in Int : e = k + Len(new) - 1 /\ e <= Len(conv) /\ e = k + n - 1 /\ start <= k
        <5>3. k + n - 1 \in Int /\ k + n - 1 <= Len(buf) /\ start <= k
          BY <1>1, <2>3, <2>5, <3>3, <3>4
        <5>1. PICK e \in Int : e = k + n - 1 /\ e <= Len(buf) /\ start <= k
          BY <5>3, Zenon
        <5>2. Len(new) = n /\ Len(conv) = Len(buf)
          BY <2>5, <2>6, <2>7
        <5> QED BY <5>1, <5>2, Zenon
      <4>2. \A i \in DOMAIN conv : i \notin k .. e => Overwrite(conv, k, new)[i] = conv[i]
        BY <4>1, OverwriteInPlace
      <4>3. Between(Overwrite(conv, k, new), start, After(k, new)) = Between(conv, start, k) \o new
        <5> HIDE DEF IInv
        <5>2. After(k, new) <= Len(conv) + 1
          BY <4>1 DEF After
        <5> QED BY <4>1, <5>2, OverwriteAppends
      <4>6. After(k, new) = k + n
        BY <2>5, <2>6 DEF After
      <4>4. start + (m + n) = k + n
        BY <3>4, <4>1
      <4>5. Text(buf', cs') = Between(buf', start, start + (m + n)) /\ Text(conv, cs) = Between(conv, start, start + m)
        BY <3>6 DEF Text, Between
      <4> QED BY <3>4, <3>11, <4>1, <4>2, <4>3, <4>4, <4>5, <4>6
    <3>7. Text(conv, cs) = Text(buf, cs)
      <4>1. Span(cs) = start .. start + m - 1
        BY <3>6 DEF Span
      <4>2. ASSUME NEW i \in start .. start + m - 1 PROVE conv[i] = buf[i]
        <5>1. i \in 1..Len(buf) /\ i < at
          BY <1>1, <2>3, <3>3
        <5>2. i \notin at .. At - 1
          BY <5>1
        <5> QED BY <1>1, <2>7, <5>1, <5>2
      <4>3. \A i \in Span(cs) : conv[i] = buf[i]
        BY <4>1, <4>2
      <4> HIDE DEF IInv
      <4> QED BY <1>2, <4>3, TextStays
    <3>8. ASSUME NEW i \in DOMAIN buf, i \notin start .. At - 1 - esc PROVE buf'[i] = buf[i]
      <4>1. i \notin at .. At - 1 /\ i \notin k .. k + n - 1
        <5>1. PICK a \in Nat : a = At /\ i \notin start .. a - 1 /\ at + l = a
          BY <1>1, <2>3, <3>8
        <5>2. i \in Int /\ (i < start \/ i >= a)
          BY <1>1, <5>1
        <5>3. k + n - 1 < a /\ start <= at /\ start <= k
          BY <2>5, <3>3, <3>4, <5>1
        <5> QED BY <5>1, <5>2, <5>3
      <4>2. DOMAIN conv = DOMAIN buf
        BY <1>1, <2>7
      <4> QED BY <2>7, <3>5, <4>1, <4>2
    <3>9. Start = start /\ cs' # None /\ cs'.data = start
      BY <2>9, <3>1, <3>6 DEF Start, None
    <3>10. Text(buf', cs') = Text(buf, cs) \o Bytes
      BY <2>6, <3>5, <3>7
    <3> QED BY <3>8, <3>9, <3>10
  <2> QED BY <2>8, <2>9
<1> QED BY <1>4, <1>5

(* The job at hand and what the grammar saw of it. *)
LEMMA ValueOfJob ==
    ASSUME IInv, HistInv, todo # <<>>
    PROVE  /\ Value \in Seq(Int) /\ Len(Value) = Job.length /\ DOMAIN Value = 1..Job.length
           /\ \A i \in 1..Job.length : Value[i] = received.buf[Job.data + i - 1]
           /\ Count \in Nat /\ Count + 1 \in DOMAIN received.todo /\ Job = received.todo[Count + 1]
<1>1. /\ received.buf \in Seq(Int) /\ Len(received.buf) = Len(buf) /\ Job = todo[1] /\ Job \in Jobs
      /\ Job.data \in Nat \ {0} /\ Job.length \in Nat /\ Span(Job) \subseteq 1..Len(buf)
  BY JobAtHand DEF IInv
<1>2. received.todo \in Seq(Jobs) /\ todo \in Seq(Jobs)
  BY TextsAssumption DEF IInv, TodoInv
<1>3. Len(todo) \in Nat \ {0} /\ Len(received.todo) \in Nat /\ Len(todo) <= Len(received.todo)
  BY <1>2 DEF HistInv
<1>4. Count \in Nat /\ Count + 1 \in 1..Len(received.todo)
  BY <1>3 DEF Count
<1>5. Job = received.todo[Count + 1]
  <2>1. 1 \in DOMAIN todo
    BY <1>2, <1>3
  <2> QED BY <1>1, <2>1 DEF HistInv
<1>6. PICK str \in [data : Int, length : Int] : str.data = Job.data /\ str.length = Job.length
  <2>1. PICK d \in Int, l \in Int : d = Job.data /\ l = Job.length
    BY <1>1
  <2>2. [data |-> d, length |-> l] \in [data : Int, length : Int]
    OBVIOUS
  <2> QED BY <2>1, <2>2
<1>7. Value = Text(received.buf, str) /\ Span(str) = Span(Job)
  BY <1>6 DEF Value, Text, Span
<1>8. \A i \in Span(str) : received.buf[i] \in Int
  BY <1>1, <1>7
<1>9. /\ Text(received.buf, str) \in Seq(Int) /\ Len(Text(received.buf, str)) = str.length
      /\ \A i \in 1..str.length : Text(received.buf, str)[i] = received.buf[str.data + i - 1]
  <2>1. str.length >= 0
    BY <1>1, <1>6
  <2> QED BY <1>8, <2>1, TextIsSeq
<1>10. DOMAIN Value = 1..Len(Value) /\ DOMAIN received.todo = 1..Len(received.todo)
  BY <1>2, <1>7, <1>9
<1> QED BY <1>4, <1>5, <1>6, <1>7, <1>9, <1>10

(* The jobs that are done, as one is at work and as one ends. *)
LEMMA HistStays ==
    ASSUME HistInv, UNCHANGED <<todo, received>>
    PROVE  HistInv' /\ Count' = Count /\ Job' = Job /\ Value' = Value
BY DEF HistInv, Count, Job, Value, Text

LEMMA HistNext ==
    ASSUME IInv, HistInv, todo # <<>>, todo' = Tail(todo), UNCHANGED received
    PROVE  HistInv' /\ Count' = Count + 1
<1>1. received.todo \in Seq(Jobs) /\ todo \in Seq(Jobs)
  BY TextsAssumption DEF IInv, TodoInv
<1>2. PICK n \in Nat, m \in Nat : n = Len(todo) /\ m = Len(received.todo) /\ n # 0 /\ n <= m /\ Count = m - n
  BY <1>1 DEF HistInv, Count
<1>3. Len(todo') = n - 1 /\ Count' = m - (n - 1) /\ DOMAIN todo' = 1..n - 1
  BY <1>1, <1>2 DEF Count
<1>4. ASSUME NEW k \in 1..n - 1 PROVE todo'[k] = received.todo[Count' + k]
  <2>1. todo'[k] = todo[k + 1] /\ k + 1 \in DOMAIN todo
    BY <1>1, <1>2
  <2>2. Count + (k + 1) = Count' + k
    <3>1. PICK j \in Int : j = k
      OBVIOUS
    <3>2. (m - n) + (j + 1) = (m - (n - 1)) + j
      OBVIOUS
    <3> QED BY <1>2, <1>3, <3>1, <3>2
  <2> QED BY <2>1, <2>2 DEF HistInv
<1>5. m - (n - 1) = (m - n) + 1 /\ n - 1 <= m
  BY <1>2
<1> QED BY <1>2, <1>3, <1>4, <1>5 DEF HistInv

(* What is expected after one job more. *)
LEMMA ExpectedStays ==
    ASSUME UNCHANGED received
    PROVE  \A n : Expected(n)' = Expected(n)
BY DEF Expected, MeantBy, Text

LEMMA ExpectedNext ==
    ASSUME IInv, HistInv, todo # <<>>, NEW X, MeantBy(Job) \in Seq(X)
    PROVE  Expected(Count + 1) = Expected(Count) \o MeantBy(Job)
<1>1. Count \in Nat /\ Count + 1 \in DOMAIN received.todo /\ Job = received.todo[Count + 1]
  BY ValueOfJob
<1>2. received.todo \in Seq(Jobs)
  BY TextsAssumption DEF IInv
<1> DEFINE f == [j \in DOMAIN received.todo |-> MeantBy(received.todo[j])]
<1>3. f[Count + 1] = MeantBy(Job)
  BY <1>1
<1>4. \A n \in {Count, Count + 1} : \A j \in 1..n : j \in DOMAIN received.todo
  BY <1>1, <1>2
<1>5. \A n \in {Count, Count + 1} : Expected(n) = FlattenSeq([j \in 1..n |-> f[j]])
  <2> TAKE n \in {Count, Count + 1}
  <2>1. \A j \in 1..n : f[j] = MeantBy(received.todo[j])
    BY <1>4
  <2> HIDE DEF f
  <2>2. [j \in 1..n |-> f[j]] = [j \in 1..n |-> MeantBy(received.todo[j])]
    BY <2>1
  <2> QED BY <2>2 DEF Expected
<1> HIDE DEF f
<1> QED BY <1>1, <1>3, <1>5, FlattenOneMore

-----------------------------------------------------------------------------
(* What has been given stays as long as it is not written to. *)
LEMMA ToldAreStrings ==
    ASSUME ToldInv
    PROVE  /\ DOMAIN told = 1..Len(told) /\ Len(told) \in Nat
           /\ \A k \in DOMAIN told : told[k] \in [data : Int, length : Int]
<1> DEFINE S == [data : Int, length : Int]
<1>1. told \in Seq(S)
  BY DEF ToldInv
<1> HIDE DEF S
<1>2. DOMAIN told = 1..Len(told) /\ Len(told) \in Nat /\ \A k \in DOMAIN told : told[k] \in S
  BY <1>1
<1> QED BY <1>2 DEF S

LEMMA GivenStays ==
    ASSUME ToldInv, \A k \in DOMAIN told : \A i \in Span(told[k]) : buf'[i] = buf[i], told' = told
    PROVE  Given' = Given
<1>1. \A k \in DOMAIN told : Text(buf', told[k]) = Text(buf, told[k])
  <2> TAKE k \in DOMAIN told
  <2>1. told[k] \in [data : Int, length : Int]
    BY ToldAreStrings
  <2> QED BY <2>1, TextStays
<1>2. [k \in DOMAIN told |-> Text(buf', told[k])] = [k \in DOMAIN told |-> Text(buf, told[k])]
  BY <1>1
<1>3. Given' = [k \in DOMAIN told |-> Text(buf', told[k])]
  BY DEF Given, Text
<1> QED BY <1>2, <1>3 DEF Given

LEMMA GivenIsSeq ==
    ASSUME ToldInv, NEW X, \A k \in DOMAIN told : Text(buf, told[k]) \in X
    PROVE  Given \in Seq(X) /\ Len(Given) = Len(told)
<1>1. DOMAIN told = 1..Len(told) /\ Len(told) \in Nat
  BY DEF ToldInv
<1> DEFINE t(k) == Text(buf, told[k])
<1>2. Given = [k \in 1..Len(told) |-> t(k)] /\ \A k \in 1..Len(told) : t(k) \in X
  BY <1>1 DEF Given
<1> HIDE DEF t
<1>3. [k \in 1..Len(told) |-> t(k)] \in Seq(X) /\ Len([k \in 1..Len(told) |-> t(k)]) = Len(told)
  BY <1>1, <1>2
<1> QED BY <1>2, <1>3

LEMMA GivenGrows ==
    ASSUME ToldInv, \A k \in DOMAIN told : \A i \in Span(told[k]) : buf'[i] = buf[i],
           NEW str \in [data : Int, length : Int], told' = Append(told, str)
    PROVE  Given' = Given \o <<Text(buf', str)>>
<1> DEFINE new == Text(buf', str)
           X == {new} \cup {Text(buf, told[k]) : k \in DOMAIN told}
<1>1. PICK n \in Nat : n = Len(told) /\ DOMAIN told = 1..n
  BY DEF ToldInv
<1>2. /\ DOMAIN told' = 1..n + 1 /\ told'[n + 1] = str
      /\ \A k \in 1..n : told'[k] = told[k]
  BY <1>1 DEF ToldInv
<1>3. \A k \in 1..n : Text(buf', told[k]) = Text(buf, told[k])
  <2> TAKE k \in 1..n
  <2>1. told[k] \in [data : Int, length : Int]
    BY <1>1, ToldAreStrings
  <2> QED BY <1>1, <2>1, TextStays
<1>4. Given' = [k \in 1..n + 1 |-> Text(buf', told'[k])]
  BY <1>2 DEF Given, Text
<1>5. new \in X /\ \A k \in DOMAIN told : Text(buf, told[k]) \in X
  OBVIOUS
<1> HIDE DEF X, new
<1>6. Given \in Seq(X) /\ Len(Given) = n /\ \A k \in 1..n : Given[k] = Text(buf, told[k])
  BY <1>1, <1>5, GivenIsSeq DEF Given
<1>7. /\ Append(Given, new) \in Seq(X) /\ Len(Append(Given, new)) = n + 1
      /\ \A k \in 1..n : Append(Given, new)[k] = Given[k]
      /\ Append(Given, new)[n + 1] = new /\ Append(Given, new) = Given \o <<new>>
  BY <1>5, <1>6, AppendProperties, AppendIsConcat
<1>8. \A k \in 1..n + 1 : Text(buf', told'[k]) = Append(Given, new)[k]
  <2> TAKE k \in 1..n + 1
  <2>1. CASE k = n + 1
    BY <1>2, <1>7, <2>1 DEF new
  <2>2. CASE k # n + 1
    <3>1. k \in 1..n
      BY <2>2
    <3> QED BY <1>2, <1>3, <1>6, <1>7, <3>1
  <2> QED BY <2>1, <2>2
<1>9. Append(Given, new) = [k \in 1..n + 1 |-> Append(Given, new)[k]]
  BY <1>7
<1>10. Given' = [k \in 1..n + 1 |-> Append(Given, new)[k]]
  BY <1>4, <1>8
<1> QED BY <1>7, <1>9, <1>10 DEF new

-----------------------------------------------------------------------------
(* Nothing has been done, nothing told. *)
LEMMA InitMeaning == Init => Meaning
<1> SUFFICES ASSUME Init PROVE Meaning
  OBVIOUS
<1>1. pc = "next" /\ told = <<>> /\ todo = received.todo /\ received \in Texts
  BY DEF Init
<1>2. received.todo \in Seq(Jobs)
  BY <1>1, TextsAssumption
<1>3. HistInv /\ Count = 0
  <2>1. PICK n \in Nat : n = Len(todo) /\ DOMAIN todo = 1..n
    BY <1>1, <1>2
  <2>2. Len(received.todo) = n /\ n - n = 0 /\ n <= n /\ \A k \in 1..n : 0 + k = k
    BY <1>1, <2>1
  <2> QED BY <1>1, <2>1, <2>2 DEF HistInv, Count
<1>4. ToldInv
  BY <1>1 DEF ToldInv
<1>5. Given = Expected(Count)
  <2>1. Given = <<>>
    BY <1>1 DEF Given
  <2>2. [j \in 1..0 |-> MeantBy(received.todo[j])] = <<>>
    OBVIOUS
  <2>3. Len(<<>>) = 0
    OBVIOUS
  <2> QED BY <1>3, <2>1, <2>2, <2>3 DEF Expected, FlattenSeq
<1>6. ValueInv /\ FieldInv /\ EscapeInv /\ GivenInv
  BY <1>1, <1>5 DEF ValueInv, FieldInv, EscapeInv, GivenInv
<1> QED BY <1>3, <1>4, <1>6 DEF Meaning

(* What the job at hand means. *)
LEMMA MeantByJob ==
    /\ Job.op = "json" => MeantBy(Job) = StringsFrom(Value)[1][FALSE]
    /\ Job.op = "trim" => MeantBy(Job) = <<Trimmed(Value)>>
    /\ Job.op = "decodeValue" => MeantBy(Job) = <<Meant(Value, Job.plus)>>
BY DEF MeantBy, Value

(* A job begins: nothing of its value has been written to. *)
LEMMA BeginKeepsMeaning ==
    ASSUME IInv, Meaning, Begin
    PROVE  Meaning'
<1> USE DEF Meaning
<1>1. /\ pc = "next" /\ todo # <<>> /\ UNCHANGED <<buf, told, received, todo>>
      /\ s' = [data |-> Job.data, length |-> Job.length] /\ readPos' = 0 /\ writePos' = 0
      /\ esc' = 0 /\ c' = None /\ cs' = None
      /\ pc' = Job.op \/ pc' = "failed"
      /\ within' = IF Job.op = "json" THEN within ELSE within \cup Span(s')
  BY DEF Begin, Failed, Job
<1>2. /\ Job.data \in Nat \ {0} /\ Job.length \in Nat /\ Job.op \in {"decodeValue", "trim", "json"}
      /\ Len(received.buf) = Len(buf) /\ Job = todo[1] /\ Span(Job) \subseteq 1..Len(buf)
  BY <1>1, JobAtHand DEF IInv
<1>3. Span(s') = Span(Job) /\ DOMAIN buf = 1..Len(buf)
  BY <1>1 DEF Span, IInv, TypeInv
<1>4. HistInv' /\ Count' = Count /\ Job' = Job /\ Value' = Value
  BY <1>1, HistStays
<1>5. Span(Job) \cap within = {}
  <2>1. 1 \in DOMAIN todo
    BY <1>1 DEF IInv, TodoInv
  <2> QED BY <1>1, <1>2, <2>1 DEF IInv, TodoInv
<1>6. \A i \in Span(Job) : buf[i] = received.buf[i]
  BY <1>2, <1>3, <1>5 DEF IInv, RestAsReceived
<1>7. ToldInv'
  <2>1. pc' \in {"decodeValue", "json", "string"} => (Start .. End - 1)' = Span(Job)
    <3> SUFFICES ASSUME pc' \in {"decodeValue", "json", "string"} PROVE (Start .. End - 1)' = Span(Job)
      OBVIOUS
    <3>1. pc' \in {"decodeValue", "json"}
      BY <1>1, <1>2
    <3>2. Start' = s'.data \/ Start' = (s'.data + readPos') - esc'
      BY <1>1, <3>1 DEF Start, At
    <3>3. PICK d \in Nat, l \in Nat : d = Job.data /\ l = Job.length
      BY <1>2
    <3>4. s'.data = d /\ (s'.data + readPos') - esc' = d
      BY <1>1, <3>3
    <3>5. Start' = d /\ End' = d + l
      BY <1>4, <3>2, <3>3, <3>4 DEF End
    <3> QED BY <3>3, <3>5 DEF Span
  <2>2. ASSUME NEW k \in DOMAIN told
        PROVE  Span(told[k]) \subseteq within' \cap DOMAIN buf /\ Span(told[k]) \cap Span(Job) = {}
    <3>1. Span(told[k]) \subseteq within \cap DOMAIN buf
      BY DEF ToldInv
    <3> QED BY <1>1, <1>5, <3>1
  <2>3. told' \in Seq([data : Int, length : Int])
    BY <1>1 DEF ToldInv
  <2> QED BY <1>1, <2>1, <2>2, <2>3 DEF ToldInv
<1>8. ValueInv'
  <2> SUFFICES ASSUME pc' = "decodeValue" PROVE ValueInv'
    BY DEF ValueInv
  <2>1. Value \in Seq(Int) /\ DOMAIN Value = 1..Len(Value)
    BY <1>1, ValueOfJob
  <2>2. {0, 0 - 1} \cap DOMAIN Value = {}
    BY <2>1
  <2>3. Rank(Value, 0) = 0
    BY <2>1, RankZero
  <2> QED BY <1>1, <1>4, <2>2, <2>3 DEF ValueInv
<1>9. FieldInv'
  <2> SUFFICES ASSUME pc' \in {"trim", "trimRight"} PROVE FieldInv'
    BY DEF FieldInv
  <2>1. Span(Job) \subseteq within'
    BY <1>1, <1>2, <1>3
  <2>2. Span(Job)' = Span(Job) /\ Span(s)' = Span(s')
    BY <1>4 DEF Span
  <2> QED BY <1>1, <1>3, <1>6, <2>1, <2>2 DEF FieldInv
<1>10. EscapeInv'
  <2>1. pc' # "string"
    BY <1>1, <1>2
  <2>2. Span(s)' = Span(s')
    BY DEF Span
  <2> QED BY <1>1, <1>3, <1>6, <2>1, <2>2 DEF EscapeInv
<1>11. GivenInv'
  <2> SUFFICES ASSUME (~HasHexLetter)', pc' # "failed"
               PROVE  (IF pc \in {"json", "string"} THEN Expected(Count) \o MeantBy(Job) = Given \o Ahead
                       ELSE Given = Expected(Count))'
    BY DEF GivenInv
  <2>1. ~HasHexLetter
    BY <1>1 DEF HasHexLetter
  <2>2. Given = Expected(Count)
    BY <1>1, <2>1 DEF GivenInv
  <2>3. Given' = Given /\ Expected(Count)' = Expected(Count) /\ MeantBy(Job)' = MeantBy(Job)
    <3>1. Expected(Count)' = Expected(Count)
      BY <1>1, <1>4 DEF Expected, MeantBy, Text
    <3> QED BY <1>1, <1>4, <3>1 DEF Given, Text, MeantBy
  <2>4. CASE pc' = "json"
    <3>1. Ahead' = StringsFrom(Value)[1][FALSE]
      BY <1>1, <1>4, <2>4 DEF Ahead, Rest
    <3>2. Ahead' = MeantBy(Job)
      BY <1>1, <2>4, <3>1, MeantByJob
    <3> QED BY <2>2, <2>3, <2>4, <3>2
  <2>5. CASE pc' # "json"
    <3>1. pc' \notin {"json", "string"}
      BY <1>1, <1>2, <2>5
    <3> QED BY <2>2, <2>3, <3>1
  <2> QED BY <2>4, <2>5
<1> QED BY <1>4, <1>7, <1>8, <1>9, <1>10, <1>11

(* decodeValue writes the character that begins where it reads, behind     *)
(* those it has written.                                                   *)
LEMMA WriteKeepsMeaning ==
    ASSUME IInv, Meaning, pc = "decodeValue", NEW ch \in Int, NEW n \in {1, 3}, readPos + n <= s.length,
           Write(ch), readPos' = readPos + n,
           UNCHANGED <<todo, pc, s, esc, c, cs, told, received, within>>,
           readPos + 1 \in Starts(Value), ch = CharAt(Value, Job.plus, readPos + 1),
           \A i \in readPos + 2 .. readPos + n : i \notin Starts(Value),
           \A i \in {readPos + n, readPos + n - 1} \cap DOMAIN Value : Value[i] # Percent
    PROVE  Meaning'
<1> USE DEF Meaning
<1>1. /\ todo # <<>> /\ s = [data |-> Job.data, length |-> Job.length]
      /\ s.data \in Nat \ {0} /\ s.length \in Nat
      /\ Span(s) \subseteq DOMAIN buf /\ writePos <= readPos
  BY Decoding
<1>2. PICK d \in Nat \ {0}, l \in Nat, r \in Nat, w \in Nat :
          d = s.data /\ l = s.length /\ r = readPos /\ w = writePos /\ d = Job.data /\ l = Job.length
  BY <1>1 DEF IInv, TypeInv
<1>3. w <= r /\ r + n <= l /\ r + 1 <= l
  BY <1>1, <1>2
<1>4. /\ HistInv' /\ Count' = Count /\ Job' = Job /\ Value' = Value
      /\ Value \in Seq(Int) /\ Len(Value) = l /\ DOMAIN Value = 1..l
  BY <1>1, <1>2, HistStays, ValueOfJob
<1>5. d + w \in d .. d + l - 1 /\ d + w \in DOMAIN buf
  <2>1. d + w \in d .. d + l - 1
    BY <1>3
  <2>2. Span(s) = d .. d + l - 1
    BY <1>2 DEF Span
  <2> QED BY <1>1, <2>1, <2>2
<1>6. /\ writePos' = w + 1 /\ DOMAIN buf' = DOMAIN buf
      /\ buf'[d + w] = ch /\ \A i \in DOMAIN buf : i # d + w => buf'[i] = buf[i]
  <2>1. /\ buf' = [i \in DOMAIN buf |-> IF i \in d + w .. d + w + Len(<<ch>>) - 1 THEN <<ch>>[i - (d + w) + 1] ELSE buf[i]]
        /\ writePos' = w + 1
    BY <1>2 DEF Write, Overwrite
  <2>2. Len(<<ch>>) = 1 /\ (d + w) - (d + w) + 1 = 1 /\ d + w \in d + w .. d + w + 1 - 1
    OBVIOUS
  <2>3. buf'[d + w] = ch
    BY <1>5, <2>1, <2>2
  <2>4. ASSUME NEW i \in DOMAIN buf, i # d + w PROVE i \notin d + w .. d + w + Len(<<ch>>) - 1
    <3>1. i \in Int
      BY DEF IInv, TypeInv
    <3> QED BY <2>2, <2>4, <3>1
  <2> QED BY <2>1, <2>3, <2>4
<1>7. Start' = Start /\ Start = d /\ End' = End /\ End = d + l
  BY <1>2, <1>4 DEF Start, End
<1>8. \A k \in DOMAIN told : d + w \notin Span(told[k])
  <2>1. \A k \in DOMAIN told : Span(told[k]) \cap (Start .. End - 1) = {}
    BY DEF ToldInv
  <2>2. d + w \in Start .. End - 1
    BY <1>5, <1>7
  <2> QED BY <2>1, <2>2
<1>9. ToldInv'
  <2>1. ASSUME NEW k \in DOMAIN told
        PROVE  Span(told[k]) \subseteq within \cap DOMAIN buf /\ Span(told[k]) \cap (Start .. End - 1) = {}
    BY DEF ToldInv
  <2>2. \A k \in DOMAIN told : Span(told[k])' = Span(told[k])
    BY DEF Span
  <2>3. told' \in Seq([data : Int, length : Int])
    BY DEF ToldInv
  <2> QED BY <1>6, <1>7, <2>1, <2>2, <2>3 DEF ToldInv
<1>10. ValueInv'
  <2>1. w = Rank(Value, r) /\ \A k \in 1..w : buf[d + k - 1] = Meant(Value, Job.plus)[k]
    BY <1>2 DEF ValueInv
  <2>2. Rank(Value, r + n) = Rank(Value, r) + 1
    <3>1. r + n \in Nat /\ r + n > r /\ r + 1 \in Starts(Value)
      BY <1>2
    <3>2. \A i \in r + 2 .. r + n : i \notin Starts(Value)
      BY <1>2
    <3> QED BY <1>4, <3>1, <3>2, RankSteps
  <2>3. Rank(Value, r + 1) = Rank(Value, r) + 1
    <3>1. r + 1 \in Nat /\ r + 1 > r /\ r + 1 \in Starts(Value) /\ \A i \in r + 2 .. r + 1 : i \notin Starts(Value)
      BY <1>2
    <3> QED BY <1>4, <3>1, RankSteps
  <2>4. Meant(Value, Job.plus)[w + 1] = ch
    <3>1. Meant(Value, Job.plus)[Rank(Value, r + 1)] = CharAt(Value, Job.plus, r + 1)
      BY <1>2, <1>4, MeantAt
    <3> QED BY <1>2, <2>1, <2>3, <3>1
  <2>5. ASSUME NEW k \in 1..w + 1 PROVE buf'[d + k - 1] = Meant(Value, Job.plus)[k]
    <3>1. CASE k = w + 1
      <4>1. d + k - 1 = d + w
        BY <3>1
      <4> QED BY <1>6, <2>4, <3>1, <4>1
    <3>2. CASE k # w + 1
      <4>1. k \in 1..w /\ d + k - 1 # d + w /\ d + k - 1 \in d .. d + l - 1
        BY <1>3, <3>2
      <4>2. d + k - 1 \in DOMAIN buf
        BY <1>1, <1>2, <4>1 DEF Span
      <4> QED BY <1>6, <2>1, <4>1, <4>2
    <3> QED BY <3>1, <3>2
  <2>6. readPos' = r + n /\ s'.data = d
    BY <1>2
  <2>7. \A i \in {r + n, r + n - 1} \cap DOMAIN Value : Value[i] # Percent
    BY <1>2
  <2> QED BY <1>4, <1>6, <2>1, <2>2, <2>5, <2>6, <2>7 DEF ValueInv
<1>11. FieldInv' /\ EscapeInv'
  BY DEF FieldInv, EscapeInv
<1>12. GivenInv'
  <2>1. Given' = Given
    <3>1. \A k \in DOMAIN told : \A i \in Span(told[k]) : buf'[i] = buf[i]
      <4>1. \A k \in DOMAIN told : Span(told[k]) \subseteq DOMAIN buf
        BY DEF ToldInv
      <4> QED BY <1>6, <1>8, <4>1
    <3> QED BY <3>1, GivenStays
  <2>2. Expected(Count)' = Expected(Count)
    BY <1>4 DEF Expected, MeantBy, Text
  <2>3. (~HasHexLetter)' <=> ~HasHexLetter
    BY DEF HasHexLetter
  <2> QED BY <2>1, <2>2, <2>3 DEF GivenInv
<1> QED BY <1>4, <1>9, <1>10, <1>11, <1>12

(* decodeValue reads the characters of its value; between two of them it   *)
(* is where one begins.                                                    *)
LEMMA ReadsValue ==
    ASSUME IInv, Meaning, pc = "decodeValue", readPos < s.length
    PROVE  /\ readPos + 1 \in Starts(Value) /\ Value \in Seq(Int) /\ DOMAIN Value = 1..s.length
           /\ s.length \in Nat
           /\ \A k \in 0..s.length - readPos - 1 : Char(readPos + k) = Value[readPos + 1 + k]
<1>1. /\ todo # <<>> /\ s = [data |-> Job.data, length |-> Job.length] /\ Span(s) = Span(Job)
      /\ s.data \in Nat \ {0} /\ s.length \in Nat
      /\ \A i \in Span(s) : i >= s.data + readPos => buf[i] = received.buf[i]
  BY Decoding
<1>2. PICK d \in Nat \ {0}, l \in Nat, r \in Nat :
          d = s.data /\ l = s.length /\ r = readPos /\ d = Job.data /\ l = Job.length
  BY <1>1 DEF IInv, TypeInv
<1>3. /\ Value \in Seq(Int) /\ DOMAIN Value = 1..l
      /\ \A i \in 1..l : Value[i] = received.buf[d + i - 1]
  BY <1>1, <1>2, ValueOfJob DEF Meaning
<1>4. r < l /\ r + 1 \in 1..l
  BY <1>2
<1>5. r + 1 \in Starts(Value)
  <2>1. \A i \in {r, r - 1} \cap DOMAIN Value : Value[i] # Percent
    BY <1>2 DEF Meaning, ValueInv
  <2>2. (r + 1) - 1 = r /\ (r + 1) - 2 = r - 1
    OBVIOUS
  <2> QED BY <1>3, <1>4, <2>1, <2>2 DEF Starts
<1>6. ASSUME NEW k \in 0..l - r - 1 PROVE Char(r + k) = Value[r + 1 + k]
  <2>1. d + (r + k) \in d .. d + l - 1 /\ d + (r + k) >= d + r
    BY <1>4
  <2>2. buf[d + (r + k)] = received.buf[d + (r + k)]
    BY <1>1, <1>2, <2>1 DEF Span
  <2>3. r + 1 + k \in 1..l /\ d + (r + 1 + k) - 1 = d + (r + k)
    BY <1>4
  <2> QED BY <1>2, <1>3, <2>2, <2>3 DEF Char
<1> QED BY <1>2, <1>3, <1>5, <1>6

LEMMA DecodeCharKeepsMeaning ==
    ASSUME IInv, Meaning, DecodeChar
    PROVE  Meaning'
<1>1. /\ pc = "decodeValue" /\ readPos < s.length /\ Char(readPos) # Percent
      /\ Write(IF Char(readPos) = Plus /\ Head(todo).plus THEN Space ELSE Char(readPos))
      /\ readPos' = readPos + 1 /\ UNCHANGED <<todo, pc, s, esc, c, cs, told, received, within>>
  BY DEF DecodeChar, More
<1>2. PICK r \in Nat, l \in Nat : r = readPos /\ l = s.length
  BY <1>1, Decoding DEF IInv, TypeInv
<1>3. /\ r + 1 \in Starts(Value) /\ Value \in Seq(Int) /\ DOMAIN Value = 1..l /\ r + 1 <= l
      /\ Char(r) = Value[r + 1]
  <2>1. 0 \in 0..l - r - 1 /\ r + 0 = r /\ r + 1 + 0 = r + 1 /\ r + 1 <= l
    BY <1>1, <1>2
  <2> QED BY <1>1, <1>2, <2>1, ReadsValue
<1> DEFINE ch == CharAt(Value, Job.plus, r + 1)
<1>4. ch = (IF Char(r) = Plus /\ Head(todo).plus THEN Space ELSE Char(r)) /\ ch \in Int
  <2>1. Value[r + 1] \in Int
    BY <1>3
  <2> QED BY <1>1, <1>2, <1>3, <2>1 DEF CharAt, Job, Space
<1>5. \A i \in {r + 1, r + 1 - 1} \cap DOMAIN Value : Value[i] # Percent
  <2>1. r + 1 - 1 = r /\ \A i \in {r} \cap DOMAIN Value : Value[i] # Percent
    BY <1>1, <1>2 DEF Meaning, ValueInv
  <2> QED BY <1>1, <1>2, <1>3, <2>1
<1>6. \A i \in r + 2 .. r + 1 : i \notin Starts(Value)
  OBVIOUS
<1>7. Write(ch)
  BY <1>1, <1>2, <1>4
<1> HIDE DEF ch
<1>8. ch = CharAt(Value, Job.plus, r + 1) /\ 1 \in {1, 3}
  BY DEF ch
<1> QED BY <1>1, <1>2, <1>3, <1>4, <1>5, <1>6, <1>7, <1>8, WriteKeepsMeaning

LEMMA DecodeEscapeKeepsMeaning ==
    ASSUME IInv, Meaning, DecodeEscape
    PROVE  Meaning'
<1> DEFINE ch == 16 * tbl(Char(readPos + 1)) + tbl(Char(readPos + 2))
<1>1. /\ ch \in Int /\ Write(ch) /\ readPos' = readPos + 3 /\ readPos + 3 <= s.length
      /\ IsHexdig(Char(readPos + 1)) /\ IsHexdig(Char(readPos + 2))
      /\ UNCHANGED <<pc, todo>>
  BY EscapeIsDecoded, Zenon
<1>2. /\ pc = "decodeValue" /\ Char(readPos) = Percent /\ readPos < s.length
      /\ UNCHANGED <<s, esc, c, cs, told, received, within>>
  BY DEF DecodeEscape, More
<1>3. PICK r \in Nat, l \in Nat : r = readPos /\ l = s.length
  BY <1>2, Decoding DEF IInv, TypeInv
<1>4. /\ r + 1 \in Starts(Value) /\ Value \in Seq(Int) /\ DOMAIN Value = 1..l /\ r + 3 <= l
      /\ Char(r) = Value[r + 1] /\ Char(r + 1) = Value[r + 2] /\ Char(r + 2) = Value[r + 3]
  <2>1. /\ \A k \in 0..2 : k \in 0..l - r - 1
        /\ r + 0 = r /\ r + 1 + 0 = r + 1 /\ r + 1 + 1 = r + 2 /\ r + 1 + 2 = r + 3 /\ r + 3 <= l
    BY <1>1, <1>3
  <2>2. \A k \in 0..2 : Char(r + k) = Value[r + 1 + k]
    BY <1>2, <1>3, <2>1, ReadsValue
  <2>3. 0 \in 0..2 /\ 1 \in 0..2 /\ 2 \in 0..2
    OBVIOUS
  <2> QED BY <1>2, <1>3, <2>1, <2>2, <2>3, ReadsValue
<1>5. Value[r + 1] = Percent /\ Value[r + 2] # Percent /\ Value[r + 3] # Percent
  <2>1. Char(r) = Percent /\ IsHexdig(Char(r + 1)) /\ IsHexdig(Char(r + 2))
    BY <1>1, <1>2, <1>3
  <2>2. \A x : IsHexdig(x) => x # Percent
    BY DEF IsHexdig, Percent
  <2> QED BY <1>4, <2>1, <2>2
<1>6. ch = CharAt(Value, Job.plus, r + 1)
  <2>1. (r + 1) + 1 = r + 2 /\ (r + 1) + 2 = r + 3
    OBVIOUS
  <2> QED BY <1>3, <1>4, <1>5, <2>1 DEF CharAt
<1>7. \A i \in {r + 3, r + 3 - 1} \cap DOMAIN Value : Value[i] # Percent
  <2>1. r + 3 - 1 = r + 2
    OBVIOUS
  <2> QED BY <1>5, <2>1
<1>8. \A i \in r + 2 .. r + 3 : i \notin Starts(Value)
  <2> TAKE i \in r + 2 .. r + 3
  <2>1. (i - 1 = r + 1 \/ i - 2 = r + 1) /\ r + 1 \in DOMAIN Value
    BY <1>4
  <2> QED BY <1>5, <2>1 DEF Starts
<1> HIDE DEF ch
<1>9. 3 \in {1, 3}
  OBVIOUS
<1> QED BY <1>1, <1>2, <1>3, <1>4, <1>6, <1>7, <1>8, <1>9, WriteKeepsMeaning

(* A value has been decoded or trimmed, to what it meant, and is told. *)
LEMMA TellKeepsMeaning ==
    ASSUME IInv, Meaning, pc \in {"decodeValue", "trimRight"}, pc' = "next", todo # <<>>, todo' = Tail(todo),
           NEW str \in [data : Int, length : Int], told' = Append(told, str),
           UNCHANGED <<buf, received, within>>, Span(str) \subseteq within \cap DOMAIN buf,
           MeantBy(Job) = <<Text(buf, str)>>
    PROVE  Meaning'
<1> USE DEF Meaning
<1>1. HistInv' /\ Count' = Count + 1
  BY HistNext
<1>2. ToldInv'
  <2>1. PICK n \in Nat : n = Len(told) /\ DOMAIN told = 1..n
    BY DEF ToldInv
  <2>2. /\ told' \in Seq([data : Int, length : Int]) /\ DOMAIN told' = 1..n + 1 /\ told'[n + 1] = str
        /\ \A k \in 1..n : told'[k] = told[k]
    BY <2>1 DEF ToldInv
  <2>3. \A k \in 1..n : Span(told[k]) \subseteq within \cap DOMAIN buf
    BY <2>1 DEF ToldInv
  <2>4. ASSUME NEW k \in 1..n + 1 PROVE Span(told'[k]) \subseteq within \cap DOMAIN buf
    <3>1. k = n + 1 \/ k \in 1..n
      OBVIOUS
    <3> QED BY <2>2, <2>3, <3>1
  <2> QED BY <2>2, <2>4 DEF ToldInv
<1>3. ValueInv' /\ FieldInv' /\ EscapeInv'
  BY DEF ValueInv, FieldInv, EscapeInv
<1>4. GivenInv'
  <2> SUFFICES ASSUME (~HasHexLetter)' PROVE (Given = Expected(Count))'
    BY DEF GivenInv
  <2>1. Given = Expected(Count)
    BY DEF GivenInv, HasHexLetter
  <2>2. Given' = Given \o <<Text(buf, str)>>
    <3>1. Text(buf', str) = Text(buf, str) /\ \A k \in DOMAIN told : \A i \in Span(told[k]) : buf'[i] = buf[i]
      OBVIOUS
    <3> QED BY <3>1, GivenGrows
  <2>3. Expected(Count + 1) = Expected(Count) \o MeantBy(Job)
    <3>1. MeantBy(Job) \in Seq({Text(buf, str)})
      OBVIOUS
    <3> QED BY <3>1, ExpectedNext
  <2>4. Expected(Count)' = Expected(Count + 1)
    BY <1>1 DEF Expected, MeantBy, Text
  <2> QED BY <2>1, <2>2, <2>3, <2>4
<1> QED BY <1>1, <1>2, <1>3, <1>4

LEMMA DecodeEndKeepsMeaning ==
    ASSUME IInv, Meaning, DecodeEnd
    PROVE  Meaning'
<1>1. /\ pc = "decodeValue" /\ ~(readPos < s.length) /\ s' = [s EXCEPT !.length = writePos]
      /\ told' = Append(told, s') /\ todo' = Tail(todo) /\ pc' = "next"
      /\ UNCHANGED <<buf, received, within>>
  BY DEF DecodeEnd, Tell, More
<1>2. /\ todo # <<>> /\ Job.op = "decodeValue" /\ s = [data |-> Job.data, length |-> Job.length]
      /\ Span(s) \subseteq DOMAIN buf /\ Span(s) \subseteq within /\ s.data \in Nat \ {0} /\ s.length \in Nat
      /\ writePos <= readPos /\ readPos <= s.length
  BY <1>1, Decoding
<1>3. PICK d \in Nat \ {0}, l \in Nat, w \in Nat :
          d = s.data /\ l = s.length /\ w = writePos /\ d = Job.data /\ l = Job.length
  BY <1>2 DEF IInv, TypeInv
<1>4. readPos = l /\ w <= l
  BY <1>1, <1>2, <1>3 DEF IInv, TypeInv
<1>5. s' = [data |-> d, length |-> w] /\ s' \in [data : Int, length : Int]
  <2>1. s' = [data |-> d, length |-> w]
    BY <1>1, <1>2, <1>3
  <2> QED BY <2>1
<1>6. Span(s') \subseteq Span(s)
  BY <1>3, <1>4, <1>5 DEF Span
<1>7. /\ Value \in Seq(Int) /\ Len(Value) = l
      /\ w = Rank(Value, Len(Value)) /\ \A k \in 1..w : buf[d + k - 1] = Meant(Value, Job.plus)[k]
  BY <1>1, <1>2, <1>3, <1>4, ValueOfJob DEF Meaning, ValueInv
<1>8. Text(buf, s') = Meant(Value, Job.plus)
  <2>1. \A i \in Span(s') : buf[i] \in Int
    BY <1>2, <1>6 DEF IInv, TypeInv
  <2>2. /\ Text(buf, s') \in Seq(Int) /\ Len(Text(buf, s')) = w
        /\ \A k \in 1..w : Text(buf, s')[k] = buf[d + k - 1]
    BY <1>5, <2>1, TextIsSeq
  <2>3. Text(buf, s') = [k \in 1..w |-> Text(buf, s')[k]]
    BY <2>2
  <2>4. Meant(Value, Job.plus) = [k \in 1..w |-> Meant(Value, Job.plus)[k]]
    BY <1>7 DEF Meant
  <2> QED BY <1>7, <2>2, <2>3, <2>4
<1>9. MeantBy(Job) = <<Text(buf, s')>>
  BY <1>2, <1>8, MeantByJob
<1>10. Span(s') \subseteq within \cap DOMAIN buf
  BY <1>2, <1>6
<1> QED BY <1>1, <1>2, <1>5, <1>9, <1>10, TellKeepsMeaning

-----------------------------------------------------------------------------
(* trim at work: the buffer is not written to. *)
LEMMA CutKeepsMeaning ==
    ASSUME IInv, Meaning, pc \in {"trim", "trimRight"}, pc' \in {"trim", "trimRight"},
           UNCHANGED <<buf, todo, told, received, within>>,
           s.data <= s'.data, s'.data + s'.length <= s.data + s.length,
           s' \in [data : Int, length : Int],
           \A i \in Span(s) : i \in Span(s') \/ buf[i] \in {Space, Tab}
    PROVE  Meaning'
<1> USE DEF Meaning
<1>1. HistInv' /\ Count' = Count /\ Job' = Job /\ Value' = Value
  BY HistStays
<1>2. ToldInv'
  BY DEF ToldInv, Span
<1>3. ValueInv' /\ EscapeInv'
  BY DEF ValueInv, EscapeInv
<1>4. FieldInv'
  <2>1. Span(Job)' = Span(Job) /\ Span(s)' = Span(s')
    BY <1>1 DEF Span
  <2>2. ASSUME NEW i \in Span(Job)
        PROVE  buf[i] = received.buf[i] /\ (i \in Span(s') \/ buf[i] \in {Space, Tab})
    BY DEF FieldInv
  <2>3. Span(Job) \subseteq within
    BY DEF FieldInv
  <2> QED BY <2>1, <2>2, <2>3 DEF FieldInv
<1>5. GivenInv'
  <2>1. Expected(Count)' = Expected(Count)
    BY <1>1 DEF Expected, MeantBy, Text
  <2>2. Given' = Given /\ ((~HasHexLetter)' <=> ~HasHexLetter)
    BY DEF Given, Text, HasHexLetter
  <2> QED BY <2>1, <2>2 DEF GivenInv
<1> QED BY <1>1, <1>2, <1>3, <1>4, <1>5

(* What trim cuts off is blank. *)
LEMMA TrimLeftKeepsMeaning ==
    ASSUME IInv, Meaning, TrimLeft
    PROVE  Meaning'
<1>1. /\ pc = "trim" /\ UNCHANGED <<buf, todo, told, received, within>>
      /\ \/ /\ Blank(0) /\ s' = [data |-> s.data + 1, length |-> s.length - 1] /\ pc' = "trim"
         \/ s' = s /\ pc' = "trimRight"
  BY DEF TrimLeft
<1>2. PICK d \in Nat \ {0}, l \in Nat : d = s.data /\ l = s.length /\ s = [data |-> d, length |-> l]
  <2>1. s \in [data : Int, length : Int] /\ s.data \in Nat \ {0} /\ s.length \in Nat
    BY <1>1, Trimming
  <2>2. s = [data |-> s.data, length |-> s.length]
    BY <2>1
  <2> QED BY <2>1, <2>2
<1>3. CASE Blank(0) /\ s' = [data |-> s.data + 1, length |-> s.length - 1] /\ pc' = "trim"
  <2>1. buf[d] \in {Space, Tab}
    <3>1. s.data + 0 = d
      BY <1>2
    <3> QED BY <1>3, <3>1 DEF Blank, Char
  <2>2. s' = [data |-> d + 1, length |-> l - 1]
    BY <1>2, <1>3
  <2>3. s' \in [data : Int, length : Int] /\ s.data <= s'.data /\ s'.data + s'.length <= s.data + s.length
    BY <1>2, <2>2
  <2>4. \A i \in Span(s) : i \in Span(s') \/ i = d
    BY <1>2, <2>2 DEF Span
  <2>5. \A i \in Span(s) : i \in Span(s') \/ buf[i] \in {Space, Tab}
    BY <2>1, <2>4
  <2> QED BY <1>1, <1>3, <2>3, <2>5, CutKeepsMeaning
<1>4. CASE s' = s /\ pc' = "trimRight"
  <2>1. s' \in [data : Int, length : Int] /\ s.data <= s'.data /\ s'.data + s'.length <= s.data + s.length
    BY <1>2, <1>4
  <2> QED BY <1>1, <1>4, <2>1, CutKeepsMeaning
<1> QED BY <1>1, <1>3, <1>4

(* What trim ends with is between the first and the last character of the  *)
(* field that is no blank.                                                 *)
LEMMA FieldIsTrimmed ==
    ASSUME IInv, Meaning, pc = "trimRight", ~Blank(s.length - 1)
    PROVE  IF s.length = 0 THEN Trimmed(Value) = <<>> ELSE Trimmed(Value) = Text(buf, s)
<1>1. /\ todo # <<>> /\ s \in [data : Int, length : Int] /\ s.data + s.length <= End
      /\ s.data \in Nat \ {0} /\ s.length \in Nat
  BY Trimming
<1>2. PICK d \in Nat \ {0}, l \in Nat, e \in Nat, m \in Nat :
          d = s.data /\ l = s.length /\ e = Job.data /\ m = Job.length
  BY <1>1, Trimming
<1>3. e <= d /\ d + l <= e + m /\ (l # 0 => ~Blank(0))
  <2>1. Job.data <= s.data
    BY DEF IInv, TrimInv
  <2>2. l # 0 => ~Blank(0)
    BY <1>2 DEF IInv, TrimInv
  <2> QED BY <1>1, <1>2, <2>1, <2>2 DEF End
<1>4. Span(Job) = e .. e + m - 1 /\ Span(s) = d .. d + l - 1
  BY <1>2 DEF Span
<1>5. /\ Value \in Seq(Int) /\ Len(Value) = m /\ DOMAIN Value = 1..m
      /\ \A i \in 1..m : Value[i] = buf[e + i - 1]
  <2>1. /\ Value \in Seq(Int) /\ Len(Value) = m /\ DOMAIN Value = 1..m
        /\ \A i \in 1..m : Value[i] = received.buf[e + i - 1]
    BY <1>1, <1>2, ValueOfJob DEF Meaning
  <2>2. ASSUME NEW i \in 1..m PROVE buf[e + i - 1] = received.buf[e + i - 1]
    <3>1. e + i - 1 \in e .. e + m - 1
      OBVIOUS
    <3> QED BY <1>4, <3>1 DEF Meaning, FieldInv
  <2> QED BY <2>1, <2>2
<1> DEFINE solid == {i \in DOMAIN Value : Value[i] \notin {Space, Tab}}
           a == d - e + 1
           b == (d - e) + l
<1>6. \A i \in solid : i \in a..b
  <2> TAKE i \in solid
  <2>1. i \in 1..m /\ buf[e + i - 1] \notin {Space, Tab}
    BY <1>5
  <2>2. e + i - 1 \in Span(Job)
    BY <1>4, <2>1
  <2>3. e + i - 1 \in d .. d + l - 1
    BY <1>4, <2>1, <2>2 DEF Meaning, FieldInv
  <2> QED BY <2>1, <2>3
<1>7. CASE l = 0
  <2>1. solid = {}
    BY <1>6, <1>7
  <2> QED BY <1>2, <1>7, <2>1 DEF Trimmed
<1>8. CASE l # 0
  <2>1. buf[d] \notin {Space, Tab} /\ buf[d + (l - 1)] \notin {Space, Tab}
    <3>1. s.data + 0 = d /\ s.data + (s.length - 1) = d + (l - 1) /\ 0 < s.length
      BY <1>2, <1>8
    <3> QED BY <1>3, <1>8, <3>1 DEF Blank, Char
  <2>2. a \in solid /\ b \in solid
    <3>1. a \in 1..m /\ b \in 1..m /\ e + a - 1 = d /\ e + b - 1 = d + (l - 1)
      BY <1>3, <1>8
    <3> QED BY <1>5, <2>1, <3>1
  <2>3. /\ (CHOOSE i \in solid : \A j \in solid : i <= j) = a
        /\ (CHOOSE i \in solid : \A j \in solid : j <= i) = b
    <3>1. a \in Int /\ b \in Int
      OBVIOUS
    <3> HIDE DEF solid, a, b
    <3>2. \A i \in solid : a <= i /\ i <= b /\ i \in Int
      BY <1>6, <3>1
    <3>3. \A x \in solid : (\A j \in solid : x <= j) => x = a
      BY <2>2, <3>1, <3>2
    <3>4. \A x \in solid : (\A j \in solid : j <= x) => x = b
      BY <2>2, <3>1, <3>2
    <3> QED BY <2>2, <3>2, <3>3, <3>4
  <2>4. Trimmed(Value) = SubSeq(Value, a, b)
    <3> HIDE DEF a, b
    <3> QED BY <2>2, <2>3 DEF Trimmed
  <2>5. SubSeq(Value, a, b) = Text(buf, s)
    <3> DEFINE str == [data |-> a, length |-> l]
    <3>1. str \in [data : Int, length : Int] /\ a + l - 1 = b
      OBVIOUS
    <3>2. SubSeq(Value, a, b) = Text(Value, str)
      BY <3>1 DEF Text
    <3>3. \A i \in Span(str) : Value[i] \in Int
      <4>1. \A i \in Span(str) : i \in 1..m
        BY <1>3, <1>8 DEF Span
      <4> QED BY <1>5, <4>1
    <3>4. /\ Text(Value, str) \in Seq(Int) /\ Len(Text(Value, str)) = l
          /\ \A i \in 1..l : Text(Value, str)[i] = Value[a + i - 1]
      <4>1. str.data = a /\ str.length = l /\ l >= 0
        OBVIOUS
      <4> HIDE DEF str, a, b
      <4>2. /\ Text(Value, str) \in Seq(Int)
            /\ str.length >= 0 => Len(Text(Value, str)) = str.length
            /\ \A i \in 1..str.length : Text(Value, str)[i] = Value[str.data + i - 1]
        BY <3>1, <3>3, TextIsSeq
      <4> QED BY <4>1, <4>2
    <3>5. \A i \in Span(s) : buf[i] \in Int
      <4>1. Span(s) \subseteq DOMAIN buf
        <5>1. PICK n \in Nat : n = Len(buf) /\ DOMAIN buf = 1..n /\ e + m <= n
          BY <1>2, Trimming DEF End
        <5> QED BY <1>3, <1>4, <5>1
      <4> QED BY <4>1 DEF IInv, TypeInv
    <3>6. /\ Text(buf, s) \in Seq(Int) /\ Len(Text(buf, s)) = l
          /\ \A i \in 1..l : Text(buf, s)[i] = buf[d + i - 1]
      <4>1. /\ s \in [data : Int, length : Int]
            /\ s.data = d /\ s.length = l /\ l >= 0
        BY <1>1, <1>2
      <4>2. /\ Text(buf, s) \in Seq(Int)
            /\ s.length >= 0 => Len(Text(buf, s)) = s.length
            /\ \A i \in 1..s.length : Text(buf, s)[i] = buf[s.data + i - 1]
        BY <3>5, <4>1, TextIsSeq
      <4> QED BY <4>1, <4>2
    <3>7. ASSUME NEW i \in 1..l PROVE Value[a + i - 1] = buf[d + i - 1]
      <4>1. a + i - 1 \in 1..m /\ e + (a + i - 1) - 1 = d + i - 1
        BY <1>3, <1>8
      <4> QED BY <1>5, <4>1
    <3>8. \A i \in 1..l : Text(Value, str)[i] = Text(buf, s)[i]
      BY <3>4, <3>6, <3>7
    <3> HIDE DEF str, a, b
    <3> QED BY <3>2, <3>4, <3>6, <3>8, SeqEqual
  <2> QED BY <1>2, <1>8, <2>4, <2>5
<1> QED BY <1>7, <1>8

LEMMA TrimRightKeepsMeaning ==
    ASSUME IInv, Meaning, TrimRight
    PROVE  Meaning'
<1>1. /\ pc = "trimRight" /\ UNCHANGED <<buf, received, within>>
      /\ \/ Blank(s.length - 1) /\ s' = [s EXCEPT !.length = @ - 1] /\ UNCHANGED <<pc, todo, told>>
         \/ /\ ~Blank(s.length - 1) /\ s' = (IF s.length = 0 THEN EmptyString ELSE s)
            /\ told' = Append(told, s') /\ todo' = Tail(todo) /\ pc' = "next"
  BY DEF TrimRight, Tell
<1>2. PICK d \in Nat \ {0}, l \in Nat : d = s.data /\ l = s.length /\ s = [data |-> d, length |-> l]
  <2>1. s \in [data : Int, length : Int] /\ s.data \in Nat \ {0} /\ s.length \in Nat
    BY <1>1, Trimming
  <2>2. s = [data |-> s.data, length |-> s.length]
    BY <2>1
  <2> QED BY <2>1, <2>2
<1>3. CASE Blank(s.length - 1) /\ s' = [s EXCEPT !.length = @ - 1] /\ UNCHANGED <<pc, todo, told>>
  <2>1. buf[d + (l - 1)] \in {Space, Tab}
    BY <1>2, <1>3 DEF Blank, Char
  <2>2. s' = [data |-> d, length |-> l - 1]
    BY <1>2, <1>3
  <2>3. s' \in [data : Int, length : Int] /\ s.data <= s'.data /\ s'.data + s'.length <= s.data + s.length
    BY <1>2, <2>2
  <2>4. \A i \in Span(s) : i \in Span(s') \/ i = d + (l - 1)
    BY <1>2, <2>2 DEF Span
  <2>5. \A i \in Span(s) : i \in Span(s') \/ buf[i] \in {Space, Tab}
    BY <2>1, <2>4
  <2> QED BY <1>1, <1>3, <2>3, <2>5, CutKeepsMeaning
<1>4. CASE /\ ~Blank(s.length - 1) /\ s' = (IF s.length = 0 THEN EmptyString ELSE s)
           /\ told' = Append(told, s') /\ todo' = Tail(todo) /\ pc' = "next"
  <2>1. todo # <<>> /\ Job.op = "trim" /\ Span(s) \subseteq Span(Job) /\ Span(s) \subseteq DOMAIN buf
    <3>1. PICK e \in Nat, m \in Nat, n \in Nat :
              /\ e = Job.data /\ m = Job.length /\ n = Len(buf) /\ DOMAIN buf = 1..n
              /\ d + l <= e + m /\ e + m <= n
      BY <1>1, <1>2, Trimming DEF End
    <3>2. Job.op = "trim" /\ e <= d
      BY <1>1, <1>2, <3>1 DEF IInv, TrimInv
    <3>3. Span(s) = d .. d + l - 1 /\ Span(Job) = e .. e + m - 1
      BY <1>2, <3>1 DEF Span
    <3>4. \A i \in d .. d + l - 1 : i \in e .. e + m - 1 /\ i \in 1..n
      BY <3>1, <3>2
    <3>5. Span(s) \subseteq Span(Job) /\ Span(s) \subseteq DOMAIN buf
      BY <3>1, <3>3, <3>4
    <3> QED BY <1>1, <3>2, <3>5, Trimming
  <2>2. Span(s') \subseteq within \cap DOMAIN buf
    <3>1. Span(EmptyString) = {}
      BY DEF Span, EmptyString
    <3>2. Span(s) \subseteq within
      BY <1>1, <2>1 DEF Meaning, FieldInv
    <3> QED BY <1>4, <2>1, <3>1, <3>2
  <2>3. MeantBy(Job) = <<Text(buf, s')>>
    <3>1. Text(buf, EmptyString) = <<>>
      BY TextOfNone
    <3>2. IF s.length = 0 THEN Trimmed(Value) = <<>> ELSE Trimmed(Value) = Text(buf, s)
      BY <1>1, <1>4, FieldIsTrimmed
    <3> QED BY <1>4, <2>1, <3>1, <3>2, MeantByJob
  <2>4. s' \in [data : Int, length : Int]
    BY <1>2, <1>4 DEF EmptyString
  <2> QED BY <1>1, <1>4, <2>1, <2>2, <2>3, <2>4, TellKeepsMeaning
<1> QED BY <1>1, <1>3, <1>4

-----------------------------------------------------------------------------
(* Sequences, the first of which is grown. *)
LEMMA FirstOfCat ==
    ASSUME NEW X, NEW w \in X, NEW t \in Seq(X)
    PROVE  Head(<<w>> \o t) = w /\ Tail(<<w>> \o t) = t
<1>1. /\ <<w>> \o t \in Seq(X) /\ Len(<<w>> \o t) = Len(t) + 1
      /\ \A i \in 1..Len(t) + 1 : (<<w>> \o t)[i] = IF i <= 1 THEN w ELSE t[i - 1]
  OBVIOUS
<1>2. PICK r \in Seq(X) : r = <<w>> \o t /\ Len(r) = Len(t) + 1 /\ r[1] = w /\ \A i \in 1..Len(t) : r[i + 1] = t[i]
  <2>1. 1 \in 1..Len(t) + 1 /\ \A i \in 1..Len(t) : i + 1 \in 1..Len(t) + 1 /\ ~(i + 1 <= 1) /\ (i + 1) - 1 = i
    OBVIOUS
  <2>2. (<<w>> \o t)[1] = w /\ \A i \in 1..Len(t) : (<<w>> \o t)[i + 1] = t[i]
    BY <1>1, <2>1
  <2> QED BY <1>1, <2>2, Zenon
<1>3. r # <<>>
  BY <1>2
<1>4. Head(r) = w /\ Tail(r) \in Seq(X) /\ Len(Tail(r)) = Len(t) /\ \A i \in 1..Len(t) : Tail(r)[i] = t[i]
  BY <1>2, <1>3
<1>5. Tail(r) = t
  BY <1>4, SeqEqual
<1> QED BY <1>2, <1>4, <1>5

LEMMA FirstAndRest ==
    ASSUME NEW X, NEW r \in Seq(X), r # <<>>
    PROVE  Head(r) \in X /\ Tail(r) \in Seq(X) /\ <<Head(r)>> \o Tail(r) = r
<1>1. Head(r) \in X /\ Tail(r) \in Seq(X) /\ Len(Tail(r)) = Len(r) - 1 /\ Len(r) \in Nat \ {0}
      /\ \A i \in 1..Len(r) - 1 : Tail(r)[i] = r[i + 1]
  OBVIOUS
<1>2. PICK h \in X, t \in Seq(X), n \in Nat :
        h = Head(r) /\ h = r[1] /\ t = Tail(r) /\ Len(t) = n /\ Len(r) = n + 1 /\ \A i \in 1..n : t[i] = r[i + 1]
  <2>1. PICK n \in Nat : n = Len(r) - 1 /\ Len(r) = n + 1
    <3>1. PICK m \in Nat \ {0} : m = Len(r)
      BY <1>1
    <3>2. m - 1 \in Nat /\ m = (m - 1) + 1
      OBVIOUS
    <3> QED BY <3>1, <3>2
  <2>2. Head(r) = r[1]
    OBVIOUS
  <2> QED BY <1>1, <2>1, <2>2
<1>3. PICK a \in Seq(X) : a = <<h>> \o t /\ Len(a) = n + 1 /\ \A i \in 1..n + 1 : a[i] = IF i <= 1 THEN h ELSE t[i - 1]
  BY <1>2
<1>4. ASSUME NEW i \in 1..n + 1 PROVE a[i] = r[i]
  <2>1. CASE i = 1
    BY <1>2, <1>3, <2>1
  <2>2. CASE i # 1
    <3>1. i - 1 \in 1..n /\ (i - 1) + 1 = i /\ ~(i <= 1)
      BY <2>2
    <3> QED BY <1>2, <1>3, <3>1
  <2> QED BY <2>1, <2>2
<1>5. a = r
  BY <1>2, <1>3, <1>4, SeqEqual
<1> QED BY <1>2, <1>3, <1>5

(* A reader of a document in its value: what it has before it is as it was *)
(* received, and so is the escape it is in.                                *)
LEMMA ReadsDocument ==
    ASSUME IInv, Meaning, pc \in {"json", "string"}
    PROVE  /\ Job.op = "json" /\ s.data \in Nat \ {0} /\ s.length \in Nat /\ readPos \in Nat
           /\ s.data = Job.data /\ s.length = Job.length
           /\ readPos <= s.length /\ esc \in 0..5 /\ esc <= readPos /\ At = s.data + readPos
           /\ Value \in Seq(Int) /\ Len(Value) = s.length
           /\ \A i \in 1..s.length : i >= readPos + 1 - esc =>
                 /\ Value[i] = received.buf[s.data + i - 1] /\ buf[s.data + i - 1] = Value[i]
                 /\ s.data + i - 1 \in DOMAIN buf /\ s.data + i - 1 >= At - esc
<1>1. /\ todo # <<>> /\ s.data \in Nat \ {0} /\ readPos \in Nat
  BY Reader
<1>2. /\ Job.op = "json" /\ s = [data |-> Job.data, length |-> Job.length]
      /\ readPos <= s.length /\ esc \in 0..5 /\ esc <= readPos
  BY <1>1 DEF IInv, JsonInv, TypeInv
<1>3. PICK d \in Nat \ {0}, l \in Nat, r \in Nat, e \in 0..5 :
          /\ d = s.data /\ l = s.length /\ r = readPos /\ d = Job.data /\ l = Job.length /\ e = esc
  BY <1>1, <1>2, JobAtHand DEF IInv
<1>4. At = d + r /\ Span(s) = d .. d + l - 1 /\ Span(s) = Span(Job)
  BY <1>3 DEF At, Span
<1>5. /\ Value \in Seq(Int) /\ Len(Value) = l /\ \A i \in 1..l : Value[i] = received.buf[d + i - 1]
  BY <1>1, <1>3, ValueOfJob DEF Meaning
<1>6. Span(s) \subseteq DOMAIN buf
  <2>1. DOMAIN buf = 1..Len(buf)
    BY Reader
  <2> QED BY <1>1, <1>4, <2>1, JobAtHand DEF IInv
<1>7. ASSUME NEW i \in 1..l, i >= r + 1 - e
      PROVE  buf[d + i - 1] = received.buf[d + i - 1] /\ d + i - 1 \in DOMAIN buf /\ d + i - 1 >= At - esc
  <2>1. d + i - 1 \in d .. d + l - 1 /\ d + i - 1 >= (d + r) - e
    BY <1>7
  <2>2. d + i - 1 \in Span(s) /\ d + i - 1 >= At - esc
    BY <1>3, <1>4, <2>1
  <2> QED BY <1>6, <2>2 DEF Meaning, EscapeInv
<1> QED BY <1>1, <1>2, <1>3, <1>4, <1>5, <1>7

(* The strings that are ahead when no json_char has been collected. *)
LEMMA NoneAhead ==
    ASSUME NEW X, NEW r \in Seq(Seq(X)), r # <<>>, NEW b
    PROVE  <<Text(b, None) \o <<>> \o Head(r)>> \o Tail(r) = r
<1>1. Head(r) \in Seq(X) /\ <<Head(r)>> \o Tail(r) = r
  BY FirstAndRest
<1>2. PICK h \in Seq(X) : h = Head(r)
  BY <1>1
<1>3. <<>> \o <<>> \o h = h
  <2>1. <<>> \o h = h /\ <<>> \o <<>> = <<>>
    BY ConcatEmptySeq
  <2> QED BY <2>1
<1> QED BY <1>1, <1>2, <1>3, TextOfNone

LEMMA BytesOfNone == c = None => Bytes = <<>>
BY TextOfNone DEF Bytes, IsUtf16, None

(* What has been told stays, when the place that may be written to moves   *)
(* on.                                                                     *)
LEMMA ToldStays ==
    ASSUME ToldInv, UNCHANGED <<told, todo>>, within \subseteq within', DOMAIN buf' = DOMAIN buf,
           pc \in {"json", "string"}, Start \in Int, Start' \in Int, Start' >= Start, End \in Int
    PROVE  ToldInv'
<1>1. PICK a \in Int, b \in Int, e \in Int : a = Start /\ b = Start' /\ b >= a /\ e = End
  OBVIOUS
<1>2. End' = e
  BY <1>1 DEF End, Job
<1>3. \A i \in b .. e - 1 : i \in a .. e - 1
  BY <1>1
<1>4. ASSUME NEW k \in DOMAIN told
      PROVE  Span(told[k]) \subseteq within' \cap DOMAIN buf' /\ Span(told[k]) \cap (b .. e - 1) = {}
  <2>1. Span(told[k]) \subseteq within \cap DOMAIN buf /\ Span(told[k]) \cap (a .. e - 1) = {}
    BY <1>1 DEF ToldInv
  <2> QED BY <1>3, <2>1
<1>5. \A k \in DOMAIN told : Span(told[k])' = Span(told[k])
  BY DEF Span
<1>6. told' \in Seq([data : Int, length : Int])
  BY DEF ToldInv
<1> QED BY <1>1, <1>2, <1>4, <1>5, <1>6 DEF ToldInv

(* Between strings: only a quote counts. *)
LEMMA OutsideKeepsMeaning ==
    ASSUME IInv, Meaning, Outside
    PROVE  Meaning'
<1> USE DEF Meaning
<1>1. /\ pc = "json" /\ readPos < s.length /\ readPos' = readPos + 1
      /\ UNCHANGED <<buf, todo, s, writePos, esc, c, told, received, within>>
      /\ \/ Ch = Quote /\ pc' = "string" /\ cs' = None
         \/ Ch # Quote /\ pc' = "json" /\ cs' = cs
  BY DEF Outside, Reading, Restart
<1>2. c = None /\ esc = 0
  BY <1>1 DEF IInv, JsonInv
<1>3. PICK d \in Nat \ {0}, l \in Nat, r \in Nat :
          /\ d = s.data /\ l = s.length /\ r = readPos /\ At = d + r /\ r < l
          /\ d = Job.data /\ l = Job.length
  BY <1>1, ReadsDocument
<1>4. /\ Job.op = "json" /\ Value \in Seq(Int) /\ Len(Value) = l
      /\ \A i \in 1..l : i >= r + 1 => buf[d + i - 1] = Value[i] /\ Value[i] = received.buf[d + i - 1]
  <2>1. r + 1 - 0 = r + 1
    OBVIOUS
  <2> QED BY <1>1, <1>2, <1>3, <2>1, ReadsDocument
<1>5. /\ HistInv' /\ Count' = Count /\ Job' = Job /\ Value' = Value
  BY <1>1, HistStays
<1>6. At' = d + (r + 1) /\ Ch = Value[r + 1]
  <2>1. r + 1 \in 1..l /\ r + 1 >= r + 1 /\ d + (r + 1) - 1 = d + r
    BY <1>3
  <2>2. At' = d + (r + 1)
    BY <1>1, <1>3 DEF At
  <2>3. buf[d + (r + 1) - 1] = Value[r + 1]
    BY <1>4, <2>1
  <2> QED BY <1>3, <2>1, <2>2, <2>3 DEF Ch
<1>7. ToldInv'
  <2>1. Start = d + r /\ Start' = d + (r + 1)
    <3>1. Start = At - esc
      BY <1>1, <1>2 DEF Start
    <3>2. /\ pc' # "decodeValue" /\ ~(pc' = "string" /\ cs' # None) /\ c' = None
          /\ esc' = 0
      BY <1>1, <1>2
    <3>3. Start' = At' - esc'
      BY <3>2 DEF Start
    <3>4. (d + r) - 0 = d + r /\ (d + (r + 1)) - 0 = d + (r + 1)
      OBVIOUS
    <3> QED BY <1>2, <1>3, <1>6, <3>1, <3>2, <3>3, <3>4
  <2>2. End \in Int
    BY <1>3 DEF End
  <2>3. d + r \in Int /\ d + (r + 1) \in Int /\ d + (r + 1) >= d + r
    OBVIOUS
  <2> QED BY <1>1, <2>1, <2>2, <2>3, ToldStays
<1>8. ValueInv' /\ FieldInv'
  BY <1>1 DEF ValueInv, FieldInv
<1>9. EscapeInv'
  <2>1. \A i \in Span(s) : i >= d + r => buf[i] = received.buf[i]
    <3>1. (d + r) - 0 = d + r
      OBVIOUS
    <3> QED BY <1>1, <1>2, <1>3, <3>1 DEF EscapeInv
  <2>2. \A i \in Span(s) : i >= d + (r + 1) => i >= d + r
    BY <1>3 DEF Span
  <2>3. At' - esc' = d + (r + 1) /\ Span(s)' = Span(s) /\ esc' = 0
    BY <1>1, <1>2, <1>6 DEF Span
  <2>4. ~(esc' >= 1) /\ ~(esc' >= 2) /\ 2 .. esc' - 1 = {}
    BY <2>3
  <2> QED BY <1>1, <2>1, <2>2, <2>3, <2>4 DEF EscapeInv
<1>10. GivenInv'
  <2>1. Given' = Given /\ Expected(Count)' = Expected(Count) /\ MeantBy(Job)' = MeantBy(Job)
        /\ ((~HasHexLetter)' <=> ~HasHexLetter)
    BY <1>1, <1>5 DEF Given, Expected, MeantBy, Text, HasHexLetter
  <2> DEFINE F == StringsFrom(Value)
  <2>2. Ahead = F[r + 1][FALSE]
    <3>1. readPos + 1 - esc = r + 1
      BY <1>2, <1>3
    <3> QED BY <1>1, <3>1 DEF Ahead, Rest
  <2>3. Rest(TRUE)' = F[r + 2][TRUE] /\ Rest(FALSE)' = F[r + 2][FALSE]
    <3>1. readPos' + 1 - esc' = r + 2
      BY <1>1, <1>2, <1>3
    <3> QED BY <1>5, <3>1 DEF Rest
  <2>4. PICK X : F[r + 2][FALSE] \in Seq(Seq(X)) /\ F[r + 2][TRUE] \in Seq(Seq(X)) \ {<<>>}
    <3>1. Len(Value) \in Nat /\ r + 2 \in Nat
      BY <1>4
    <3> HIDE DEF F
    <3>2. \E X : \A i \in Nat : F[i][FALSE] \in Seq(Seq(X)) /\ F[i][TRUE] \in Seq(Seq(X)) \ {<<>>}
      BY <3>1, StringsFromAreStrings DEF F
    <3> QED BY <3>1, <3>2
  <2>5. F[r + 1][FALSE] = IF Value[r + 1] = Quote THEN <<>> \o F[r + 2][TRUE] ELSE F[r + 2][FALSE]
    <3>1. r + 1 \in Nat /\ ~(r + 1 > Len(Value)) /\ (r + 1) + 1 = r + 2
      BY <1>3, <1>4
    <3>2. F[r + 1][FALSE] = StringsAt(Value, F, r + 1, FALSE)
      BY <1>4, <3>1, StringsFromObeys
    <3> HIDE DEF F
    <3> QED BY <3>1, <3>2 DEF StringsAt
  <2> HIDE DEF F
  <2>6. Ahead' = Ahead
    <3>1. CASE Ch = Quote /\ pc' = "string" /\ cs' = None
      <4>1. Bytes' = <<>>
        BY <1>1, <1>2, TextOfNone DEF Bytes, IsUtf16, None
      <4>2. Ahead' = <<Text(buf, None) \o <<>> \o Head(F[r + 2][TRUE])>> \o Tail(F[r + 2][TRUE])
        BY <1>1, <2>3, <3>1, <4>1 DEF Ahead, Text
      <4>3. Ahead' = F[r + 2][TRUE]
        BY <2>4, <4>2, NoneAhead
      <4>4. <<>> \o F[r + 2][TRUE] = F[r + 2][TRUE]
        BY <2>4, ConcatEmptySeq
      <4> QED BY <1>6, <2>2, <2>5, <3>1, <4>3, <4>4
    <3>2. CASE Ch # Quote /\ pc' = "json"
      BY <1>6, <2>2, <2>3, <2>5, <3>2 DEF Ahead
    <3> QED BY <1>1, <3>1, <3>2
  <2> QED BY <1>1, <2>1, <2>6 DEF GivenInv
<1> QED BY <1>5, <1>7, <1>8, <1>9, <1>10

-----------------------------------------------------------------------------
(* A step inside of a string, and what it makes of the character. *)
LEMMA InsideCases ==
    ASSUME Inside
    PROVE  /\ pc = "string" /\ readPos < s.length /\ readPos' = readPos + 1 /\ Reduce
           /\ within' = within \cup {At} /\ UNCHANGED <<todo, s, told, received>>
           /\ \/ /\ pc' = "string" /\ esc' = 0 /\ c' = [data |-> At, length |-> 1]
                 /\ (esc = 0 /\ Unescaped(Ch)) \/ (esc = 1 /\ Escapable(Ch))
              \/ /\ pc' = "string" /\ esc' = esc + 1 /\ c' = None
                 /\ \/ esc = 0 /\ Ch = Backslash
                    \/ esc = 1 /\ Ch = LetterU
                    \/ esc \in 2..4 /\ IsHexdig(Ch)
              \/ /\ pc' = "string" /\ esc' = 0 /\ c' = [data |-> At - 3, length |-> 4]
                 /\ esc = 5 /\ IsHexdig(Ch)
              \/ pc' = "failed" /\ c' = None /\ esc' = esc
<1>1. /\ pc = "string" /\ Reading /\ ~(esc = 0 /\ Ch = Quote) /\ Reduce
      /\ within' = within \cup {At} /\ UNCHANGED <<todo, s, told, received>>
  BY DEF Inside
<1>2. \/ /\ (esc = 0 /\ Unescaped(Ch)) \/ (esc = 1 /\ Escapable(Ch))
         /\ Sym([data |-> At, length |-> 1])
      \/ /\ \/ esc = 0 /\ Ch = Backslash
            \/ esc = 1 /\ Ch = LetterU
            \/ esc \in 2..4 /\ IsHexdig(Ch)
         /\ Part
      \/ esc = 5 /\ IsHexdig(Ch) /\ Sym([data |-> At - 3, length |-> 4])
      \/ pc' = "failed" /\ c' = None /\ UNCHANGED esc
  BY DEF Inside
<1> QED BY <1>1, <1>2 DEF Reading, Sym, Part

(* What is read of a string is part of it, and Reduce writes only before.  *)
LEMMA InsideKeepsOthers ==
    ASSUME IInv, Meaning, Inside
    PROVE  /\ HistInv' /\ ToldInv' /\ ValueInv' /\ FieldInv' /\ EscapeInv'
           /\ Count' = Count /\ Job' = Job /\ Value' = Value
           /\ Given' = Given /\ Expected(Count)' = Expected(Count)
           /\ \A i \in DOMAIN buf : i >= At - esc => buf'[i] = buf[i]
           /\ buf' \in Seq(Int) /\ DOMAIN buf' = DOMAIN buf
<1> USE DEF Meaning
<1>1. /\ pc = "string" /\ readPos < s.length /\ readPos' = readPos + 1 /\ Reduce
      /\ within' = within \cup {At} /\ UNCHANGED <<todo, s, told, received>>
      /\ \/ /\ pc' = "string" /\ esc' = 0 /\ c' = [data |-> At, length |-> 1]
         \/ /\ pc' = "string" /\ esc' = esc + 1 /\ c' = None
            /\ \/ esc = 0 /\ Ch = Backslash
               \/ esc = 1 /\ Ch = LetterU
               \/ esc \in 2..4 /\ IsHexdig(Ch)
         \/ /\ pc' = "string" /\ esc' = 0 /\ c' = [data |-> At - 3, length |-> 4] /\ esc = 5
         \/ pc' = "failed"
  BY InsideCases
<1>2. PICK d \in Nat \ {0}, l \in Nat, r \in Nat, e \in 0..5 :
          /\ d = s.data /\ l = s.length /\ r = readPos /\ At = d + r /\ r < l
          /\ d = Job.data /\ l = Job.length /\ e = esc /\ e <= r
  BY <1>1, ReadsDocument
<1>3. /\ HistInv' /\ Count' = Count /\ Job' = Job /\ Value' = Value
  BY <1>1, HistStays
<1>4. At' = d + (r + 1)
  BY <1>1, <1>2 DEF At
<1>5. /\ buf' \in Seq(Int) /\ DOMAIN buf' = DOMAIN buf /\ DOMAIN buf \subseteq Int
      /\ cs' # None => cs'.data = Start
      /\ cs' = None => c = None /\ cs = None
      /\ \A i \in DOMAIN buf : i \notin Start .. At - 1 - esc => buf'[i] = buf[i]
      /\ cs' \in [data : Int, length : Int]
  <2>1. buf' \in Seq(Int) /\ Len(buf') = Len(buf) /\ buf \in Seq(Int) /\ cs' \in [data : Int, length : Int]
    BY <1>1, ReduceInPlace, Reader
  <2>2. DOMAIN buf' = DOMAIN buf /\ DOMAIN buf \subseteq Int
    BY <2>1
  <2> QED BY <1>1, <2>1, <2>2, ReduceAppends
<1>6. Start \in Int /\ Start <= (d + r) - e /\ (c = None /\ cs = None => Start = (d + r) - e)
  <2>1. /\ c \in [data : Int, length : Int] /\ cs \in [data : Int, length : Int]
        /\ c # None => c.length \in {1, 4} /\ c.data + c.length = At /\ esc = 0
        /\ cs # None => /\ cs.length >= 0
                        /\ cs.data + cs.length <= (IF c # None THEN c.data ELSE At - esc)
    BY <1>1 DEF IInv, TypeInv, JsonInv
  <2>2. PICK cd \in Int, cl \in Int, sd \in Int, sl \in Int :
           cd = c.data /\ cl = c.length /\ sd = cs.data /\ sl = cs.length
    BY <2>1
  <2>3. Start = IF cs # None THEN sd ELSE IF c # None THEN cd ELSE (d + r) - e
    BY <1>1, <1>2, <2>2 DEF Start
  <2>4. /\ c # None => cd <= (d + r) - e
        /\ cs # None => sl >= 0 /\ sd + sl <= IF c # None THEN cd ELSE (d + r) - e
    BY <1>2, <2>1, <2>2
  <2> QED BY <2>3, <2>4
<1>7. \A i \in DOMAIN buf : i >= (d + r) - e => buf'[i] = buf[i]
  <2>1. PICK a \in Int : a = Start
    BY <1>6
  <2>2. At - 1 - esc = (d + r) - 1 - e
    BY <1>2
  <2>3. \A i \in Int : i >= (d + r) - e => i \notin a .. (d + r) - 1 - e
    OBVIOUS
  <2> QED BY <1>5, <2>1, <2>2, <2>3
<1>8. ToldInv'
  <2>1. CASE pc' = "string"
    <3>1. End \in Int
      BY <1>2 DEF End
    <3>2. Start' \in Int /\ Start' >= Start
      <4>1. Start' = IF cs' # None THEN cs'.data ELSE IF c' # None THEN c'.data ELSE At' - esc'
        BY <2>1 DEF Start
      <4>2. CASE cs' # None
        BY <1>5, <1>6, <4>1, <4>2
      <4>3. CASE cs' = None
        <5>1. Start = (d + r) - e
          BY <1>5, <1>6, <4>3
        <5>2. CASE c' = [data |-> At, length |-> 1]
          <6>1. c' # None /\ c'.data = d + r
            <7>1. c'.length = 1 /\ c'.data = At /\ None.length # 1
              BY <5>2 DEF None
            <7> QED BY <1>2, <7>1
          <6> QED BY <4>1, <4>3, <5>1, <6>1
        <5>3. CASE c' = [data |-> At - 3, length |-> 4] /\ esc = 5
          <6>1. c' # None /\ c'.data = (d + r) - 3 /\ e = 5
            <7>1. c'.length = 4 /\ c'.data = At - 3 /\ None.length # 4
              BY <5>3 DEF None
            <7> QED BY <1>2, <5>3, <7>1
          <6> QED BY <4>1, <4>3, <5>1, <6>1
        <5>4. CASE c' = None /\ esc' = esc + 1
          <6>1. Start' = d + (r + 1) - (e + 1)
            BY <1>2, <1>4, <4>1, <4>3, <5>4
          <6> QED BY <5>1, <6>1
        <5> QED BY <1>1, <2>1, <5>2, <5>3, <5>4
      <4> QED BY <4>2, <4>3
    <3> QED BY <1>1, <1>5, <1>6, <3>1, <3>2, ToldStays
  <2>2. CASE pc' = "failed"
    <3>1. \A k \in DOMAIN told : Span(told[k]) \subseteq within' \cap DOMAIN buf' /\ Span(told[k])' = Span(told[k])
      BY <1>1, <1>5 DEF ToldInv, Span
    <3>2. told' \in Seq([data : Int, length : Int])
      BY <1>1 DEF ToldInv
    <3> QED BY <1>1, <2>2, <3>1, <3>2 DEF ToldInv
  <2> QED BY <1>1, <2>1, <2>2
<1>9. ValueInv' /\ FieldInv'
  BY <1>1 DEF ValueInv, FieldInv
<1>10. EscapeInv'
  <2> SUFFICES ASSUME pc' = "string" PROVE EscapeInv'
    BY <1>1 DEF EscapeInv
  <2>1. \A i \in Span(s) : i >= (d + r) - e => buf[i] = received.buf[i] /\ i \in DOMAIN buf
    <3>1. \A i \in Span(s) : i \in DOMAIN buf
      <4>1. Span(s) = Span(Job) /\ todo # <<>> /\ DOMAIN buf = 1..Len(buf)
        BY <1>1, <1>2, Reader DEF Span
      <4> QED BY <4>1, JobAtHand DEF IInv
    <3> QED BY <1>1, <1>2, <3>1 DEF EscapeInv
  <2>2. PICK n \in 0..5 : n = esc' /\ n <= e + 1
    <3>1. esc' = 0 \/ esc' = e + 1
      BY <1>1, <1>2
    <3>2. esc' # 0 => e \in 0..4
      BY <1>1, <1>2
    <3> QED BY <3>1, <3>2
  <2>3. ASSUME NEW i \in Span(s), i >= At' - esc' PROVE buf'[i] = received.buf[i]
    <3>1. i >= d + (r + 1) - n /\ i \in Int
      BY <1>2, <1>4, <2>2, <2>3 DEF Span
    <3>2. i >= (d + r) - e
      <4>1. PICK j \in Int : j = i
        BY <3>1
      <4>2. n <= e + 1 /\ j >= d + (r + 1) - n
        BY <2>2, <3>1, <4>1
      <4>3. j >= (d + r) - e
        BY <1>2, <4>2
      <4> QED BY <4>1, <4>3
    <3> QED BY <1>7, <2>1, <3>2
  <2>4. Span(s)' = Span(s)
    BY <1>1 DEF Span
  <2>5. /\ esc' >= 1 => received.buf[At' - esc'] = Backslash
        /\ esc' >= 2 => received.buf[At' - esc' + 1] = LetterU
        /\ \A k \in 2..esc' - 1 : IsHexdig(received.buf[At' - esc' + k])
    <3>1. CASE esc' = 0
      BY <3>1
    <3>2. CASE /\ esc' = esc + 1
               /\ \/ esc = 0 /\ Ch = Backslash
                  \/ esc = 1 /\ Ch = LetterU
                  \/ esc \in 2..4 /\ IsHexdig(Ch)
      <4>1. At' - esc' = (d + r) - e
        BY <1>2, <1>4, <3>2
      <4>2. /\ e >= 1 => received.buf[(d + r) - e] = Backslash
            /\ e >= 2 => received.buf[(d + r) - e + 1] = LetterU
            /\ \A k \in 2..e - 1 : IsHexdig(received.buf[(d + r) - e + k])
        BY <1>1, <1>2 DEF EscapeInv
      <4>3. received.buf[(d + r) - e + e] = Ch
        <5>1. (d + r) - e + e = d + r /\ d + r \in Span(s) /\ d + r >= (d + r) - e
          BY <1>2 DEF Span
        <5> QED BY <1>2, <2>1, <5>1 DEF Ch
      <4>4. PICK at \in Int : at = (d + r) - e
        OBVIOUS
      <4>5. esc' = e + 1 /\ ((e = 0 /\ Ch = Backslash) \/ (e = 1 /\ Ch = LetterU) \/ (e \in 2..4 /\ IsHexdig(Ch)))
        BY <1>2, <3>2
      <4>6. at + 0 = at
        OBVIOUS
      <4>7. received.buf[at] = Backslash
        BY <4>2, <4>3, <4>4, <4>5, <4>6
      <4>8. e >= 1 => received.buf[at + 1] = LetterU
        BY <4>2, <4>3, <4>4, <4>5
      <4>9. ASSUME NEW k \in 2..e PROVE IsHexdig(received.buf[at + k])
        <5>1. CASE k = e
          BY <4>3, <4>4, <4>5, <5>1
        <5>2. CASE k # e
          <6>1. k \in 2..e - 1
            BY <5>2
          <6> QED BY <4>2, <4>4, <6>1
        <5> QED BY <5>1, <5>2
      <4>10. (e + 1) - 1 = e /\ (e + 1 >= 2 => e >= 1)
        OBVIOUS
      <4> QED BY <4>1, <4>4, <4>5, <4>7, <4>8, <4>9, <4>10
    <3> QED BY <1>1, <3>1, <3>2
  <2>6. pc' = "string"
    OBVIOUS
  <2>7. (\A i \in Span(s) : i >= At - esc => buf[i] = received.buf[i])'
    BY <1>1, <2>3, <2>4
  <2> QED BY <1>1, <2>5, <2>6, <2>7 DEF EscapeInv
<1>11. Given' = Given /\ Expected(Count)' = Expected(Count)
  <2>1. ASSUME NEW k \in DOMAIN told, NEW i \in Span(told[k]) PROVE buf'[i] = buf[i]
    <3>1. i \in DOMAIN buf /\ i \notin Start .. End - 1
      BY <1>1 DEF ToldInv
    <3>2. PICK a \in Int : a = Start
      BY <1>6
    <3>3. At - 1 - esc = (d + r) - 1 - e /\ End = d + l
      BY <1>2 DEF End
    <3>4. i \notin a .. (d + r) - 1 - e
      BY <1>2, <3>1, <3>2, <3>3
    <3> QED BY <1>5, <3>1, <3>2, <3>3, <3>4
  <2>2. Given' = Given
    BY <1>1, <2>1, GivenStays
  <2> QED BY <1>1, <1>3, <2>2 DEF Expected, MeantBy, Text
<1>12. \A i \in DOMAIN buf : i >= At - esc => buf'[i] = buf[i]
  BY <1>2, <1>7
<1> QED BY <1>3, <1>5, <1>8, <1>9, <1>10, <1>11, <1>12

-----------------------------------------------------------------------------
Grown(p, r) == <<p \o Head(r)>> \o Tail(r)

(* A json_char moves from what is ahead to what has been collected. *)
LEMMA CharMoves ==
    ASSUME NEW X, NEW p \in Seq(X), NEW j \in Seq(X), NEW r \in Seq(Seq(X)), r # <<>>
    PROVE  Grown(p, Grown(j, r)) = Grown(p \o j, r)
<1> USE DEF Grown
<1>1. PICK h \in Seq(X), t \in Seq(Seq(X)) : h = Head(r) /\ t = Tail(r)
  BY FirstAndRest
<1>2. j \o h \in Seq(X)
  OBVIOUS
<1>3. Head(<<j \o h>> \o t) = j \o h /\ Tail(<<j \o h>> \o t) = t
  BY <1>2, FirstOfCat, Zenon
<1>4. p \o (j \o h) = (p \o j) \o h
  BY SMT
<1> QED BY <1>1, <1>3, <1>4

(* The text of a json_char of one byte. *)
LEMMA TextOfOne ==
    ASSUME NEW b, NEW i \in Int, b[i] \in Int
    PROVE  Text(b, [data |-> i, length |-> 1]) = <<b[i]>>
<1> DEFINE str == [data |-> i, length |-> 1]
<1>1. str \in [data : Int, length : Int] /\ Span(str) = i .. i + 1 - 1 /\ str.data = i /\ str.length = 1
  BY DEF Span
<1>2. \A k \in Span(str) : b[k] \in Int
  <2>1. \A k \in i .. i + 1 - 1 : k = i
    OBVIOUS
  <2> QED BY <1>1, <2>1
<1> HIDE DEF str
<1>3. /\ Text(b, str) \in Seq(Int)
      /\ str.length >= 0 => Len(Text(b, str)) = str.length
      /\ \A k \in 1..str.length : Text(b, str)[k] = b[str.data + k - 1]
  BY <1>1, <1>2, TextIsSeq
<1>4. Text(b, str) \in Seq(Int) /\ Len(Text(b, str)) = 1 /\ Text(b, str)[1] = b[i]
  <2>1. i + 1 - 1 = i /\ 1 \in 1..1 /\ 1 >= 0
    OBVIOUS
  <2> QED BY <1>1, <1>3, <2>1
<1>5. PICK x \in Int : x = b[i]
  OBVIOUS
<1>6. PICK q \in Seq(Int) : q = Text(b, str) /\ Len(q) = 1 /\ q[1] = x
  BY <1>4, <1>5
<1>7. q = <<x>>
  <2>1. <<x>> \in Seq(Int) /\ Len(<<x>>) = 1 /\ \A k \in 1..1 : q[k] = <<x>>[k]
    BY <1>6
  <2> QED BY <1>6, <2>1, SeqEqual
<1> QED BY <1>5, <1>6, <1>7 DEF str

(* convertUtf16ToString: digits that are no letters are taken for what     *)
(* they are.                                                               *)
LEMMA EscapeAsMeant ==
    ASSUME NEW v, NEW i \in Nat, NEW b, NEW at \in Int, IsUnit(v, i),
           \A k \in 0..3 : v[i + 2 + k] \in 48..57 /\ b[at + k] = v[i + 2 + k]
    PROVE  Utf16(b, at) = JsonChar(v, i)
<1>1. PICK x1 \in 48..57, x2 \in 48..57, x3 \in 48..57, x4 \in 48..57 :
         /\ x1 = v[i + 2] /\ x2 = v[i + 2 + 1] /\ x3 = v[i + 4] /\ x4 = v[i + 4 + 1]
         /\ x1 = b[at] /\ x2 = b[at + 1] /\ x3 = b[at + 2] /\ x4 = b[at + 2 + 1]
  <2>1. /\ 0 \in 0..3 /\ 1 \in 0..3 /\ 2 \in 0..3 /\ 3 \in 0..3
        /\ i + 2 + 0 = i + 2 /\ i + 2 + 2 = i + 4 /\ i + 2 + 3 = i + 4 + 1
        /\ at + 0 = at /\ at + 3 = at + 2 + 1
    OBVIOUS
  <2>2. /\ v[i + 2] \in 48..57 /\ v[i + 2 + 1] \in 48..57 /\ v[i + 4] \in 48..57 /\ v[i + 4 + 1] \in 48..57
        /\ b[at] = v[i + 2] /\ b[at + 1] = v[i + 2 + 1] /\ b[at + 2] = v[i + 4] /\ b[at + 2 + 1] = v[i + 4 + 1]
    BY <2>1
  <2> QED BY <2>2, Zenon
<1>2. \A x \in 48..57 : tbl(x) = x - 48 /\ Digit(x) = x - 48
  <2> TAKE x \in 48..57
  <2>1. x <= 57
    OBVIOUS
  <2> QED BY <2>1 DEF tbl, Digit
<1>3. Utf16(b, at) = IF x1 = 48 /\ x2 = 48 THEN <<16 * (x3 - 48) + (x4 - 48)>>
                     ELSE <<16 * (x1 - 48) + (x2 - 48), 16 * (x3 - 48) + (x4 - 48)>>
  BY <1>1, <1>2 DEF Utf16
<1>4. JsonChar(v, i) = IF 16 * (x1 - 48) + (x2 - 48) = 0 THEN <<16 * (x3 - 48) + (x4 - 48)>>
                       ELSE <<16 * (x1 - 48) + (x2 - 48), 16 * (x3 - 48) + (x4 - 48)>>
  BY <1>1, <1>2 DEF JsonChar
<1>5. 16 * (x1 - 48) + (x2 - 48) = 0 <=> x1 = 48 /\ x2 = 48
  OBVIOUS
<1> QED BY <1>3, <1>4, <1>5

(* What has been collected, with the json_char to be appended. *)
LEMMA CollectedIsSeq ==
    ASSUME IInv, pc = "string", NEW X
    PROVE  \E Y : Int \subseteq Y /\ X \subseteq Y /\ Text(buf, cs) \o Bytes \in Seq(Y)
<1>1. cs \in [data : Int, length : Int] /\ c \in [data : Int, length : Int]
  BY DEF IInv, TypeInv
<1> DEFINE Y == Int \cup X \cup {buf[k] : k \in Span(cs)}
<1>2. Text(buf, cs) \in Seq(Y)
  BY <1>1, TextIsSeq
<1>3. Int \subseteq Y /\ X \subseteq Y
  OBVIOUS
<1> HIDE DEF Y
<1>4. Bytes \in Seq(Y)
  <2>1. CASE c = None
    BY <2>1, BytesOfNone
  <2>2. CASE c # None
    <3>1. /\ c.length \in {1, 4} /\ c.data >= 1 /\ c.data + c.length = At /\ At - 1 <= Len(buf)
          /\ buf \in Seq(Int) /\ Len(buf) \in Nat /\ At \in Nat
      BY <2>2, Reader DEF IInv, JsonInv
    <3>2. Bytes \in Seq(Int)
      <4>1. c.data + c.length <= Len(buf) + 1
        BY <3>1
      <4> QED BY <1>1, <3>1, <4>1, BytesFit
    <3> QED BY <1>3, <3>2, SeqMonotonic
  <2> QED BY <2>1, <2>2
<1>5. Text(buf, cs) \o Bytes \in Seq(Y)
  BY <1>2, <1>4, ConcatProperties
<1> QED BY <1>3, <1>5

(* A character of a string that is complete. *)
LEMMA CharAhead ==
    ASSUME IInv, Meaning, Inside, pc' = "string", esc' = 0,
           Value[readPos + 1 - esc] # Quote, Behind(Value, readPos + 1 - esc) = readPos + 2,
           Bytes' = JsonChar(Value, readPos + 1 - esc)
    PROVE  Ahead' = Ahead
<1>1. PICK l \in Nat, r \in Nat, e \in 0..5 :
          l = s.length /\ r = readPos /\ e = esc /\ e <= r /\ r < l /\ Len(Value) = l
  BY InsideCases, ReadsDocument
<1>2. PICK i \in Nat : i = readPos + 1 - esc /\ i = r + 1 - e /\ i <= l
  <2>1. r + 1 - e \in Nat /\ r + 1 - e <= l
    BY <1>1
  <2> QED BY <1>1, <2>1
<1> DEFINE F == StringsFrom(Value)
<1>3. Rest(TRUE) = F[i][TRUE] /\ Rest(TRUE)' = F[r + 2][TRUE]
  <2>1. readPos' + 1 - esc' = r + 2 /\ Value' = Value
    BY <1>1, InsideCases, InsideKeepsOthers
  <2> QED BY <1>2, <2>1 DEF Rest
<1>4. PICK X : /\ Int \subseteq X /\ JsonChar(Value, i) \in Seq(X)
               /\ F[r + 2][TRUE] \in Seq(Seq(X)) \ {<<>>}
  <2>1. Len(Value) \in Nat /\ r + 2 \in Nat
    BY <1>1
  <2> HIDE DEF F
  <2>2. \E X : /\ Int \subseteq X
               /\ \A k \in Nat : JsonChar(Value, k) \in Seq(X) /\ F[k][TRUE] \in Seq(Seq(X)) \ {<<>>}
    BY <2>1, StringsFromAreStrings DEF F
  <2> QED BY <2>1, <2>2
<1>5. F[i][TRUE] = <<JsonChar(Value, i) \o Head(F[r + 2][TRUE])>> \o Tail(F[r + 2][TRUE])
  <2>1. F[i][TRUE] = StringsAt(Value, F, i, TRUE)
    BY <1>1, StringsFromObeys
  <2>2. ~(i > Len(Value)) /\ Value[i] # Quote /\ Behind(Value, i) = r + 2
    BY <1>1, <1>2
  <2> HIDE DEF F
  <2> QED BY <2>1, <2>2 DEF StringsAt
<1> HIDE DEF F
<1> DEFINE p == Text(buf, cs) \o Bytes
<1>6. PICK Y : Int \subseteq Y /\ X \subseteq Y /\ p \in Seq(Y)
  BY InsideCases, CollectedIsSeq
<1>7. JsonChar(Value, i) \in Seq(Y) /\ F[r + 2][TRUE] \in Seq(Seq(Y)) /\ F[r + 2][TRUE] # <<>>
  <2>1. Seq(X) \subseteq Seq(Y)
    BY <1>6, SeqMonotonic
  <2>2. Seq(Seq(X)) \subseteq Seq(Seq(Y))
    BY <2>1, SeqMonotonic
  <2> QED BY <1>4, <2>1, <2>2
<1>8. <<p \o Head(F[i][TRUE])>> \o Tail(F[i][TRUE])
      = <<(p \o JsonChar(Value, i)) \o Head(F[r + 2][TRUE])>> \o Tail(F[r + 2][TRUE])
  <2> HIDE DEF p
  <2>1. PICK j \in Seq(Y), q \in Seq(Seq(Y)) : j = JsonChar(Value, i) /\ q = F[r + 2][TRUE] /\ q # <<>>
    BY <1>7
  <2>2. PICK w \in Seq(Y) : w = p
    BY <1>6
  <2>3. Grown(w, Grown(j, q)) = Grown(w \o j, q)
    <3>1. q # <<>>
      BY <2>1
    <3> QED BY <3>1, CharMoves
  <2> QED BY <1>5, <2>1, <2>2, <2>3 DEF Grown
<1>9. Text(buf', cs') = p
  BY InsideCases, ReduceAppends
<1>10. Ahead = <<p \o Head(F[i][TRUE])>> \o Tail(F[i][TRUE])
  BY <1>3, InsideCases DEF Ahead
<1>11. Ahead' = <<Text(buf', cs') \o Bytes' \o Head(Rest(TRUE)')>> \o Tail(Rest(TRUE)')
  BY DEF Ahead, Text
<1>12. Bytes' = JsonChar(Value, i)
  BY <1>2
<1> HIDE DEF p
<1> QED BY <1>3, <1>8, <1>9, <1>10, <1>11, <1>12

(* A part of an escape; nothing of it counts before its last character. *)
LEMMA PartAhead ==
    ASSUME IInv, Meaning, Inside, pc' = "string", esc' = esc + 1, c' = None
    PROVE  Ahead' = Ahead
<1>1. Rest(TRUE)' = Rest(TRUE)
  <2>1. PICK r \in Nat, e \in 0..5 : r = readPos /\ e = esc
    BY InsideCases, ReadsDocument
  <2>2. readPos' + 1 - esc' = readPos + 1 - esc /\ Value' = Value
    <3>1. (r + 1) + 1 - (e + 1) = r + 1 - e
      OBVIOUS
    <3> QED BY <2>1, <3>1, InsideCases, InsideKeepsOthers
  <2> QED BY <2>2 DEF Rest
<1> DEFINE p == Text(buf, cs) \o Bytes
<1>2. p \o <<>> = p
  <2>1. PICK Y : p \in Seq(Y)
    BY InsideCases, CollectedIsSeq
  <2> HIDE DEF p
  <2> QED BY <2>1, ConcatEmptySeq
<1>3. Text(buf', cs') = p
  BY InsideCases, ReduceAppends
<1>4. Bytes' = <<>>
  BY TextOfNone DEF Bytes, IsUtf16, None
<1>5. Ahead = <<p \o Head(Rest(TRUE))>> \o Tail(Rest(TRUE))
  BY InsideCases DEF Ahead
<1>6. Ahead' = <<Text(buf', cs') \o Bytes' \o Head(Rest(TRUE)')>> \o Tail(Rest(TRUE)')
  BY DEF Ahead, Text
<1> HIDE DEF p
<1> QED BY <1>1, <1>2, <1>3, <1>4, <1>5, <1>6

(* A character of a string: it begins, continues or completes a json_char, *)
(* which is then what the character or the escape meant.                   *)
LEMMA InsideKeepsMeaning ==
    ASSUME IInv, Meaning, Inside
    PROVE  Meaning'
<1>1. /\ HistInv' /\ ToldInv' /\ ValueInv' /\ FieldInv' /\ EscapeInv'
      /\ Count' = Count /\ Job' = Job /\ Given' = Given /\ Expected(Count)' = Expected(Count)
      /\ \A i \in DOMAIN buf : i >= At - esc => buf'[i] = buf[i]
  BY InsideKeepsOthers
<1>2. PICK d \in Nat \ {0}, l \in Nat, r \in Nat, e \in 0..5 :
          /\ d = s.data /\ l = s.length /\ r = readPos /\ At = d + r /\ r < l /\ e = esc /\ e <= r
          /\ \A i \in 1..l : i >= r + 1 - e =>
                /\ Value[i] = received.buf[d + i - 1] /\ buf[d + i - 1] = Value[i]
                /\ d + i - 1 \in DOMAIN buf /\ d + i - 1 >= At - esc
  BY InsideCases, ReadsDocument
<1>3. \A i \in 1..l : i >= r + 1 - e => buf'[d + i - 1] = Value[i] /\ Value[i] \in Int
  <2>1. Value \in Seq(Int) /\ Len(Value) = l
    BY <1>2, InsideCases, ReadsDocument
  <2>2. ASSUME NEW i \in 1..l, i >= r + 1 - e
        PROVE  buf'[d + i - 1] = Value[i] /\ Value[i] \in Int
    <3>1. /\ buf[d + i - 1] = Value[i]
          /\ d + i - 1 \in DOMAIN buf /\ d + i - 1 >= At - esc
      BY <1>2, <2>2
    <3>2. buf'[d + i - 1] = buf[d + i - 1]
      BY <1>1, <3>1
    <3>3. Value[i] \in Int
      BY <2>1
    <3> QED BY <3>1, <3>2, <3>3
  <2> QED BY <2>2
<1>4. Value[r + 1] = Ch /\ buf'[At] = Ch /\ Ch \in Int
  <2>1. r + 1 \in 1..l /\ r + 1 >= r + 1 - e /\ d + (r + 1) - 1 = d + r
    BY <1>2
  <2> QED BY <1>2, <1>3, <2>1 DEF Ch
<1>5. /\ e >= 1 => Value[r + 1 - e] = Backslash
      /\ e >= 2 => Value[r + 2 - e] = LetterU
      /\ \A k \in 2..e - 1 : IsHexdig(Value[r + 1 - e + k])
  <2>1. /\ esc >= 1 => received.buf[At - esc] = Backslash
        /\ esc >= 2 => received.buf[At - esc + 1] = LetterU
        /\ \A k \in 2..esc - 1 : IsHexdig(received.buf[At - esc + k])
    BY InsideCases DEF Meaning, EscapeInv
  <2>2. ASSUME NEW k \in 0..e - 1 PROVE Value[r + 1 - e + k] = received.buf[At - esc + k]
    <3>1. r + 1 - e + k \in 1..l /\ r + 1 - e + k >= r + 1 - e /\ d + (r + 1 - e + k) - 1 = (d + r) - e + k
      BY <1>2
    <3>2. Value[r + 1 - e + k] = received.buf[d + (r + 1 - e + k) - 1]
      BY <1>2, <3>1
    <3> QED BY <1>2, <3>1, <3>2
  <2>3. /\ r + 1 - e + 0 = r + 1 - e /\ (d + r) - e + 0 = (d + r) - e
        /\ r + 1 - e + 1 = r + 2 - e
        /\ \A k \in 2..e - 1 : k \in 0..e - 1
        /\ (e >= 1 => 0 \in 0..e - 1) /\ (e >= 2 => 1 \in 0..e - 1)
    OBVIOUS
  <2>4. e >= 1 => Value[r + 1 - e] = Backslash
    BY <1>2, <2>1, <2>2, <2>3
  <2>5. e >= 2 => Value[r + 2 - e] = LetterU
    BY <1>2, <2>1, <2>2, <2>3
  <2>6. \A k \in 2..e - 1 : IsHexdig(Value[r + 1 - e + k])
    BY <1>2, <2>1, <2>2, <2>3
  <2> QED BY <2>4, <2>5, <2>6
<1>6. GivenInv'
  <2> SUFFICES ASSUME ~HasHexLetter, pc' = "string" PROVE Ahead' = Ahead
    <3>1. ((~HasHexLetter)' <=> ~HasHexLetter) /\ MeantBy(Job)' = MeantBy(Job)
      BY <1>1, InsideCases DEF HasHexLetter, MeantBy, Text
    <3>2. ASSUME Ahead' = Ahead \/ HasHexLetter \/ pc' # "string" PROVE GivenInv'
      BY <1>1, <3>1, <3>2, InsideCases DEF Meaning, GivenInv
    <3> QED BY <3>2
  <2>1. CASE /\ esc' = 0 /\ c' = [data |-> At, length |-> 1]
             /\ (esc = 0 /\ Unescaped(Ch)) \/ (esc = 1 /\ Escapable(Ch))
    <3>1. Bytes' = <<Value[r + 1]>>
      <4>1. Bytes' = Text(buf', [data |-> At, length |-> 1])
        <5>1. c'.length # 4
          BY <2>1
        <5>2. Bytes' = Text(buf', c')
          BY <5>1 DEF Bytes, IsUtf16, Text
        <5> QED BY <2>1, <5>2
      <4>2. d + r \in Int /\ buf'[d + r] \in Int
        BY <1>2, <1>4
      <4>3. Text(buf', [data |-> d + r, length |-> 1]) = <<buf'[d + r]>>
        BY <4>2, TextOfOne
      <4> QED BY <1>2, <1>4, <4>1, <4>3
    <3>2. CASE e = 0 /\ Unescaped(Ch)
      <4>1. Value[r + 1] # Quote /\ Value[r + 1] # Backslash
        BY <1>4, <3>2 DEF Unescaped
      <4>2. JsonChar(Value, r + 1) = <<Value[r + 1]>> /\ Behind(Value, r + 1) = r + 2
        BY <4>1 DEF JsonChar, Behind, IsUnit
      <4>3. readPos + 1 - esc = r + 1
        BY <1>2, <3>2
      <4> QED BY <1>2, <2>1, <3>1, <4>1, <4>2, <4>3, CharAhead
    <3>3. CASE e = 1 /\ Escapable(Ch)
      <4>1. Value[r] = Backslash
        <5>1. r + 1 - 1 = r
          OBVIOUS
        <5> QED BY <1>5, <3>3, <5>1
      <4>2. Value[r] # Quote /\ Value[r + 1] # LetterU
        BY <1>4, <3>3, <4>1 DEF Escapable, Quote, Backslash, LetterU, Slash, Tab
      <4>3. JsonChar(Value, r) = <<Value[r + 1]>> /\ Behind(Value, r) = r + 2
        BY <4>1, <4>2 DEF JsonChar, Behind, IsUnit
      <4>4. readPos + 1 - esc = r
        BY <1>2, <3>3
      <4> QED BY <1>2, <2>1, <3>1, <4>2, <4>3, <4>4, CharAhead
    <3> QED BY <1>2, <2>1, <3>2, <3>3
  <2>2. CASE esc' = esc + 1 /\ c' = None
    BY <2>2, PartAhead
  <2>3. CASE esc' = 0 /\ c' = [data |-> At - 3, length |-> 4] /\ esc = 5 /\ IsHexdig(Ch)
    <3>1. PICK i \in Nat : i = r + 1 - e /\ r = i + 4 /\ i >= 1
      <4>1. e = 5 /\ r + 1 - 5 \in Nat /\ r = (r + 1 - 5) + 4 /\ r + 1 - 5 >= 1
        BY <1>2, <2>3
      <4> QED BY <4>1
    <3>2. Value[i] = Backslash /\ Value[i + 1] = LetterU /\ \A k \in 2..5 : IsHexdig(Value[i + k])
      <4>1. e = 5 /\ r + 2 - e = i + 1 /\ r + 1 = i + 5
        BY <1>2, <2>3, <3>1
      <4>2. IsHexdig(Value[i + 5])
        BY <1>4, <2>3, <4>1
      <4>3. ASSUME NEW k \in 2..5 PROVE IsHexdig(Value[i + k])
        <5>1. k = 5 \/ k \in 2..e - 1
          BY <4>1
        <5> QED BY <1>5, <3>1, <4>2, <5>1
      <4> QED BY <1>5, <3>1, <4>1, <4>3
    <3>3. \A k \in 2..5 : Value[i + k] \in 48..57
      <4> DEFINE a == d + i - 1
      <4>1. \A k \in 0..5 : Value[i + k] = received.buf[a + k] /\ a + k \in DOMAIN buf
        <5> TAKE k \in 0..5
        <5>1. i + k \in 1..l /\ i + k >= r + 1 - e /\ d + (i + k) - 1 = a + k
          BY <1>2, <3>1
        <5> QED BY <1>2, <5>1
      <4>2. DOMAIN received.buf = DOMAIN buf
        <5>1. received.buf \in Seq(Int) /\ Len(received.buf) = Len(buf) /\ buf \in Seq(Int)
          BY InsideCases, Reader, JobAtHand DEF IInv
        <5> QED BY <5>1
      <4>3. /\ 0 \in 0..5 /\ 1 \in 0..5 /\ 5 \in 0..5 /\ a + 0 = a /\ i + 0 = i
            /\ \A k \in 2..5 : k \in 0..5
        OBVIOUS
      <4> HIDE DEF a
      <4>4. /\ a \in DOMAIN received.buf /\ received.buf[a] = Backslash
            /\ a + 5 \in DOMAIN received.buf /\ received.buf[a + 1] = LetterU
        BY <3>2, <4>1, <4>2, <4>3
      <4>5. \A k \in 2..5 : ~(received.buf[a + k] > 57)
        BY <4>4 DEF HasHexLetter
      <4> TAKE k \in 2..5
      <4>6. IsHexdig(Value[i + k]) /\ ~(Value[i + k] > 57)
        BY <3>2, <4>1, <4>3, <4>5
      <4> QED BY <4>6 DEF IsHexdig
    <3>4. Utf16(buf', At - 3) = JsonChar(Value, i)
      <4>1. ASSUME NEW k \in 0..3
            PROVE  Value[i + 2 + k] \in 48..57 /\ buf'[(At - 3) + k] = Value[i + 2 + k]
        <5>1. k + 2 \in 2..5 /\ i + (k + 2) = i + 2 + k
          OBVIOUS
        <5>2. Value[i + 2 + k] \in 48..57
          BY <3>3, <5>1
        <5>3. i + 2 + k \in 1..l /\ i + 2 + k >= r + 1 - e /\ d + (i + 2 + k) - 1 = (At - 3) + k
          BY <1>2, <3>1
        <5>4. buf'[d + (i + 2 + k) - 1] = Value[i + 2 + k]
          BY <1>3, <5>3
        <5> QED BY <5>2, <5>3, <5>4
      <4>2. At - 3 \in Int /\ IsUnit(Value, i)
        BY <1>2, <3>2 DEF IsUnit
      <4> QED BY <4>1, <4>2, EscapeAsMeant
    <3>5. Bytes' = JsonChar(Value, i)
      BY <2>3, <3>4 DEF Bytes, IsUtf16, Utf16
    <3>6. Value[i] # Quote /\ Behind(Value, i) = i + 6 /\ i + 6 = r + 2 /\ i = readPos + 1 - esc
      BY <1>2, <3>1, <3>2 DEF Behind, IsUnit, Backslash, Quote
    <3> QED BY <1>2, <2>3, <3>5, <3>6, CharAhead
  <2>4. pc' # "failed"
    OBVIOUS
  <2> QED BY <2>1, <2>2, <2>3, <2>4, InsideCases
<1> QED BY <1>1, <1>6 DEF Meaning

-----------------------------------------------------------------------------
(* A string ends: what has been collected is told. *)
LEMMA EndStringKeepsMeaning ==
    ASSUME IInv, Meaning, EndString
    PROVE  Meaning'
<1> USE DEF Meaning
<1> DEFINE str == IF cs' = None THEN EmptyString ELSE cs'
           p   == Text(buf, cs) \o Bytes
<1>1. /\ pc = "string" /\ readPos < s.length /\ readPos' = readPos + 1 /\ esc = 0 /\ Ch = Quote /\ Reduce
      /\ told' = Append(told, str) /\ pc' = "json" /\ c' = None
      /\ UNCHANGED <<todo, s, writePos, esc, received, within>>
  BY DEF EndString, Reading
<1>2. PICK d \in Nat \ {0}, l \in Nat, r \in Nat :
          /\ d = s.data /\ l = s.length /\ r = readPos /\ At = d + r /\ r < l
          /\ d = Job.data /\ l = Job.length /\ Len(Value) = l
  BY <1>1, ReadsDocument
<1>3. HistInv' /\ Count' = Count /\ Job' = Job /\ Value' = Value
  BY <1>1, HistStays
<1>4. At' = d + (r + 1)
  BY <1>1, <1>2 DEF At
<1>5. /\ buf' \in Seq(Int) /\ DOMAIN buf' = DOMAIN buf /\ DOMAIN buf = 1..Len(buf) /\ At <= Len(buf)
      /\ Len(buf) \in Nat
      /\ cs' \in [data : Int, length : Int]
      /\ cs' # None => /\ cs'.data >= 1 /\ cs'.length >= 0 /\ cs'.data + cs'.length <= d + r
                       /\ cs'.data .. At - 1 \subseteq within
                       /\ cs'.data = Start
      /\ cs' = None => c = None /\ cs = None
      /\ Text(buf', cs') = p
      /\ \A i \in DOMAIN buf : i \notin Start .. At - 1 - esc => buf'[i] = buf[i]
  <2>1. /\ buf' \in Seq(Int) /\ Len(buf') = Len(buf) /\ buf \in Seq(Int) /\ cs' \in [data : Int, length : Int]
        /\ DOMAIN buf = 1..Len(buf) /\ At <= Len(buf) /\ Len(buf) \in Nat
        /\ cs' # None => /\ cs'.data >= 1 /\ cs'.length >= 0 /\ cs'.data + cs'.length <= At - esc
                         /\ cs'.data .. At - 1 \subseteq within
    BY <1>1, ReduceInPlace, Reader
  <2>2. DOMAIN buf' = DOMAIN buf /\ At - esc = d + r
    BY <1>1, <1>2, <2>1
  <2> QED BY <1>1, <2>1, <2>2, ReduceAppends
<1>6. str \in [data : Int, length : Int]
  BY <1>5 DEF EmptyString
<1>7. \A i \in Span(str) : i \in within /\ i \in DOMAIN buf /\ i < d + r
  <2>1. CASE cs' = None
    BY <2>1 DEF Span, EmptyString
  <2>2. CASE cs' # None
    <3>1. PICK a \in Int, n \in Int : a = cs'.data /\ n = cs'.length
      BY <1>5
    <3>2. a >= 1 /\ a + n <= d + r /\ a .. d + r - 1 \subseteq within /\ Span(str) = a .. a + n - 1
      <4>1. a >= 1 /\ a + n <= d + r /\ a .. At - 1 \subseteq within
        BY <1>5, <2>2, <3>1
      <4>2. At - 1 = d + r - 1
        BY <1>2
      <4>3. Span(str) = a .. a + n - 1
        BY <2>2, <3>1 DEF Span
      <4> QED BY <4>1, <4>2, <4>3
    <3>3. \A i \in a .. a + n - 1 : i \in a .. d + r - 1 /\ i \in 1..d + r /\ i < d + r
      BY <3>2
    <3>4. 1..d + r \subseteq DOMAIN buf
      BY <1>2, <1>5
    <3> QED BY <3>2, <3>3, <3>4
  <2> QED BY <2>1, <2>2
<1>8. PICK a \in Int : a = Start /\ a <= d + r
  <2>1. CASE cs' # None
    <3>1. PICK x \in Int, n \in Int : x = cs'.data /\ n = cs'.length
      BY <1>5
    <3>2. x = Start /\ n >= 0 /\ x + n <= d + r
      BY <1>5, <2>1, <3>1
    <3>3. x <= d + r
      BY <3>2
    <3> QED BY <3>2, <3>3
  <2>2. CASE cs' = None
    <3>1. Start = At - esc
      BY <1>1, <1>5, <2>2 DEF Start
    <3>2. At - esc = (d + r) - 0
      BY <1>1, <1>2
    <3>3. (d + r) - 0 = d + r /\ d + r \in Int /\ d + r <= d + r
      OBVIOUS
    <3>4. Start = d + r
      BY <3>1, <3>2, <3>3
    <3> QED BY <3>3, <3>4, Zenon
  <2> QED BY <2>1, <2>2
<1>9. \A k \in DOMAIN told : Span(told[k]) \subseteq within \cap DOMAIN buf /\ Span(told[k]) \cap (a .. d + l - 1) = {}
  <2>1. End = d + l
    BY <1>2 DEF End
  <2> QED BY <1>1, <1>8, <2>1 DEF ToldInv
<1>10. ToldInv'
  <2>1. PICK n \in Nat : n = Len(told) /\ DOMAIN told = 1..n
    BY DEF ToldInv
  <2>2. /\ told' \in Seq([data : Int, length : Int]) /\ DOMAIN told' = 1..n + 1 /\ told'[n + 1] = str
        /\ \A k \in 1..n : told'[k] = told[k]
    <3> HIDE DEF str
    <3> QED BY <1>1, <1>6, <2>1 DEF ToldInv
  <2>3. Start' = d + (r + 1) /\ End' = d + l
    <3>1. Start' = At' - esc'
      BY <1>1 DEF Start
    <3>2. End' = d + l
      BY <1>2, <1>3 DEF End
    <3> QED BY <1>1, <1>4, <3>1, <3>2
  <2>4. \A i \in d + (r + 1) .. d + l - 1 : i \in a .. d + l - 1 /\ ~(i < d + r)
    BY <1>8
  <2>5. ASSUME NEW k \in 1..n + 1
        PROVE  Span(told'[k]) \subseteq within \cap DOMAIN buf /\ Span(told'[k]) \cap (d + (r + 1) .. d + l - 1) = {}
    <3>1. CASE k = n + 1
      <4> HIDE DEF str
      <4> QED BY <1>7, <2>2, <2>4, <3>1
    <3>2. CASE k # n + 1
      <4>1. k \in 1..n
        BY <3>2
      <4> QED BY <1>9, <2>1, <2>2, <2>4, <4>1
    <3> QED BY <3>1, <3>2
  <2>6. \A k \in DOMAIN told' : Span(told[k])' = Span(told'[k])
    BY DEF Span
  <2>7. ASSUME NEW k \in DOMAIN told'
        PROVE  Span(told[k])' \subseteq within' \cap DOMAIN buf' /\ Span(told[k])' \cap (Start' .. End' - 1) = {}
    <3>1. Span(told[k])' = Span(told'[k]) /\ k \in 1..n + 1
      BY <2>2, <2>6
    <3>2. Span(told'[k]) \subseteq within \cap DOMAIN buf /\ Span(told'[k]) \cap (d + (r + 1) .. d + l - 1) = {}
      BY <2>5, <3>1
    <3>3. within' = within /\ DOMAIN buf' = DOMAIN buf
      BY <1>1, <1>5
    <3> QED BY <2>3, <3>1, <3>2, <3>3
  <2> QED BY <2>2, <2>7 DEF ToldInv
<1>11. ValueInv' /\ FieldInv'
  BY <1>1 DEF ValueInv, FieldInv
<1>12. \A i \in DOMAIN buf : i \notin a .. d + r - 1 => buf'[i] = buf[i]
  <2>1. At - 1 - esc = d + r - 1
    BY <1>1, <1>2
  <2> QED BY <1>5, <1>8, <2>1
<1>13. EscapeInv'
  <2>1. \A i \in Span(s) : i \in DOMAIN buf /\ i \in Int
    <3>1. Span(s) = Span(Job) /\ todo # <<>>
      BY <1>1, <1>2, Reader DEF Span
    <3> QED BY <1>5, <3>1, JobAtHand DEF IInv
  <2>2. \A i \in Span(s) : i >= d + r => buf[i] = received.buf[i]
    <3>1. At - esc = d + r
      BY <1>1, <1>2
    <3> QED BY <1>1, <3>1 DEF EscapeInv
  <2>3. \A i \in Span(s) : i >= d + (r + 1) => buf'[i] = received.buf[i]
    <3> TAKE i \in Span(s)
    <3>1. i >= d + (r + 1) => i >= d + r /\ i \notin a .. d + r - 1
      BY <2>1
    <3> QED BY <1>12, <2>1, <2>2, <3>1
  <2>4. At' - esc' = d + (r + 1) /\ Span(s)' = Span(s)
    BY <1>1, <1>4 DEF Span
  <2> QED BY <1>1, <2>3, <2>4 DEF EscapeInv
<1>14. GivenInv'
  <2>1. Expected(Count)' = Expected(Count) /\ MeantBy(Job)' = MeantBy(Job) /\ ((~HasHexLetter)' <=> ~HasHexLetter)
    BY <1>1, <1>3 DEF Expected, MeantBy, Text, HasHexLetter
  <2> DEFINE F == StringsFrom(Value)
             rest == F[r + 2][FALSE]
  <2>2. Given' = Given \o <<p>>
    <3>1. \A k \in DOMAIN told : \A i \in Span(told[k]) : buf'[i] = buf[i]
      <4> TAKE k \in DOMAIN told
      <4> TAKE i \in Span(told[k])
      <4>1. i \in DOMAIN buf /\ i \notin a .. d + l - 1
        BY <1>9
      <4>2. i \notin a .. d + r - 1
        <5>1. \A j \in a .. d + r - 1 : j \in a .. d + l - 1
          BY <1>2
        <5> QED BY <4>1, <5>1
      <4> QED BY <1>12, <4>1, <4>2
    <3>2. Text(buf', str) = p
      BY <1>5, TextOfNone
    <3> HIDE DEF str, p
    <3> QED BY <1>1, <1>6, <3>1, <3>2, GivenGrows
  <2>3. Rest(TRUE) = F[r + 1][TRUE] /\ Rest(FALSE)' = rest
    <3>1. readPos + 1 - esc = r + 1 /\ readPos' + 1 - esc' = r + 2
      BY <1>1, <1>2
    <3> QED BY <1>3, <3>1 DEF Rest
  <2>4. PICK X : rest \in Seq(Seq(X))
    <3>1. Len(Value) \in Nat /\ r + 2 \in Nat
      BY <1>2
    <3>2. \E X : \A i \in Nat : F[i][FALSE] \in Seq(Seq(X))
      BY <3>1, StringsFromAreStrings
    <3> HIDE DEF F
    <3> QED BY <3>1, <3>2
  <2>5. F[r + 1][TRUE] = <<<<>>>> \o rest
    <3>1. r + 1 \in Nat /\ ~(r + 1 > Len(Value)) /\ (r + 1) + 1 = r + 2
      BY <1>2
    <3>2. F[r + 1][TRUE] = StringsAt(Value, F, r + 1, TRUE)
      BY <1>2, <3>1, StringsFromObeys
    <3>3. Value[r + 1] = Quote
      <4>1. r + 1 \in 1..l /\ r + 1 >= r + 1 /\ r + 1 - 0 = r + 1 /\ d + (r + 1) - 1 = d + r
        BY <1>2
      <4>2. buf[d + (r + 1) - 1] = Value[r + 1]
        BY <1>1, <1>2, <4>1, ReadsDocument
      <4> QED BY <1>1, <1>2, <4>1, <4>2 DEF Ch
    <3> HIDE DEF F
    <3> QED BY <3>1, <3>2, <3>3 DEF StringsAt
  <2> HIDE DEF F, rest
  <2>6. PICK Y : X \subseteq Y /\ p \in Seq(Y)
    BY <1>1, CollectedIsSeq
  <2>7. rest \in Seq(Seq(Y))
    <3>1. Seq(X) \subseteq Seq(Y)
      BY <2>6, SeqMonotonic
    <3> QED BY <2>4, <3>1, SeqMonotonic
  <2>8. Ahead = <<p>> \o rest
    <3>1. Head(<<<<>>>> \o rest) = <<>> /\ Tail(<<<<>>>> \o rest) = rest
      <4>1. <<>> \in Seq(Y)
        OBVIOUS
      <4> QED BY <2>7, <4>1, FirstOfCat
    <3>2. Ahead = <<p \o Head(Rest(TRUE))>> \o Tail(Rest(TRUE))
      BY <1>1 DEF Ahead
    <3>3. p \o <<>> = p
      <4> HIDE DEF p
      <4> QED BY <2>6, ConcatEmptySeq
    <3> HIDE DEF p
    <3> QED BY <2>3, <2>5, <3>1, <3>2, <3>3
  <2>9. Ahead' = rest
    BY <1>1, <2>3 DEF Ahead
  <2>10. Given \o (<<p>> \o rest) = (Given \o <<p>>) \o rest
    <3> DEFINE Z == {Text(buf, told[k]) : k \in DOMAIN told}
    <3>1. Given \in Seq(Z)
      BY GivenIsSeq
    <3> HIDE DEF p, Z
    <3>2. PICK W : W = Z \cup Seq(Y)
      OBVIOUS
    <3>3. Z \subseteq W /\ Seq(Y) \subseteq W
      BY <3>2
    <3>4. Given \in Seq(W) /\ rest \in Seq(W)
      BY <2>7, <3>1, <3>3, SeqMonotonic
    <3>5. <<p>> \in Seq(W)
      BY <2>6, <3>3
    <3>6. (Given \o <<p>>) \o rest = Given \o (<<p>> \o rest)
      BY <3>4, <3>5, ConcatAssociative
    <3> QED BY <3>6
  <2>11. GivenInv => (~HasHexLetter => Expected(Count) \o MeantBy(Job) = Given \o Ahead)
    BY <1>1 DEF GivenInv
  <2> HIDE DEF p
  <2>12. ~HasHexLetter => Expected(Count)' \o MeantBy(Job)' = Given' \o Ahead'
    BY <2>1, <2>2, <2>8, <2>9, <2>10, <2>11
  <2> QED BY <1>1, <2>1, <2>12 DEF GivenInv
<1> QED BY <1>3, <1>10, <1>11, <1>13, <1>14

(* A document ends, and all its strings have been told. *)
LEMMA EndTextKeepsMeaning ==
    ASSUME IInv, Meaning, EndText
    PROVE  Meaning'
<1> USE DEF Meaning
<1>1. /\ pc = "json" /\ readPos = s.length /\ pc' = "next" /\ todo' = Tail(todo)
      /\ UNCHANGED <<buf, s, readPos, writePos, esc, c, cs, told, received, within>>
  BY DEF EndText
<1>2. todo # <<>> /\ Job.op = "json" /\ s.length \in Nat /\ Len(Value) = s.length /\ esc = 0
  BY <1>1, Reader, ReadsDocument DEF IInv, JsonInv
<1>3. HistInv' /\ Count' = Count + 1
  BY <1>1, <1>2, HistNext
<1>4. ToldInv'
  BY <1>1 DEF ToldInv, Span
<1>5. ValueInv' /\ FieldInv' /\ EscapeInv'
  BY <1>1 DEF ValueInv, FieldInv, EscapeInv
<1>6. GivenInv'
  <2> SUFFICES ASSUME ~HasHexLetter PROVE Given' = Expected(Count)'
    BY <1>1 DEF GivenInv, HasHexLetter
  <2>1. Expected(Count) \o MeantBy(Job) = Given \o Ahead
    BY <1>1 DEF GivenInv
  <2>2. Ahead = <<>>
    <3>1. PICK n \in Nat : n = readPos + 1 - esc /\ n > Len(Value)
      <4>1. PICK l \in Nat : l = s.length
        BY <1>2
      <4>2. l + 1 - 0 \in Nat /\ l + 1 - 0 > l
        OBVIOUS
      <4> QED BY <1>1, <1>2, <4>1, <4>2
    <3>2. StringsFrom(Value)[n][FALSE] = StringsAt(Value, StringsFrom(Value), n, FALSE)
      BY <1>2, StringsFromObeys
    <3>3. Ahead = StringsFrom(Value)[n][FALSE]
      BY <1>1, <3>1 DEF Ahead, Rest
    <3> QED BY <3>1, <3>2, <3>3 DEF StringsAt
  <2>3. Given \o <<>> = Given
    <3> DEFINE Z == {Text(buf, told[k]) : k \in DOMAIN told}
    <3>1. Given \in Seq(Z)
      BY GivenIsSeq
    <3> HIDE DEF Z
    <3> QED BY <3>1, ConcatEmptySeq
  <2>4. Expected(Count + 1) = Expected(Count) \o MeantBy(Job)
    <3>1. PICK X : StringsFrom(Value)[1][FALSE] \in Seq(Seq(X))
      <4>1. Len(Value) \in Nat /\ 1 \in Nat
        BY <1>2
      <4>2. \E X : \A i \in Nat : StringsFrom(Value)[i][FALSE] \in Seq(Seq(X))
        BY <4>1, StringsFromAreStrings
      <4> QED BY <4>1, <4>2
    <3>2. MeantBy(Job) \in Seq(Seq(X))
      BY <1>2, <3>1, MeantByJob
    <3> QED BY <1>2, <3>2, ExpectedNext
  <2>5. Expected(Count)' = Expected(Count + 1) /\ Given' = Given
    BY <1>1, <1>3 DEF Expected, MeantBy, Text, Given
  <2> QED BY <2>1, <2>2, <2>3, <2>4, <2>5
<1> QED BY <1>3, <1>4, <1>5, <1>6

LEMMA StutterKeepsMeaning ==
    ASSUME IInv, Meaning, UNCHANGED vars
    PROVE  Meaning'
<1> USE DEF Meaning, vars
<1>1. HistInv' /\ Count' = Count /\ Job' = Job /\ Value' = Value
  BY HistStays
<1>2. At' = At /\ Bytes' = Bytes /\ Start' = Start /\ End' = End /\ Span(s)' = Span(s) /\ Span(Job)' = Span(Job)
  BY <1>1 DEF At, Bytes, IsUtf16, Utf16, Text, Start, End, Span
<1>3. ToldInv'
  <2>1. \A k \in DOMAIN told : Span(told[k])' = Span(told[k])
    BY DEF Span
  <2> QED BY <1>2, <2>1 DEF ToldInv
<1>4. ValueInv' /\ FieldInv' /\ EscapeInv'
  BY <1>1, <1>2 DEF ValueInv, FieldInv, EscapeInv
<1>5. GivenInv'
  <2>1. /\ Expected(Count)' = Expected(Count) /\ MeantBy(Job)' = MeantBy(Job) /\ Given' = Given
        /\ ((~HasHexLetter)' <=> ~HasHexLetter)
    BY <1>1 DEF Expected, MeantBy, Text, HasHexLetter, Given
  <2>2. Ahead' = Ahead
    BY <1>1, <1>2 DEF Ahead, Rest, Text
  <2> QED BY <2>1, <2>2 DEF GivenInv
<1> QED BY <1>1, <1>3, <1>4, <1>5

(* At every step what has been told is what the jobs done so far meant,    *)
(* and what is still to be told follows from the text that the decoders    *)
(* have not reached (Meaning, inductive together with IInv).               *)
THEOREM MeaningIsKept == Spec => []Meaning
<1>1. Init => Meaning
  BY InitMeaning
<1>2. IInv /\ Meaning /\ [Next]_vars => Meaning'
  BY BeginKeepsMeaning, DecodeCharKeepsMeaning, DecodeEscapeKeepsMeaning, DecodeEndKeepsMeaning,
     TrimLeftKeepsMeaning, TrimRightKeepsMeaning, OutsideKeepsMeaning, InsideKeepsMeaning,
     EndStringKeepsMeaning, EndTextKeepsMeaning, StutterKeepsMeaning DEF Next
<1> QED BY <1>1, <1>2, DecodersKeepPlace, PTL DEF Spec

(* When all is decoded, each string that a callback has been given is      *)
(* still what the text meant by it, although all that came after it was    *)
(* decoded in the same buffer: paths and parameters through decodeValue,   *)
(* fields through trim, the strings of documents through the actions of    *)
(* the grammar and convertUtf16ToString (but for escapes with the digits A *)
(* to F); and nothing that the grammar lets through is refused but what is *)
(* empty.                                                                  *)
THEOREM ToldAsMeant == Spec => []GivenAsMeant
<1>1. IInv /\ Meaning /\ OnlyEmptyRefused => GivenAsMeant
  <2> SUFFICES ASSUME IInv, Meaning, Done, ~HasHexLetter
               PROVE  Given = FlattenSeq([j \in DOMAIN received.todo |-> MeantBy(received.todo[j])])
    BY DEF GivenAsMeant, AsMeant
  <2>1. Given = Expected(Count)
    BY DEF Meaning, GivenInv, Done
  <2>2. DOMAIN received.todo = 1..Count
    <3>1. received.todo \in Seq(Jobs) /\ Len(todo) = 0
      BY TextsAssumption DEF IInv, Done
    <3>2. PICK n \in Nat : n = Len(received.todo) /\ DOMAIN received.todo = 1..n
      BY <3>1
    <3>3. n - 0 = n
      OBVIOUS
    <3> QED BY <3>1, <3>2, <3>3 DEF Count
  <2> QED BY <2>1, <2>2 DEF Expected
<1> QED BY <1>1, DecodersKeepPlace, MeaningIsKept, NothingElseIsRefused, PTL
=============================================================================
