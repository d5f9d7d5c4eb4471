--------------------------- MODULE HttpJob_proofs ---------------------------
(***************************************************************************)
(* Proofs about HttpJob, for any requests, cut in any way, and any sizes   *)
(* of the buffers and of the parts of a response.                          *)
(***************************************************************************)
EXTENDS HttpJob, SequenceTheorems, WellFoundedInduction, TLAPS

-----------------------------------------------------------------------------
(* The inductive invariant.                                                *)

(* A file that is mapped when the answer is composed was mapped for it.    *)
MappedForAnswer ==
    m_file_address = "file" /\ pc = "respond" => ret = "FILE_REQUEST"

JobInv ==
    /\ TypeOK
    /\ ParserIndices
    /\ UrlIsSet
    /\ MappingIsReleased /\ MappedForAnswer
    /\ WriteBufferBounded

(* For WholeRequestIsAnswered.                                             *)

(* Nothing is left of an earlier request.                                  *)
Reset ==
    /\ m_checked_idx = 0 /\ m_start_line = 0
    /\ m_check_state = "REQUESTLINE" /\ m_content_length = 0 /\ m_linger = FALSE
    /\ m_write_buf = <<>> /\ m_write_idx = 0

(* A parser that was given nothing was reset, and a worker was given       *)
(* something.                                                              *)
ResetBeforeInput ==
    /\ m_read_idx = 0 => Reset
    /\ pc # "idle" => m_read_idx > 0

(* All of the request was received, and what was not checked is as it was  *)
(* sent.                                                                   *)
Received ==
    /\ m_read_idx = Len(Bytes(request)) /\ m_read_idx <= READ_BUFFER_SIZE
    /\ m_read_buf[0] = request.line
    /\ \A i \in m_checked_idx..(m_read_idx - 1) : m_read_buf[i] = Bytes(request)[i + 1]
    /\ line_status = "LINE_OK"

(* The parser is at the request line.                                      *)
NothingParsed ==
    m_check_state = "REQUESTLINE" /\ m_content_length = 0 /\ m_linger = FALSE

(* One of the first n header lines asks for it.                            *)
LingerAsked(headers, n) == \E i \in 1..n : headers[i] = <<"keep-alive">>

(* The request line and n header lines were parsed.                        *)
Parsed(n) ==
    /\ Accepted(request) /\ m_method = request.line[2] /\ m_url = 0
    /\ m_linger = LingerAsked(request.headers, n)
    /\ m_content_length = ToInt(DeclaredLength(request.headers, n))

(* Between two lines.  A line is three cells, the end of the header two.   *)
BetweenLines ==
    LET N == Len(request.headers)
    IN  /\ m_start_line = m_checked_idx
        /\ \/ NothingParsed /\ m_checked_idx = 0
           \/ \E n \in 0..N :
                 m_check_state = "HEADER" /\ Parsed(n) /\ m_checked_idx = 3 * n + 3
           \/ /\ m_check_state = "CONTENT" /\ m_method = "POST"
              /\ Parsed(N) /\ m_checked_idx = 3 * N + 5

(* At a line that was found.                                               *)
AtLine ==
    LET N == Len(request.headers)
    IN  \/ NothingParsed /\ m_start_line = 0 /\ m_checked_idx = 3
        \/ \E n \in 0..(N - 1) :
              /\ m_check_state = "HEADER" /\ Parsed(n)
              /\ m_start_line = 3 * n + 3 /\ m_checked_idx = 3 * n + 6
              /\ Text = request.headers[n + 1]
        \/ /\ m_check_state = "HEADER" /\ Parsed(N)
           /\ m_start_line = 3 * N + 3 /\ m_checked_idx = 3 * N + 5
           /\ Text = NUL

NothingWritten == m_write_buf = <<>> /\ m_write_idx = 0

(* How far a request that arrived as a whole has come.                     *)
Progress ==
    /\ pc # "idle"
    /\ pc = "read" => Received /\ BetweenLines /\ NothingWritten
    /\ pc = "line" => Received /\ AtLine /\ NothingWritten
    /\ pc = "request" =>
          /\ Accepted(request) /\ m_url = 0 /\ m_read_buf[0] = request.line
          /\ m_linger = KeepsAlive(request) /\ NothingWritten
    /\ pc = "respond" =>
          ret = Result(request) /\ m_linger = KeepsAlive(request) /\ NothingWritten
    /\ pc = "write" => m_write_buf = Answer(request)

(* What was not sent yet is all of the request, or less.                   *)
InputLeft ==
    /\ Len(todo) <= Len(Bytes(request))
    /\ Len(todo) = Len(Bytes(request)) => todo = Bytes(request)

(* A complete request that arrived as a whole is on its way.               *)
WholeInv ==
    /\ InputLeft
    /\ ResetBeforeInput
    /\ whole /\ IsComplete(request) => Progress

-----------------------------------------------------------------------------
(* What m_write_buf consists of.                                           *)
Parts == PartKinds \X (Codes \cup {"keep-alive", "close", "CRLF"})

-----------------------------------------------------------------------------
(* Induction.                                                              *)

(* A set of numbers that is not empty has a least element.                 *)
LEMMA LeastNumber ==
    ASSUME NEW T \in SUBSET Nat, T # {}
    PROVE  \E x \in T : \A y \in T : x <= y
<1> DEFINE R == {ss \in Nat \X Nat : ss[1] < ss[2]}
<1>1. IsWellFoundedOn(R, Nat)
  BY NatLessThanWellFounded DEF OpToRel
<1>2. \E x \in T : \A y \in T : ~ (<<y, x>> \in R)
  <2> HIDE DEF R
  <2> QED BY <1>1, WFMin
<1>3. \A x, y \in T : ~(<<y, x>> \in R) => x <= y
  OBVIOUS
<1> QED BY <1>2, <1>3

(* A set that contains 0 and the successors of its numbers contains all.   *)
LEMMA SetInduction ==
    ASSUME NEW S, 0 \in S, \A n \in Nat : n \in S => n + 1 \in S
    PROVE  Nat \subseteq S
<1> SUFFICES ASSUME ~(Nat \subseteq S) PROVE FALSE
  OBVIOUS
<1>1. PICK x \in Nat \ S : \A y \in Nat \ S : x <= y
  BY LeastNumber
<1>2. x # 0 /\ x - 1 \in Nat /\ x - 1 \in S
  BY <1>1
<1> QED BY <1>1, <1>2

(* f holds the running sums of the first n numbers of g.                   *)
SumsOf(f, g, n) == \A i \in 1..n : f[i] = f[i - 1] + g[i]

(* Any numbers have running sums.                                          *)
LEMMA SumsExist ==
    ASSUME NEW n \in Nat, NEW g \in [1..n -> Nat]
    PROVE  \E f \in [0..n -> Nat] : f[0] = 0 /\ SumsOf(f, g, n)
<1> DEFINE S == {k \in Nat : k <= n => \E f \in [0..k -> Nat] : f[0] = 0 /\ SumsOf(f, g, k)}
<1>1. 0 \in S
  <2>1. [i \in 0..0 |-> 0] \in [0..0 -> Nat] /\ SumsOf([i \in 0..0 |-> 0], g, 0)
    BY DEF SumsOf
  <2> QED BY <2>1
<1>2. ASSUME NEW k \in Nat, k \in S PROVE k + 1 \in S
  <2> SUFFICES ASSUME k + 1 <= n
               PROVE  \E h \in [0..(k + 1) -> Nat] : h[0] = 0 /\ SumsOf(h, g, k + 1)
    OBVIOUS
  <2>1. PICK f \in [0..k -> Nat] : f[0] = 0 /\ SumsOf(f, g, k)
    BY <1>2
  <2>2. g[k + 1] \in Nat
    OBVIOUS
  <2> DEFINE h == [i \in 0..(k + 1) |-> IF i = k + 1 THEN f[k] + g[k + 1] ELSE f[i]]
  <2>3. h \in [0..(k + 1) -> Nat] /\ h[0] = 0
    BY <2>1, <2>2
  <2>4. \A i \in 1..(k + 1) : h[i] = h[i - 1] + g[i]
    <3>1. h[k + 1] = h[k] + g[k + 1]
      BY <2>1
    <3>2. ASSUME NEW i \in 1..k PROVE h[i] = h[i - 1] + g[i]
      <4>1. f[i] = f[i - 1] + g[i]
        BY <2>1 DEF SumsOf
      <4>2. h[i] = f[i] /\ h[i - 1] = f[i - 1]
        OBVIOUS
      <4> QED BY <4>1, <4>2
    <3> HIDE DEF h
    <3> QED BY <3>1, <3>2
  <2>5. SumsOf(h, g, k + 1)
    BY <2>4 DEF SumsOf
  <2> HIDE DEF h
  <2> QED BY <2>3, <2>5
<1>3. n \in S
  <2> HIDE DEF S
  <2> QED BY <1>1, <1>2, SetInduction
<1> QED BY <1>3

(* They are given by the numbers they add.                                 *)
LEMMA SumsAreEqual ==
    ASSUME NEW m \in Nat, NEW n \in Nat, m <= n, NEW g, NEW h, NEW e, NEW f,
           \A i \in 1..m : g[i] = h[i],
           e[0] = f[0], SumsOf(e, g, m), SumsOf(f, h, n)
    PROVE  e[m] = f[m]
<1> DEFINE S == {k \in Nat : k <= m => e[k] = f[k]}
<1>1. 0 \in S
  OBVIOUS
<1>2. ASSUME NEW k \in Nat, k \in S PROVE k + 1 \in S
  <2> SUFFICES ASSUME k + 1 <= m PROVE e[k + 1] = f[k + 1]
    OBVIOUS
  <2>1. k + 1 \in 1..m /\ k + 1 \in 1..n /\ (k + 1) - 1 = k
    OBVIOUS
  <2>2. e[k + 1] = e[k] + g[k + 1] /\ f[k + 1] = f[k] + h[k + 1]
    BY <2>1 DEF SumsOf
  <2> QED BY <1>2, <2>1, <2>2
<1>3. m \in S
  <2> HIDE DEF S
  <2> QED BY <1>1, <1>2, SetInduction
<1> QED BY <1>3

(* The sizes of the beginnings of a buffer are the running sums of those   *)
(* of its parts.                                                           *)
LEMMA SizesOfParts ==
    ASSUME NEW buf \in Seq(Parts)
    PROVE  /\ SizeOfParts(buf) \in [0..Len(buf) -> Nat]
           /\ SizeOfParts(buf)[0] = 0
           /\ SumsOf(SizeOfParts(buf), [i \in 1..Len(buf) |-> PartSize[buf[i][1]]], Len(buf))
<1> DEFINE n == Len(buf)
           g == [i \in 1..n |-> PartSize[buf[i][1]]]
           D(f) == [k \in 0..n |-> IF k = 0 THEN 0 ELSE f[k - 1] + PartSize[buf[k][1]]]
           s == SizeOfParts(buf)
<1>1. s = CHOOSE f : f = D(f)
  BY DEF SizeOfParts
<1>2. n \in Nat /\ g \in [1..n -> Nat]
  <2>1. \A i \in 1..Len(buf) : buf[i][1] \in PartKinds
    BY DEF Parts
  <2> QED BY <2>1, SizesAssumption
<1>3. PICK f \in [0..n -> Nat] : f[0] = 0 /\ SumsOf(f, g, n)
  <2> HIDE DEF n, g
  <2> QED BY <1>2, SumsExist
<1>4. f = D(f)
  <2>1. \A k \in 0..n : f[k] = D(f)[k]
    BY <1>2, <1>3 DEF SumsOf
  <2> QED BY <1>3, <2>1
<1>5. s = D(s)
  <2>1. \E e : e = D(e)
    BY <1>4
  <2> HIDE DEF D, s
  <2> QED BY <1>1, <2>1, Zenon
<1>6. s[0] = 0 /\ SumsOf(s, g, n)
  <2> HIDE DEF s
  <2>1. \A k \in 0..n : s[k] = IF k = 0 THEN 0 ELSE s[k - 1] + PartSize[buf[k][1]]
    BY <1>5
  <2> QED BY <1>2, <2>1 DEF SumsOf
<1>7. s = f
  <2> HIDE DEF s, n, g
  <2>1. \A k \in 0..n : s[k] = f[k]
    <3> DEFINE S == {k \in Nat : k <= n => s[k] = f[k]}
    <3>1. 0 \in S
      BY <1>3, <1>6
    <3>2. ASSUME NEW k \in Nat, k \in S PROVE k + 1 \in S
      <4> SUFFICES ASSUME k + 1 <= n PROVE s[k + 1] = f[k + 1]
        OBVIOUS
      <4>1. k + 1 \in 1..n /\ (k + 1) - 1 = k /\ s[k] = f[k]
        BY <1>2, <3>2
      <4>2. s[k + 1] = s[k] + g[k + 1] /\ f[k + 1] = f[k] + g[k + 1]
        BY <1>3, <1>6, <4>1 DEF SumsOf
      <4> QED BY <4>1, <4>2
    <3>3. \A k \in Nat : k \in S
      <4> HIDE DEF S
      <4> QED BY <3>1, <3>2, SetInduction
    <3> QED BY <1>2, <3>3
  <2>2. DOMAIN s = 0..n /\ s = [k \in 0..n |-> s[k]]
    BY <1>5
  <2> QED BY <1>3, <2>1, <2>2
<1> QED BY <1>3, <1>6, <1>7

(* A part that is appended adds its size.                                  *)
LEMMA SizeOfAppended ==
    ASSUME NEW buf \in Seq(Parts), NEW part \in Parts
    PROVE  SizeOfParts(Append(buf, part))[Len(buf) + 1]
               = SizeOfParts(buf)[Len(buf)] + PartSize[part[1]]
<1> DEFINE n == Len(buf)
           more == Append(buf, part)
           g == [i \in 1..n |-> PartSize[buf[i][1]]]
           h == [i \in 1..Len(more) |-> PartSize[more[i][1]]]
           e == SizeOfParts(buf)
           f == SizeOfParts(more)
<1>1. /\ n \in Nat /\ Len(more) = n + 1 /\ more \in Seq(Parts)
      /\ more[n + 1] = part /\ \A i \in 1..n : more[i] = buf[i]
  OBVIOUS
<1>2. e[0] = 0 /\ SumsOf(e, g, n)
  BY SizesOfParts
<1>3. f[0] = 0 /\ SumsOf(f, h, n + 1)
  BY <1>1, SizesOfParts
<1>4. \A i \in 1..n : g[i] = h[i]
  BY <1>1
<1>5. h[n + 1] = PartSize[part[1]]
  BY <1>1
<1> HIDE DEF e, f, g, h
<1>6. e[n] = f[n]
  BY <1>1, <1>2, <1>3, <1>4, SumsAreEqual
<1>7. f[n + 1] = f[n] + h[n + 1]
  BY <1>1, <1>3 DEF SumsOf
<1> QED BY <1>5, <1>6, <1>7 DEF e, f

(* Nothing has no size.                                                    *)
LEMMA EmptyBuffer == SizeOfParts(<<>>)[Len(<<>>)] = 0
<1>1. <<>> \in Seq(Parts) /\ Len(<<>>) = 0
  OBVIOUS
<1> QED BY <1>1, SizesOfParts

-----------------------------------------------------------------------------
(* The data.                                                               *)

(* A request is sent as cells.                                             *)
LEMMA BytesAreCells == ASSUME NEW q \in Requests PROVE Bytes(q) \in Seq(Cells)
<1> DEFINE lines == <<q.line>> \o q.headers
           ended == [i \in 1..(3 * Len(lines)) |->
                        <<lines[(i + 2) \div 3], CR, LF>>[((i - 1) % 3) + 1]]
<1>1. q.line \in Cells /\ q.headers \in Seq(Cells) /\ q.body \in Seq(Cells)
  <2>1. q.line \in RequestLines /\ q.headers \in Seq(HeaderLines) /\ q.body \in Seq({Byte, CR, LF})
    BY RequestsAssumption
  <2>2. q.headers \in Seq(Cells)
    BY <2>1 DEF Cells
  <2>3. q.body \in Seq(Cells)
    BY <2>1 DEF Cells
  <2> QED BY <2>1, <2>2, <2>3 DEF Cells
<1>2. lines \in Seq(Cells) /\ Len(lines) \in Nat
  BY <1>1
<1>3. \A i \in 1..(3 * Len(lines)) : ended[i] \in Cells
  <2> SUFFICES ASSUME NEW i \in 1..(3 * Len(lines)) PROVE ended[i] \in Cells
    OBVIOUS
  <2>1. (i + 2) \div 3 \in 1..Len(lines) /\ ((i - 1) % 3) + 1 \in 1..3
    BY <1>2
  <2>2. lines[(i + 2) \div 3] \in Cells
    BY <1>2, <2>1
  <2>3. CR \in Cells /\ LF \in Cells
    BY DEF Cells
  <2> DEFINE x == lines[(i + 2) \div 3]
             j == ((i - 1) % 3) + 1
  <2>4. <<x, CR, LF>>[j] \in Cells
    <3> HIDE DEF x, j
    <3>1. j \in 1..3 /\ x \in Cells
      BY <2>1, <2>2 DEF x, j
    <3> QED BY <3>1, <2>3
  <2> QED BY <2>4
<1>4. ended \in Seq(Cells)
  <2> DEFINE n == 3 * Len(lines)
  <2>1. n \in Nat
    BY <1>2
  <2>2. ended \in [1..n -> Cells]
    BY <1>3
  <2> HIDE DEF n, ended
  <2> QED BY <2>1, <2>2, SeqDef
<1>5. <<CR, LF>> \in Seq(Cells)
  BY DEF Cells
<1>6. Bytes(q) = ended \o <<CR, LF>> \o q.body
  BY DEF Bytes
<1> HIDE DEF ended
<1> QED BY <1>1, <1>4, <1>5, <1>6

(* The method of a request line and the length of a header line.           *)
LEMMA CellParts ==
    ASSUME NEW cell \in Cells
    PROVE  /\ cell[1] = "request" => cell[2] \in Methods
           /\ cell[1] = "length" => cell[2] \in Int
<1>1. CASE cell \in RequestLines
  BY <1>1 DEF RequestLines
<1>2. CASE cell \in HeaderLines
  BY <1>2, SizesAssumption DEF HeaderLines
<1>3. CASE cell \in {CR, LF, NUL, Byte}
  BY <1>3 DEF CR, LF, NUL, Byte
<1> QED BY <1>1, <1>2, <1>3 DEF Cells

(* A long is stored as an int, and as itself if it is not too large.       *)
LEMMA IntegersFit ==
    ASSUME NEW long \in Int
    PROVE  /\ ToInt(long) \in (-INT_MAX - 1)..INT_MAX
           /\ long \in 0..INT_MAX => ToInt(long) = long
<1> DEFINE d == 2 * INT_MAX + 2
           n == long + INT_MAX + 1
<1>1. INT_MAX \in Nat /\ d \in Nat \ {0} /\ n \in Int
  BY SizesAssumption
<1>2. ToInt(long) = (n % d) - INT_MAX - 1
  BY DEF ToInt
<1>3. n % d \in 0..(d - 1)
  <2> HIDE DEF n, d
  <2> QED BY <1>1
<1>4. ASSUME long \in 0..INT_MAX PROVE n % d = n
  <2>1. n \in 0..(d - 1)
    BY <1>1, <1>4
  <2> HIDE DEF n, d
  <2> QED BY <1>1, <2>1
<1>5. n % d \in Int /\ (n % d) - INT_MAX - 1 \in (-INT_MAX - 1)..INT_MAX
  <2> DEFINE r == n % d
  <2>1. r \in 0..(d - 1)
    BY <1>3
  <2> HIDE DEF r
  <2> QED BY <1>1, <2>1 DEF r
<1>6. ASSUME long \in 0..INT_MAX PROVE (n % d) - INT_MAX - 1 = long
  BY <1>1, <1>4, <1>6
<1> HIDE DEF n, d
<1> QED BY <1>2, <1>5, <1>6

(* A buffer of parts that ends before WRITE_BUFFER_SIZE, with its size.    *)
Buffers ==
    {w \in [buf : Seq(Parts), idx : 0..(WRITE_BUFFER_SIZE - 1), ok : BOOLEAN] :
        w.idx = SizeOfParts(w.buf)[Len(w.buf)]}

(* What is added to an index leaves it below the size if there was room.   *)
LEMMA RoomIsEnough ==
    \A idx, size, room \in Nat : size < room - 1 - idx => idx + size \in 0..(room - 1)
OBVIOUS

(* add_response stays inside m_write_buf.                                  *)
LEMMA AddResponse ==
    ASSUME NEW w \in Buffers, NEW kind \in PartKinds,
           NEW value \in Codes \cup {"keep-alive", "close", "CRLF"}
    PROVE  add_response(w, kind, value) \in Buffers
<1> DEFINE part == <<kind, value>>
           idx == w.idx
           buf == w.buf
           size == PartSize[kind]
           larger == [buf |-> Append(buf, part), idx |-> idx + size, ok |-> TRUE]
           same == [w EXCEPT !.ok = FALSE]
           fits == idx < WRITE_BUFFER_SIZE /\ size < WRITE_BUFFER_SIZE - 1 - idx
<1>1. add_response(w, kind, value) = IF fits THEN larger ELSE same
  BY DEF add_response
<1>2. size \in Nat /\ WRITE_BUFFER_SIZE \in Nat /\ idx \in Nat /\ buf \in Seq(Parts)
  <2>1. size \in Nat
    BY SizesAssumption
  <2>2. WRITE_BUFFER_SIZE \in Nat
    BY SizesAssumption
  <2>3. idx \in 0..(WRITE_BUFFER_SIZE - 1) /\ buf \in Seq(Parts)
    BY DEF Buffers
  <2> HIDE DEF idx, buf, size
  <2> QED BY <2>1, <2>2, <2>3
<1>3. idx = SizeOfParts(buf)[Len(buf)]
  BY DEF Buffers
<1>4. same \in Buffers
  BY DEF Buffers
<1>5. part \in Parts
  BY DEF Parts
<1> HIDE DEF part, idx, buf, size
<1>6. Append(buf, part) \in Seq(Parts)
  BY <1>2, <1>5, AppendProperties
<1>7. fits => idx + size \in 0..(WRITE_BUFFER_SIZE - 1)
  BY <1>2, RoomIsEnough
<1>8. SizeOfParts(Append(buf, part))[Len(Append(buf, part))] = idx + size
  <2>1. Len(Append(buf, part)) = Len(buf) + 1 /\ part[1] = kind
    BY <1>2 DEF part
  <2> QED BY <1>2, <1>5, <1>3, <2>1, SizeOfAppended DEF size
<1>9. fits => larger \in Buffers
  BY <1>6, <1>7, <1>8 DEF Buffers
<1> HIDE DEF larger, same, fits
<1> QED BY <1>1, <1>4, <1>9

(* So does the answer as a whole.                                          *)
LEMMA AnswerFits ==
    ASSUME ret \in Codes, NEW w \in Buffers
    PROVE  /\ add_headers(add_status_line(w)) \in Buffers
           /\ add_content(add_headers(add_status_line(w))) \in Buffers
<1> DEFINE status == add_status_line(w)
           length == add_response(status, "length", ret)
           linger == add_response(length, "linger", IF m_linger THEN "keep-alive" ELSE "close")
<1>0. {"status", "length", "linger", "blank", "content"} \subseteq PartKinds
  BY DEF PartKinds
<1>1. status \in Buffers
  BY <1>0, AddResponse DEF add_status_line
<1>2. length \in Buffers
  BY <1>0, <1>1, AddResponse
<1>3. linger \in Buffers
  BY <1>0, <1>2, AddResponse
<1>4. add_headers(status) = add_response(linger, "blank", "CRLF")
  BY DEF add_headers
<1> HIDE DEF status, length, linger
<1>5. add_headers(status) \in Buffers
  BY <1>0, <1>3, <1>4, AddResponse
<1>6. add_content(add_headers(status)) \in Buffers
  BY <1>0, <1>5, AddResponse DEF add_content
<1> QED BY <1>5, <1>6 DEF status

(* Two sequences one after the other.                                      *)
LEMMA Joined ==
    ASSUME NEW S, NEW T, NEW s \in Seq(S), NEW t \in Seq(T)
    PROVE  /\ s \o t \in Seq(S \cup T) /\ Len(s \o t) = Len(s) + Len(t)
           /\ \A i \in 1..Len(s) : (s \o t)[i] = s[i]
           /\ \A i \in 1..Len(t) : (s \o t)[Len(s) + i] = t[i]
<1>1. s \in Seq(S \cup T) /\ t \in Seq(S \cup T) /\ Len(s) \in Nat /\ Len(t) \in Nat
  OBVIOUS
<1>2. s \o t \in Seq(S \cup T) /\ Len(s \o t) = Len(s) + Len(t)
  BY <1>1, ConcatProperties
<1>3. \A i \in 1..(Len(s) + Len(t)) : (s \o t)[i] = IF i <= Len(s) THEN s[i] ELSE t[i - Len(s)]
  BY <1>1, ConcatProperties
<1>4. ASSUME NEW i \in 1..Len(t) PROVE (s \o t)[Len(s) + i] = t[i]
  <2>1. Len(s) + i \in 1..(Len(s) + Len(t)) /\ ~(Len(s) + i <= Len(s)) /\ (Len(s) + i) - Len(s) = i
    BY <1>1
  <2> QED BY <1>3, <2>1
<1> QED BY <1>1, <1>2, <1>3, <1>4

(* What a request is sent as.                                              *)
LEMMA BytesOfRequest ==
    ASSUME NEW q \in Requests
    PROVE  LET N == Len(q.headers)
           IN  /\ N \in Nat /\ Len(q.body) \in Nat
               /\ Len(Bytes(q)) = 3 * N + 5 + Len(q.body)
               /\ Bytes(q)[1] = q.line
               /\ \A n \in 0..(N - 1) : Bytes(q)[3 * n + 4] = q.headers[n + 1]
               /\ \A n \in 0..N : Bytes(q)[3 * n + 2] = CR /\ Bytes(q)[3 * n + 3] = LF
               /\ Bytes(q)[3 * N + 4] = CR /\ Bytes(q)[3 * N + 5] = LF
<1> DEFINE N == Len(q.headers)
           lines == <<q.line>> \o q.headers
           L == Len(lines)
           cell(i) == <<lines[(i + 2) \div 3], CR, LF>>[((i - 1) % 3) + 1]
           ended == [i \in 1..(3 * L) |-> cell(i)]
           header == ended \o <<CR, LF>>
           E == {ended[i] : i \in 1..(3 * L)}
<1>1. q.headers \in Seq(HeaderLines) /\ q.body \in Seq({Byte, CR, LF})
  BY RequestsAssumption
<1>2. /\ N \in Nat /\ Len(q.body) \in Nat /\ L = N + 1
      /\ lines[1] = q.line /\ \A n \in 1..N : lines[n + 1] = q.headers[n]
  BY <1>1
<1>3. \A n \in 0..N : cell(3 * n + 1) = lines[n + 1] /\ cell(3 * n + 2) = CR /\ cell(3 * n + 3) = LF
  <2> SUFFICES ASSUME NEW n \in 0..N
               PROVE  cell(3 * n + 1) = lines[n + 1] /\ cell(3 * n + 2) = CR /\ cell(3 * n + 3) = LF
    OBVIOUS
  <2>1. ((3 * n + 1) + 2) \div 3 = n + 1
    BY <1>2
  <2>2. /\ (((3 * n + 1) - 1) % 3) + 1 = 1
        /\ (((3 * n + 2) - 1) % 3) + 1 = 2
        /\ (((3 * n + 3) - 1) % 3) + 1 = 3
    BY <1>2
  <2> DEFINE three(x) == <<x, CR, LF>>
  <2>3. \A x : three(x)[1] = x /\ three(x)[2] = CR /\ three(x)[3] = LF
    OBVIOUS
  <2>4. \A i : cell(i) = three(lines[(i + 2) \div 3])[((i - 1) % 3) + 1]
    OBVIOUS
  <2> HIDE DEF three, lines, cell
  <2>5. cell(3 * n + 1) = three(lines[n + 1])[1]
    <3>1. cell(3 * n + 1)
             = three(lines[((3 * n + 1) + 2) \div 3])[(((3 * n + 1) - 1) % 3) + 1]
      BY <2>4, Zenon
    <3> QED BY <2>1, <2>2, <3>1, Zenon
  <2>6. cell(3 * n + 2) = three(lines[((3 * n + 2) + 2) \div 3])[2]
    <3>1. cell(3 * n + 2)
             = three(lines[((3 * n + 2) + 2) \div 3])[(((3 * n + 2) - 1) % 3) + 1]
      BY <2>4, Zenon
    <3> QED BY <2>2, <3>1, Zenon
  <2>7. cell(3 * n + 3) = three(lines[((3 * n + 3) + 2) \div 3])[3]
    <3>1. cell(3 * n + 3)
             = three(lines[((3 * n + 3) + 2) \div 3])[(((3 * n + 3) - 1) % 3) + 1]
      BY <2>4, Zenon
    <3> QED BY <2>2, <3>1, Zenon
  <2> QED BY <2>3, <2>5, <2>6, <2>7, Zenon
<1>4. /\ 3 * L = 3 * N + 3 /\ 3 * N + 4 \in 1..(3 * N + 5) /\ 3 * N + 5 \in 1..(3 * N + 5)
      /\ \A n \in 0..N : \A k \in 1..3 :
            3 * n + k \in 1..(3 * N + 3) /\ 3 * n + k \in 1..(3 * N + 5)
  BY <1>2
<1>5. ended \in Seq(E) /\ Len(ended) = 3 * L
  <2> DEFINE n == 3 * L
  <2>1. n \in Nat
    BY <1>2
  <2>2. ended \in [1..n -> {ended[i] : i \in 1..n}] /\ DOMAIN ended = 1..n
    OBVIOUS
  <2> HIDE DEF n, ended
  <2>3. ended \in Seq({ended[i] : i \in 1..n}) /\ Len(ended) = n
    BY <2>1, <2>2, SeqDef
  <2> QED BY <2>3 DEF n
<1>6. \A n \in 0..N : /\ ended[3 * n + 1] = lines[n + 1]
                      /\ ended[3 * n + 2] = CR /\ ended[3 * n + 3] = LF
  <2> HIDE DEF cell
  <2> QED BY <1>3, <1>4
<1>7. Bytes(q) = header \o q.body
  BY DEF Bytes
<1> HIDE DEF ended, lines, L, E
<1>8. /\ Len(header) = 3 * N + 5 /\ header \in Seq(E \cup {CR, LF})
       /\ \A i \in 1..(3 * N + 3) : header[i] = ended[i]
       /\ header[3 * N + 4] = CR /\ header[3 * N + 5] = LF
  <2> DEFINE empty == <<CR, LF>>
  <2>1. empty \in Seq({CR, LF}) /\ Len(empty) = 2 /\ empty[1] = CR /\ empty[2] = LF
    OBVIOUS
  <2> HIDE DEF empty
  <2>2. /\ header \in Seq(E \cup {CR, LF})
        /\ Len(header) = Len(ended) + 2
        /\ \A i \in 1..Len(ended) : header[i] = ended[i]
        /\ \A i \in 1..2 : header[Len(ended) + i] = empty[i]
    BY <1>5, <2>1, Joined DEF empty
  <2>3. Len(ended) = 3 * N + 3
    BY <1>2, <1>5
  <2>4. Len(ended) + 1 = 3 * N + 4 /\ Len(ended) + 2 = 3 * N + 5
    BY <1>2, <2>3
  <2> HIDE DEF header
  <2> QED BY <2>1, <2>2, <2>3, <2>4
<1> HIDE DEF header
<1>9. /\ Len(Bytes(q)) = 3 * N + 5 + Len(q.body)
       /\ \A i \in 1..(3 * N + 5) : Bytes(q)[i] = header[i]
  <2>1. /\ Len(header \o q.body) = Len(header) + Len(q.body)
        /\ \A i \in 1..Len(header) : (header \o q.body)[i] = header[i]
    <3> DEFINE H == E \cup {CR, LF}
               B == {Byte, CR, LF}
               body == q.body
    <3>1. header \in Seq(H) /\ body \in Seq(B)
      BY <1>1, <1>8
    <3> HIDE DEF H, B, body
    <3>2. /\ Len(header \o body) = Len(header) + Len(body)
          /\ \A i \in 1..Len(header) : (header \o body)[i] = header[i]
      BY <3>1, Joined
    <3> QED BY <3>2 DEF body
  <2> QED BY <1>7, <1>8, <2>1
<1>10. \A n \in 0..N : /\ Bytes(q)[3 * n + 1] = lines[n + 1]
                       /\ Bytes(q)[3 * n + 2] = CR /\ Bytes(q)[3 * n + 3] = LF
  <2> SUFFICES ASSUME NEW n \in 0..N
               PROVE  /\ Bytes(q)[3 * n + 1] = lines[n + 1]
                      /\ Bytes(q)[3 * n + 2] = CR /\ Bytes(q)[3 * n + 3] = LF
    OBVIOUS
  <2>1. \A k \in 1..3 : 3 * n + k \in 1..(3 * N + 3) /\ 3 * n + k \in 1..(3 * N + 5)
    BY <1>4
  <2>2. \A k \in 1..3 : Bytes(q)[3 * n + k] = ended[3 * n + k]
    BY <1>8, <1>9, <2>1
  <2>3. 1 \in 1..3 /\ 2 \in 1..3 /\ 3 \in 1..3
    OBVIOUS
  <2>4. /\ Bytes(q)[3 * n + 1] = ended[3 * n + 1]
        /\ Bytes(q)[3 * n + 2] = ended[3 * n + 2]
        /\ Bytes(q)[3 * n + 3] = ended[3 * n + 3]
    BY <2>2, <2>3, Zenon
  <2>5. /\ ended[3 * n + 1] = lines[n + 1]
        /\ ended[3 * n + 2] = CR /\ ended[3 * n + 3] = LF
    BY <1>6, Zenon
  <2> QED BY <2>4, <2>5
<1>11. Bytes(q)[3 * N + 4] = CR /\ Bytes(q)[3 * N + 5] = LF
  <2>1. Bytes(q)[3 * N + 4] = header[3 * N + 4] /\ Bytes(q)[3 * N + 5] = header[3 * N + 5]
    BY <1>4, <1>9, Zenon
  <2> QED BY <1>8, <2>1
<1>12. Bytes(q)[1] = q.line
  BY <1>2, <1>10
<1>13. ASSUME NEW n \in 0..(N - 1) PROVE Bytes(q)[3 * n + 4] = q.headers[n + 1]
  <2>1. n + 1 \in 0..N /\ n + 1 \in 1..N /\ 3 * (n + 1) + 1 = 3 * n + 4
    BY <1>2
  <2> QED BY <1>2, <1>10, <2>1
<1> QED BY <1>2, <1>9, <1>10, <1>11, <1>12, <1>13

(* Lines are told from line ends.                                          *)
LEMMA LinesAreNotEnds ==
    /\ \A cell \in RequestLines \cup HeaderLines : cell \notin {CR, LF, NUL}
    /\ \A cell \in HeaderLines : cell[1] = "keep-alive" <=> cell = <<"keep-alive">>
    /\ CR # LF
<1>1. \A cell \in RequestLines \cup HeaderLines : cell[1] \notin {"CR", "LF", "NUL"}
  <2>1. \A cell \in RequestLines : cell[1] \in {"request", "bad"}
    BY DEF RequestLines
  <2>2. \A cell \in HeaderLines : cell[1] \in {"keep-alive", "other", "length"}
    BY DEF HeaderLines
  <2> QED BY <2>1, <2>2
<1>2. \A cell \in {CR, LF, NUL} : cell[1] \in {"CR", "LF", "NUL"}
  BY DEF CR, LF, NUL
<1>3. \A cell \in HeaderLines : cell[1] = "keep-alive" <=> cell = <<"keep-alive">>
  BY DEF HeaderLines
<1>4. CR # LF
  BY DEF CR, LF
<1> QED BY <1>1, <1>2, <1>3, <1>4

(* Each header line that declares a length takes the place of those        *)
(* before.                                                                 *)
LEMMA LengthDeclared ==
    ASSUME NEW headers, NEW n \in Nat
    PROVE  /\ DeclaredLength(headers, 0) = 0
           /\ DeclaredLength(headers, n + 1) =
                 IF headers[n + 1][1] = "length" THEN headers[n + 1][2]
                 ELSE DeclaredLength(headers, n)
<1> DEFINE declaring(m) == {i \in 1..m : headers[i][1] = "length"}
           last(m) == CHOOSE i \in declaring(m) : \A k \in declaring(m) : k <= i
<1>1. \A m \in Nat : DeclaredLength(headers, m)
                        = IF declaring(m) = {} THEN 0 ELSE headers[last(m)][2]
  BY DEF DeclaredLength
<1>2. declaring(0) = {}
  OBVIOUS
<1>3. CASE headers[n + 1][1] = "length"
  <2>1. n + 1 \in declaring(n + 1) /\ \A k \in declaring(n + 1) : k <= n + 1
    BY <1>3
  <2>2. \A i \in declaring(n + 1) : (\A k \in declaring(n + 1) : k <= i) => i = n + 1
    BY <2>1
  <2>3. last(n + 1) = n + 1
    <3> DEFINE D == declaring(n + 1)
    <3>1. \E i \in D : \A k \in D : k <= i
      BY <2>1
    <3>2. \A i \in D : (\A k \in D : k <= i) => i = n + 1
      BY <2>2
    <3> HIDE DEF D
    <3>3. (CHOOSE i \in D : \A k \in D : k <= i) = n + 1
      BY <3>1, <3>2
    <3> QED BY <3>3 DEF D
  <2>4. declaring(n + 1) # {}
    BY <2>1
  <2> HIDE DEF declaring, last
  <2> QED BY <1>1, <1>2, <1>3, <2>3, <2>4
<1>4. CASE headers[n + 1][1] # "length"
  <2>1. declaring(n + 1) = declaring(n)
    <3>1. \A i \in 1..(n + 1) : i = n + 1 \/ i \in 1..n
      OBVIOUS
    <3> QED BY <1>4, <3>1
  <2> QED BY <1>1, <1>2, <1>4, <2>1
<1> QED BY <1>3, <1>4

(* One header line more that may ask for the connection to be kept.        *)
LEMMA LingerAskedFor ==
    ASSUME NEW headers, NEW n \in Nat
    PROVE  /\ ~LingerAsked(headers, 0)
           /\ LingerAsked(headers, n + 1) <=>
                 LingerAsked(headers, n) \/ headers[n + 1] = <<"keep-alive">>
<1>1. \A i \in 1..(n + 1) : i = n + 1 \/ i \in 1..n
  OBVIOUS
<1>2. n + 1 \in 1..(n + 1) /\ \A i \in 1..n : i \in 1..(n + 1)
  OBVIOUS
<1> QED BY <1>1, <1>2 DEF LingerAsked

(* parse_line finds the CR LF that comes first.                            *)
LEMMA LineIsFound ==
    ASSUME TypeOK, parse_line, NEW i \in Nat, m_checked_idx <= i, i + 1 < m_read_idx,
           m_read_buf[i] = CR, m_read_buf[i + 1] = LF,
           \A j \in m_checked_idx..(i - 1) : m_read_buf[j] \notin {CR, LF}
    PROVE  TakeLine(i)
<1>1. m_checked_idx \in Nat /\ m_read_idx \in Nat
  BY DEF TypeOK
<1>2. i \in LineEnds
  BY <1>1 DEF LineEnds
<1>3. \A k \in LineEnds : k = i
  <2> SUFFICES ASSUME NEW k \in LineEnds, k # i PROVE FALSE
    OBVIOUS
  <2>1. /\ k \in m_checked_idx..(m_read_idx - 1) /\ m_read_buf[k] \in {CR, LF}
        /\ \A j \in m_checked_idx..(k - 1) : m_read_buf[j] \notin {CR, LF}
    BY DEF LineEnds
  <2>2. CASE k < i
    BY <1>1, <2>1, <2>2
  <2>3. CASE i < k
    BY <1>1, <2>1, <2>3
  <2> QED BY <1>1, <2>1, <2>2, <2>3
<1>4. m_read_buf[i] # LF
  BY LinesAreNotEnds
<1> QED BY <1>2, <1>3, <1>4 DEF parse_line

(* A part that fits is appended.                                           *)
LEMMA PartAppended ==
    ASSUME NEW buf, NEW idx, NEW kind, NEW value,
           idx < WRITE_BUFFER_SIZE, PartSize[kind] < WRITE_BUFFER_SIZE - 1 - idx
    PROVE  add_response([buf |-> buf, idx |-> idx, ok |-> TRUE], kind, value)
              = [buf |-> Append(buf, <<kind, value>>), idx |-> idx + PartSize[kind],
                 ok |-> TRUE]
BY DEF add_response

(* What is appended to a sequence makes one that is longer by one.         *)
LEMMA AppendIs ==
    ASSUME NEW S, NEW s \in Seq(S), NEW e \in S, NEW t \in Seq(S), Len(t) = Len(s) + 1,
           \A i \in 1..Len(s) : t[i] = s[i], t[Len(s) + 1] = e
    PROVE  Append(s, e) = t
<1> DEFINE a == Append(s, e)
<1>1. /\ a \in Seq(S) /\ Len(a) = Len(s) + 1 /\ Len(s) \in Nat
      /\ \A i \in 1..Len(s) : a[i] = s[i]
      /\ a[Len(s) + 1] = e
  BY AppendProperties
<1>2. \A i \in 1..Len(a) : i \in 1..Len(s) \/ i = Len(s) + 1
  BY <1>1
<1> HIDE DEF a
<1>3. a = t
  BY <1>1, <1>2, SeqEqual
<1> QED BY <1>3 DEF a

(* Five elements, one after the other.                                     *)
LEMMA Appends ==
    ASSUME NEW p, NEW q, NEW r, NEW s, NEW t
    PROVE  /\ Append(<<>>, p) = <<p>>
           /\ Append(<<p>>, q) = <<p, q>>
           /\ Append(<<p, q>>, r) = <<p, q, r>>
           /\ Append(<<p, q, r>>, s) = <<p, q, r, s>>
           /\ Append(<<p, q, r, s>>, t) = <<p, q, r, s>> \o <<t>>
<1> DEFINE S == {p, q, r, s, t}
<1>1. Append(<<>>, p) = <<p>>
  OBVIOUS
<1>2. Append(<<p>>, q) = <<p, q>>
  <2> DEFINE u == <<p>>
             v == <<p, q>>
  <2>1. u \in Seq(S) /\ v \in Seq(S) /\ q \in S /\ Len(u) = 1 /\ Len(v) = 2
    OBVIOUS
  <2>2. v[2] = q /\ v[1] = u[1]
    OBVIOUS
  <2> HIDE DEF u, v, S
  <2>3. Len(v) = Len(u) + 1 /\ v[Len(u) + 1] = q
    BY <2>1, <2>2
  <2>4. \A i \in 1..Len(u) : v[i] = u[i]
    <3>1. \A i \in 1..1 : i = 1
      OBVIOUS
    <3> QED BY <2>1, <2>2, <3>1
  <2>5. Append(u, q) = v
    BY <2>1, <2>3, <2>4, AppendIs
  <2> QED BY <2>5 DEF u, v
<1>3. Append(<<p, q>>, r) = <<p, q, r>>
  <2> DEFINE u == <<p, q>>
             v == <<p, q, r>>
  <2>1. u \in Seq(S) /\ v \in Seq(S) /\ r \in S /\ Len(u) = 2 /\ Len(v) = 3
    OBVIOUS
  <2>2. v[3] = r /\ v[1] = u[1] /\ v[2] = u[2]
    OBVIOUS
  <2> HIDE DEF u, v, S
  <2>3. Len(v) = Len(u) + 1 /\ v[Len(u) + 1] = r
    BY <2>1, <2>2
  <2>4. \A i \in 1..Len(u) : v[i] = u[i]
    <3>1. \A i \in 1..2 : i = 1 \/ i = 2
      OBVIOUS
    <3> QED BY <2>1, <2>2, <3>1
  <2>5. Append(u, r) = v
    BY <2>1, <2>3, <2>4, AppendIs
  <2> QED BY <2>5 DEF u, v
<1>4. Append(<<p, q, r>>, s) = <<p, q, r, s>>
  <2> DEFINE u == <<p, q, r>>
             v == <<p, q, r, s>>
  <2>1. u \in Seq(S) /\ v \in Seq(S) /\ s \in S /\ Len(u) = 3 /\ Len(v) = 4
    OBVIOUS
  <2>2. v[4] = s /\ v[1] = u[1] /\ v[2] = u[2] /\ v[3] = u[3]
    OBVIOUS
  <2> HIDE DEF u, v, S
  <2>3. Len(v) = Len(u) + 1 /\ v[Len(u) + 1] = s
    BY <2>1, <2>2
  <2>4. \A i \in 1..Len(u) : v[i] = u[i]
    <3>1. \A i \in 1..3 : i = 1 \/ i = 2 \/ i = 3
      OBVIOUS
    <3> QED BY <2>1, <2>2, <3>1
  <2>5. Append(u, s) = v
    BY <2>1, <2>3, <2>4, AppendIs
  <2> QED BY <2>5 DEF u, v
<1>5. Append(<<p, q, r, s>>, t) = <<p, q, r, s>> \o <<t>>
  <2>1. <<p, q, r, s>> \in Seq(S) /\ t \in S
    OBVIOUS
  <2> HIDE DEF S
  <2> QED BY <2>1, AppendIsConcat
<1> QED BY <1>1, <1>2, <1>3, <1>4, <1>5
(* An answer that is written to an empty buffer.                           *)
LEMMA AnswerComposed ==
    ASSUME NEW w, w = [buf |-> <<>>, idx |-> 0, ok |-> TRUE]
    PROVE  LET linger == IF m_linger THEN "keep-alive" ELSE "close"
               parts == << <<"status", ret>>, <<"length", ret>>, <<"linger", linger>>,
                           <<"blank", "CRLF">> >>
               header == add_headers(add_status_line(w))
               full == add_content(header)
           IN  /\ header.buf = parts
               /\ full.ok => full.buf = parts \o << <<"content", ret>> >>
<1> DEFINE linger == IF m_linger THEN "keep-alive" ELSE "close"
           a == PartSize["status"]
           b == a + PartSize["length"]
           c == b + PartSize["linger"]
           d == c + PartSize["blank"]
           p == <<"status", ret>>
           q == <<"length", ret>>
           r == <<"linger", linger>>
           s == <<"blank", "CRLF">>
           t == <<"content", ret>>
           one == <<p>>
           two == <<p, q>>
           three == <<p, q, r>>
           four == <<p, q, r, s>>
<1>1. /\ 0 < WRITE_BUFFER_SIZE /\ PartSize["status"] < WRITE_BUFFER_SIZE - 1 - 0
      /\ a < WRITE_BUFFER_SIZE /\ PartSize["length"] < WRITE_BUFFER_SIZE - 1 - a
      /\ b < WRITE_BUFFER_SIZE /\ PartSize["linger"] < WRITE_BUFFER_SIZE - 1 - b
      /\ c < WRITE_BUFFER_SIZE /\ PartSize["blank"] < WRITE_BUFFER_SIZE - 1 - c
      /\ 0 + a = a
  <2>1. {"status", "length", "linger", "blank"} \subseteq PartKinds
    BY DEF PartKinds
  <2> QED BY <2>1, SizesAssumption, HeaderFitsAssumption
<1>2. /\ Append(<<>>, p) = one /\ Append(one, q) = two /\ Append(two, r) = three
      /\ Append(three, s) = four /\ Append(four, t) = four \o <<t>>
  <2> HIDE DEF p, q, r, s, t
  <2> QED BY Appends
<1> HIDE DEF linger, a, b, c, d, one, two, three, four
<1>3. add_status_line(w) = [buf |-> one, idx |-> a, ok |-> TRUE]
  <2>1. add_response([buf |-> <<>>, idx |-> 0, ok |-> TRUE], "status", ret)
           = [buf |-> Append(<<>>, p), idx |-> 0 + PartSize["status"], ok |-> TRUE]
    BY <1>1, PartAppended
  <2> QED BY <1>1, <1>2, <2>1 DEF add_status_line, a
<1>4. add_response(add_status_line(w), "length", ret) = [buf |-> two, idx |-> b, ok |-> TRUE]
  <2>1. add_response([buf |-> one, idx |-> a, ok |-> TRUE], "length", ret)
           = [buf |-> Append(one, q), idx |-> a + PartSize["length"], ok |-> TRUE]
    BY <1>1, PartAppended
  <2> QED BY <1>2, <1>3, <2>1 DEF b
<1>5. add_response(add_response(add_status_line(w), "length", ret), "linger", linger)
         = [buf |-> three, idx |-> c, ok |-> TRUE]
  <2>1. add_response([buf |-> two, idx |-> b, ok |-> TRUE], "linger", linger)
           = [buf |-> Append(two, r), idx |-> b + PartSize["linger"], ok |-> TRUE]
    BY <1>1, PartAppended
  <2> QED BY <1>2, <1>4, <2>1 DEF c
<1>6. add_headers(add_status_line(w)) = [buf |-> four, idx |-> d, ok |-> TRUE]
  <2>1. add_response([buf |-> three, idx |-> c, ok |-> TRUE], "blank", "CRLF")
           = [buf |-> Append(three, s), idx |-> c + PartSize["blank"], ok |-> TRUE]
    BY <1>1, PartAppended
  <2> QED BY <1>2, <1>5, <2>1 DEF add_headers, linger, d
<1>7. LET full == add_content(add_headers(add_status_line(w)))
      IN  full.ok => full.buf = four \o <<t>>
  <2> DEFINE h == [buf |-> four, idx |-> d, ok |-> TRUE]
             full == add_response(h, "content", ret)
             fits == d < WRITE_BUFFER_SIZE /\ PartSize["content"] < WRITE_BUFFER_SIZE - 1 - d
  <2>1. full = IF fits THEN [buf |-> Append(four, t), idx |-> d + PartSize["content"], ok |-> TRUE]
                       ELSE [h EXCEPT !.ok = FALSE]
    BY DEF add_response
  <2>2. [h EXCEPT !.ok = FALSE].ok = FALSE
    OBVIOUS
  <2> HIDE DEF full, fits, h, t
  <2>3. full.ok => full.buf = Append(four, t)
    BY <2>1, <2>2
  <2> QED BY <1>2, <1>6, <2>3 DEF add_content, full, h
<1> QED BY <1>6, <1>7 DEF four, linger

-----------------------------------------------------------------------------
(* The steps.                                                              *)

(* init() clears everything, so what is cleared satisfies the invariant.   *)
LEMMA ClearedBuffer ==
    /\ Cleared \in [0..(READ_BUFFER_SIZE - 1) -> Cells]
    /\ <<>> \in Seq(PartKinds \X (Codes \cup {"keep-alive", "close", "CRLF"}))
BY DEF Cleared, Cells

(* No length is an int.                                                    *)
LEMMA NoLength == 0 \in (-INT_MAX - 1)..INT_MAX
BY SizesAssumption

(* A connection starts with a parser that was reset.                       *)
LEMMA JobInit == Init => JobInv
<1> SUFFICES ASSUME Init PROVE JobInv
  OBVIOUS
<1>1. todo \in Seq(Cells)
  BY BytesAreCells DEF Init
<1>2. TypeOK
  BY <1>1, ClearedBuffer, NoLength
     DEF Init, TypeOK, CheckStates, Methods, Steps, Codes, NoUrl
<1>3. ParserIndices
  BY SizesAssumption DEF Init, ParserIndices
<1>4. WriteBufferBounded
  BY SizesAssumption, EmptyBuffer DEF Init, WriteBufferBounded
<1>5. UrlIsSet /\ MappingIsReleased /\ MappedForAnswer
  BY DEF Init, UrlIsSet, MappingIsReleased, MappedForAnswer
<1> QED BY <1>2, <1>3, <1>4, <1>5 DEF JobInv

(* A piece of input is copied to where m_read_buf begins.                  *)
LEMMA ReadStep ==
    ASSUME JobInv, NEW k \in 1..READ_BUFFER_SIZE, ReadEventCb(k)
    PROVE  JobInv'
<1>1. TypeOK /\ pc = "idle"
  BY DEF JobInv, ReadEventCb
<1>2. k \in 1..Len(todo) /\ m_read_idx' = m_read_idx + k
  BY <1>1 DEF ReadEventCb, TypeOK
<1>3. m_read_buf' \in [0..(READ_BUFFER_SIZE - 1) -> Cells]
  <2>1. CASE m_read_buf' = [i \in DOMAIN m_read_buf |->
                              IF i < k THEN todo[i + 1] ELSE m_read_buf[i]]
    <3>1. \A i \in 0..(READ_BUFFER_SIZE - 1) : i < k => todo[i + 1] \in Cells
      BY <1>1, <1>2 DEF TypeOK
    <3> QED BY <1>1, <2>1, <3>1 DEF TypeOK
  <2>2. CASE UNCHANGED m_read_buf
    BY <1>1, <2>2 DEF TypeOK
  <2> QED BY <2>1, <2>2 DEF ReadEventCb
<1>4. todo' \in Seq(Cells)
  BY <1>1, <1>2 DEF ReadEventCb, TypeOK
<1>5. /\ pc' \in {"read", "undefined"} /\ line_status' = "LINE_OK" /\ whole' \in BOOLEAN
      /\ pc' # "undefined" => m_read_idx' <= READ_BUFFER_SIZE
      /\ m_read_idx' \in Nat
  BY <1>1, <1>2 DEF ReadEventCb, TypeOK
<1>6. UNCHANGED <<m_checked_idx, m_start_line, parser, output, m_file_address, ret, request>>
  BY DEF ReadEventCb
<1>7. TypeOK'
  BY <1>1, <1>3, <1>4, <1>5, <1>6 DEF TypeOK, parser, output, Steps
<1>8. ParserIndices'
  BY <1>1, <1>2, <1>5, <1>6 DEF JobInv, ParserIndices, TypeOK, parser
<1>9. UrlIsSet' /\ MappingIsReleased' /\ MappedForAnswer' /\ WriteBufferBounded'
  BY <1>1, <1>5, <1>6
     DEF JobInv, UrlIsSet, MappingIsReleased, MappedForAnswer, WriteBufferBounded, parser, output
<1> QED BY <1>7, <1>8, <1>9 DEF JobInv

(* parse_line stays between the bytes that were checked and those that     *)
(* were received.                                                          *)
LEMMA ParseLineStep == JobInv /\ parse_line => JobInv'
<1> SUFFICES ASSUME JobInv, parse_line PROVE JobInv'
  OBVIOUS
<1>1. TypeOK /\ ParserIndices /\ pc = "read" /\ READ_BUFFER_SIZE \in Nat
  BY SizesAssumption DEF JobInv, parse_line
<1>2. UNCHANGED <<m_read_idx, m_start_line, parser, output, m_file_address, ret, client>>
  BY DEF parse_line
<1>3. ASSUME NEW i \in m_checked_idx..m_read_idx, LeaveLine(i)
      PROVE  JobInv'
  <2>1. TypeOK'
    BY <1>1, <1>2, <1>3 DEF LeaveLine, TypeOK, parser, output, client, Steps
  <2>2. ParserIndices'
    BY <1>1, <1>2, <1>3 DEF LeaveLine, TypeOK, ParserIndices, parser
  <2>3. UrlIsSet' /\ MappingIsReleased' /\ MappedForAnswer' /\ WriteBufferBounded'
    BY <1>1, <1>2, <1>3
       DEF LeaveLine, JobInv, UrlIsSet, MappingIsReleased, MappedForAnswer,
           WriteBufferBounded, parser, output
  <2> QED BY <2>1, <2>2, <2>3 DEF JobInv
<1>4. ASSUME NEW i \in Nat, TakeLine(i), m_checked_idx < i + 2, i + 2 <= m_read_idx
      PROVE  JobInv'
  <2>1. TypeOK'
    <3>1. m_read_buf' \in [0..(READ_BUFFER_SIZE - 1) -> Cells]
      BY <1>1, <1>4 DEF TakeLine, TypeOK, Cells
    <3> QED BY <1>1, <1>2, <1>4, <3>1 DEF TakeLine, TypeOK, parser, output, client, Steps
  <2>2. ParserIndices'
    BY <1>1, <1>2, <1>4 DEF TakeLine, TypeOK, ParserIndices, parser
  <2>3. UrlIsSet' /\ MappingIsReleased' /\ MappedForAnswer' /\ WriteBufferBounded'
    BY <1>1, <1>2, <1>4
       DEF TakeLine, JobInv, UrlIsSet, MappingIsReleased, MappedForAnswer,
           WriteBufferBounded, parser, output
  <2> QED BY <2>1, <2>2, <2>3 DEF JobInv
<1>5. /\ m_checked_idx \in Nat /\ m_read_idx \in Nat
      /\ m_checked_idx <= m_read_idx /\ m_read_idx <= READ_BUFFER_SIZE
  BY <1>1 DEF TypeOK, ParserIndices
<1>6. CASE LeaveLine(m_read_idx)
  BY <1>3, <1>5, <1>6
<1>7. CASE \E i \in LineEnds : LeaveLine(i)
  BY <1>3, <1>5, <1>7 DEF LineEnds
<1>8. CASE \E i \in LineEnds : i + 1 < m_read_idx /\ TakeLine(i)
  BY <1>4, <1>5, <1>8 DEF LineEnds
<1>9. CASE \E i \in LineEnds : i > 1 /\ TakeLine(i - 1)
  <2>1. PICK i \in LineEnds : i > 1 /\ TakeLine(i - 1)
    BY <1>9
  <2>2. /\ i - 1 \in Nat /\ m_checked_idx < (i - 1) + 2 /\ (i - 1) + 2 <= m_read_idx
    BY <1>5, <2>1 DEF LineEnds
  <2> QED BY <1>4, <2>1, <2>2
<1> QED BY <1>6, <1>7, <1>8, <1>9 DEF parse_line

(* The line that was found is one of the cells that were checked.          *)
LEMMA TextIsACell ==
    ASSUME TypeOK, ParserIndices, pc = "line"
    PROVE  Text \in Cells
BY SizesAssumption DEF TypeOK, ParserIndices, Text

(* A request line: its target lies before the next line.                   *)
LEMMA RequestLineStep == JobInv /\ parse_request_line => JobInv'
<1> SUFFICES ASSUME JobInv, parse_request_line PROVE JobInv'
  OBVIOUS
<1>1. TypeOK /\ ParserIndices /\ UrlIsSet /\ pc = "line" /\ m_check_state = "REQUESTLINE"
  BY DEF JobInv, parse_request_line, NextLine
<1>2. /\ m_start_line' = m_checked_idx
      /\ UNCHANGED <<m_read_buf, m_read_idx, m_checked_idx, output, m_file_address,
                     line_status, client, m_content_length, m_linger>>
  BY DEF parse_request_line, NextLine
<1>3. /\ m_method' \in Methods
      /\ m_url' \in {NoUrl, m_start_line}
      /\ pc' \in {"read", "respond"} /\ ret' \in Codes
      /\ m_check_state' \in CheckStates
      /\ m_check_state' # "REQUESTLINE" => m_url' = m_start_line
  <2>1. Text[1] = "request" => Text[2] \in Methods
    BY <1>1, TextIsACell, CellParts
  <2> QED BY <1>1, <2>1 DEF parse_request_line, TypeOK, CheckStates, Codes
<1>4. TypeOK'
  BY <1>1, <1>2, <1>3 DEF TypeOK, output, client, Steps
<1>5. ParserIndices'
  BY <1>1, <1>2, <1>3 DEF TypeOK, ParserIndices, NoUrl
<1>6. UrlIsSet'
  BY <1>1, <1>3 DEF TypeOK, UrlIsSet, NoUrl
<1>7. m_file_address' # "file" /\ WriteBufferBounded'
  BY <1>1, <1>2 DEF JobInv, MappingIsReleased, WriteBufferBounded, output
<1> QED BY <1>4, <1>5, <1>6, <1>7 DEF JobInv, MappingIsReleased, MappedForAnswer

(* A header line.                                                          *)
LEMMA HeaderStep == JobInv /\ parse_headers => JobInv'
<1> SUFFICES ASSUME JobInv, parse_headers PROVE JobInv'
  OBVIOUS
<1>1. TypeOK /\ ParserIndices /\ UrlIsSet /\ pc = "line" /\ m_check_state = "HEADER"
  BY DEF JobInv, parse_headers, NextLine
<1>2. /\ m_start_line' = m_checked_idx
      /\ UNCHANGED <<m_read_buf, m_read_idx, m_checked_idx, output, m_file_address,
                     line_status, client, m_method, m_url, ret>>
  BY DEF parse_headers, NextLine
<1>3. /\ m_linger' \in BOOLEAN /\ m_content_length' \in (-INT_MAX - 1)..INT_MAX
      /\ m_check_state' \in {"HEADER", "CONTENT"} /\ pc' \in {"read", "request"}
  <2>1. CASE EndOfHeader
    BY <1>1, <2>1 DEF EndOfHeader, TypeOK
  <2>2. CASE HeaderField
    <3>1. Text[1] = "length" => ToInt(Text[2]) \in (-INT_MAX - 1)..INT_MAX
      BY <1>1, TextIsACell, CellParts, IntegersFit
    <3>2. /\ m_linger' \in BOOLEAN
          /\ m_content_length' \in {m_content_length}
                \cup (IF Text[1] = "length" THEN {ToInt(Text[2])} ELSE {})
          /\ m_check_state' = "HEADER" /\ pc' = "read"
      BY <1>1, <2>2 DEF HeaderField, TypeOK
    <3> QED BY <1>1, <3>1, <3>2 DEF TypeOK
  <2> QED BY <2>1, <2>2 DEF parse_headers
<1>4. TypeOK'
  BY <1>1, <1>2, <1>3 DEF TypeOK, output, client, Steps, CheckStates
<1>5. ParserIndices'
  BY <1>1, <1>2, <1>3 DEF TypeOK, ParserIndices
<1>6. UrlIsSet'
  BY <1>1, <1>2, <1>3 DEF UrlIsSet
<1>7. m_file_address' # "file" /\ WriteBufferBounded'
  BY <1>1, <1>2 DEF JobInv, MappingIsReleased, WriteBufferBounded, output
<1> QED BY <1>4, <1>5, <1>6, <1>7 DEF JobInv, MappingIsReleased, MappedForAnswer

(* A body, which moves neither index of the parser past the other.         *)
LEMMA ContentStep == JobInv /\ parse_content => JobInv'
<1> SUFFICES ASSUME JobInv, parse_content PROVE JobInv'
  OBVIOUS
<1>1. /\ TypeOK /\ ParserIndices /\ UrlIsSet
      /\ m_check_state = "CONTENT" /\ pc \in {"line", "read"}
  BY DEF JobInv, parse_content
<1>2. /\ m_start_line' = m_checked_idx
      /\ UNCHANGED <<m_read_idx, m_checked_idx, parser, output, m_file_address, ret, client>>
  BY DEF parse_content
<1>3. /\ pc' \in {"request", "read", "undefined"} /\ line_status' \in {"LINE_OK", "LINE_OPEN"}
      /\ m_read_buf' \in [0..(READ_BUFFER_SIZE - 1) -> Cells]
  BY <1>1 DEF parse_content, TakeBody, AwaitBody, OverflowBody, TypeOK, Cells
<1>4. TypeOK'
  BY <1>1, <1>2, <1>3 DEF TypeOK, parser, output, client, Steps
<1>5. ParserIndices'
  BY <1>1, <1>2, <1>3 DEF TypeOK, ParserIndices, parser
<1>6. UrlIsSet'
  BY <1>1, <1>2, <1>3 DEF UrlIsSet, parser
<1>7. m_file_address' # "file" /\ WriteBufferBounded'
  BY <1>1, <1>2 DEF JobInv, MappingIsReleased, WriteBufferBounded, output
<1> QED BY <1>4, <1>5, <1>6, <1>7 DEF JobInv, MappingIsReleased, MappedForAnswer

(* The target is looked up, and mapped if it is a file.                    *)
LEMMA RequestStep == JobInv /\ do_request => JobInv'
<1> SUFFICES ASSUME JobInv, do_request PROVE JobInv'
  OBVIOUS
<1>1. TypeOK /\ ParserIndices /\ UrlIsSet /\ pc = "request" /\ pc' = "respond"
  BY DEF JobInv, do_request
<1>2. UNCHANGED <<buffer, parser, output, line_status, client>>
  BY DEF do_request
<1>3. /\ ret' \in Codes
      /\ m_file_address' \in {"NULL", "garbage", "file", "failed", "empty"}
      /\ m_file_address' = "file" => ret' = "FILE_REQUEST"
  BY <1>1 DEF do_request, JobInv, TypeOK, Codes, MappingIsReleased
<1>4. TypeOK'
  BY <1>1, <1>2, <1>3 DEF TypeOK, buffer, parser, output, client, Steps
<1>5. ParserIndices' /\ UrlIsSet'
  BY <1>1, <1>2 DEF ParserIndices, UrlIsSet, buffer, parser
<1>6. MappingIsReleased' /\ MappedForAnswer' /\ WriteBufferBounded'
  BY <1>1, <1>2, <1>3
     DEF JobInv, MappingIsReleased, MappedForAnswer, WriteBufferBounded, output
<1> QED BY <1>4, <1>5, <1>6 DEF JobInv

(* The answer is composed, inside m_write_buf.                             *)
LEMMA AnswerStep == JobInv /\ process_write => JobInv'
<1> SUFFICES ASSUME JobInv, process_write PROVE JobInv'
  OBVIOUS
<1>1. /\ TypeOK /\ ParserIndices /\ UrlIsSet /\ MappedForAnswer
      /\ WriteBufferBounded /\ pc = "respond"
  BY DEF JobInv, process_write
<1>2. UNCHANGED <<buffer, parser, m_file_address, line_status, ret, client>>
  BY DEF process_write
<1> DEFINE written == [buf |-> m_write_buf, idx |-> m_write_idx, ok |-> TRUE]
           header == add_headers(add_status_line(written))
           full == add_content(header)
<1>3. written \in Buffers
  <2>1. m_write_idx \in 0..(WRITE_BUFFER_SIZE - 1)
    BY <1>1, SizesAssumption DEF TypeOK, WriteBufferBounded
  <2>2. m_write_buf \in Seq(Parts)
    BY <1>1 DEF TypeOK, Parts
  <2>3. m_write_idx = SizeOfParts(m_write_buf)[Len(m_write_buf)]
    BY <1>1 DEF WriteBufferBounded
  <2> QED BY <2>1, <2>2, <2>3 DEF Buffers
<1>4. header \in Buffers /\ full \in Buffers
  BY <1>1, <1>3, AnswerFits DEF TypeOK
<1>5. /\ Written(header) \/ Written(full)
      /\ pc' \in {"write", "undefined"}
  BY <1>1 DEF process_write, MappedForAnswer
<1>6. /\ m_write_buf' \in Seq(Parts) /\ m_write_idx' \in 0..(WRITE_BUFFER_SIZE - 1)
      /\ m_write_idx' = SizeOfParts(m_write_buf')[Len(m_write_buf')]
  <2> HIDE DEF header, full
  <2> QED BY <1>4, <1>5 DEF Written, Buffers
<1>7. TypeOK'
  BY <1>1, <1>2, <1>5, <1>6, SizesAssumption DEF TypeOK, buffer, parser, client, Steps, Parts
<1>8. ParserIndices' /\ UrlIsSet'
  BY <1>1, <1>2, <1>5 DEF ParserIndices, UrlIsSet, buffer, parser
<1>9. MappingIsReleased' /\ MappedForAnswer'
  BY <1>1, <1>2, <1>5 DEF MappingIsReleased, MappedForAnswer
<1>10. WriteBufferBounded'
  BY <1>6, SizesAssumption DEF WriteBufferBounded
<1> QED BY <1>7, <1>8, <1>9, <1>10 DEF JobInv

(* write() unmaps the file, and starts over if the connection is kept.     *)
LEMMA WriteStep == JobInv /\ write => JobInv'
<1> SUFFICES ASSUME JobInv, write PROVE JobInv'
  OBVIOUS
<1>1. TypeOK /\ ParserIndices /\ UrlIsSet /\ pc = "write" /\ WriteBufferBounded
  BY DEF JobInv, write
<1>2. /\ UNCHANGED <<line_status, ret, request, todo>>
      /\ pc' \in {"idle", "undefined"} /\ whole' \in BOOLEAN
      /\ m_file_address' \in {"NULL", "garbage", "failed"}
  BY <1>1 DEF write, TypeOK
<1>3. CASE init
  <2>1. TypeOK'
    BY <1>1, <1>2, <1>3, ClearedBuffer, NoLength
       DEF init, TypeOK, CheckStates, Methods, Steps, NoUrl
  <2>2. ParserIndices' /\ UrlIsSet' /\ WriteBufferBounded'
    BY <1>2, <1>3, SizesAssumption, EmptyBuffer
       DEF init, ParserIndices, UrlIsSet, WriteBufferBounded
  <2> QED BY <1>2, <2>1, <2>2 DEF JobInv, MappingIsReleased, MappedForAnswer
<1>4. CASE UNCHANGED <<buffer, parser, output>>
  <2>1. TypeOK'
    BY <1>1, <1>2, <1>4 DEF TypeOK, buffer, parser, output, Steps
  <2>2. ParserIndices' /\ UrlIsSet' /\ WriteBufferBounded'
    BY <1>1, <1>2, <1>4
       DEF ParserIndices, UrlIsSet, WriteBufferBounded, buffer, parser, output
  <2> QED BY <1>2, <2>1, <2>2 DEF JobInv, MappingIsReleased, MappedForAnswer
<1> QED BY <1>3, <1>4 DEF write

(* Every step keeps the invariant.                                         *)
LEMMA JobStep == JobInv /\ [Next]_vars => JobInv'
<1> SUFFICES ASSUME JobInv, [Next]_vars PROVE JobInv'
  OBVIOUS
<1>1. CASE NextRequest
  <2>1. TypeOK'
    <3>1. todo' \in Seq(Cells) /\ request' \in Requests /\ whole' = FALSE
      BY <1>1, BytesAreCells DEF NextRequest
    <3> QED BY <1>1, <3>1 DEF NextRequest, JobInv, TypeOK, buffer, parser, output
  <2> QED BY <1>1, <2>1
        DEF NextRequest, JobInv, ParserIndices, UrlIsSet, MappingIsReleased, MappedForAnswer,
            WriteBufferBounded, buffer, parser, output
<1>2. CASE \E k \in 1..READ_BUFFER_SIZE : ReadEventCb(k)
  BY <1>2, ReadStep
<1>3. CASE process
  BY <1>3, ParseLineStep, RequestLineStep, HeaderStep, ContentStep, RequestStep, AnswerStep,
     WriteStep DEF process
<1>4. CASE UNCHANGED vars
  BY <1>4 DEF vars, buffer, parser, output, client, JobInv, TypeOK, ParserIndices, UrlIsSet,
              MappingIsReleased, MappedForAnswer, WriteBufferBounded
<1> QED BY <1>1, <1>2, <1>3, <1>4 DEF Next

-----------------------------------------------------------------------------
(* The steps of a request that arrived as a whole.                         *)

(* What a request consists of.                                             *)
LEMMA RequestParts ==
    ASSUME TypeOK
    PROVE  /\ request \in Requests /\ request.line \in RequestLines
           /\ request.headers \in Seq(HeaderLines) /\ Len(request.headers) \in Nat
           /\ \A n \in 1..Len(request.headers) : request.headers[n] \in HeaderLines
           /\ request.body \in Seq({Byte, CR, LF}) /\ Len(request.body) \in Nat
<1>1. request \in Requests
  BY DEF TypeOK
<1>2. /\ request.line \in RequestLines /\ request.headers \in Seq(HeaderLines)
      /\ request.body \in Seq({Byte, CR, LF})
  BY <1>1, RequestsAssumption
<1> QED BY <1>1, <1>2

(* Nothing was received at first.                                          *)
LEMMA WholeInit == Init => WholeInv
BY DEF Init, WholeInv, InputLeft, ResetBeforeInput, Reset

(* All of a request is copied to a buffer that is empty.                   *)
LEMMA WholeRead ==
    ASSUME JobInv, JobInv', WholeInv, NEW k \in 1..READ_BUFFER_SIZE, ReadEventCb(k)
    PROVE  WholeInv'
<1>1. /\ TypeOK /\ request' = request /\ k \in Nat \ {0} /\ k <= Len(todo) /\ Len(todo) \in Nat
      /\ todo' = SubSeq(todo, k + 1, Len(todo)) /\ pc' \in {"read", "undefined"}
      /\ m_read_idx \in Nat /\ m_read_idx' = m_read_idx + k
      /\ whole' = (m_read_idx = 0 /\ k = Len(Bytes(request)))
      /\ UNCHANGED <<m_checked_idx, m_start_line, parser, output>>
  BY SizesAssumption DEF JobInv, TypeOK, ReadEventCb
<1>2. Len(Bytes(request)) \in Nat
  BY <1>1, BytesAreCells DEF TypeOK
<1>3. InputLeft'
  <2>1. Len(todo') = Len(todo) - k
    <3>1. todo \in Seq(Cells)
      BY <1>1 DEF TypeOK
    <3> QED BY <1>1, <3>1
  <2> QED BY <1>1, <1>2, <2>1 DEF WholeInv, InputLeft
<1>4. ResetBeforeInput'
  BY <1>1 DEF ResetBeforeInput
<1>5. ASSUME whole', pc' = "read"
      PROVE  (Received /\ BetweenLines /\ NothingWritten)'
  <2>1. m_read_idx = 0 /\ k = Len(Bytes(request)) /\ Reset
    BY <1>1, <1>5 DEF WholeInv, ResetBeforeInput
  <2>2. todo = Bytes(request) /\ m_read_idx' = Len(Bytes(request))
    BY <1>1, <1>2, <2>1 DEF WholeInv, InputLeft
  <2>3. /\ m_read_idx' <= READ_BUFFER_SIZE /\ line_status' = "LINE_OK"
        /\ m_read_buf' = [i \in 0..(READ_BUFFER_SIZE - 1) |->
                             IF i < k THEN todo[i + 1] ELSE m_read_buf[i]]
    BY <1>1, <1>5 DEF ReadEventCb, TypeOK
  <2>4. \A i \in 0..(m_read_idx' - 1) : m_read_buf'[i] = Bytes(request)[i + 1]
    BY <1>1, <1>2, <2>1, <2>2, <2>3, SizesAssumption
  <2>5. m_read_buf'[0] = request.line
    <3>1. Bytes(request)[1] = request.line
      BY <1>1, BytesOfRequest, RequestParts
    <3>2. 0 \in 0..(m_read_idx' - 1)
      BY <1>1, <2>2
    <3> QED BY <2>4, <3>1, <3>2
  <2>6. UNCHANGED <<m_check_state, m_content_length, m_linger, m_write_buf, m_write_idx>>
    BY <1>1 DEF parser, output
  <2>7. Received'
    <3>1. m_checked_idx' = 0
      BY <1>1, <2>1 DEF Reset
    <3> QED BY <1>1, <2>2, <2>3, <2>4, <2>5, <3>1 DEF Received
  <2>8. BetweenLines' /\ NothingWritten'
    BY <1>1, <2>1, <2>6 DEF Reset, BetweenLines, NothingParsed, NothingWritten
  <2> QED BY <2>7, <2>8
<1>6. whole' => Progress'
  BY <1>1, <1>5 DEF Progress
<1> QED BY <1>3, <1>4, <1>6 DEF WholeInv

(* Each line is found, and the empty line at the end.                      *)
LEMMA WholeParseLine ==
    ASSUME JobInv, JobInv', WholeInv, parse_line
    PROVE  WholeInv'
<1>1. /\ TypeOK /\ pc = "read" /\ READ_BUFFER_SIZE \in Nat
      /\ UNCHANGED <<m_read_idx, m_start_line, parser, output, ret, client>>
  BY SizesAssumption DEF JobInv, parse_line
<1>2. InputLeft' /\ UNCHANGED <<request, todo, whole>>
  BY <1>1 DEF WholeInv, InputLeft, client
<1>3. ResetBeforeInput'
  BY <1>1 DEF WholeInv, ResetBeforeInput, JobInv, ParserIndices, TypeOK
<1>4. ASSUME whole, IsComplete(request) PROVE Progress'
  <2> DEFINE N == Len(request.headers)
             B == Bytes(request)
  <2>1. Received /\ BetweenLines /\ NothingWritten
    BY <1>1, <1>4 DEF WholeInv, Progress
  <2>2. /\ N \in Nat /\ Len(B) \in Nat /\ 3 * N + 5 <= Len(B) /\ B[1] = request.line
        /\ \A n \in 0..(N - 1) : B[3 * n + 4] = request.headers[n + 1]
        /\ \A n \in 0..N : B[3 * n + 2] = CR /\ B[3 * n + 3] = LF
        /\ B[3 * N + 4] = CR /\ B[3 * N + 5] = LF
    <3>1. request \in Requests
      BY <1>1, RequestParts
    <3>2. /\ N \in Nat /\ Len(request.body) \in Nat /\ Len(B) = 3 * N + 5 + Len(request.body)
          /\ B[1] = request.line
      BY <3>1, BytesOfRequest
    <3>3. \A n \in 0..(N - 1) : B[3 * n + 4] = request.headers[n + 1]
      BY <3>1, BytesOfRequest
    <3>4. \A n \in 0..N : B[3 * n + 2] = CR /\ B[3 * n + 3] = LF
      BY <3>1, BytesOfRequest
    <3>5. B[3 * N + 4] = CR /\ B[3 * N + 5] = LF
      BY <3>1, BytesOfRequest
    <3> HIDE DEF B, N
    <3>6. Len(B) \in Nat /\ 3 * N + 5 <= Len(B)
      <4>1. \A n, b \in Nat : 3 * n + 5 + b \in Nat /\ 3 * n + 5 <= 3 * n + 5 + b
        OBVIOUS
      <4> QED BY <3>2, <4>1
    <3> QED BY <3>2, <3>3, <3>4, <3>5, <3>6
  <2> HIDE DEF B
  <2>3. /\ m_read_idx = Len(B) /\ m_read_idx <= READ_BUFFER_SIZE
        /\ m_read_buf[0] = request.line /\ line_status = "LINE_OK"
        /\ \A i \in m_checked_idx..(Len(B) - 1) : m_read_buf[i] = B[i + 1]
    BY <2>1 DEF Received, B
  <2>4. /\ m_start_line = m_checked_idx /\ m_checked_idx \in Nat
        /\ m_read_buf \in [0..(READ_BUFFER_SIZE - 1) -> Cells]
    BY <1>1, <2>1 DEF BetweenLines, TypeOK
  <2>5. ASSUME NEW i \in Nat, TakeLine(i), 1 <= i, m_checked_idx <= i, i + 2 <= Len(B)
        PROVE  /\ Received' /\ NothingWritten' /\ pc' = "line" /\ m_checked_idx' = i + 2
               /\ m_read_buf'[m_start_line]
                     = IF i = m_start_line THEN NUL ELSE m_read_buf[m_start_line]
               /\ UNCHANGED <<m_check_state, m_method, m_content_length, m_linger, m_url,
                              m_start_line, request>>
    <3>1. /\ m_checked_idx' = i + 2 /\ pc' = "line" /\ line_status' = "LINE_OK"
          /\ m_read_buf' = [m_read_buf EXCEPT ![i] = NUL, ![i + 1] = NUL]
      BY <2>5 DEF TakeLine
    <3>2. /\ m_read_buf'[0] = m_read_buf[0]
          /\ \A n \in (i + 2)..(Len(B) - 1) : m_read_buf'[n] = m_read_buf[n]
      <4>1. \A n \in 0..(Len(B) - 1) : n \in 0..(READ_BUFFER_SIZE - 1)
        BY <1>1, <2>2, <2>3
      <4>2. \A n \in 0..(READ_BUFFER_SIZE - 1) :
               n # i /\ n # i + 1 => m_read_buf'[n] = m_read_buf[n]
        BY <2>4, <3>1
      <4>3. 0 \in 0..(Len(B) - 1) /\ 0 # i /\ 0 # i + 1
        BY <2>2, <2>5
      <4>4. \A n \in (i + 2)..(Len(B) - 1) : n \in 0..(Len(B) - 1) /\ n # i /\ n # i + 1
        BY <2>2, <2>5
      <4> QED BY <4>1, <4>2, <4>3, <4>4
    <3>3. Received'
      <4>1. \A n \in (i + 2)..(Len(B) - 1) : m_read_buf'[n] = B[n + 1]
        <5>1. \A n \in (i + 2)..(Len(B) - 1) : n \in m_checked_idx..(Len(B) - 1)
          BY <2>2, <2>4, <2>5
        <5> QED BY <2>3, <3>2, <5>1
      <4> QED BY <1>1, <1>2, <2>2, <2>3, <3>1, <3>2, <4>1 DEF Received, B
    <3>4. m_read_buf'[m_start_line] = IF i = m_start_line THEN NUL ELSE m_read_buf[m_start_line]
      <4>1. m_start_line \in 0..(READ_BUFFER_SIZE - 1) /\ m_start_line # i + 1 /\ i # i + 1
        BY <1>1, <2>2, <2>3, <2>4, <2>5
      <4> QED BY <2>4, <3>1, <4>1
    <3> QED BY <1>1, <1>2, <2>1, <3>1, <3>3, <3>4 DEF NothingWritten, output, parser
  <2>6. CASE NothingParsed /\ m_checked_idx = 0
    <3>1. m_read_buf[1] = CR /\ m_read_buf[2] = LF
      <4>1. B[2] = CR /\ B[3] = LF
        BY <2>2
      <4> QED BY <2>2, <2>3, <2>6, <4>1
    <3>2. \A j \in m_checked_idx..0 : m_read_buf[j] \notin {CR, LF}
      BY <1>1, <2>3, <2>6, RequestParts, LinesAreNotEnds
    <3>3. TakeLine(1)
      BY <1>1, <2>2, <2>3, <2>6, <3>1, <3>2, LineIsFound
    <3>4. AtLine'
      BY <2>2, <2>4, <2>5, <2>6, <3>3 DEF AtLine, NothingParsed
    <3> QED BY <2>2, <2>5, <2>6, <3>3, <3>4 DEF Progress
  <2>7. ASSUME NEW n \in 0..(N - 1), m_check_state = "HEADER", Parsed(n), m_checked_idx = 3 * n + 3
        PROVE  Progress'
    <3>1. /\ m_read_buf[3 * n + 3] = request.headers[n + 1]
          /\ m_read_buf[3 * n + 4] = CR /\ m_read_buf[3 * n + 5] = LF
      <4>1. B[3 * (n + 1) + 2] = CR /\ B[3 * (n + 1) + 3] = LF
        <5>1. n + 1 \in 0..N
          BY <2>2
        <5> QED BY <2>2, <5>1
      <4>2. B[3 * n + 4] = request.headers[n + 1] /\ B[3 * n + 5] = CR /\ B[3 * n + 6] = LF
        <5>1. 3 * (n + 1) + 2 = 3 * n + 5 /\ 3 * (n + 1) + 3 = 3 * n + 6
          BY <2>2
        <5> QED BY <2>2, <4>1, <5>1
      <4>3. /\ m_read_buf[3 * n + 3] = B[3 * n + 4] /\ m_read_buf[3 * n + 4] = B[3 * n + 5]
            /\ m_read_buf[3 * n + 5] = B[3 * n + 6]
        <5>1. /\ 3 * n + 3 \in m_checked_idx..(Len(B) - 1) /\ (3 * n + 3) + 1 = 3 * n + 4
              /\ 3 * n + 4 \in m_checked_idx..(Len(B) - 1) /\ (3 * n + 4) + 1 = 3 * n + 5
              /\ 3 * n + 5 \in m_checked_idx..(Len(B) - 1) /\ (3 * n + 5) + 1 = 3 * n + 6
          BY <2>2, <2>7
        <5> QED BY <2>3, <5>1
      <4> QED BY <4>2, <4>3
    <3>2. \A j \in m_checked_idx..((3 * n + 4) - 1) : m_read_buf[j] \notin {CR, LF}
      <4>1. request.headers[n + 1] \in HeaderLines
        BY <1>1, <2>2, RequestParts
      <4>2. \A j \in m_checked_idx..((3 * n + 4) - 1) : j = 3 * n + 3
        BY <2>2, <2>7
      <4> QED BY <3>1, <4>1, <4>2, LinesAreNotEnds
    <3>3. 3 * n + 4 \in Nat /\ m_checked_idx <= 3 * n + 4 /\ (3 * n + 4) + 2 <= Len(B)
      <4>1. \A k, b, c \in Nat : /\ k + 1 <= c /\ 3 * c + 5 <= b
                                => 3 * k + 4 \in Nat /\ (3 * k + 4) + 2 <= b
        OBVIOUS
      <4>2. n \in Nat /\ n + 1 <= N
        BY <2>2
      <4>3. 3 * n + 4 \in Nat /\ (3 * n + 4) + 2 <= Len(B)
        BY <2>2, <4>1, <4>2
      <4> QED BY <2>7, <4>2, <4>3
    <3>4. TakeLine(3 * n + 4)
      <4>1. (3 * n + 4) + 1 < m_read_idx /\ (3 * n + 4) + 1 = 3 * n + 5
        BY <2>2, <2>3, <2>7, <3>3
      <4> QED BY <1>1, <3>1, <3>2, <3>3, <4>1, LineIsFound
    <3>5. /\ Received' /\ NothingWritten' /\ pc' = "line" /\ m_checked_idx' = 3 * n + 6
          /\ m_start_line' = 3 * n + 3
          /\ m_read_buf'[m_start_line] = request.headers[n + 1]
          /\ UNCHANGED <<m_check_state, m_method, m_content_length, m_linger, m_url,
                         m_start_line, request>>
      <4>1. 1 <= 3 * n + 4 /\ 3 * n + 4 # m_start_line /\ (3 * n + 4) + 2 = 3 * n + 6
        BY <2>2, <2>4, <2>7
      <4> QED BY <2>4, <2>5, <2>7, <3>1, <3>3, <3>4, <4>1
    <3>6. AtLine'
      BY <2>7, <3>5 DEF AtLine, Text, Parsed
    <3> QED BY <3>5, <3>6 DEF Progress
  <2>8. CASE m_check_state = "HEADER" /\ Parsed(N) /\ m_checked_idx = 3 * N + 3
    <3>1. m_read_buf[3 * N + 3] = CR /\ m_read_buf[3 * N + 4] = LF
      <4>1. /\ 3 * N + 3 \in m_checked_idx..(Len(B) - 1) /\ (3 * N + 3) + 1 = 3 * N + 4
            /\ 3 * N + 4 \in m_checked_idx..(Len(B) - 1) /\ (3 * N + 4) + 1 = 3 * N + 5
        BY <2>2, <2>8
      <4> QED BY <2>2, <2>3, <4>1
    <3>2. 3 * N + 3 \in Nat /\ m_checked_idx <= 3 * N + 3 /\ (3 * N + 3) + 2 <= Len(B)
      BY <2>2, <2>8
    <3>3. TakeLine(3 * N + 3)
      <4>1. \A j \in m_checked_idx..((3 * N + 3) - 1) : m_read_buf[j] \notin {CR, LF}
        BY <2>2, <2>8
      <4>2. (3 * N + 3) + 1 < m_read_idx /\ (3 * N + 3) + 1 = 3 * N + 4
        BY <2>2, <2>3, <3>2
      <4> QED BY <1>1, <3>1, <3>2, <4>1, <4>2, LineIsFound
    <3>4. /\ Received' /\ NothingWritten' /\ pc' = "line" /\ m_checked_idx' = 3 * N + 5
          /\ m_start_line' = 3 * N + 3
          /\ m_read_buf'[m_start_line] = NUL
          /\ UNCHANGED <<m_check_state, m_method, m_content_length, m_linger, m_url,
                         m_start_line, request>>
      <4>1. 1 <= 3 * N + 3 /\ 3 * N + 3 = m_start_line /\ (3 * N + 3) + 2 = 3 * N + 5
        BY <2>2, <2>4, <2>8
      <4> QED BY <2>4, <2>5, <3>2, <3>3, <4>1
    <3>5. AtLine'
      BY <2>8, <3>4 DEF AtLine, Text, Parsed
    <3> QED BY <3>4, <3>5 DEF Progress
  <2>9. ~(m_check_state = "CONTENT")
    BY <2>3 DEF parse_line
  <2>10. \A n \in 0..N : n \in 0..(N - 1) \/ n = N
    BY <2>2
  <2> QED BY <2>1, <2>6, <2>7, <2>8, <2>9, <2>10 DEF BetweenLines
<1> QED BY <1>2, <1>3, <1>4 DEF WholeInv, IsComplete

(* The connection is kept if one of the header lines of an accepted        *)
(* request asks for it.                                                    *)
LEMMA KeptIfAsked ==
    ASSUME TypeOK, Accepted(request)
    PROVE  LingerAsked(request.headers, Len(request.headers)) = KeepsAlive(request)
<1>1. LingerAsked(request.headers, Len(request.headers))
         <=> <<"keep-alive">> \in ToSet(request.headers)
  BY RequestParts DEF LingerAsked, ToSet
<1>2. /\ KeepsAlive(request) \in BOOLEAN
      /\ LingerAsked(request.headers, Len(request.headers)) \in BOOLEAN
  BY DEF KeepsAlive, LingerAsked, Accepted
<1>3. KeepsAlive(request) <=> LingerAsked(request.headers, Len(request.headers))
  BY <1>1 DEF KeepsAlive
<1> QED BY <1>2, <1>3

(* The request line is that of the request.                                *)
LEMMA WholeRequestLine ==
    ASSUME JobInv, JobInv', WholeInv, parse_request_line
    PROVE  WholeInv'
<1>1. /\ TypeOK /\ pc = "line" /\ m_check_state = "REQUESTLINE" /\ m_start_line' = m_checked_idx
      /\ UNCHANGED <<m_read_buf, m_read_idx, m_checked_idx, output, line_status, client,
                     m_content_length, m_linger>>
  BY DEF JobInv, parse_request_line, NextLine
<1>2. InputLeft' /\ UNCHANGED <<request, todo, whole>>
  BY <1>1 DEF WholeInv, InputLeft, client
<1>3. ResetBeforeInput'
  BY <1>1 DEF WholeInv, ResetBeforeInput
<1>4. ASSUME whole, IsComplete(request) PROVE Progress'
  <2>1. Received /\ AtLine /\ NothingWritten
    BY <1>1, <1>4 DEF WholeInv, Progress
  <2>2. NothingParsed /\ m_start_line = 0 /\ m_checked_idx = 3 /\ Text = request.line
    BY <1>1, <2>1 DEF AtLine, Received, Text
  <2>3. NothingWritten'
    BY <1>1, <2>1 DEF NothingWritten, output
  <2>4. CASE Accepted(request)
    <3>1. /\ m_method' = request.line[2] /\ m_url' = 0 /\ m_check_state' = "HEADER"
          /\ pc' = "read"
      BY <2>2, <2>4 DEF parse_request_line, Accepted
    <3>2. Received'
      BY <1>1, <1>2, <2>1 DEF Received
    <3>3. Parsed(0)'
      <4>1. LingerAsked(request.headers, 0) = FALSE
        BY DEF LingerAsked
      <4>2. ToInt(DeclaredLength(request.headers, 0)) = 0
        <5>1. 0 \in Int /\ 0 \in 0..INT_MAX
          BY SizesAssumption
        <5> QED BY <5>1, LengthDeclared, IntegersFit
      <4> QED BY <1>1, <1>2, <2>2, <2>4, <3>1, <4>1, <4>2 DEF Parsed, NothingParsed
    <3>4. BetweenLines'
      <4>1. 0 \in 0..Len(request.headers) /\ 3 * 0 + 3 = 3
        BY <1>1, RequestParts
      <4> QED BY <1>1, <1>2, <2>2, <3>1, <3>3, <4>1 DEF BetweenLines
    <3> QED BY <2>3, <3>1, <3>2, <3>4 DEF Progress
  <2>5. CASE ~Accepted(request)
    <3>1. ret' = "BAD_REQUEST" /\ pc' = "respond"
      BY <2>2, <2>5 DEF parse_request_line, Accepted
    <3>2. ret' = Result(request)' /\ m_linger' = KeepsAlive(request)'
      BY <1>1, <1>2, <2>2, <2>5, <3>1 DEF Result, KeepsAlive, NothingParsed
    <3> QED BY <2>3, <3>1, <3>2 DEF Progress
  <2> QED BY <2>4, <2>5
<1> QED BY <1>2, <1>3, <1>4 DEF WholeInv

(* Each header line counts, and the empty line ends the header.            *)
LEMMA WholeHeaders ==
    ASSUME JobInv, JobInv', WholeInv, parse_headers
    PROVE  WholeInv'
<1>1. /\ TypeOK /\ pc = "line" /\ m_check_state = "HEADER" /\ m_start_line' = m_checked_idx
      /\ UNCHANGED <<m_read_buf, m_read_idx, m_checked_idx, output, line_status, client,
                     m_method, m_url, ret>>
  BY DEF JobInv, parse_headers, NextLine
<1>2. InputLeft' /\ UNCHANGED <<request, todo, whole>>
  BY <1>1 DEF WholeInv, InputLeft, client
<1>3. ResetBeforeInput'
  BY <1>1 DEF WholeInv, ResetBeforeInput
<1>4. ASSUME whole, IsComplete(request) PROVE Progress'
  <2> DEFINE N == Len(request.headers)
  <2>1. Received /\ AtLine /\ NothingWritten
    BY <1>1, <1>4 DEF WholeInv, Progress
  <2>2. NothingWritten' /\ Received'
    BY <1>1, <1>2, <2>1 DEF NothingWritten, Received, output
  <2>3. N \in Nat /\ \A n \in 1..N : request.headers[n] \in HeaderLines
    BY <1>1, RequestParts
  <2>4. ASSUME NEW n \in 0..(N - 1), Parsed(n), m_checked_idx = 3 * n + 6,
               Text = request.headers[n + 1]
        PROVE  Progress'
    <3>1. n + 1 \in 1..N /\ n \in Nat
      BY <2>3
    <3>2. Text \in HeaderLines /\ Text # NUL
      BY <2>3, <2>4, <3>1, LinesAreNotEnds
    <3>3. /\ m_linger' = (m_linger \/ Text[1] = "keep-alive")
          /\ m_content_length' =
                IF Text[1] = "length" THEN ToInt(Text[2]) ELSE m_content_length
          /\ pc' = "read" /\ m_check_state' = "HEADER"
      BY <1>1, <3>2 DEF parse_headers, HeaderField, EndOfHeader
    <3>4. m_linger' = LingerAsked(request.headers, n + 1)
      <4>1. Text[1] = "keep-alive" <=> Text = <<"keep-alive">>
        BY <3>2, LinesAreNotEnds
      <4>2. m_linger = LingerAsked(request.headers, n)
        BY <2>4 DEF Parsed
      <4>3. LingerAsked(request.headers, n + 1) <=>
               LingerAsked(request.headers, n) \/ request.headers[n + 1] = <<"keep-alive">>
        BY <3>1, LingerAskedFor
      <4>4. /\ LingerAsked(request.headers, n) \in BOOLEAN
            /\ LingerAsked(request.headers, n + 1) \in BOOLEAN
        BY DEF LingerAsked
      <4> QED BY <2>4, <3>3, <4>1, <4>2, <4>3, <4>4
    <3>5. m_content_length' = ToInt(DeclaredLength(request.headers, n + 1))
      BY <2>4, <3>1, <3>3, LengthDeclared DEF Parsed
    <3>6. Parsed(n + 1)'
      BY <1>1, <1>2, <2>4, <3>4, <3>5 DEF Parsed
    <3>7. BetweenLines'
      <4>1. n + 1 \in 0..N /\ 3 * n + 6 = 3 * (n + 1) + 3
        BY <2>3
      <4> QED BY <1>1, <1>2, <2>4, <3>3, <3>6, <4>1 DEF BetweenLines
    <3> QED BY <2>2, <3>3, <3>7 DEF Progress
  <2>5. ASSUME Parsed(N), m_checked_idx = 3 * N + 5, Text = NUL
        PROVE  Progress'
    <3>1. EndOfHeader
      BY <2>5 DEF parse_headers, HeaderField
    <3>2. UNCHANGED <<m_linger, m_content_length>>
      BY <3>1 DEF EndOfHeader
    <3>3. Parsed(N)'
      BY <1>1, <1>2, <2>5, <3>2 DEF Parsed
    <3>4. CASE m_method = "POST" /\ m_check_state' = "CONTENT" /\ pc' = "read"
      <4>1. BetweenLines'
        BY <1>1, <1>2, <2>5, <3>3, <3>4 DEF BetweenLines
      <4> QED BY <2>2, <3>4, <4>1 DEF Progress
    <3>5. CASE pc' = "request"
      <4>1. m_linger' = KeepsAlive(request)'
        <5>1. m_linger = LingerAsked(request.headers, N) /\ Accepted(request)
          BY <2>5 DEF Parsed
        <5>2. m_linger = KeepsAlive(request)
          BY <1>1, <5>1, KeptIfAsked
        <5> QED BY <1>2, <3>2, <5>2
      <4>2. Accepted(request)' /\ m_url' = 0 /\ (m_read_buf[0] = request.line)'
        BY <1>2, <2>2, <3>3 DEF Parsed, Received
      <4> QED BY <2>2, <3>5, <4>1, <4>2 DEF Progress
    <3> QED BY <3>1, <3>4, <3>5 DEF EndOfHeader
  <2> QED BY <1>1, <2>1, <2>4, <2>5 DEF AtLine, NothingParsed
<1> QED BY <1>2, <1>3, <1>4 DEF WholeInv

(* The body is there.                                                      *)
LEMMA WholeContent ==
    ASSUME JobInv, JobInv', WholeInv, parse_content
    PROVE  WholeInv'
<1>1. /\ TypeOK /\ pc \in {"line", "read"} /\ m_check_state = "CONTENT"
      /\ UNCHANGED <<m_read_idx, m_checked_idx, parser, output, ret, client>>
  BY DEF JobInv, parse_content
<1>2. InputLeft' /\ UNCHANGED <<request, todo, whole>>
  BY <1>1 DEF WholeInv, InputLeft, client
<1>3. ResetBeforeInput'
  BY <1>1 DEF WholeInv, ResetBeforeInput, JobInv, ParserIndices, TypeOK
<1>4. ASSUME whole, IsComplete(request) PROVE Progress'
  <2> DEFINE N == Len(request.headers)
  <2>1. pc = "read" /\ Received /\ BetweenLines /\ NothingWritten
    BY <1>1, <1>4 DEF WholeInv, Progress, AtLine, NothingParsed
  <2>2. /\ m_method = "POST" /\ Parsed(N) /\ m_start_line = m_checked_idx
        /\ m_checked_idx = 3 * N + 5
    BY <1>1, <2>1 DEF BetweenLines, NothingParsed
  <2>3. /\ N \in Nat /\ Len(request.body) \in Nat
        /\ Len(Bytes(request)) = 3 * N + 5 + Len(request.body)
    BY <1>1, RequestParts, BytesOfRequest
  <2>4. /\ m_content_length \in 0..Len(request.body)
        /\ m_read_idx = 3 * N + 5 + Len(request.body) /\ m_read_idx <= READ_BUFFER_SIZE
    <3> DEFINE long == DeclaredLength(request.headers, N)
               size == Len(request.body)
    <3>1. m_read_idx = 3 * N + 5 + size /\ m_read_idx <= READ_BUFFER_SIZE
      BY <2>1, <2>3 DEF Received
    <3>2. long \in 0..size /\ m_content_length = ToInt(long)
      BY <1>4, <2>2 DEF Parsed, IsComplete
    <3>3. N \in Nat /\ size \in Nat /\ READ_BUFFER_SIZE \in Nat /\ INT_MAX \in Nat
          /\ READ_BUFFER_SIZE < INT_MAX
      BY <2>3, SizesAssumption
    <3> HIDE DEF long, size, N
    <3>4. \A a, b, r, m \in Nat : 3 * a + 5 + b <= r /\ r < m => b <= m
      OBVIOUS
    <3>5. size <= INT_MAX
      BY <3>1, <3>3, <3>4
    <3>6. long \in Int /\ long \in 0..INT_MAX
      BY <3>2, <3>3, <3>5
    <3>7. ToInt(long) = long
      BY <3>6, IntegersFit
    <3> QED BY <3>1, <3>2, <3>7 DEF size
  <2>5. BodyComplete /\ BodySize <= INT_MAX
    <3>1. \A a, b, c \in Nat : c <= b => 3 * a + 5 + b >= c + (3 * a + 5)
      OBVIOUS
    <3>2. \A a, b, c, r, m \in Nat :
             c <= b /\ 3 * a + 5 + b <= r /\ r < m => c + (3 * a + 5) <= m
      OBVIOUS
    <3>3. /\ READ_BUFFER_SIZE \in Nat /\ INT_MAX \in Nat /\ READ_BUFFER_SIZE < INT_MAX
          /\ m_content_length \in Nat /\ m_content_length <= Len(request.body)
      BY <2>3, <2>4, SizesAssumption
    <3> HIDE DEF N
    <3>4. BodySize = m_content_length + (3 * N + 5)
      BY <2>2 DEF BodySize
    <3>5. m_read_idx >= BodySize
      BY <2>3, <2>4, <3>1, <3>3, <3>4
    <3>6. BodySize <= INT_MAX
      BY <2>3, <2>4, <3>2, <3>3, <3>4
    <3> QED BY <3>5, <3>6 DEF BodyComplete
  <2>6. /\ pc' = "request"
        /\ m_read_buf' = [i \in DOMAIN m_read_buf |->
              IF i = m_start_line + m_content_length THEN NUL ELSE m_read_buf[i]]
    <3>1. m_content_length \in Nat /\ m_start_line \in Nat /\ BodySize \in Int
      BY <1>1, <2>3, <2>4 DEF TypeOK, BodySize
    <3>2. BehindBody = {m_start_line + m_content_length} /\ m_start_line + m_content_length # -1
      BY <3>1 DEF BehindBody
    <3>3. TakeBody
      BY <2>5, <3>1, SizesAssumption DEF parse_content, AwaitBody, OverflowBody
    <3> QED BY <3>2, <3>3 DEF TakeBody
  <2>7. m_read_buf'[0] = request.line
    <3>1. 0 \in DOMAIN m_read_buf /\ 0 # m_start_line + m_content_length
      <4>1. m_content_length \in Nat /\ m_start_line \in Nat /\ m_start_line # 0
        BY <1>1, <2>2, <2>3, <2>4 DEF TypeOK
      <4> QED BY <1>1, <4>1, SizesAssumption DEF TypeOK
    <3> QED BY <2>1, <2>6, <3>1 DEF Received
  <2>8. m_linger = KeepsAlive(request)
    <3>1. m_linger = LingerAsked(request.headers, N) /\ Accepted(request)
      BY <2>2 DEF Parsed
    <3> QED BY <1>1, <3>1, KeptIfAsked
  <2> QED BY <1>1, <1>2, <2>1, <2>2, <2>6, <2>7, <2>8
        DEF Progress, Parsed, NothingWritten, parser, output, Accepted, KeepsAlive
<1> QED BY <1>2, <1>3, <1>4 DEF WholeInv

(* The target of the request is looked up.                                 *)
LEMMA WholeDoRequest ==
    ASSUME JobInv, JobInv', WholeInv, do_request
    PROVE  WholeInv'
<1>1. /\ TypeOK /\ pc = "request" /\ pc' = "respond"
      /\ UNCHANGED <<buffer, parser, output, client>>
  BY DEF JobInv, do_request
<1>2. InputLeft' /\ UNCHANGED <<request, todo, whole>>
  BY <1>1 DEF WholeInv, InputLeft, client
<1>3. ResetBeforeInput'
  BY <1>1 DEF WholeInv, ResetBeforeInput, buffer
<1>4. ASSUME whole, IsComplete(request) PROVE Progress'
  <2>1. /\ Accepted(request) /\ m_url = 0 /\ m_read_buf[0] = request.line
        /\ m_linger = KeepsAlive(request) /\ NothingWritten
    BY <1>1, <1>4 DEF WholeInv, Progress
  <2>2. Found = {Resource[request.line[3]]}
    BY <2>1 DEF Found, Accepted
  <2>3. Resource[request.line[3]] \in Resources
    <3>1. request.line[3] \in Urls
      <4>1. request.line \in RequestLines /\ request.line[1] = "request"
        BY <1>1, <2>1, RequestParts DEF Accepted
      <4> QED BY <4>1 DEF RequestLines
    <3> QED BY <3>1, ResourceAssumption
  <2>4. ret' = Result(request)
    BY <2>1, <2>2, <2>3 DEF do_request, Result, Resources
  <2> QED BY <1>1, <1>2, <2>1, <2>4 DEF Progress, Result, KeepsAlive, NothingWritten, parser, output
<1> QED BY <1>2, <1>3, <1>4 DEF WholeInv

(* The answer is composed in an empty buffer.                              *)
LEMMA WholeAnswer ==
    ASSUME JobInv, JobInv', WholeInv, process_write
    PROVE  WholeInv'
<1>1. /\ TypeOK /\ pc = "respond" /\ pc' \in {"write", "undefined"}
      /\ UNCHANGED <<buffer, parser, ret, client>>
  BY DEF JobInv, process_write
<1>2. InputLeft' /\ UNCHANGED <<request, todo, whole>>
  BY <1>1 DEF WholeInv, InputLeft, client
<1>3. ResetBeforeInput'
  <2>1. m_read_idx > 0 /\ UNCHANGED m_read_idx
    BY <1>1 DEF WholeInv, ResetBeforeInput, buffer
  <2> QED BY <1>1, <2>1 DEF ResetBeforeInput, TypeOK
<1>4. ASSUME whole, IsComplete(request), pc' = "write" PROVE m_write_buf' = Answer(request)
  <2> DEFINE w == [buf |-> m_write_buf, idx |-> m_write_idx, ok |-> TRUE]
             header == add_headers(add_status_line(w))
             full == add_content(header)
             linger == IF m_linger THEN "keep-alive" ELSE "close"
             parts == << <<"status", ret>>, <<"length", ret>>, <<"linger", linger>>,
                         <<"blank", "CRLF">> >>
  <2>1. ret = Result(request) /\ m_linger = KeepsAlive(request) /\ NothingWritten
    BY <1>1, <1>4 DEF WholeInv, Progress
  <2>2. w = [buf |-> <<>>, idx |-> 0, ok |-> TRUE]
    BY <2>1 DEF NothingWritten
  <2>3. header.buf = parts /\ (full.ok => full.buf = parts \o << <<"content", ret>> >>)
    <3> HIDE DEF w
    <3> QED BY <2>2, AnswerComposed
  <2>4. \/ ret = "FILE_REQUEST" /\ Written(header)
        \/ ret # "FILE_REQUEST" /\ full.ok /\ Written(full)
    BY <1>4 DEF process_write
  <2>5. Answer(request) = parts \o (IF ret = "FILE_REQUEST" THEN <<>> ELSE << <<"content", ret>> >>)
    BY <2>1 DEF Answer
  <2>6. parts \o <<>> = parts
    OBVIOUS
  <2> HIDE DEF w, header, full, parts
  <2> QED BY <2>3, <2>4, <2>5, <2>6 DEF Written
<1>5. ASSUME whole, IsComplete(request) PROVE Progress'
  BY <1>1, <1>2, <1>4, <1>5 DEF Progress, Answer, Result, KeepsAlive
<1> QED BY <1>2, <1>3, <1>5 DEF WholeInv

(* A connection that is kept starts over.                                  *)
LEMMA WholeWrite ==
    ASSUME JobInv, JobInv', WholeInv, write
    PROVE  WholeInv'
<1>1. /\ TypeOK /\ pc = "write" /\ UNCHANGED <<request, todo>>
      /\ \/ pc' = "idle" /\ whole' = FALSE
         \/ pc' = "undefined" /\ UNCHANGED <<buffer, whole>>
  BY DEF JobInv, write
<1>2. InputLeft'
  BY <1>1 DEF WholeInv, InputLeft
<1>3. m_read_idx > 0 /\ m_read_idx \in Nat
  BY <1>1 DEF WholeInv, ResetBeforeInput, TypeOK
<1>4. ResetBeforeInput'
  <2>1. CASE init /\ pc' = "idle"
    BY <2>1 DEF init, ResetBeforeInput, Reset
  <2>2. CASE UNCHANGED buffer
    BY <1>3, <2>2 DEF ResetBeforeInput, buffer
  <2> QED BY <1>1, <2>1, <2>2 DEF write
<1>5. whole' => Progress'
  BY <1>1 DEF Progress
<1> QED BY <1>2, <1>4, <1>5 DEF WholeInv

(* Every step keeps the invariant.                                         *)
LEMMA WholeStep == JobInv /\ JobInv' /\ WholeInv /\ [Next]_vars => WholeInv'
<1> SUFFICES ASSUME JobInv, JobInv', WholeInv, [Next]_vars PROVE WholeInv'
  OBVIOUS
<1>1. CASE NextRequest
  BY <1>1 DEF NextRequest, WholeInv, InputLeft, ResetBeforeInput, Reset, buffer, parser, output
<1>2. CASE \E k \in 1..READ_BUFFER_SIZE : ReadEventCb(k)
  BY <1>2, WholeRead
<1>3. CASE process
  BY <1>3, WholeParseLine, WholeRequestLine, WholeHeaders, WholeContent, WholeDoRequest,
     WholeAnswer, WholeWrite DEF process
<1>4. CASE UNCHANGED vars
  BY <1>4 DEF vars, buffer, parser, output, client, WholeInv, InputLeft, ResetBeforeInput,
              Reset, Progress, Received, BetweenLines, NothingParsed, Parsed, AtLine, Text,
              NothingWritten
<1> QED BY <1>1, <1>2, <1>3, <1>4 DEF Next

-----------------------------------------------------------------------------
(* The end of process().                                                   *)

(* What process() still has to do: the bytes parse_line has not checked,   *)
(* and the steps that follow the last of them.                             *)
StepsLeft ==
    IF pc = "read" THEN IF line_status = "LINE_OK" THEN 5 ELSE 4
    ELSE [line |-> 6, request |-> 3, respond |-> 2, write |-> 1, idle |-> 0, undefined |-> 0][pc]
WorkLeft == 4 * (m_read_idx - m_checked_idx) + StepsLeft

(* Every step of process() leaves less to do, on any input: it comes to an *)
(* end, which ProcessReturns says of a small one.                          *)
ProcessShrinks == [][process => WorkLeft' \in Nat /\ WorkLeft' < WorkLeft]_vars

(* Each step takes a byte or is one of the last.                           *)
LEMMA ProcessStepShrinks ==
    ASSUME JobInv, JobInv', process
    PROVE  WorkLeft' \in Nat /\ WorkLeft' < WorkLeft
<1> DEFINE unread == m_read_idx - m_checked_idx
<1>1. /\ TypeOK /\ ParserIndices /\ pc \in {"read", "line", "request", "respond", "write"}
      /\ TypeOK' /\ ParserIndices' /\ line_status \in {"LINE_OK", "LINE_OPEN"}
      /\ line_status' \in {"LINE_OK", "LINE_OPEN"} /\ pc' \in Steps
  BY DEF JobInv, TypeOK, process, parse_line, parse_request_line, parse_headers, parse_content,
         NextLine, do_request, process_write, write
<1>2. unread \in Nat
  BY <1>1 DEF TypeOK, ParserIndices
<1>3. StepsLeft' \in 0..6 /\ StepsLeft \in 1..6
  BY <1>1 DEF StepsLeft, Steps
<1>4. CASE parse_line
  <2>1. /\ m_checked_idx \in Nat /\ m_read_idx \in Nat /\ m_read_idx' = m_read_idx
        /\ m_checked_idx <= m_read_idx /\ pc = "read" /\ StepsLeft >= 4
    BY <1>1, <1>4 DEF parse_line, TypeOK, ParserIndices, StepsLeft
  <2>2. \A i \in LineEnds : i \in m_checked_idx..(m_read_idx - 1)
    BY DEF LineEnds
  <2>3. \/ \E i \in m_checked_idx..m_read_idx : LeaveLine(i)
        \/ \E i \in (m_checked_idx - 1)..m_read_idx : TakeLine(i)
    <3>1. CASE LeaveLine(m_read_idx)
      BY <2>1, <3>1
    <3>2. CASE \E i \in LineEnds : LeaveLine(i)
      BY <2>1, <2>2, <3>2
    <3>3. CASE \E i \in LineEnds : TakeLine(i)
      BY <2>1, <2>2, <3>3
    <3>4. CASE \E i \in LineEnds : TakeLine(i - 1)
      BY <2>1, <2>2, <3>4
    <3> QED BY <1>4, <3>1, <3>2, <3>3, <3>4 DEF parse_line
  <2>4. /\ m_checked_idx' \in Nat /\ m_checked_idx' <= m_read_idx
        /\ \/ m_checked_idx <= m_checked_idx' /\ StepsLeft' = 0
           \/ m_checked_idx < m_checked_idx' /\ StepsLeft' = 6
    <3>1. CASE \E i \in m_checked_idx..m_read_idx : LeaveLine(i)
      BY <2>1, <3>1 DEF LeaveLine, StepsLeft
    <3>2. CASE \E i \in (m_checked_idx - 1)..m_read_idx : TakeLine(i)
      BY <1>1, <2>1, <3>2 DEF TakeLine, StepsLeft, ParserIndices, TypeOK
    <3> QED BY <2>3, <3>1, <3>2
  <2>5. \A r, c, d \in Nat : \A s, t \in 0..6 :
           /\ c <= r /\ d <= r /\ s >= 4
           /\ (c <= d /\ t = 0) \/ (c < d /\ t = 6)
           => 4 * (r - d) + t \in Nat /\ 4 * (r - d) + t < 4 * (r - c) + s
    OBVIOUS
  <2>6. StepsLeft \in 0..6 /\ StepsLeft' \in 0..6
    BY <1>3
  <2>7. WorkLeft = 4 * (m_read_idx - m_checked_idx) + StepsLeft
        /\ WorkLeft' = 4 * (m_read_idx - m_checked_idx') + StepsLeft'
    BY <2>1 DEF WorkLeft
  <2> QED BY <2>1, <2>4, <2>5, <2>6, <2>7
<1>5. ASSUME UNCHANGED <<m_read_idx, m_checked_idx>>, StepsLeft' < StepsLeft
      PROVE  WorkLeft' \in Nat /\ WorkLeft' < WorkLeft
  BY <1>2, <1>3, <1>5 DEF WorkLeft
<1>6. CASE parse_request_line \/ parse_headers
  <2>1. /\ pc = "line" /\ pc' \in {"read", "respond", "request"}
        /\ UNCHANGED <<m_read_idx, m_checked_idx>>
    BY <1>6 DEF parse_request_line, parse_headers, EndOfHeader, HeaderField, NextLine
  <2>2. StepsLeft = 6 /\ StepsLeft' < 6
    BY <1>1, <2>1 DEF StepsLeft
  <2> QED BY <1>5, <2>1, <2>2
<1>7. CASE parse_content
  <2>1. /\ pc = "line" \/ (pc = "read" /\ line_status = "LINE_OK")
        /\ pc' \in {"request", "undefined"} \/ (pc' = "read" /\ line_status' = "LINE_OPEN")
        /\ UNCHANGED <<m_read_idx, m_checked_idx>>
    BY <1>7 DEF parse_content, TakeBody, AwaitBody, OverflowBody
  <2>2. StepsLeft >= 5 /\ StepsLeft' <= 4
    BY <2>1 DEF StepsLeft
  <2> QED BY <1>3, <1>5, <2>1, <2>2
<1>8. CASE do_request \/ process_write
  <2>1. /\ \/ pc = "request" /\ pc' = "respond"
           \/ pc = "respond" /\ pc' \in {"write", "undefined"}
        /\ UNCHANGED <<m_read_idx, m_checked_idx>>
    BY <1>8 DEF do_request, process_write, buffer
  <2>2. StepsLeft' < StepsLeft
    BY <2>1 DEF StepsLeft
  <2> QED BY <1>5, <2>1, <2>2
<1>9. CASE write
  <2>1. StepsLeft = 1 /\ StepsLeft' = 0
    BY <1>9 DEF write, StepsLeft
  <2>2. CASE UNCHANGED buffer
    BY <1>5, <2>1, <2>2 DEF buffer
  <2>3. CASE init
    BY <1>2, <2>1, <2>3 DEF init, WorkLeft
  <2> QED BY <1>9, <2>2, <2>3 DEF write
<1> QED BY <1>4, <1>6, <1>7, <1>8, <1>9 DEF process

-----------------------------------------------------------------------------
(* The theorems.                                                           *)

(* The invariant holds for a connection whose pieces are processed one     *)
(* after the other.                                                        *)
THEOREM JobInvariant == Spec => []JobInv
BY JobInit, JobStep, PTL DEF Spec

(* The state stays in its types.                                           *)
THEOREM JobTypes == Spec => []TypeOK
BY JobInvariant, PTL DEF JobInv

(* However a request is cut, the parser stays in what it was given.        *)
THEOREM ParserStaysInInput == Spec => []ParserIndices
BY JobInvariant, PTL DEF JobInv

(* do_request has a target to look up.                                     *)
THEOREM TargetsAreSet == Spec => []UrlIsSet
BY JobInvariant, PTL DEF JobInv

(* No mapping outlives the call of process() that made it.                 *)
THEOREM MappingsAreReleased == Spec => []MappingIsReleased
BY JobInvariant, PTL DEF JobInv

(* The responses that pile up in m_write_buf stay inside it, and           *)
(* m_write_idx is their size.                                              *)
THEOREM WriteBufferIsNotExceeded == Spec => []WriteBufferBounded
BY JobInvariant, PTL DEF JobInv

(* A complete request that arrives as a whole gets its own answer and      *)
(* nothing else, whatever was asked on the connection before.              *)
THEOREM WholeRequestsAreAnswered == Spec => []WholeRequestIsAnswered
<1>1. WholeInv => WholeRequestIsAnswered
  BY DEF WholeInv, Progress, WholeRequestIsAnswered
<1> QED BY <1>1, JobInvariant, WholeInit, WholeStep, PTL DEF Spec

(* process() comes to an end on any input, however it is cut: a step of    *)
(* it leaves less to do, and what is left to do is a natural number.       *)
THEOREM ProcessComesToAnEnd == Spec => ProcessShrinks
<1>1. JobInv /\ JobInv' /\ [Next]_vars
          => [process => WorkLeft' \in Nat /\ WorkLeft' < WorkLeft]_vars
  BY ProcessStepShrinks
<1> QED BY <1>1, JobInvariant, PTL DEF Spec, ProcessShrinks
=============================================================================
