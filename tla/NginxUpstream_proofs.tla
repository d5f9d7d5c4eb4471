------------------------ MODULE NginxUpstream_proofs ------------------------
(***************************************************************************)
(* Proofs about NginxUpstream, for any codes and header lines, responses   *)
(* of any length, cut in any way, and any size of the buffer.              *)
(***************************************************************************)
EXTENDS NginxUpstream, SequenceTheorems, TLAPS

-----------------------------------------------------------------------------
(* The responses.                                                          *)

(* The number of header lines, and where the empty line is.                *)
Count == (Len(response) - 5) \div 2
EmptyLine == 2 * Count + 4

(* What the cells of a response are.                                       *)
Shape ==
    /\ response \in Seq(Codes \cup HeaderLines \cup {Junk, Whole!Http, LF, Whole!Body})
    /\ Count \in 0..MaxHeaders /\ Len(response) = 2 * Count + 5
    /\ response[1] \in {Whole!Http, Junk}
    /\ response[2] \in Codes \cup {Junk}
    /\ response[3] = LF
    /\ \A k \in 1..Count : /\ response[2 * k + 2] \in HeaderLines \cup {Junk}
                           /\ response[2 * k + 3] = LF
    /\ response[EmptyLine] = LF

(* Cells that are told apart.                                              *)
LEMMA CellsDiffer ==
    /\ Junk # LF /\ Whole!Http # Junk
    /\ Junk \notin Codes
    /\ LF \notin HeaderLines /\ Junk \notin HeaderLines
<1>1. Junk # LF /\ Whole!Http # Junk
  BY DEF Junk, LF, Whole!Junk, Whole!LF, Whole!Http
<1>2. \A h \in HeaderLines : Len(h) = 2
  BY LinesAssumption
<1>3. Len(LF) = 1 /\ Len(Junk) = 1
  BY DEF Junk, LF, Whole!Junk, Whole!LF
<1> QED BY <1>1, <1>2, <1>3, LinesAssumption

(* Every response has this shape.                                          *)
LEMMA ResponseShape == response \in Responses => Shape
<1> SUFFICES ASSUME response \in Responses PROVE Shape
  OBVIOUS
<1>1. PICK p \in {Whole!Http, Junk}, s \in Codes \cup {Junk},
           lines \in UNION {[1..n -> HeaderLines \cup {Junk}] : n \in 0..MaxHeaders} :
              response = Response(p, s, lines)
  BY DEF Responses
<1> PICK n \in 0..MaxHeaders : lines \in [1..n -> HeaderLines \cup {Junk}]
  OBVIOUS
<1>2. n \in Nat /\ MaxHeaders \in Nat /\ n <= MaxHeaders
  BY SizesAssumption
<1>3. lines \in Seq(HeaderLines \cup {Junk}) /\ Len(lines) = n
  BY <1>2, SeqDef
<1> DEFINE Alphabet == Codes \cup HeaderLines \cup {Junk, Whole!Http, LF, Whole!Body}
           start == <<p, s, LF>>
           middle == [i \in 1..(2 * n) |-> IF i % 2 = 1 THEN lines[(i + 1) \div 2] ELSE LF]
           end == <<LF, Whole!Body>>
<1>4. response = start \o middle \o end
  BY <1>1, <1>3 DEF Response
<1>5. start \in Seq(Alphabet) /\ Len(start) = 3 /\ end \in Seq(Alphabet) /\ Len(end) = 2
  OBVIOUS
<1>6. /\ \A k \in 1..n : middle[2 * k - 1] = lines[k] /\ middle[2 * k] = LF
      /\ \A i \in 1..(2 * n) : middle[i] \in Alphabet
  <2>1. ASSUME NEW k \in 1..n PROVE middle[2 * k - 1] = lines[k] /\ middle[2 * k] = LF
    <3>1. /\ 2 * k - 1 \in 1..(2 * n) /\ 2 * k \in 1..(2 * n)
          /\ (2 * k - 1) % 2 = 1 /\ (2 * k) % 2 = 0 /\ ((2 * k - 1) + 1) \div 2 = k
      BY <1>2
    <3> QED BY <3>1
  <2>2. ASSUME NEW i \in 1..(2 * n) PROVE middle[i] \in Alphabet
    <3>1. i % 2 = 1 => (i + 1) \div 2 \in 1..n
      BY <1>2
    <3> QED BY <3>1
  <2> QED BY <2>1, <2>2
<1>7. middle \in Seq(Alphabet) /\ Len(middle) = 2 * n
  <2>1. 2 * n \in Nat /\ middle \in [1..(2 * n) -> Alphabet]
    BY <1>2, <1>6
  <2> HIDE DEF middle, Alphabet
  <2> QED BY <2>1, SeqDef
<1>8. /\ start[1] = p /\ start[2] = s /\ start[3] = LF /\ end[1] = LF
  OBVIOUS
<1> HIDE DEF start, middle, end
<1>9. /\ response \in Seq(Alphabet) /\ Len(response) = 2 * n + 5
      /\ \A i \in 1..3 : response[i] = start[i]
      /\ \A i \in 1..(2 * n) : response[i + 3] = middle[i]
      /\ response[2 * n + 4] = end[1]
  <2> DEFINE most == start \o middle
  <2> HIDE DEF Alphabet
  <2>1. /\ most \in Seq(Alphabet) /\ Len(most) = 2 * n + 3
        /\ \A i \in 1..(2 * n + 3) : most[i] = IF i <= 3 THEN start[i] ELSE middle[i - 3]
    <3>1. /\ most \in Seq(Alphabet) /\ Len(most) = Len(start) + Len(middle)
          /\ \A i \in 1..(Len(start) + Len(middle)) :
                most[i] = IF i <= Len(start) THEN start[i] ELSE middle[i - Len(start)]
      <4>1. start \in Seq(Alphabet) /\ middle \in Seq(Alphabet)
        BY <1>5, <1>7
      <4> QED BY ONLY <4>1, ConcatProperties
    <3> HIDE DEF most
    <3>2. Len(start) + Len(middle) = 2 * n + 3
      BY <1>2, <1>5, <1>7
    <3> QED BY <1>5, <3>1, <3>2
  <2>2. response = most \o end
    BY <1>4
  <2> HIDE DEF most
  <2>3. /\ response \in Seq(Alphabet) /\ Len(response) = (2 * n + 3) + 2
        /\ \A i \in 1..((2 * n + 3) + 2) :
              response[i] = IF i <= 2 * n + 3 THEN most[i] ELSE end[i - (2 * n + 3)]
    <3>1. /\ response \in Seq(Alphabet) /\ Len(response) = Len(most) + Len(end)
          /\ \A i \in 1..(Len(most) + Len(end)) :
                response[i] = IF i <= Len(most) THEN most[i] ELSE end[i - Len(most)]
      <4>1. most \in Seq(Alphabet) /\ end \in Seq(Alphabet)
        BY <1>5, <2>1
      <4>2. most \o end \in Seq(Alphabet) /\ Len(most \o end) = Len(most) + Len(end)
        BY ONLY <4>1, ConcatProperties
      <4>3. \A i \in 1..(Len(most) + Len(end)) :
                (most \o end)[i] = IF i <= Len(most) THEN most[i] ELSE end[i - Len(most)]
        BY ONLY <4>1, ConcatProperties
      <4> QED BY <2>2, <4>2, <4>3
    <3> QED BY <1>5, <2>1, <3>1
  <2>4. \A i \in 1..3 : response[i] = start[i]
    BY <1>2, <2>1, <2>3
  <2>5. ASSUME NEW i \in 1..(2 * n) PROVE response[i + 3] = middle[i]
    <3>1. /\ i + 3 \in 1..(2 * n + 3) /\ i + 3 \in 1..((2 * n + 3) + 2)
          /\ ~(i + 3 <= 3) /\ (i + 3) - 3 = i /\ i + 3 <= 2 * n + 3
      BY <1>2
    <3> QED BY <2>1, <2>3, <3>1
  <2>6. response[2 * n + 4] = end[1]
    <3>1. /\ 2 * n + 4 \in 1..((2 * n + 3) + 2) /\ ~(2 * n + 4 <= 2 * n + 3)
          /\ (2 * n + 4) - (2 * n + 3) = 1 /\ (2 * n + 3) + 2 = 2 * n + 5
      BY <1>2
    <3> QED BY <2>3, <3>1
  <2>7. Len(response) = 2 * n + 5
    BY <1>2, <2>3
  <2> QED BY <2>3, <2>4, <2>5, <2>6, <2>7
<1>10. Count = n
  BY <1>2, <1>9 DEF Count
<1>11. \A k \in 1..n : response[2 * k + 2] = lines[k] /\ response[2 * k + 3] = LF
  <2> SUFFICES ASSUME NEW k \in 1..n
               PROVE  response[2 * k + 2] = lines[k] /\ response[2 * k + 3] = LF
    OBVIOUS
  <2>1. response[(2 * k - 1) + 3] = middle[2 * k - 1] /\ response[2 * k + 3] = middle[2 * k]
    BY <1>2, <1>9
  <2>2. (2 * k - 1) + 3 = 2 * k + 2
    BY <1>2
  <2> QED BY <1>6, <2>1, <2>2
<1>12. response[1] = p /\ response[2] = s /\ response[3] = LF
  BY <1>8, <1>9
<1>13. \A k \in 1..n : lines[k] \in HeaderLines \cup {Junk}
  OBVIOUS
<1> QED BY <1>2, <1>8, <1>9, <1>10, <1>11, <1>12, <1>13 DEF Shape, EmptyLine

(* The header ends at the first empty line, which is the last but one cell. *)
LEMMA HeaderEnds == Shape => Whole!EndOfHeader = EmptyLine
<1> SUFFICES ASSUME Shape PROVE Whole!EndOfHeader = EmptyLine
  OBVIOUS
<1> DEFINE Ends(m) == /\ response[m] = Whole!LF /\ response[m - 1] = Whole!LF
                      /\ \A k \in 4..(m - 1) : response[k] # Whole!LF \/ response[k - 1] # Whole!LF
<1>1. Count \in Nat /\ Len(response) = EmptyLine + 1 /\ EmptyLine \in 4..Len(response)
  BY SizesAssumption DEF Shape, EmptyLine
<1>2. LF = Whole!LF
  BY DEF LF
<1>3. ASSUME NEW m \in 4..(EmptyLine - 1)
      PROVE  response[m] # LF \/ response[m - 1] # LF
  <2>1. PICK k \in 1..Count : m = 2 * k + 2 \/ m = 2 * k + 3
    <3>1. /\ (m - 2) \div 2 \in 1..Count
          /\ m = 2 * ((m - 2) \div 2) + 2 \/ m = 2 * ((m - 2) \div 2) + 3
      BY <1>1 DEF EmptyLine
    <3> QED BY <3>1
  <2>2. response[2 * k + 2] # LF
    BY CellsDiffer DEF Shape
  <2>3. m = 2 * k + 3 => m - 1 = 2 * k + 2
    BY <1>1
  <2> QED BY <2>1, <2>2, <2>3
<1>4. response[EmptyLine] = LF /\ response[EmptyLine - 1] = LF
  <2>1. CASE Count = 0
    <3>1. EmptyLine - 1 = 3
      BY <2>1 DEF EmptyLine
    <3> QED BY <3>1 DEF Shape
  <2>2. CASE Count # 0
    <3>1. Count \in 1..Count /\ EmptyLine - 1 = 2 * Count + 3
      BY <1>1, <2>2 DEF EmptyLine
    <3> QED BY <3>1 DEF Shape
  <2> QED BY <2>1, <2>2
<1>5. Ends(EmptyLine)
  BY <1>2, <1>3, <1>4
<1>6. ASSUME NEW m \in 4..Len(response), Ends(m) PROVE m = EmptyLine
  <2>1. ~(m < EmptyLine)
    BY <1>1, <1>2, <1>3, <1>6
  <2>2. ~(EmptyLine < m)
    <3> SUFFICES ASSUME EmptyLine < m PROVE FALSE
      OBVIOUS
    <3>1. EmptyLine \in 4..(m - 1)
      BY <1>1
    <3> QED BY <1>2, <1>4, <1>6, <3>1
  <2> QED BY <1>1, <2>1, <2>2
<1>7. Whole!EndOfHeader = CHOOSE m \in 4..Len(response) : Ends(m)
  BY DEF Whole!EndOfHeader
<1> HIDE DEF Ends
<1> QED BY <1>1, <1>5, <1>6, <1>7

-----------------------------------------------------------------------------
(* The inductive invariant.                                                *)

(* Before the status line is complete: what was taken of it is right.      *)
StatusPart ==
    /\ headers = <<>>
    /\ pos = r_state /\ pos <= 2
    /\ pos >= 1 => response[1] = Whole!Http
    /\ pos >= 2 => response[2] \in Codes

(* After that: the lines that were taken are the headers, and the next one *)
(* begins where the last of them ended.                                    *)
HeaderPart ==
    /\ response[1] = Whole!Http /\ response[2] \in Codes
    /\ status_n \in {response[2]} \cup Whole!WrongDigits
    /\ Len(headers) <= Count
    /\ r_state \in 0..1
    /\ pos = 2 * Len(headers) + 3 + r_state
    /\ r_state = 1 => response[pos] \in HeaderLines
    /\ \A i \in 1..Len(headers) : /\ response[2 * i + 2] \in HeaderLines
                                  /\ headers[i] = Whole!Entry(response[2 * i + 2])

PartsInv ==
    /\ pc \in {"content", "create"} => /\ pos = 0 /\ last = 0 /\ r_state = 0
                                       /\ headers = <<>>
    /\ pc = "content" => count = 1
    /\ pc \in {"create", "receive", "process"} => process_header \in {"status_line", "header"}
    /\ pc = "create" => process_header = "status_line"
    /\ pc = "receive" => pos = last
    /\ pc \in {"receive", "process"} =>
          /\ process_header = "status_line" => StatusPart
          /\ process_header = "header" => HeaderPart

UpstreamInv == TypeOK /\ PartsInv

-----------------------------------------------------------------------------
(* Headers and results.                                                    *)

Header == [name : Names, damaged : {"nothing", "name", "value"}]

(* What is added to the headers are headers, and at most two.              *)
LEMMA EntriesAreHeaders ==
    /\ \A h \in HeaderLines : Whole!Entry(h) \in Header
    /\ \A name \in {"Server", "Date"} : \A hs :
          Whole!Missing(name, hs) \in Seq(Header) /\ Len(Whole!Missing(name, hs)) \in 0..1
<1>1. ASSUME NEW h \in HeaderLines PROVE Whole!Entry(h) \in Header
  <2> DEFINE part == CASE h[2] = "shorter" -> "name"
                       [] h[2] = "same" -> "nothing"
                       [] h[2] = "longer" -> "value"
  <2>1. h[2] \in {"shorter", "same", "longer"} /\ h[1] \in Names
    BY LinesAssumption DEF Names
  <2>2. part \in {"nothing", "name", "value"}
    BY <2>1
  <2>3. Whole!Entry(h) = [name |-> h[1], damaged |-> part]
    BY DEF Whole!Entry
  <2> HIDE DEF part
  <2> QED BY <2>1, <2>2, <2>3 DEF Header
<1>2. ASSUME NEW name \in {"Server", "Date"}, NEW hs
      PROVE  Whole!Missing(name, hs) \in Seq(Header) /\ Len(Whole!Missing(name, hs)) \in 0..1
  <2>1. CASE \E i \in DOMAIN hs : hs[i].name = name
    <3>1. Whole!Missing(name, hs) = <<>>
      BY <2>1 DEF Whole!Missing
    <3> QED BY <3>1
  <2>2. CASE ~\E i \in DOMAIN hs : hs[i].name = name
    <3> DEFINE header == [name |-> name, damaged |-> "nothing"]
    <3>1. Whole!Missing(name, hs) = <<header>>
      BY <2>2 DEF Whole!Missing
    <3>2. header \in Header
      BY DEF Header, Names
    <3> HIDE DEF header
    <3> QED BY <3>1, <3>2
  <2> QED BY <2>1, <2>2
<1> QED BY <1>1, <1>2

(* The results of the callbacks are results.                               *)
LEMMA ResultsDiffer ==
    /\ \A rc \in {"ERROR", "BAD_GATEWAY", "INVALID_HEADER"} : Whole!Failed(rc) # Whole!NoResult
    /\ \A status, hs : Whole!Parsed(status, hs) # Whole!NoResult
    /\ \A body : Whole!HttpVersion9(body) # Whole!NoResult
    /\ Whole!Undefined # Whole!NoResult
BY DEF Whole!Failed, Whole!NoResult, Whole!Parsed, Whole!HttpVersion9, Whole!Undefined

-----------------------------------------------------------------------------
(* The steps.  Each keeps the invariant, and is a step of WholeResponse or *)
(* none.                                                                   *)

WholeStep == [Whole!Next]_(Whole!vars)

(* A request that comes in was not passed on yet.                          *)
LEMMA UpstreamInit == Init => UpstreamInv /\ Whole!Init
<1> SUFFICES ASSUME Init PROVE UpstreamInv /\ Whole!Init
  OBVIOUS
<1>1. Len(response) \in Nat
  BY ResponseShape, SizesAssumption DEF Init, Shape
<1>2. TypeOK
  BY <1>1, SizesAssumption DEF Init, TypeOK, Statuses
<1>3. PartsInv
  BY DEF Init, PartsInv
<1>4. Whole!Init
  BY DEF Init, Whole!Init
<1> QED BY <1>2, <1>3, <1>4 DEF UpstreamInv

(* A failure ends the request, wherever it is.                             *)
LEMMA FailStep ==
    ASSUME UpstreamInv, NEW places \in SUBSET {"content", "create", "process"}, Fails(places)
    PROVE  UpstreamInv' /\ WholeStep
<1>1. /\ MayFail /\ pc \in {"content", "create", "process"} /\ pc' = "finalized"
      /\ result' = Whole!Failed("ERROR")
      /\ UNCHANGED <<response, cleared, upstream, process_header, status_n, headers, count>>
  BY DEF Fails, Return
<1>2. TypeOK'
  BY <1>1, ResultsDiffer DEF UpstreamInv, TypeOK, upstream
<1>3. PartsInv'
  BY <1>1 DEF PartsInv
<1>4. result = Whole!NoResult
  BY <1>1 DEF UpstreamInv, TypeOK
<1>5. Whole!Fail
  BY <1>1, <1>4 DEF Whole!Fail, upstream
<1> QED BY <1>2, <1>3, <1>5 DEF UpstreamInv, WholeStep, Whole!Next

(* The request is passed on.                                               *)
LEMMA HandlerStep == UpstreamInv /\ handler => UpstreamInv' /\ WholeStep
<1> SUFFICES ASSUME UpstreamInv, handler PROVE UpstreamInv' /\ WholeStep
  OBVIOUS
<1>1. CASE Fails({"content"})
  BY <1>1, FailStep
<1>2. CASE /\ pc = "content" /\ process_header' = "status_line"
           /\ count' = count + 1 /\ pc' = "create"
           /\ UNCHANGED <<response, cleared, upstream, status_n, headers, result>>
  BY <1>2 DEF UpstreamInv, TypeOK, PartsInv, upstream, WholeStep, Whole!vars
<1> QED BY <1>1, <1>2 DEF handler

(* It is composed.                                                         *)
LEMMA CreateStep == UpstreamInv /\ create_request => UpstreamInv' /\ WholeStep
<1> SUFFICES ASSUME UpstreamInv, create_request PROVE UpstreamInv' /\ WholeStep
  OBVIOUS
<1>1. CASE Fails({"create"})
  BY <1>1, FailStep
<1>2. CASE /\ pc = "create" /\ pc' = "receive"
           /\ UNCHANGED <<response, cleared, upstream, process_header, status_n, headers,
                          count, result>>
  BY <1>2 DEF UpstreamInv, TypeOK, PartsInv, StatusPart, upstream, WholeStep, Whole!vars
<1> QED BY <1>1, <1>2 DEF create_request

(* A piece arrives.                                                        *)
LEMMA ReceiveStep == UpstreamInv /\ Receive => UpstreamInv' /\ WholeStep
<1> SUFFICES ASSUME UpstreamInv, Receive PROVE UpstreamInv' /\ WholeStep
  OBVIOUS
<1>1. Len(response) \in Nat
  BY ResponseShape, SizesAssumption DEF UpstreamInv, TypeOK, Shape
<1>2. TypeOK'
  BY <1>1 DEF UpstreamInv, TypeOK, Receive
<1>3. PartsInv'
  BY DEF UpstreamInv, PartsInv, Receive, StatusPart, HeaderPart, Count, Whole!WrongDigits
<1>4. Whole!Arrive
  BY DEF UpstreamInv, TypeOK, Receive, Whole!Arrive
<1> QED BY <1>2, <1>3, <1>4 DEF UpstreamInv, WholeStep, Whole!Next

(* nginx gives up a response only before the end of its header.            *)
LEMMA GiveUpStep == UpstreamInv /\ GiveUp => UpstreamInv' /\ WholeStep
<1> SUFFICES ASSUME UpstreamInv, GiveUp PROVE UpstreamInv' /\ WholeStep
  OBVIOUS
<1>1. TypeOK /\ PartsInv /\ Shape /\ pc = "receive" /\ pos = last /\ result = Whole!NoResult
  BY ResponseShape DEF UpstreamInv, TypeOK, PartsInv, GiveUp
<1>2. /\ pc' = "finalized" /\ result' = Whole!Failed("BAD_GATEWAY")
      /\ UNCHANGED <<response, cleared, upstream, process_header, status_n, headers, count>>
  BY DEF GiveUp, Return
<1>3. TypeOK'
  BY <1>1, <1>2, ResultsDiffer DEF TypeOK, upstream
<1>4. PartsInv'
  BY <1>2 DEF PartsInv
<1>5. last < EmptyLine
  <2>0. Count \in Nat
    BY <1>1, SizesAssumption DEF Shape
  <2>1. CASE process_header = "status_line"
    BY <1>1, <2>0, <2>1 DEF PartsInv, StatusPart, EmptyLine, TypeOK
  <2>2. CASE process_header = "header"
    <3>1. HeaderPart /\ Len(headers) \in Nat
      BY <1>1, <2>2 DEF PartsInv, TypeOK
    <3>2. CASE Len(headers) < Count
      BY <1>1, <2>0, <3>1, <3>2 DEF HeaderPart, EmptyLine
    <3>3. CASE Len(headers) = Count
      <4>1. r_state = 1 => pos = EmptyLine
        BY <2>0, <3>1, <3>3 DEF HeaderPart, EmptyLine
      <4>2. r_state # 1
        BY <1>1, <3>1, <4>1, CellsDiffer DEF HeaderPart, Shape
      <4> QED BY <1>1, <2>0, <3>1, <3>3, <4>2 DEF HeaderPart, EmptyLine
    <3> QED BY <2>0, <3>1, <3>2, <3>3 DEF HeaderPart
  <2> QED BY <1>1, <2>1, <2>2 DEF PartsInv
<1>6. Whole!GiveUp
  BY <1>1, <1>2, <1>5, HeaderEnds DEF Whole!GiveUp, upstream
<1> QED BY <1>3, <1>4, <1>6 DEF UpstreamInv, WholeStep, Whole!Next

(* What is known when a callback is called.                                *)
Called ==
    /\ TypeOK /\ PartsInv /\ Shape
    /\ pc = "process" /\ result = Whole!NoResult
    /\ Len(response) \in Nat /\ Count \in Nat

LEMMA CalledInv == ASSUME UpstreamInv, pc = "process" PROVE Called
BY ResponseShape, SizesAssumption DEF UpstreamInv, Called, TypeOK, Shape

(* The status line: the header begins where it ends, and what is not a     *)
(* status line is the body, from the piece that shows it.                  *)
LEMMA StatusLineStep == UpstreamInv /\ process_status_line => UpstreamInv' /\ WholeStep
<1> SUFFICES ASSUME UpstreamInv, process_status_line PROVE UpstreamInv' /\ WholeStep
  OBVIOUS
<1>1. /\ Called /\ StatusPart /\ process_header = "status_line"
      /\ UNCHANGED <<response, cleared, last, count>>
  BY CalledInv DEF process_status_line, Called, PartsInv
<1>2. Start = 1 /\ pos \in 0..2 /\ last \in Nat /\ pos <= last /\ last <= Len(response)
  BY <1>1 DEF Start, StatusPart, Called, TypeOK
<1>3. CASE StatusLine
  <2>1. /\ response[1] = Whole!Http /\ response[2] \in Codes /\ 3 <= last
        /\ pos' = 3 /\ r_state' = 0 /\ UNCHANGED headers
        /\ status_n' \in {response[2]} \cup Whole!WrongDigits
    BY <1>2, <1>3 DEF StatusLine, StatusLineMayBeRead, Arrived, TakeTo
  <2>2. status_n' \in Statuses
    BY <2>1 DEF Statuses, Whole!WrongDigits
  <2>3. CASE process_header' = "header" /\ UNCHANGED <<pc, result>>
    <3>1. TypeOK'
      BY <1>1, <1>2, <2>1, <2>2, <2>3 DEF Called, TypeOK
    <3>2. Len(headers) = 0
      BY <1>1 DEF StatusPart
    <3>3. PartsInv'
      BY <1>1, <2>1, <2>3, <3>2 DEF Called, PartsInv, HeaderPart, Count, Whole!WrongDigits
    <3> QED BY <1>1, <2>3, <3>1, <3>3 DEF UpstreamInv, WholeStep, Whole!vars
  <2>4. ASSUME ~cleared, UNCHANGED process_header,
               NEW res \in {Whole!Failed("ERROR"), Whole!Undefined}, Return(res)
        PROVE  UpstreamInv' /\ WholeStep
    <3>1. result' = res /\ pc' = "finalized" /\ res # Whole!NoResult
      BY <2>4, ResultsDiffer DEF Return
    <3>2. TypeOK'
      BY <1>1, <1>2, <2>1, <2>2, <2>4, <3>1 DEF Called, TypeOK
    <3>3. PartsInv'
      BY <3>1 DEF PartsInv
    <3>4. ~Whole!JunkAt(1..2)
      BY <2>1, CellsDiffer DEF Whole!JunkAt, Junk
    <3>5. res \in Whole!GarbageLength
      BY <2>1, <2>4, <3>4 DEF Whole!GarbageLength
    <3>6. Whole!Judge
      BY <1>1, <3>1, <3>5 DEF Called, Whole!Judge
    <3> QED BY <3>2, <3>3, <3>6 DEF UpstreamInv, WholeStep, Whole!Next
  <2> QED BY <1>3, <2>3, <2>4 DEF StatusLine
<1>4. CASE PartOfStatusLine
  <2>1. /\ last <= 2
        /\ last >= 1 => response[1] = Whole!Http
        /\ last >= 2 => response[2] \in Codes
        /\ pos' = last /\ r_state' = last /\ pc' = "receive"
        /\ UNCHANGED <<process_header, status_n, headers, result>>
    BY <1>1, <1>2, <1>4
       DEF PartOfStatusLine, StatusLineMayBeRead, Arrived, Again, StatusPart, Called, TypeOK
  <2>2. TypeOK'
    BY <1>1, <1>2, <2>1 DEF Called, TypeOK
  <2>3. PartsInv'
    BY <1>1, <2>1 DEF Called, PartsInv, StatusPart
  <2> QED BY <1>1, <2>1, <2>2, <2>3 DEF UpstreamInv, WholeStep, Whole!vars
<1>5. CASE NoStatusLine
  <2>1. /\ result' = Whole!HttpVersion9(pos + 1) /\ pc' = "finalized"
        /\ UNCHANGED <<pos, r_state, process_header, status_n, headers>>
    BY <1>5 DEF NoStatusLine, Return
  <2>2. TypeOK' /\ PartsInv'
    BY <1>1, <2>1, ResultsDiffer DEF Called, TypeOK, PartsInv
  <2>3. PICK i \in (pos + 1)..last :
           \/ i = 1 /\ response[i] # Whole!Http
           \/ i = 2 /\ response[i] \notin Codes
           \/ i = 2 /\ ~cleared
    BY <1>2, <1>5 DEF NoStatusLine, StatusLineBreaksAt
  <2>4. /\ pos + 1 \in 1..2 /\ pos + 1 <= last /\ i \in (pos + 1)..2 /\ i <= last
        /\ response[i] = Junk \/ (~cleared /\ i = 2)
    BY <1>1, <1>2, <2>3 DEF Called, Shape
  <2>5. \A j \in 1..((pos + 1) - 1) : response[j] # Junk
    BY <1>1, <1>2, CellsDiffer DEF StatusPart
  <2>6. Whole!HttpVersion9(pos + 1) \in Whole!BadStatusLine
    <3> DEFINE Bad(b) == /\ b <= last
                         /\ \E j \in b..2 : /\ j <= last
                                            /\ response[j] = Whole!Junk \/ (~cleared /\ j = 2)
                         /\ \A j \in 1..(b - 1) : response[j] # Whole!Junk
    <3>1. Bad(pos + 1)
      BY <2>4, <2>5 DEF Junk
    <3>2. Whole!BadStatusLine = {Whole!HttpVersion9(b) : b \in {m \in 1..2 : Bad(m)}}
      BY DEF Whole!BadStatusLine
    <3> HIDE DEF Bad
    <3> QED BY <2>4, <3>1, <3>2
  <2>7. Whole!Judge
    BY <1>1, <2>1, <2>6 DEF Called, Whole!Judge
  <2> QED BY <2>2, <2>7 DEF UpstreamInv, WholeStep, Whole!Next
<1> QED BY <1>3, <1>4, <1>5 DEF process_status_line

(* A header line is the line after those that were taken, and the empty    *)
(* line comes after all of them.                                           *)
LEMMA NextLine ==
    ASSUME Called, HeaderPart
    PROVE  /\ Start = 2 * Len(headers) + 4 /\ Start \in 4..EmptyLine
           /\ pos = Start - 1 + r_state /\ pos <= last /\ last \in Nat
           /\ (response[Start] = LF) = (Len(headers) = Count)
           /\ Len(headers) # Count => response[Start] \in HeaderLines \cup {Junk}
           /\ r_state = 1 => response[Start] \in HeaderLines
<1>1. /\ Len(headers) \in 0..Count /\ Count \in Nat /\ r_state \in 0..1
      /\ pos = 2 * Len(headers) + 3 + r_state
      /\ pos <= last /\ last \in Nat
  BY DEF Called, HeaderPart, TypeOK
<1>2. Start = 2 * Len(headers) + 4 /\ Start \in 4..EmptyLine /\ pos = Start - 1 + r_state
  BY <1>1 DEF Start, EmptyLine
<1>3. CASE Len(headers) = Count
  BY <1>1, <1>2, <1>3, CellsDiffer DEF HeaderPart, Called, Shape, EmptyLine
<1>4. CASE Len(headers) # Count
  <2>1. Len(headers) + 1 \in 1..Count /\ Start = 2 * (Len(headers) + 1) + 2
    BY <1>1, <1>2, <1>4
  <2>2. response[Start] \in HeaderLines \cup {Junk}
    BY <2>1 DEF Called, Shape
  <2> QED BY <1>1, <1>2, <1>4, <2>2, CellsDiffer DEF HeaderPart
<1> QED BY <1>1, <1>2, <1>3, <1>4

(* One line of the header: it is added, or ends the header, or is none.    *)
LEMMA HeaderStep == UpstreamInv /\ upstream_process_header => UpstreamInv' /\ WholeStep
<1> SUFFICES ASSUME UpstreamInv, upstream_process_header PROVE UpstreamInv' /\ WholeStep
  OBVIOUS
<1>1. /\ Called /\ HeaderPart /\ process_header = "header"
      /\ UNCHANGED <<response, cleared, last, process_header, status_n, count>>
  BY CalledInv DEF upstream_process_header, Called, PartsInv
<1>2. /\ Len(headers) \in 0..Count /\ Count \in Nat /\ headers \in Seq(Header)
      /\ last <= Len(response) /\ Len(response) \in Nat /\ Count <= MaxHeaders
      /\ MaxHeaders \in Nat
  BY <1>1, SizesAssumption DEF Called, HeaderPart, TypeOK, Header, Shape
<1>3. CASE HeaderLine
  <2>1. /\ Start + 1 <= last /\ response[Start] \in HeaderLines
        /\ pos' = Start + 1 /\ r_state' = 0
        /\ headers' = Append(headers, Whole!Entry(response[Start]))
        /\ UNCHANGED <<pc, result>>
    BY <1>3 DEF HeaderLine, Arrived, TakeTo
  <2>2. Len(headers) < Count
    BY <1>1, <1>2, <2>1, NextLine, CellsDiffer
  <2>3. Whole!Entry(response[Start]) \in Header
    BY <2>1, EntriesAreHeaders
  <2>4. /\ headers' \in Seq(Header) /\ Len(headers') = Len(headers) + 1
        /\ \A i \in 1..Len(headers) : headers'[i] = headers[i]
        /\ headers'[Len(headers) + 1] = Whole!Entry(response[Start])
    BY <1>2, <2>1, <2>3, AppendProperties
  <2>5. TypeOK'
    BY <1>1, <1>2, <2>1, <2>2, <2>4, NextLine DEF Called, TypeOK, Header
  <2>6. HeaderPart'
    <3>1. pos' = 2 * Len(headers') + 3 + r_state'
      BY <1>1, <1>2, <2>1, <2>4, NextLine
    <3>2. ASSUME NEW i \in 1..Len(headers')
          PROVE  /\ response[2 * i + 2] \in HeaderLines
                 /\ headers'[i] = Whole!Entry(response[2 * i + 2])
      <4>1. CASE i \in 1..Len(headers)
        BY <1>1, <2>4, <4>1 DEF HeaderPart
      <4>2. CASE i = Len(headers) + 1
        <5>1. 2 * i + 2 = Start
          BY <1>1, <1>2, <4>2, NextLine
        <5> QED BY <2>1, <2>4, <4>2, <5>1
      <4> QED BY <1>2, <2>4, <4>1, <4>2
    <3>3. Len(headers') <= Count
      BY <1>2, <2>2, <2>4
    <3>4. \A i \in 1..Len(headers') : /\ response'[2 * i + 2] \in HeaderLines
                                      /\ headers'[i] = Whole!Entry(response'[2 * i + 2])
      BY <1>1, <3>2
    <3>5. /\ response'[1] = Whole!Http /\ response'[2] \in Codes
          /\ status_n' \in {response'[2]} \cup Whole!WrongDigits' /\ Count' = Count
      BY <1>1 DEF HeaderPart, Count, Whole!WrongDigits
    <3> QED BY <2>1, <3>1, <3>3, <3>4, <3>5 DEF HeaderPart
  <2>7. PartsInv'
    BY <1>1, <2>1, <2>6 DEF Called, PartsInv
  <2> QED BY <1>1, <2>1, <2>5, <2>7 DEF UpstreamInv, WholeStep, Whole!vars
<1>4. CASE PartOfHeader
  <2>1. /\ last <= Start
        /\ last = Start => response[Start] \in HeaderLines
        /\ pos' = last /\ r_state' = r_state + last - pos /\ pc' = "receive"
        /\ UNCHANGED <<headers, result>>
    BY <1>1, <1>4, NextLine DEF PartOfHeader, Arrived, Again
  <2>2. /\ r_state' = last - (Start - 1) /\ r_state' \in 0..1 /\ pos' \in Nat
        /\ pos' = 2 * Len(headers) + 3 + r_state' /\ r_state' <= pos'
        /\ r_state' = 1 => last = Start
    <3>1. /\ Start = 2 * Len(headers) + 4 /\ Start \in Nat
          /\ pos = Start - 1 + r_state /\ pos <= last /\ last \in Nat
          /\ r_state \in 0..1 /\ Len(headers) \in Nat
      BY <1>1, <1>2, NextLine DEF HeaderPart, EmptyLine
    <3>2. r_state' = last - (Start - 1) /\ r_state' \in 0..1
      BY <2>1, <3>1
    <3> QED BY <2>1, <3>1, <3>2
  <2>3. TypeOK'
    <3>1. last \in 0..Len(response) /\ last \in Nat
      BY <1>1, <1>2 DEF Called, TypeOK
    <3>2. last' \in 0..Len(response') /\ pos' \in 0..last' /\ r_state' \in 0..pos'
      BY <1>1, <2>1, <2>2, <3>1
    <3> QED BY <1>1, <2>1, <3>2 DEF Called, TypeOK
  <2>4. HeaderPart'
    BY <1>1, <2>1, <2>2 DEF HeaderPart, Count, Whole!WrongDigits, Whole!Entry
  <2>5. PartsInv'
    BY <1>1, <2>1, <2>4 DEF Called, PartsInv
  <2> QED BY <1>1, <2>1, <2>3, <2>5 DEF UpstreamInv, WholeStep, Whole!vars
<1>5. CASE InvalidHeader
  <2>1. /\ Start <= last /\ response[Start] \notin HeaderLines \cup {LF}
        /\ result' = Whole!Failed("INVALID_HEADER") /\ pc' = "finalized"
        /\ UNCHANGED <<pos, r_state, headers>>
    BY <1>5 DEF InvalidHeader, Arrived, Return
  <2>2. TypeOK' /\ PartsInv'
    BY <1>1, <2>1, ResultsDiffer DEF Called, TypeOK, PartsInv
  <2>3. response[Start] = Junk /\ Start \in 4..(EmptyLine - 1)
    BY <1>1, <1>2, <2>1, NextLine DEF EmptyLine
  <2>4. ~Whole!JunkAt(1..2) /\ Whole!JunkAt(4..(Whole!EndOfHeader - 1))
    <3>1. Whole!EndOfHeader = EmptyLine
      BY <1>1, HeaderEnds DEF Called
    <3>2. response[1] # Whole!Junk /\ response[2] # Whole!Junk
      BY <1>1, CellsDiffer DEF HeaderPart, Junk
    <3>3. response[Start] = Whole!Junk
      BY <2>3 DEF Junk
    <3> QED BY <2>1, <2>3, <3>1, <3>2, <3>3 DEF Whole!JunkAt
  <2>5. Whole!Judge
    BY <1>1, <2>1, <2>4 DEF Called, Whole!Judge, Whole!BadHeader
  <2> QED BY <2>2, <2>5 DEF UpstreamInv, WholeStep, Whole!Next
<1>6. CASE HeaderDone
  <2> DEFINE server == Whole!Missing("Server", headers)
             date == Whole!Missing("Date", headers)
  <2>1. /\ Start <= last /\ response[Start] = LF
        /\ pos' = Start /\ r_state' = 0
        /\ headers' = headers \o server \o date
        /\ result' = Whole!Parsed(status_n, headers') /\ pc' = "finalized"
    BY <1>6 DEF HeaderDone, Arrived, TakeTo, Return
  <2>2. Len(headers) = Count /\ Start = EmptyLine
    BY <1>1, <1>2, <2>1, NextLine DEF EmptyLine
  <2>3. headers' \in Seq(Header) /\ Len(headers') <= MaxHeaders + 2
    <3>1. /\ server \in Seq(Header) /\ Len(server) \in 0..1
          /\ date \in Seq(Header) /\ Len(date) \in 0..1
      BY EntriesAreHeaders
    <3> HIDE DEF server, date
    <3>2. headers \o server \in Seq(Header) /\ Len(headers \o server) = Len(headers) + Len(server)
      BY <1>2, <3>1
    <3>3. /\ (headers \o server) \o date \in Seq(Header)
          /\ Len((headers \o server) \o date) = Len(headers \o server) + Len(date)
      BY <3>1, <3>2
    <3>4. Len((headers \o server) \o date) <= MaxHeaders + 2
      <4> DEFINE a == Len(headers)
                 b == Len(server)
                 c == Len(date)
      <4>1. /\ a \in 0..Count /\ b \in 0..1 /\ c \in 0..1
            /\ Count \in Nat /\ MaxHeaders \in Nat /\ Count <= MaxHeaders
        BY <1>2, <3>1
      <4>2. Len((headers \o server) \o date) = a + b + c
        BY <3>2, <3>3
      <4> HIDE DEF a, b, c
      <4> QED BY <4>1, <4>2
    <3> QED BY <2>1, <3>3, <3>4
  <2>4. TypeOK'
    BY <1>1, <1>2, <2>1, <2>3, ResultsDiffer, NextLine DEF Called, TypeOK, Header
  <2>5. PartsInv'
    BY <1>1, <2>1 DEF PartsInv
  <2>6. Whole!EndOfHeader = EmptyLine
    BY <1>1, HeaderEnds DEF Called
  <2>7. headers = [i \in 1..Count |-> Whole!Entry(response[2 * i + 2])]
    BY <1>1, <1>2, <2>2 DEF HeaderPart
  <2>8. headers' = Whole!Headers
    <3>1. (EmptyLine - 4) \div 2 = Count
      BY <1>2 DEF EmptyLine
    <3> QED BY <2>1, <2>6, <2>7, <3>1 DEF Whole!Headers
  <2>9. ~Whole!JunkAt(1..EmptyLine)
    <3> SUFFICES ASSUME NEW i \in 1..EmptyLine PROVE response[i] # Junk
      BY DEF Whole!JunkAt, Junk
    <3>1. CASE i \in 1..3
      BY <1>1, <3>1, CellsDiffer DEF HeaderPart, Called, Shape
    <3>2. CASE i = EmptyLine
      BY <1>1, <3>2, CellsDiffer DEF Called, Shape
    <3>3. CASE i \in 4..(EmptyLine - 1)
      <4>1. PICK k \in 1..Count : i = 2 * k + 2 \/ i = 2 * k + 3
        <5>1. /\ (i - 2) \div 2 \in 1..Count
              /\ i = 2 * ((i - 2) \div 2) + 2 \/ i = 2 * ((i - 2) \div 2) + 3
          BY <1>2, <3>3 DEF EmptyLine
        <5> QED BY <5>1
      <4>2. response[2 * k + 2] \in HeaderLines /\ response[2 * k + 3] = LF
        BY <1>1, <2>2 DEF HeaderPart, Called, Shape
      <4> QED BY <4>1, <4>2, CellsDiffer
    <3> QED BY <1>2, <3>1, <3>2, <3>3 DEF EmptyLine
  <2>10. Whole!Judge
    <3>1. status_n \in {response[2]} \cup Whole!WrongDigits /\ last >= EmptyLine
      BY <1>1, <2>1, <2>2, NextLine DEF HeaderPart
    <3>2. Whole!Parsed(status_n, Whole!Headers) \in Whole!GoodHeader
      BY <2>6, <2>9, <3>1 DEF Whole!GoodHeader
    <3> QED BY <1>1, <2>1, <2>8, <3>2 DEF Called, Whole!Judge
  <2> QED BY <2>4, <2>5, <2>10 DEF UpstreamInv, WholeStep, Whole!Next
<1> QED BY <1>3, <1>4, <1>5, <1>6 DEF upstream_process_header

(* The reference is dropped.                                               *)
LEMMA FinalizeStep == UpstreamInv /\ finalize_request => UpstreamInv' /\ WholeStep
BY DEF UpstreamInv, TypeOK, PartsInv, finalize_request, upstream, WholeStep, Whole!vars

(* Every step keeps the invariant and maps to a step or to none.           *)
LEMMA UpstreamStep == UpstreamInv /\ [Next]_vars => UpstreamInv' /\ WholeStep
<1> SUFFICES ASSUME UpstreamInv, [Next]_vars PROVE UpstreamInv' /\ WholeStep
  OBVIOUS
<1>1. CASE Fails({"process"})
  BY <1>1, FailStep
<1>2. CASE UNCHANGED vars
  <2>1. WholeStep
    BY <1>2 DEF vars, upstream, WholeStep, Whole!vars
  <2>2. TypeOK'
    BY <1>2 DEF vars, upstream, UpstreamInv, TypeOK
  <2>3. PartsInv'
    BY <1>2 DEF vars, upstream, UpstreamInv, PartsInv, StatusPart, HeaderPart, Count,
                Whole!WrongDigits
  <2> QED BY <2>1, <2>2, <2>3 DEF UpstreamInv
<1> QED BY <1>1, <1>2, HandlerStep, CreateStep, ReceiveStep, GiveUpStep, StatusLineStep,
           HeaderStep, FinalizeStep DEF Next

-----------------------------------------------------------------------------
(* The theorems.                                                           *)

(* The invariant holds for every response and however it is cut.           *)
THEOREM UpstreamInvariant == Spec => []UpstreamInv
BY UpstreamInit, UpstreamStep, PTL DEF Spec

(* The state stays in its types, and a request keeps its reference until   *)
(* it is finalized.                                                        *)
THEOREM UpstreamTypes == Spec => []TypeOK
<1>1. UpstreamInv => TypeOK
  BY DEF UpstreamInv
<1> QED BY <1>1, UpstreamInvariant, PTL

(* Whether a response has a header, and which, is invalid or is a body     *)
(* without a header does not depend on the pieces it arrives in; where     *)
(* such a body begins is left open by WholeResponse.                       *)
THEOREM UpstreamImplementsWholeResponse == Spec => ImplementsWholeResponse
<1>1. Init => Whole!Init
  BY UpstreamInit
<1>2. UpstreamInv /\ [Next]_vars => [Whole!Next]_(Whole!vars)
  BY UpstreamStep DEF WholeStep
<1> QED BY <1>1, <1>2, UpstreamInvariant, PTL DEF Spec, ImplementsWholeResponse, Whole!Spec

-----------------------------------------------------------------------------
(* The parsers stop where the header does.                                 *)

(* nginx is asked for more of a response only when its header is not       *)
(* complete: neither parser stops before all that arrived was taken, and   *)
(* the second one does not stop behind the empty line.                     *)
WaitsForHeaderOnly == pc = "receive" => last < Whole!EndOfHeader

(* A call of a parser that does not end the request, and does not return   *)
(* NGX_AGAIN, takes something of what arrived, so that it cannot go round  *)
(* its loop for ever.                                                      *)
ParserAdvances ==
    [][pc = "process" /\ pc' = "process" => pos' \in (pos + 1)..last]_vars

(* A complete header is not left waiting in the buffer for a body that the *)
(* backend need not send: the safety part of CompleteHeaderIsJudged.       *)
THEOREM IncompleteHeadersAreAwaited == Spec => []WaitsForHeaderOnly
<1>1. UpstreamInv => WaitsForHeaderOnly
  <2> SUFFICES ASSUME UpstreamInv, pc = "receive" PROVE last < Whole!EndOfHeader
    BY DEF WaitsForHeaderOnly
  <2>1. Shape /\ Whole!EndOfHeader = EmptyLine
    BY ResponseShape, HeaderEnds DEF UpstreamInv, TypeOK
  <2>2. Count \in Nat /\ EmptyLine = 2 * Count + 4 /\ pos = last
    BY <2>1, SizesAssumption DEF Shape, EmptyLine, UpstreamInv, PartsInv
  <2>3. CASE process_header = "status_line"
    BY <2>1, <2>2, <2>3 DEF UpstreamInv, PartsInv, StatusPart, TypeOK
  <2>4. CASE process_header = "header"
    <3>1. /\ HeaderPart /\ Len(headers) \in 0..Count /\ r_state \in 0..1
          /\ pos = 2 * Len(headers) + 3 + r_state
      BY <2>2, <2>4 DEF UpstreamInv, PartsInv, HeaderPart, TypeOK
    <3>2. ~(Len(headers) = Count /\ r_state = 1)
      <4> SUFFICES ASSUME Len(headers) = Count, r_state = 1 PROVE FALSE
        OBVIOUS
      <4>1. pos = EmptyLine /\ response[pos] \in HeaderLines
        BY <2>2, <3>1 DEF HeaderPart
      <4> QED BY <2>1, <4>1, CellsDiffer DEF Shape
    <3> QED BY <2>1, <2>2, <3>1, <3>2
  <2> QED BY <2>3, <2>4 DEF UpstreamInv, PartsInv
<1> QED BY <1>1, UpstreamInvariant, PTL

(* The parsers come to an end of what arrived, and with the theorem before *)
(* to the end of the header when that is there.                            *)
THEOREM ParsersAdvance == Spec => ParserAdvances
<1>1. ASSUME UpstreamInv, Next, pc = "process", pc' = "process"
      PROVE  pos' \in (pos + 1)..last
  <2>1. pos \in Nat /\ last \in Nat /\ r_state \in Nat /\ r_state <= pos
    BY <1>1 DEF UpstreamInv, TypeOK
  <2>2. CASE process_status_line
    <3>1. StatusLine
      BY <1>1, <2>2 DEF process_status_line, NoStatusLine, PartOfStatusLine, Return, Again
    <3>2. Start = 1 /\ pos <= 2
      BY <1>1, <2>1, <2>2 DEF process_status_line, UpstreamInv, PartsInv, StatusPart, Start
    <3> QED BY <2>1, <3>1, <3>2 DEF StatusLine, TakeTo, Arrived
  <2>3. CASE upstream_process_header
    <3>1. HeaderLine
      BY <1>1, <2>3 DEF upstream_process_header, HeaderDone, InvalidHeader, PartOfHeader,
                        Return, Again
    <3>2. Start = pos - r_state + 1 /\ r_state \in 0..1
      BY <1>1, <2>3 DEF upstream_process_header, UpstreamInv, PartsInv, HeaderPart, Start
    <3> QED BY <2>1, <3>1, <3>2 DEF HeaderLine, TakeTo, Arrived
  <2> QED BY <1>1, <2>2, <2>3 DEF Next, handler, create_request, Receive, GiveUp, Fails,
                                  finalize_request, Return
<1> QED BY <1>1, UpstreamInvariant, PTL DEF Spec, ParserAdvances
=============================================================================
