------------------------------- MODULE HttpJob -------------------------------
(***************************************************************************)
(* One connection as a job (job.cpp): the request parser, which a worker   *)
(* thread runs once for every piece of input, the answer and the reset for *)
(* the next request of a keep-alive connection.                            *)
(*                                                                         *)
(* The input is a sequence of cells.  A cell is the text of one line, a    *)
(* byte of a body, CR or LF; a line's text is a cell because the code only *)
(* tells apart what the line says.  READ_BUFFER_SIZE counts cells, and     *)
(* WRITE_BUFFER_SIZE units of the sizes in PartSize.                       *)
(*                                                                         *)
(* A piece arrives when the worker is done with the piece before.  Where   *)
(* the behaviour of the code is undefined (an access outside m_read_buf,   *)
(* strlen of a NULL or freed pointer, an int that overflows, a call with   *)
(* what nothing initialised) and does more than what the model allows for, *)
(* the model stops, at step "undefined".                                   *)
(*                                                                         *)
(* m_host, m_version and m_request are written and never read by a         *)
(* decision: they are left out, as are the names of the methods that are   *)
(* handled alike ("POST" stands for all but GET and HEAD).                 *)
(***************************************************************************)
EXTENDS Integers, Sequences, SequencesExt, FiniteSets

CONSTANTS
    Urls,               (* the request targets clients ask for              *)
    Resource,           (* what stat() finds for each of them               *)
    Lengths,            (* the lengths they declare for their bodies        *)
    Requests,           (* the requests clients send                        *)
    PartSize,           (* the size of each part of a response              *)
    READ_BUFFER_SIZE, WRITE_BUFFER_SIZE,
    INT_MAX,            (* the largest int                                  *)
    CutsInput           (* whether a request may arrive in several pieces   *)

Resources == {"missing", "forbidden", "directory", "empty", "file"}
Methods == {"GET", "HEAD", "POST"}
PartKinds == {"status", "length", "linger", "blank", "content"}

CR == <<"CR">>
LF == <<"LF">>
NUL == <<"NUL">>
Byte == <<"byte">>

RequestLines == {<<"request", m, u>> : m \in Methods, u \in Urls} \cup {<<"bad">>}
HeaderLines == {<<"keep-alive">>, <<"other">>} \cup {<<"length", n>> : n \in Lengths}
Cells == RequestLines \cup HeaderLines \cup {CR, LF, NUL, Byte}

ASSUME ResourceAssumption == Resource \in [Urls -> Resources]
ASSUME RequestsAssumption ==
    \A q \in Requests :
        /\ DOMAIN q = {"line", "headers", "body"}
        /\ q.line \in RequestLines
        /\ q.headers \in Seq(HeaderLines)
        /\ q.body \in Seq({Byte, CR, LF})
ASSUME SizesAssumption ==
    /\ Lengths \subseteq Int
    /\ PartSize \in [PartKinds -> Nat \ {0}]
    /\ READ_BUFFER_SIZE \in Nat \ {0}
    /\ WRITE_BUFFER_SIZE \in Nat \ {0}
    /\ INT_MAX \in Nat /\ INT_MAX > READ_BUFFER_SIZE
    /\ CutsInput \in BOOLEAN

(* A status line and three header lines fit in an empty m_write_buf.       *)
ASSUME HeaderFitsAssumption ==
    PartSize["status"] + PartSize["length"] + PartSize["linger"] + PartSize["blank"]
        < WRITE_BUFFER_SIZE - 1

VARIABLES
    m_read_buf, m_read_idx, m_checked_idx, m_start_line,
    m_check_state, m_method, m_content_length, m_linger,
    m_url,          (* index of the request line m_url points into, or -1   *)
    m_write_buf, m_write_idx,
    m_file_address,
    pc,             (* where the worker is                                  *)
    line_status,    (* local of process_read                                *)
    ret,            (* the HTTP_CODE that process_read returned             *)
    request, todo,  (* client: what it asks for, what it has not yet sent   *)
    whole           (* client: its request arrived in one piece, at a       *)
                    (* parser that was reset, and was not answered yet      *)

buffer == <<m_read_buf, m_read_idx, m_checked_idx, m_start_line>>
parser == <<m_check_state, m_method, m_content_length, m_linger, m_url>>
output == <<m_write_buf, m_write_idx>>
client == <<request, todo, whole>>
vars == <<buffer, parser, output, m_file_address, pc, line_status, ret, client>>

NoUrl == -1
CheckStates == {"REQUESTLINE", "HEADER", "CONTENT"}
Codes == {"NO_REQUEST", "BAD_REQUEST", "NO_RESOURCE", "FORBIDDEN_REQUEST",
          "FILE_REQUEST"}
Steps == {"idle", "read", "line", "request", "respond", "write", "undefined"}

-----------------------------------------------------------------------------
(* The bytes a request is sent as.                                         *)
Bytes(q) ==
    LET lines == <<q.line>> \o q.headers
        ended == [i \in 1..(3 * Len(lines)) |->
                     <<lines[(i + 2) \div 3], CR, LF>>[((i - 1) % 3) + 1]]
    IN  ended \o <<CR, LF>> \o q.body

(* memset of m_read_buf.                                                   *)
Cleared == [i \in 0..(READ_BUFFER_SIZE - 1) |-> NUL]

-----------------------------------------------------------------------------
(* CJob::init(), from the constructor.  m_file_address is not initialised. *)
Init ==
    /\ m_read_buf = Cleared
    /\ m_read_idx = 0 /\ m_checked_idx = 0 /\ m_start_line = 0
    /\ m_check_state = "REQUESTLINE"
    /\ m_method = "GET"
    /\ m_content_length = 0
    /\ m_linger = FALSE
    /\ m_url = NoUrl
    /\ m_write_buf = <<>> /\ m_write_idx = 0
    /\ m_file_address \in {"NULL", "garbage"}
    /\ pc = "idle"
    /\ line_status = "LINE_OK"
    /\ ret = "NO_REQUEST"
    /\ request \in Requests
    /\ todo = Bytes(request)
    /\ whole = FALSE

(* Mutant: the length of the body is kept for the next request.            *)
init_KeepsLength ==
    /\ m_read_buf' = Cleared
    /\ m_read_idx' = 0 /\ m_checked_idx' = 0 /\ m_start_line' = 0
    /\ m_check_state' = "REQUESTLINE"
    /\ m_method' = "GET"
    /\ m_linger' = FALSE
    /\ m_url' = NoUrl
    /\ m_write_buf' = <<>> /\ m_write_idx' = 0
    /\ UNCHANGED m_content_length

init ==
    /\ m_read_buf' = Cleared
    /\ m_read_idx' = 0 /\ m_checked_idx' = 0 /\ m_start_line' = 0
    /\ m_check_state' = "REQUESTLINE"
    /\ m_method' = "GET"
    /\ m_content_length' = 0
    /\ m_linger' = FALSE
    /\ m_url' = NoUrl
    /\ m_write_buf' = <<>> /\ m_write_idx' = 0

-----------------------------------------------------------------------------
(* The client asks for something else once its request was sent.           *)
NextRequest ==
    /\ pc = "idle"
    /\ todo = <<>>
    /\ request' \in Requests
    /\ todo' = Bytes(request')
    /\ whole' = FALSE
    /\ UNCHANGED <<buffer, parser, output, m_file_address, pc, line_status, ret>>

(* ReadEventCb: a piece of the input is copied to the start of m_read_buf, *)
(* and its length is added to m_read_idx; then a worker runs process().    *)
ReadEventCb(k) ==
    /\ pc = "idle"
    /\ k = Len(todo) \/ (CutsInput /\ k < Len(todo))
    /\ m_read_idx' = m_read_idx + k
    /\ todo' = SubSeq(todo, k + 1, Len(todo))
    /\ whole' = (m_read_idx = 0 /\ k = Len(Bytes(request)))
    /\ line_status' = "LINE_OK"
    /\ \/ /\ m_read_idx' <= READ_BUFFER_SIZE
          /\ m_read_buf' = [i \in DOMAIN m_read_buf |->
                               IF i < k THEN todo[i + 1] ELSE m_read_buf[i]]
          /\ pc' = "read"
       \/ /\ m_read_idx' > READ_BUFFER_SIZE
          /\ pc' = "undefined"
          /\ UNCHANGED m_read_buf
    /\ UNCHANGED <<m_checked_idx, m_start_line, parser, output, m_file_address,
                   ret, request>>

-----------------------------------------------------------------------------
(* parse_line: the first CR or LF that was not checked yet.                *)
LineEnds ==
    {i \in m_checked_idx..(m_read_idx - 1) :
        /\ m_read_buf[i] \in {CR, LF}
        /\ \A j \in m_checked_idx..(i - 1) : m_read_buf[j] \notin {CR, LF}}

(* The line ends with cells i and i + 1.                                   *)
TakeLine(i) ==
    /\ m_read_buf' = [m_read_buf EXCEPT ![i] = NUL, ![i + 1] = NUL]
    /\ m_checked_idx' = i + 2
    /\ pc' = "line"
    /\ line_status' = "LINE_OK"

(* Mutant: the last byte will be checked again.                            *)
LeaveLine_StepsBack(i) ==
    /\ m_checked_idx' = i - 1
    /\ pc' = "idle"
    /\ UNCHANGED <<m_read_buf, line_status>>

(* No complete line: process_read returns NO_REQUEST, and so does process. *)
LeaveLine(i) ==
    /\ m_checked_idx' = i
    /\ pc' = "idle"
    /\ UNCHANGED <<m_read_buf, line_status>>

(* The loop of process_read calls parse_line, except for the first round   *)
(* on a body.                                                              *)
parse_line ==
    /\ pc = "read"
    /\ ~(m_check_state = "CONTENT" /\ line_status = "LINE_OK")
    /\ \/ LineEnds = {} /\ LeaveLine(m_read_idx)
       \/ \E i \in LineEnds :
             \/ /\ m_read_buf[i] = CR
                /\ IF i + 1 < m_read_idx /\ m_read_buf[i + 1] = LF
                   THEN TakeLine(i) ELSE LeaveLine(i)
             \/ /\ m_read_buf[i] = LF
                /\ IF i > 1 /\ m_read_buf[i - 1] = CR
                   THEN TakeLine(i - 1) ELSE LeaveLine(i)
    /\ UNCHANGED <<m_read_idx, m_start_line, parser, output, m_file_address, ret,
                   client>>

-----------------------------------------------------------------------------
(* The switch of process_read on the line that was found.                  *)

(* get_line()                                                              *)
Text == m_read_buf[m_start_line]

(* The next line starts where parse_line stopped.  (Mutant: it does not.)  *)
NextLine_KeepsStart ==
    /\ pc = "line"
    /\ UNCHANGED <<m_read_buf, m_read_idx, m_checked_idx, m_start_line, output,
                   m_file_address, line_status, client>>

NextLine ==
    /\ pc = "line"
    /\ m_start_line' = m_checked_idx
    /\ UNCHANGED <<m_read_buf, m_read_idx, m_checked_idx, output, m_file_address,
                   line_status, client>>

(* Mutant: the header is expected before the target was tested.            *)
parse_request_line_Early ==
    /\ m_check_state = "REQUESTLINE"
    /\ NextLine
    /\ m_check_state' = "HEADER"
    /\ \/ /\ Text[1] = "request"
          /\ m_method' = Text[2]
          /\ m_url' = m_start_line
          /\ pc' = "read"
          /\ UNCHANGED ret
       \/ /\ Text[1] # "request"
          /\ m_method' \in Methods
          /\ m_url' \in {NoUrl, m_start_line}
          /\ ret' = "BAD_REQUEST"
          /\ pc' = "respond"
    /\ UNCHANGED <<m_content_length, m_linger>>

(* A line that is rejected may have been rejected before or after its      *)
(* method and its target were stored.                                      *)
parse_request_line ==
    /\ m_check_state = "REQUESTLINE"
    /\ NextLine
    /\ \/ /\ Text[1] = "request"
          /\ m_method' = Text[2]
          /\ m_url' = m_start_line
          /\ m_check_state' = "HEADER"
          /\ pc' = "read"
          /\ UNCHANGED ret
       \/ /\ Text[1] # "request"
          /\ m_method' \in Methods
          /\ m_url' \in {NoUrl, m_start_line}
          /\ ret' = "BAD_REQUEST"
          /\ pc' = "respond"
          /\ UNCHANGED m_check_state
    /\ UNCHANGED <<m_content_length, m_linger>>

(* The empty line ends the header; a body follows unless the method is GET *)
(* or HEAD or no length was given.                                         *)
EndOfHeader ==
    /\ Text = NUL
    /\ \/ /\ m_method = "POST" /\ m_content_length # 0
          /\ m_check_state' = "CONTENT"
          /\ pc' = "read"
       \/ /\ m_method # "POST" \/ m_content_length = 0
          /\ pc' = "request"
          /\ UNCHANGED m_check_state
    /\ UNCHANGED <<m_linger, m_content_length>>

(* The long that atol returns is stored in an int.                         *)
ToInt(long) == ((long + INT_MAX + 1) % (2 * INT_MAX + 2)) - INT_MAX - 1

HeaderField ==
    /\ Text # NUL
    /\ m_linger' = (m_linger \/ Text[1] = "keep-alive")
    /\ m_content_length' =
          IF Text[1] = "length" THEN ToInt(Text[2]) ELSE m_content_length
    /\ pc' = "read"
    /\ UNCHANGED m_check_state

parse_headers ==
    /\ m_check_state = "HEADER"
    /\ NextLine
    /\ EndOfHeader \/ HeaderField
    /\ UNCHANGED <<m_method, m_url, ret>>

(* parse_content counts the body from the bytes that were checked.         *)
BodySize == m_content_length + m_checked_idx
BodyComplete == m_read_idx >= BodySize

(* The byte after the body is cleared, counted from m_start_line: behind a *)
(* full m_read_buf it is the low byte of m_read_idx, which is 0 already    *)
(* when m_read_idx is 2048.  A negative length is always complete, and     *)
(* leads back to any of the cells before, of which it counts the bytes, or *)
(* to what lies before m_read_buf (-1).                                    *)
BehindBody ==
    IF m_content_length >= 0 THEN {m_start_line + m_content_length}
    ELSE -1..(m_start_line - 1)

TakeBody ==
    /\ BodyComplete
    /\ \E i \in BehindBody :
          \/ /\ i >= 0
             /\ m_read_buf' =
                   [j \in DOMAIN m_read_buf |-> IF j = i THEN NUL ELSE m_read_buf[j]]
             /\ pc' = "request"
          \/ /\ i = -1
             /\ pc' = "undefined"
             /\ UNCHANGED m_read_buf
    /\ UNCHANGED line_status

(* Mutant: the loop goes on as if another line had been found.             *)
AwaitBody_KeepsStatus ==
    /\ ~BodyComplete
    /\ pc' = "read"
    /\ UNCHANGED <<m_read_buf, line_status>>

AwaitBody ==
    /\ ~BodyComplete
    /\ line_status' = "LINE_OPEN"
    /\ pc' = "read"
    /\ UNCHANGED m_read_buf

(* The sum overflows: the comparison may wait for more, as AwaitBody does, *)
(* or hold, and the byte that is cleared lies behind all memory.           *)
OverflowBody ==
    /\ BodySize > INT_MAX
    /\ pc' = "undefined"
    /\ UNCHANGED <<m_read_buf, line_status>>

(* The body begins at m_start_line in the first round; later rounds expect *)
(* all of it again after what parse_line checked.                          *)
parse_content ==
    /\ m_check_state = "CONTENT"
    /\ pc = "line" \/ (pc = "read" /\ line_status = "LINE_OK")
    /\ m_start_line' = m_checked_idx
    /\ TakeBody \/ AwaitBody \/ OverflowBody
    /\ UNCHANGED <<m_read_idx, m_checked_idx, parser, output, m_file_address, ret,
                   client>>

-----------------------------------------------------------------------------
(* What stat() finds: m_url points into m_read_buf, where another piece    *)
(* may have taken the place of the request line since it was parsed, or a  *)
(* body of negative length have cut it.                                    *)
Found ==
    LET line == m_read_buf[m_url]
    IN  IF line[1] = "request" THEN {Resource[line[3]]} ELSE Resources

(* strncpy reads from m_url, which is not NULL here (UrlIsSet).  Neither   *)
(* open() nor mmap() is tested: m_file_address is MAP_FAILED where one of  *)
(* them fails ("failed"), and always for a file of size 0 ("empty").       *)
do_request ==
    /\ pc = "request"
    /\ m_url # NoUrl
    /\ \E found \in Found :
          \/ /\ found = "missing"
             /\ ret' = "NO_RESOURCE"
             /\ UNCHANGED m_file_address
          \/ /\ found = "forbidden"
             /\ ret' = "FORBIDDEN_REQUEST"
             /\ UNCHANGED m_file_address
          \/ /\ found = "directory"
             /\ ret' = "BAD_REQUEST"
             /\ UNCHANGED m_file_address
          \/ /\ found = "empty"
             /\ ret' = "FILE_REQUEST"
             /\ m_file_address' = "empty"
          \/ /\ found = "file"
             /\ ret' = "FILE_REQUEST"
             /\ m_file_address' \in {"file", "failed"}
    /\ pc' = "respond"
    /\ UNCHANGED <<buffer, parser, output, line_status, client>>

-----------------------------------------------------------------------------
(* The answer.                                                             *)

(* Mutant: what vsnprintf would have written is counted.                   *)
add_response_Unchecked(w, kind, value) ==
    IF w.idx < WRITE_BUFFER_SIZE
    THEN [buf |-> Append(w.buf, <<kind, value>>), idx |-> w.idx + PartSize[kind],
          ok |-> TRUE]
    ELSE [w EXCEPT !.ok = FALSE]

(* add_response appends a part to m_write_buf, or fails and leaves         *)
(* m_write_idx where it is.                                                *)
add_response(w, kind, value) ==
    IF w.idx < WRITE_BUFFER_SIZE /\ PartSize[kind] < WRITE_BUFFER_SIZE - 1 - w.idx
    THEN [buf |-> Append(w.buf, <<kind, value>>), idx |-> w.idx + PartSize[kind],
          ok |-> TRUE]
    ELSE [w EXCEPT !.ok = FALSE]

add_status_line(w) == add_response(w, "status", ret)

add_headers(w) ==
    LET linger == IF m_linger THEN "keep-alive" ELSE "close"
    IN  add_response(add_response(add_response(w, "length", ret), "linger", linger),
                     "blank", "CRLF")

add_content(w) == add_response(w, "content", ret)

Written(w) == m_write_buf' = w.buf /\ m_write_idx' = w.idx

(* An empty file falls through to the default case and is a failure.  A    *)
(* file that is not has evbuffer_commit_space called with m_iv_count and   *)
(* m_iv, which nothing initialises: it finds nothing to commit, or commits *)
(* what was never written (and evbuffer_unlock does nothing, as no lock    *)
(* was ever enabled for the buffer).                                       *)
process_write ==
    /\ pc = "respond"
    /\ LET written == [buf |-> m_write_buf, idx |-> m_write_idx, ok |-> TRUE]
           header == add_headers(add_status_line(written))
           full == add_content(header)
       IN  \/ /\ ret = "FILE_REQUEST" /\ m_file_address \in {"file", "failed"}
              /\ Written(header)
              /\ pc' \in {"write", "undefined"}
           \/ /\ ret # "FILE_REQUEST" /\ full.ok
              /\ Written(full)
              /\ pc' = "write"
           \/ /\ IF ret = "FILE_REQUEST" THEN m_file_address = "empty" ELSE ~full.ok
              /\ Written(full)
              /\ pc' = "undefined"   (* close_conn(), then write() on what it freed *)
    /\ UNCHANGED <<buffer, parser, m_file_address, line_status, ret, client>>

(* Mutant: write() does not call unmap().                                  *)
write_KeepsMapping ==
    /\ pc = "write"
    /\ \/ /\ m_file_address \in {"file", "garbage"}
          /\ pc' = "idle"
          /\ whole' = FALSE
          /\ IF m_linger THEN init ELSE UNCHANGED <<buffer, parser, output>>
       \/ /\ m_file_address \in {"NULL", "garbage", "failed"}
          /\ pc' = "undefined"
          /\ UNCHANGED <<buffer, parser, output, whole>>
    /\ UNCHANGED <<m_file_address, line_status, ret, request, todo>>

(* write() hands m_write_buf and the file to the bufferevent, unmaps the   *)
(* file and resets the job if the connection is to be kept.  Its result is *)
(* not used.  m_file_address is NULL when it was unmapped before, its      *)
(* first value may happen to be a readable address, and MAP_FAILED is not. *)
write ==
    /\ pc = "write"
    /\ \/ /\ m_file_address \in {"file", "garbage"}
          /\ m_file_address' = "NULL"
          /\ pc' = "idle"
          /\ whole' = FALSE
          /\ IF m_linger THEN init ELSE UNCHANGED <<buffer, parser, output>>
       \/ /\ m_file_address \in {"NULL", "garbage", "failed"}
          /\ pc' = "undefined"
          /\ UNCHANGED <<buffer, parser, output, m_file_address, whole>>
    /\ UNCHANGED <<line_status, ret, request, todo>>

-----------------------------------------------------------------------------
process ==
    \/ parse_line \/ parse_request_line \/ parse_headers \/ parse_content
    \/ do_request \/ process_write \/ write

Next ==
    \/ NextRequest
    \/ \E k \in 1..READ_BUFFER_SIZE : ReadEventCb(k)
    \/ process

Spec == Init /\ [][Next]_vars

(* The worker that was given the job is scheduled; nothing makes the       *)
(* client send.                                                            *)
FairSpec == Spec /\ WF_vars(process)

-----------------------------------------------------------------------------
(* Properties.                                                             *)

TypeOK ==
    /\ m_read_buf \in [0..(READ_BUFFER_SIZE - 1) -> Cells]
    /\ m_read_idx \in Nat /\ m_checked_idx \in Nat /\ m_start_line \in Nat
    /\ m_content_length \in (-INT_MAX - 1)..INT_MAX /\ m_write_idx \in Nat
    /\ m_check_state \in CheckStates
    /\ m_method \in Methods
    /\ m_linger \in BOOLEAN
    /\ m_url \in Nat \cup {NoUrl}
    /\ m_write_buf \in Seq(PartKinds \X (Codes \cup {"keep-alive", "close", "CRLF"}))
    /\ m_file_address \in {"NULL", "garbage", "file", "failed", "empty"}
    /\ pc \in Steps
    /\ line_status \in {"LINE_OK", "LINE_OPEN"}
    /\ ret \in Codes
    /\ request \in Requests
    /\ todo \in Seq(Cells)
    /\ whole \in BOOLEAN

(* However the input is cut into pieces, the parser looks at what it was   *)
(* given: the current line starts before the bytes that were checked, they *)
(* are a part of those received, and the target of the request lies in a   *)
(* line that is behind it.                                                 *)
ParserIndices ==
    pc # "undefined" =>
        /\ m_start_line <= m_checked_idx
        /\ m_checked_idx <= m_read_idx
        /\ m_read_idx <= READ_BUFFER_SIZE
        /\ m_url < m_start_line \/ m_url = NoUrl
        /\ pc = "line" => m_start_line < m_checked_idx

(* do_request, which runs after the header or the body, copies from m_url: *)
(* it was set by a request line that was accepted, whatever was rejected   *)
(* or reset in between.                                                    *)
UrlIsSet ==
    /\ m_check_state # "REQUESTLINE" => m_url # NoUrl
    /\ pc = "request" => m_check_state # "REQUESTLINE"

(* What a request is to be answered with.                                  *)
Accepted(q) == q.line[1] = "request"
KeepsAlive(q) == Accepted(q) /\ <<"keep-alive">> \in ToSet(q.headers)
Result(q) ==
    IF ~Accepted(q) THEN "BAD_REQUEST"
    ELSE [missing |-> "NO_RESOURCE", forbidden |-> "FORBIDDEN_REQUEST",
          directory |-> "BAD_REQUEST", empty |-> "FILE_REQUEST",
          file |-> "FILE_REQUEST"][Resource[q.line[3]]]
Answer(q) ==
    LET code == Result(q)
    IN  << <<"status", code>>, <<"length", code>>,
           <<"linger", IF KeepsAlive(q) THEN "keep-alive" ELSE "close">>, <<"blank", "CRLF">> >>
        \o (IF code = "FILE_REQUEST" THEN <<>> ELSE << <<"content", code>> >>)

(* The length of the body that the first n header lines declare: the last  *)
(* of them that does counts.                                               *)
DeclaredLength(headers, n) ==
    LET declaring == {i \in 1..n : headers[i][1] = "length"}
    IN  IF declaring = {} THEN 0
        ELSE headers[CHOOSE i \in declaring : \A k \in declaring : k <= i][2]

(* The body, if one is expected, is at least as long as the client says,   *)
(* and that is a length.                                                   *)
IsComplete(q) ==
    Accepted(q) /\ q.line[2] = "POST" =>
        DeclaredLength(q.headers, Len(q.headers)) \in 0..Len(q.body)

(* A complete request that arrives in one piece at a parser that was reset *)
(* - the first one, and each one that follows a keep-alive response - gets *)
(* its own answer and nothing else: nothing of the requests before is left *)
(* in the parser or in the write buffer.                                   *)
WholeRequestIsAnswered ==
    whole /\ IsComplete(request) =>
        /\ pc = "write" => m_write_buf = Answer(request)
        /\ pc # "idle"

(* The file that do_request maps is unmapped by the same call of process:  *)
(* no piece of input finds a mapping left over from the one before.        *)
MappingIsReleased ==
    m_file_address = "file" => pc \in {"respond", "write", "undefined"}

(* The size of the first n parts of a buffer.                              *)
SizeOfParts(buf) ==
    LET size[n \in 0..Len(buf)] ==
            IF n = 0 THEN 0 ELSE size[n - 1] + PartSize[buf[n][1]]
    IN  size

(* The responses that pile up in m_write_buf while a connection is not     *)
(* reset stay inside it, and m_write_idx is their size.                    *)
WriteBufferBounded ==
    /\ m_write_idx < WRITE_BUFFER_SIZE
    /\ m_write_idx = SizeOfParts(m_write_buf)[Len(m_write_buf)]

(* process() comes to an end, on any input.                                *)
ProcessReturns == pc = "read" ~> pc \in {"idle", "undefined"}
=============================================================================
