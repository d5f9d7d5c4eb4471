---------------------------- MODULE NginxUpstream ----------------------------
(***************************************************************************)
(* The nginx module (ngx_http_mytest_module.c): one request that is passed *)
(* to the backend.  nginx receives the response in pieces and calls        *)
(* u->process_header after each of them, until it does not return          *)
(* NGX_AGAIN.                                                              *)
(*                                                                         *)
(* ngx_http_parse_status_line and ngx_http_parse_header_line are nginx's:  *)
(* they take cells from pos on, and remember the cells they took of a line *)
(* that is not complete (r->state and what they point to).  Which headers  *)
(* nginx hides and the log, which is written with the response as its      *)
(* format, are left out.                                                   *)
(***************************************************************************)
EXTENDS Integers, Sequences

CONSTANTS
    Codes,          (* the codes of status lines                            *)
    HeaderLines,    (* the header lines backends send                       *)
    MaxHeaders,     (* bound: header lines of a response                    *)
    BUFFER_SIZE,    (* u->conf->buffer_size, in cells                       *)
    MayFail         (* whether an allocation or a lookup may fail           *)

ASSUME SizesAssumption ==
    MaxHeaders \in Nat /\ BUFFER_SIZE \in Nat \ {0} /\ MayFail \in BOOLEAN

VARIABLES
    response, cleared,    (* as in WholeResponse                            *)
    pos, last,            (* of u->buffer: cells parsed, cells received     *)
    r_state,              (* cells parsed of the line that is not complete  *)
    process_header,       (* the callback of u                              *)
    status_n,             (* u->headers_in.status_n                         *)
    headers,              (* u->headers_in.headers                          *)
    count,                (* r->main->count                                 *)
    pc,                   (* what nginx is doing with the request           *)
    result

upstream == <<pos, last, r_state>>
vars == <<response, cleared, upstream, process_header, status_n, headers, count,
          pc, result>>

Whole == INSTANCE WholeResponse

LF == Whole!LF
Junk == Whole!Junk

(* status_n before a status line was read, and one with wrong digits.      *)
NoStatus == <<"0">>
Statuses == {NoStatus, Whole!Garbage} \cup Codes

ASSUME LinesAssumption ==
    /\ Junk \notin Codes
    /\ HeaderLines \subseteq STRING \X {"shorter", "same", "longer"}

Names == {h[1] : h \in HeaderLines} \cup {"Server", "Date"}

(* The responses of backends, Junk wherever there can be.                  *)
Response(p, s, lines) ==
    <<p, s, LF>>
    \o [i \in 1..(2 * Len(lines)) |-> IF i % 2 = 1 THEN lines[(i + 1) \div 2] ELSE LF]
    \o <<LF, Whole!Body>>

Responses ==
    {Response(p, s, lines) :
        p \in {Whole!Http, Junk}, s \in Codes \cup {Junk},
        lines \in UNION {[1..n -> HeaderLines \cup {Junk}] : n \in 0..MaxHeaders}}

-----------------------------------------------------------------------------
(* A request comes to a location with "myupstream".                        *)
Init ==
    /\ response \in Responses
    /\ cleared \in BOOLEAN
    /\ pos = 0 /\ last = 0 /\ r_state = 0
    /\ process_header = "none"
    /\ status_n = NoStatus
    /\ headers = <<>>
    /\ count = 1
    /\ pc = "content"
    /\ result = Whole!NoResult

Return(res) ==
    /\ result' = res
    /\ pc' = "finalized"

(* A call that allocates or looks something up fails.                      *)
Fails(places) ==
    /\ MayFail
    /\ pc \in places
    /\ Return(Whole!Failed("ERROR"))
    /\ UNCHANGED <<response, cleared, upstream, process_header, status_n, headers, count>>

(* Mutant: the request is not counted as one more reference.               *)
handler_Uncounted ==
    \/ /\ pc = "content"
       /\ process_header' = "status_line"
       /\ pc' = "create"
       /\ UNCHANGED <<response, cleared, upstream, status_n, headers, count, result>>
    \/ Fails({"content"})

(* ngx_http_mytest_handler.  The context is not cleared.                   *)
handler ==
    \/ /\ pc = "content"
       /\ process_header' = "status_line"
       /\ count' = count + 1
       /\ pc' = "create"
       /\ UNCHANGED <<response, cleared, upstream, status_n, headers, result>>
    \/ Fails({"content"})

create_request ==
    \/ /\ pc = "create"
       /\ pc' = "receive"
       /\ UNCHANGED <<response, cleared, upstream, process_header, status_n,
                      headers, count, result>>
    \/ Fails({"create"})

-----------------------------------------------------------------------------
(* nginx: a piece arrives, and process_header is called.                   *)
Receive ==
    /\ pc = "receive"
    /\ last' \in (last + 1)..Len(response)
    /\ last' <= BUFFER_SIZE
    /\ pc' = "process"
    /\ UNCHANGED <<response, cleared, pos, r_state, process_header, status_n,
                   headers, count, result>>

(* nginx: the connection is closed, read_timeout passes, or the buffer is  *)
(* full.                                                                   *)
GiveUp ==
    /\ pc = "receive"
    /\ Return(Whole!Failed("BAD_GATEWAY"))
    /\ UNCHANGED <<response, cleared, upstream, process_header, status_n, headers, count>>

-----------------------------------------------------------------------------
(* The parsers of nginx.  A line begins at cell Start.                     *)

Start == pos - r_state + 1
Arrived(i) == i <= last

(* NGX_AGAIN: all that arrived was taken.                                  *)
Again ==
    /\ pos' = last
    /\ r_state' = r_state + last - pos
    /\ pc' = "receive"

TakeTo(i) == pos' = i /\ r_state' = 0

(* A cell of the status line that is not what it should be.  With a status *)
(* that was not cleared the digits of the code may be counted wrong.       *)
StatusLineBreaksAt ==
    {i \in (pos + 1)..last :
        \/ i = Start /\ response[i] # Whole!Http
        \/ i = Start + 1 /\ response[i] \notin Codes
        \/ i = Start + 1 /\ ~cleared}

StatusLineMayBeRead ==
    /\ Arrived(Start) => response[Start] = Whole!Http
    /\ Arrived(Start + 1) => response[Start + 1] \in Codes

-----------------------------------------------------------------------------
(* mytest_process_status_line.                                             *)

(* Mutant: the next piece is expected before the header is parsed.         *)
StatusLine_Waits ==
    /\ StatusLineMayBeRead
    /\ Arrived(Start + 2)
    /\ TakeTo(Start + 2)
    /\ status_n' \in {response[Start + 1]} \cup Whole!WrongDigits
    /\ process_header' = "header"
    /\ pc' = "receive"
    /\ UNCHANGED <<headers, result>>

(* Mutant: process_header stays what it is.                                *)
StatusLine_Stays ==
    /\ StatusLineMayBeRead
    /\ Arrived(Start + 2)
    /\ TakeTo(Start + 2)
    /\ status_n' \in {response[Start + 1]} \cup Whole!WrongDigits
    /\ UNCHANGED <<process_header, pc, headers, result>>

(* The header follows at once.  A status that was not cleared may already  *)
(* have an end, which the parser then keeps if the line has no CR: what is *)
(* allocated for the line, and copied from it, has any length.             *)
StatusLine ==
    /\ StatusLineMayBeRead
    /\ Arrived(Start + 2)
    /\ TakeTo(Start + 2)
    /\ status_n' \in {response[Start + 1]} \cup Whole!WrongDigits
    /\ \/ process_header' = "header" /\ UNCHANGED <<pc, result>>
       \/ /\ ~cleared
          /\ \E res \in {Whole!Failed("ERROR"), Whole!Undefined} : Return(res)
          /\ UNCHANGED process_header
    /\ UNCHANGED headers

(* NGX_ERROR of the parser leaves pos alone.                               *)
NoStatusLine ==
    /\ StatusLineBreaksAt # {}
    /\ Return(Whole!HttpVersion9(pos + 1))
    /\ UNCHANGED <<pos, r_state, process_header, status_n, headers>>

PartOfStatusLine ==
    /\ StatusLineMayBeRead
    /\ ~Arrived(Start + 2)
    /\ Again
    /\ UNCHANGED <<process_header, status_n, headers, result>>

process_status_line ==
    /\ pc = "process"
    /\ process_header = "status_line"
    /\ StatusLine \/ NoStatusLine \/ PartOfStatusLine
    /\ UNCHANGED <<response, cleared, last, count>>

-----------------------------------------------------------------------------
(* mytest_upstream_process_header, one round of its loop.                  *)

HeaderLine ==
    /\ Arrived(Start) /\ response[Start] \in HeaderLines
    /\ Arrived(Start + 1)
    /\ TakeTo(Start + 1)
    /\ headers' = Append(headers, Whole!Entry(response[Start]))
    /\ UNCHANGED <<pc, result>>

(* The empty line: Server and Date are added unless they were received.    *)
HeaderDone ==
    /\ Arrived(Start) /\ response[Start] = LF
    /\ TakeTo(Start)
    /\ headers' = headers \o Whole!Missing("Server", headers)
                          \o Whole!Missing("Date", headers)
    /\ Return(Whole!Parsed(status_n, headers'))

InvalidHeader ==
    /\ Arrived(Start) /\ response[Start] \notin HeaderLines \cup {LF}
    /\ Return(Whole!Failed("INVALID_HEADER"))
    /\ UNCHANGED <<pos, r_state, headers>>

PartOfHeader ==
    /\ Arrived(Start) => response[Start] \in HeaderLines
    /\ ~Arrived(Start + 1)
    /\ Again
    /\ UNCHANGED <<headers, result>>

upstream_process_header ==
    /\ pc = "process"
    /\ process_header = "header"
    /\ HeaderLine \/ HeaderDone \/ InvalidHeader \/ PartOfHeader
    /\ UNCHANGED <<response, cleared, last, process_header, status_n, count>>

(* nginx calls finalize_request, which only logs, and drops its reference. *)
finalize_request ==
    /\ pc = "finalized"
    /\ result # Whole!Undefined
    /\ count = 2
    /\ count' = 1
    /\ UNCHANGED <<response, cleared, upstream, process_header, status_n, headers,
                   pc, result>>

Next ==
    \/ handler \/ create_request
    \/ Receive \/ GiveUp
    \/ process_status_line \/ upstream_process_header \/ Fails({"process"})
    \/ finalize_request

Spec == Init /\ [][Next]_vars

(* The callback runs once it is called.  Nothing makes a backend send or   *)
(* close, and no timeout is relied on.                                     *)
FairSpec ==
    /\ Spec
    /\ WF_vars(process_status_line \/ upstream_process_header)

-----------------------------------------------------------------------------
(* Properties.                                                             *)

(* The types; a request that was passed on has a reference of its own      *)
(* until it is finalized, and what is remembered of a line was received.   *)
TypeOK ==
    /\ response \in Responses
    /\ cleared \in BOOLEAN
    /\ last \in 0..Len(response) /\ pos \in 0..last /\ r_state \in 0..pos
    /\ process_header \in {"none", "status_line", "header"}
    /\ status_n \in Statuses
    /\ headers \in Seq([name : Names, damaged : {"nothing", "name", "value"}])
    /\ Len(headers) <= MaxHeaders + 2
    /\ pc \in {"content", "create", "receive", "process", "finalized"}
    /\ count \in 1..2
    /\ pc \in {"create", "receive", "process"} => count = 2
    /\ (result = Whole!NoResult) = (pc # "finalized")

(* However a response is cut, it is judged by what it says: the two        *)
(* parsers take over from each other, and from themselves, at the cell     *)
(* where the piece before ended, no header is lost or added twice, and     *)
(* nothing is given up that was complete.  Where the body of a response    *)
(* begins that has no valid status line is left open: there the code does  *)
(* depend on the pieces.                                                   *)
ImplementsWholeResponse == Whole!Spec

(* A header that is complete is judged, without anything more from the     *)
(* backend, which may neither send a body nor close the connection.        *)
CompleteHeaderIsJudged ==
    (pc = "process" /\ last >= Whole!EndOfHeader) ~> result # Whole!NoResult
=============================================================================
