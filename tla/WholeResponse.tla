---------------------------- MODULE WholeResponse ----------------------------
(***************************************************************************)
(* What the nginx module promises of a response of the backend: it is      *)
(* judged once, and whether it has a header, and which, or is invalid, or  *)
(* is a body without a header follows from what it says.  It does not      *)
(* promise that a body without a header is passed on whole: where that     *)
(* begins depends on the pieces the response arrived in (BadStatusLine).   *)
(*                                                                         *)
(* A response is a sequence of cells.  The status line is the protocol,    *)
(* the code and LF; a header is one cell, <<name, size>>, and LF; an empty *)
(* line, LF, ends the header, and one cell stands for the body.  Junk is   *)
(* what cannot be parsed.  The size of a header tells whether its value is *)
(* shorter than its name, as long, or longer.                              *)
(***************************************************************************)
EXTENDS Integers, Sequences

CONSTANTS
    BUFFER_SIZE,    (* cells the buffer of the header holds                 *)
    MayFail         (* whether an allocation or a lookup may fail           *)

VARIABLES
    response,       (* what the backend sends                               *)
    cleared,        (* whether the memory of ctx->status was zero           *)
    last,           (* cells that arrived                                   *)
    result          (* what nginx is told, or NoResult                      *)

vars == <<response, cleared, last, result>>

LF == <<"LF">>
Junk == <<"junk">>
Http == <<"HTTP">>
Body == <<"body">>
Garbage == <<"garbage">>

(* The digits of a code are added to what ctx->status held.                *)
WrongDigits == IF cleared THEN {} ELSE {Garbage}

NoResult == [rc |-> "none"]
Undefined == [rc |-> "undefined"]
Failed(rc) == [rc |-> rc]

(* The header is passed on with version 1; with version 9 everything from  *)
(* cell body on is the body, and there is no header.                       *)
Parsed(status, headers) == [rc |-> "OK", version |-> 1, status |-> status, headers |-> headers]
HttpVersion9(body) == [rc |-> "OK", version |-> 9, body |-> body]

(* What becomes of a header line: a zero byte is written into its name, or *)
(* into its value, unless they have the same length.                       *)
Entry(line) ==
    [name |-> line[1],
     damaged |-> CASE line[2] = "shorter" -> "name"
                   [] line[2] = "same" -> "nothing"
                   [] line[2] = "longer" -> "value"]

Missing(name, headers) ==
    IF \E i \in DOMAIN headers : headers[i].name = name THEN <<>>
    ELSE <<[name |-> name, damaged |-> "nothing"]>>

-----------------------------------------------------------------------------
(* The lines of the header of a response.                                  *)

EndOfHeader == CHOOSE n \in 4..Len(response) :
                  /\ response[n] = LF /\ response[n - 1] = LF
                  /\ \A k \in 4..(n - 1) : response[k] # LF \/ response[k - 1] # LF

JunkAt(cells) == \E i \in cells : i <= last /\ response[i] = Junk

Headers ==
    LET all == [i \in 1..((EndOfHeader - 4) \div 2) |-> Entry(response[2 * i + 2])]
    IN  all \o Missing("Server", all) \o Missing("Date", all)

(* A status line that is junk, or that a status that was not cleared makes *)
(* look like it.  What was accepted of it in an earlier piece is missing   *)
(* from the body: the same response can begin at cell 1 or 2.              *)
BadStatusLine ==
    {HttpVersion9(b) :
        b \in {i \in 1..2 : /\ i <= last
                            /\ \E j \in i..2 :
                                  j <= last /\ (response[j] = Junk \/ (~cleared /\ j = 2))
                            /\ \A j \in 1..(i - 1) : response[j] # Junk}}

(* A status that was not cleared may give a status line any length.        *)
GarbageLength ==
    IF ~cleared /\ last >= 3 /\ ~JunkAt(1..2) THEN {Failed("ERROR"), Undefined} ELSE {}

BadHeader ==
    IF ~JunkAt(1..2) /\ JunkAt(4..(EndOfHeader - 1)) THEN {Failed("INVALID_HEADER")} ELSE {}

GoodHeader ==
    IF last >= EndOfHeader /\ ~JunkAt(1..EndOfHeader)
    THEN {Parsed(s, Headers) : s \in {response[2]} \cup WrongDigits}
    ELSE {}

-----------------------------------------------------------------------------
Init ==
    /\ last = 0
    /\ result = NoResult
    /\ cleared \in BOOLEAN

Arrive ==
    /\ result = NoResult
    /\ last' \in (last + 1)..Len(response)
    /\ last' <= BUFFER_SIZE
    /\ UNCHANGED <<response, cleared, result>>

Judge ==
    /\ result = NoResult
    /\ result' \in BadStatusLine \cup GarbageLength \cup BadHeader \cup GoodHeader
    /\ UNCHANGED <<response, cleared, last>>

(* The response ends, does not go on or does not fit, and its header is    *)
(* not complete.                                                           *)
GiveUp ==
    /\ result = NoResult
    /\ last < EndOfHeader
    /\ result' = Failed("BAD_GATEWAY")
    /\ UNCHANGED <<response, cleared, last>>

Fail ==
    /\ MayFail
    /\ result = NoResult
    /\ result' = Failed("ERROR")
    /\ UNCHANGED <<response, cleared, last>>

Next == Arrive \/ Judge \/ GiveUp \/ Fail

Spec == Init /\ [][Next]_vars
=============================================================================
