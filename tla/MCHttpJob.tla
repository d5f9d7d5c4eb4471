------------------------------ MODULE MCHttpJob ------------------------------
(***************************************************************************)
(* HttpJob for TLC.  A request has up to MaxHeaders header lines, and a    *)
(* body as long as the last of them is understood to say, if that is not   *)
(* negative and at most MaxBody.                                           *)
(***************************************************************************)
EXTENDS HttpJob, TLC

CONSTANTS MaxHeaders, MaxBody

(* One target for everything stat() can find.                              *)
MCResource == [u \in Urls |-> u]

(* A negative length, the largest int, and a long that is 1 as an int.     *)
MCLengths == {-1, 0, 1, INT_MAX, 2 * INT_MAX + 3}
CutLengths == {-1, 2, INT_MAX}

MCPartSize == [k \in PartKinds |-> 1]

MCHeaders == {<<"keep-alive">>, <<"other">>} \cup {<<"length", n>> : n \in Lengths}

BodyLength(line, headers) ==
    LET lengths == {i \in DOMAIN headers : headers[i][1] = "length"}
        size == IF lengths = {} THEN 0 ELSE ToInt(headers[Max(lengths)][2])
    IN  IF line[1] = "request" /\ line[2] = "POST" /\ size \in 0..MaxBody
        THEN size ELSE 0

MCRequests ==
    UNION {{[line |-> l, headers |-> h, body |-> b] :
              b \in [1..BodyLength(l, h) -> {Byte, CR, LF}]} :
           l \in RequestLines, h \in BoundedSeq(MCHeaders, MaxHeaders)}

(* Fewer of them, when every way to cut them is explored.                  *)
CutRequests ==
    {q \in MCRequests :
        /\ q.line \in {<<"request", "GET", "file">>, <<"request", "POST", "file">>, <<"bad">>}
        /\ q.body \in {<<>>, <<Byte, Byte>>, <<CR, LF>>}}
=============================================================================
