--------------------------- MODULE MCNginxUpstream ---------------------------
(***************************************************************************)
(* NginxUpstream for TLC.                                                  *)
(***************************************************************************)
EXTENDS NginxUpstream

MCCodes == {<<"200">>}
MCHeaderLines ==
    {<<"Server", "longer">>, <<"Date", "longer">>, <<"Length", "shorter">>, <<"Other", "same">>}
=============================================================================
