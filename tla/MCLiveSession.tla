--------------------------- MODULE MCLiveSession ---------------------------
(* Instances of LiveSession for TLC: the payloads clients write.           *)
EXTENDS LiveSession

NoPayloads   == {}
OneByte      == {<<"a">>}
OneAndTwo    == {<<"a">>, <<"b", "c">>}
=============================================================================
