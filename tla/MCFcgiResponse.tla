--------------------------- MODULE MCFcgiResponse ---------------------------
(***************************************************************************)
(* FcgiResponse with a length field of four bits: responses of up to 25    *)
(* octets are shorter than, as long as, and longer than it can tell.       *)
(***************************************************************************)
EXTENDS FcgiResponse

MCNames == {<<65>>, <<66>>}
MCHeaderValues == {<<>>, <<97>>}
MCOutputs == {<<79, 75, 10>>, <<33>>}

=============================================================================
