---------------------------- MODULE RestClientMC ----------------------------
(* Responses for checking RestClient with an output buffer of 3 bytes. *)
EXTENDS RestClient

Response(code, size) == [status |-> code, len |-> size]

\* One slice, and three, at the second of which one byte more is left than fits.
MCResponses == {Response(RESULT_EXCEPTION_CAUGHT, 2), Response(RESULT_COMPLETE, 5)}

\* Two slices of an answer that is JSON, and one byte more than fits in one.
MCSlicedResponses == {Response(RESULT_COMPLETE, 3), Response(RESULT_COMPLETE_JSON, 4)}
=============================================================================
