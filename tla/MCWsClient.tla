----------------------------- MODULE MCWsClient -----------------------------
(* The APE client on small responses and frames. *)
EXTENDS WsClient

\* Status line, no to two headers, blank line
MCResponses == {<<2, 0>>, <<1, 2, 0>>, <<2, 1, 1, 0>>}
AnyFill == {NL, NUL, Junk}
Zeroed == {NUL}
\* The longest is longer than the buffer.
MCPushes == {<<>>, <<1, 2>>, <<2, 1, 1>>, <<13, 1>>}
=============================================================================
