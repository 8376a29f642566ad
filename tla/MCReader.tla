------------------------------- MODULE MCReader -------------------------------
(* Up to three chunks of up to three bytes, with empty ones anywhere.        *)
EXTENDS Reader

MCStreams ==
    [ends : {<<>>, <<0>>, <<1>>, <<3>>, <<2, 2, 3>>, <<0, 1, 3>>, <<1, 3, 3>>, <<3, 4, 6>>},
     outcome : {"ok", "bad", "panic"}]
==============================================================================
