--------------------------- MODULE MCGrpcExchange ---------------------------
EXTENDS GrpcExchange

MCChannelOptions ==
    {[accepted |-> Accepted({"gzip", "deflate"}, Encodings), request |-> {"gzip"},
      filter |-> Unset, metadata |-> <<<<"GRPC-Encoding", "x">>, <<"Trace", "1">>>>],
     [accepted |-> Accepted({"gzip"}, {"gzip"}), request |-> Unset,
      filter |-> {FALSE}, metadata |-> <<>>],
     [accepted |-> Accepted({}, Encodings), request |-> {Identity},
      filter |-> {TRUE}, metadata |-> <<>>]}

MCCallOptions ==
    {[request |-> Unset, filter |-> Unset, metadata |-> <<<<"te", "x">>, <<"trace", "1">>>>],
     [request |-> {"deflate"}, filter |-> {FALSE}, metadata |-> <<>>]}

Headers ==
    {<<":status", 200>>, <<":status", 503>>,
     <<"content-type", "Application/grpc+proto">>, <<"content-type", "text/html">>,
     <<"grpc-status", 0>>, <<"grpc-status", 5>>, <<"grpc-status", 17>>,
     <<"grpc-encoding", "gzip">>, <<"grpc-encoding", "identity">>, <<"grpc-message", "m">>, <<"trace", "2">>,
     <<"te", "3">>}

MCBlocks ==
    UNION {[1 .. n -> Headers] : n \in 0 .. 2}
    \cup {<<<<":status", 200>>, <<"content-type", "application/grpc">>>> \o rest :
             rest \in UNION {[1 .. n -> Headers] : n \in 0 .. 1}
                      \cup {<<<<"trace", "2">>, <<"te", "3">>, <<"trace", "4">>>>,
                            <<<<"trace", "2">>, <<"trace", "4">>, <<"grpc-status", 0>>>>}}
=============================================================================
