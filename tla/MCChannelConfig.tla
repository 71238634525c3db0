--------------------------- MODULE MCChannelConfig ---------------------------
EXTENDS QmlOptions
MCFields == [format |-> {"json"}, ssl |-> {TRUE}, initial |-> {-1, 1}, maximum |-> {4}, filter |-> {FALSE},
             metadataSize |-> {1}]
MCCallReceiveSizes == {Unset, {60}}
MCMultis == {<<<<"k", "2">>, <<"k", "1">>>>}
MCHashes == {{<<"k", "2">>}}
MCPairs == {<<"k", "1">>, <<"content-type", "application/grpc+json">>}

MCUris == {[scheme |-> "http", port |-> -1],
           [scheme |-> "unix", port |-> -1], [scheme |-> "ftp", port |-> 443]}

MCEnvironments ==
    {[initial |-> Unset, maximum |-> Unset, stream |-> Unset, connection |-> Unset,
      metadata |-> Unset, receive |-> Unset, connectTimeout |-> Unset],
     [initial |-> {3}, maximum |-> {2}, stream |-> {90}, connection |-> {1},
      metadata |-> {99}, receive |-> {99}, connectTimeout |-> {0}],
     [initial |-> {-1}, maximum |-> {100}, stream |-> {1}, connection |-> {999},
      metadata |-> {0}, receive |-> {0}, connectTimeout |-> {-5}]}

MCDatas == {<<<<"k", <<"1", "2">>>>>>,
            <<<<"content-type", <<"application/grpc+json">>>>, <<"k", <<"1">>>>>>}
MCQmlFields == [deadline |-> {1}, format |-> {"", "json"}, ssl |-> {FALSE, TRUE}]
=============================================================================
