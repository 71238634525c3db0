SPECIFICATION Spec
CONSTANTS
    ChannelOptions <- MCChannelOptions
    CallOptions <- MCCallOptions
    Blocks <- MCBlocks
    Sizes = {29, 30, 41}
    GrpcMaxPayloadSize = 40
    ChangeInFlight = FALSE
INVARIANTS
    HeadersJudged
    EncodingAgreed
    CompressedDecodable
