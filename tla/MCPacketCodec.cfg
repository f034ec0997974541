CONSTANTS
    Routes <- MCRoutes
    Counters <- MCCounters
    Payloads <- MCPayloads
    Delays = {0, 65535}
    MaxFrames = 2
INIT CodecInit
NEXT CodecNext
INVARIANT PacketRoundTrip
INVARIANT FramesRoundTrip
INVARIANT FrameLenMatches
INVARIANT TruncatedDecode
