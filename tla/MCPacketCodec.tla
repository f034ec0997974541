---------------------------- MODULE MCPacketCodec ----------------------------
(* Sample values for the codec: a route with its low bit clear and one   *)
(* with it set, the largest 32-bit integer TLC holds, a payload that     *)
(* starts with a frame tag.                                              *)
EXTENDS PacketCodec

MCRoutes == {0, 4, 2147483647}
MCCounters == {0, 2147483647}
MCPayloads == {<<>>, <<5, 0, 255>>}

=============================================================================
