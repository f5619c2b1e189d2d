------------------------- MODULE MCChannelHandshake -------------------------
EXTENDS ChannelHandshake, TLC

MCMaxConnection == (A :> 2) @@ (B :> 1)
MCMaxChannel == (A :> 1) @@ (B :> 2)
MCOffer == (A :> {Order, {"ORDERED"}}) @@ (B :> {Order, {"UNORDERED"}})
=============================================================================
