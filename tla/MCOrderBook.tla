---------------------------- MODULE MCOrderBook ----------------------------
EXTENDS OrderBook, TLC

CONSTANTS alice, bob

MCTraders == {alice, bob}
MCSymmetry == Permutations(MCTraders)

Request(outcomes, tifs, postOnly, modes) ==
    [outcome : outcomes, action : {"BUY", "SELL"}, price : Prices,
     qty : 1 .. MaxQuantity, tif : tifs, postOnly : postOnly, stpMode : modes]

\* YES requests in every mode, NO requests as plain limit orders.
MCAsks ==
    Request({"YES"}, TimesInForce, {FALSE}, StpModes)
    \union Request({"YES"}, {"GTC"}, {TRUE}, {"CANCEL_RESTING"})
    \union Request({"NO"}, {"GTC"}, {FALSE}, {"CANCEL_AGGRESSOR"})
=============================================================================
