---------------------------- MODULE MC_NasClient ----------------------------
EXTENDS NasClient, TLC

DifferentKeys == "h1" :> "k1" @@ "h2" :> "k2"
OneKey        == "h1" :> "k1"
=============================================================================
