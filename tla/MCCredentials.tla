----------------------------- MODULE MCCredentials -----------------------------
EXTENDS Credentials

CONSTANTS a1, a2, c1

Api == {a1, a2}
ThreeProviders == {"google", "microsoft", "zoom"}
AllProviders == {"google", "microsoft", "zoom", "wordpress"}
=============================================================================
