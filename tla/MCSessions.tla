---------------------------- MODULE MCSessions ----------------------------
\* Small instances of Sessions.
EXTENDS Sessions, TLC

\* No constant tells apart two requests, two clients, two emails or two tokens.
Symmetries ==
    Permutations(AuthReq) \cup Permutations(Client) \cup Permutations(Email)
        \cup Permutations(Token)
=============================================================================
