----------------------------- MODULE MCSeiApdu -----------------------------
(***************************************************************************)
(* A small instance of SeiApdu for TLC.                                    *)
(***************************************************************************)
EXTENDS SessionRefinement

MCPaths    == {"m3", "m5", "x4", "b2"}
MCPathLen  == [m3 |-> 3, m5 |-> 5, x4 |-> 4, b2 |-> 2]
MCMainnet  == {"m3", "m5", "b2"}
MCNoPath   == "none"
MCResidues == {<< 0, 0, 0, 0, 0, 0, 0, 0, 0, 0 >>, << 1, 1, 1, 1, 1, 1, 1, 1, 1, 1 >>}

\* A command as a correct host sends it, and one cut off after n bytes.
Send(cla, ins, p1, path, body) ==
    LET c == [cla |-> cla, ins |-> ins, p1 |-> p1, p2 |-> 0, rx |-> OFFSET_DATA,
              path |-> path, body |-> body]
    IN  [c EXCEPT !.rx = OFFSET_DATA + Len(body)
                         + (IF CarriesPath(c) THEN PathBytes(c) ELSE 0)]
Cut(c, n) == [c EXCEPT !.rx = n, !.body = << >>]

Malformed ==
    { Cut(Send("OTHER", "SIGN", 0, "m5", << >>), 5),
      Cut(Send("CLA", "GET_VERSION", 0, "m5", << >>), 4),
      Send("CLA", "OTHER", 0, "m5", << >>),
      Send("CLA", "SIGN_ETH", 128, "m5", << >>),
      Cut(Send("CLA", "SIGN", 0, "m5", << >>), 10),
      Send("CLA", "SIGN", 3, "m5", << >>),
      Cut(Send("CLA_ETH", "SIGN_ETH", 0, "m3", << >>), 9),
      Cut(Send("CLA_ETH", "SIGN_PERSONAL_MESSAGE", 0, "m3", << >>), 5),
      Cut(Send("CLA_ETH", "GET_ADDR_ETH", 1, "m3", << >>), 5),
      Cut(Send("CLA_ETH", "SIGN_ETH", 0, "m3", << >>), 5),
      [Send("CLA_ETH", "SIGN_ETH", 128, "m3", << >>) EXCEPT !.p2 = 1] }

Addresses ==
    { Send("CLA", "GET_VERSION", 0, "m5", << >>),
      Send("CLA", "GET_ADDR", 0, "m5", << >>),
      Send("CLA", "GET_ADDR", 1, "m3", << >>),
      Send("CLA", "GET_ADDR", 0, "x4", << >>),
      Send("CLA_ETH", "GET_ADDR_ETH", 1, "m3", << >>),
      Send("CLA_ETH", "GET_ADDR_ETH", 0, "m5", << >>),
      Send("CLA_ETH", "GET_ADDR_ETH", 0, "x4", << >>),
      Send("CLA_ETH", "GET_ADDR_ETH", 0, "b2", << >>),
      [Send("CLA_ETH", "GET_ADDR_ETH", 0, "m5", << >>) EXCEPT !.p2 = 2] }

Cosmos(bodies) ==
    { Send("CLA", "SIGN", P1_INIT, "m5", << >>),
      Send("CLA", "SIGN", P1_INIT, "x4", << >>) }
    \cup { Send("CLA", "SIGN", p1, "m5", b) : p1 \in {P1_ADD, P1_LAST}, b \in bodies }

Chunks(ins, paths, first, more) ==
    { Send("CLA_ETH", ins, P1_ETH_FIRST, p, b) : p \in paths, b \in first }
    \cup { Send("CLA_ETH", ins, P1_ETH_MORE, "m5", b) : b \in more }

\* Every path a command may carry, with the shortest uploads.
PathCommands ==
    Malformed \cup Addresses \cup Cosmos({<< >>})
    \cup Chunks("SIGN_ETH", {"m3", "x4"}, {<< 192 >>, << 193 >>}, {<< 9 >>})
    \cup Chunks("SIGN_PERSONAL_MESSAGE", {"m5"}, {<< 0, 0, 0, 0 >>, << 0, 0, 0, 1 >>},
                {<< >>})

\* One path for each protocol, with every shape of chunk, freely interleaved.
ChunkCommands ==
    (Cosmos({<< 1, 9 >>}) \ {Send("CLA", "SIGN", P1_INIT, "x4", << >>)})
    \cup Chunks("SIGN_ETH", {"m3"},
                {<< 193 >>, << 193, 9, 9 >>, << 2, 194 >>, << 248 >>},
                {<< >>, << 65 >>, << 1, 9 >>})
    \cup Chunks("SIGN_PERSONAL_MESSAGE", {"m3"},
                {<< 0, 0, 0, 1 >>, << 0, 0, 0, 2 >>, << 0, 0, 0, 1, 9 >>, << 0 >>},
                {<< 65 >>, << 1, 9 >>})
=============================================================================
