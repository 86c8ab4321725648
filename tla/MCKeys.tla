------------------------------- MODULE MCKeys -------------------------------
(***************************************************************************)
(* Two paths of each length, all instructions; coordinates of two bytes.   *)
(***************************************************************************)
EXTENDS Keys

Full == {<< 44, 60, 0, 0, 0 >>, << 44, 60, 0, 0, 1 >>}

\* hw-app-eth may send fewer components.
Short == {<< 44, 60, 0, 0 >>, << 44, 60, 7 >>}

AddressCommands ==
    [ins : {"GET_ADDR"}, path : Full, confirm : BOOLEAN, message : {"none"}]
    \cup [ins : {"GET_ADDR_ETH"}, path : Full \cup Short, confirm : BOOLEAN, message : {"none"}]

Signs ==
    [ins : {"SIGN"}, path : Full, confirm : {TRUE}, message : {"m1", "m2"}]
    \cup [ins : {"SIGN_ETH", "SIGN_PERSONAL_MESSAGE"}, path : Full \cup Short,
          confirm : {TRUE}, message : {"m1", "m2"}]

MCCommands == AddressCommands \cup Signs

\* A chain code may look like a path, or leave a length of no path.
MCChainCodes == {<< 44, 60, 0, 0, 9, 4 >>, << 7, 7, 7, 7, 7, 0 >>, << 7, 7, 7, 7, 7, 99 >>}
=============================================================================
