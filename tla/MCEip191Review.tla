--------------------------- MODULE MCEip191Review --------------------------
(***************************************************************************)
(* Messages for TLC: empty, printable, with a NUL or another unprintable   *)
(* byte first, inside or last; memory behind them that is clear, that      *)
(* starts with a NUL, or that holds the rest of an earlier upload.         *)
(***************************************************************************)
EXTENDS Eip191Review

MCU32 == 1048576
MCU64 == 1073741824

Upload(m) == << 0, 0, 0, Len(m) >> \o m

MCMessages == {<< >>, << 72 >>, << 72, 105 >>, << 0, 72 >>, << 72, 0, 105 >>,
               << 72, 10 >>, << 200 >>, << 32, 126 >>, << 72, 0 >>}

MCUploads == {Upload(m) : m \in MCMessages}

MCResidues == {<< 0, 0 >>, << 90, 90, 0 >>, << 0, 90, 0 >>, << 90 >>}
=============================================================================
