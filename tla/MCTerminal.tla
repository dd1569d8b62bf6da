----------------------------- MODULE MCTerminal -----------------------------
(* Three terminals as in the kernel, a four-byte line buffer with a       *)
(* buffer_index that wraps at twice that (128 and 256 in the code), and   *)
(* the shell's read of BUFSIZE - 1 bytes.                                  *)
EXTENDS TerminalRefinement

MCNumTerminals == 3
MCBufSize == 4
MCIndexMod == 8
MCNLByte == 2
MCReadLen == 1023
====
